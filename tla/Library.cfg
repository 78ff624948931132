SPECIFICATION LibSpec
CONSTANTS
    Parts = {"loops", "firewall", "interfaces", "tunnels", "tables", "ethernet", "windows", "addresses",
             "sums", "options", "random", "handles", "data"}
    Loops <- AllLoops
    LsEntry <- SomeEntries
    LsRoom = 4
    Chunk = 1
    Undisturbed <- QuietLoops
    MaxTable = 2
    MaxChange = 1
    MaxCalls = 2
    Filters = {"ipchains", "ipf", "ipfw", "pf", "pktfilter"}
    FwRules <- SomeRules
    Top = 3
    Contended = {"ipchains", "ipf", "pf"}
    MaxRules = 3
    MaxOthers = 2
    MaxFwCalls = 2
    Systems = {"linux", "bsd", "solaris"}
    Names = {"eth0", "tun0", "tun1", "tun2"}
    Kind <- InterfaceKinds
    Ips = {1, 2, 3, 4, 5}
    TheirIps = {2}
    Asks <- AsksOf
    Room = 3
    MaxLabel = 4
    Stale = {2}
    Meddled = {"bsd"}
    MaxIfOthers = 1
    MaxIfCalls = 2
    Interfaces <- Kernel0
    TunInterfaces <- Kernels
    Devices <- TunDevices
    Busy = {"tun0"}
    Fresh <- TunFresh
    TunArgs <- ATunnel
    Zeros = {"taken", "free"}
    MaxTuns = 2
    Builds = {"linux", "streams", "hpux", "windows"}
    Cards <- SomeCards
    Macs = {1, 2}
    Dests <- SomeDests
    Gateways = {1, 6}
    Known <- AtFirst
    MaxTbOthers = 1
    MaxTbCalls = 2
    EtBuilds = {"linux", "bsd", "snoop", "pfilt", "ndd", "dlpi", "hpraw", "unitdata", "rawip", "winip"}
    EtDevices <- TwoDevices
    Addresses = {1, 2, 3}
    Style2 = {"em0"}
    Frames <- AFrame
    MaxArrivals = 1
    MaxEtOthers = 1
    MaxEtCalls = 4
    Adapters <- FourAdapters
    Later = {"C"}
    Strays <- AStray
    MaxWnOthers = 2
    MaxWnCalls = 3
    AdAddrs <- SomeAddrs
    RingAddrs <- RingThree
    RingSize = 208
    KeepLast = 3
    SaLens = {TRUE, FALSE}
    MaxAdCalls = 7
    PyAddrs <- DataAddrs
    PyBits = {8, 31, 65536}
    PyRules <- DataRules
    PyIfents <- DataIfents
    PyNumbers = {258, 65535}
    PySizes = {1, 3, 6}
    PyWide = TRUE
    PyBig = TRUE
    Base = 16
    TcpLens = {19, 26, 27}
    UdpLens = {7, 16}
    Endians = {"little", "big"}
    Segments <- SomeSegments
    Hosts <- SomeHosts
    AnOptions <- SomeOptions
    OptRoom = 66
    Payload = 3
    RnHandles = {1, 2}
    RnSize = 4
    RnCounts = {1, 2, 3}
    RnSeeds <- SomeSeeds
    MaxRnCalls = 3
    PyObjects = {p1, p2}
    PyClasses = {"eth", "ip", "arp", "intf", "route", "fw", "rand", "tun"}
    PyMtus = {1, 2}
    PyAnswers = {"none", "number", "text", "error"}
    PyAgain = TRUE
    MaxPyCalls = 4
    MaxPyDepth = 2
INVARIANTS
    LibTypeOK   FwDeletes IntfShows TunsUndone TablesTell EthTells NamesKeep
    AddrsConvert SumsVerify OptionsKeep RandsRepeat HandlesSafe DataKeep
CHECK_DEADLOCK FALSE
