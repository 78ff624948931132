\* A process with an ARP handle, another with a routing handle, and a kernel that learns by itself.
SPECIFICATION FairSpec
CONSTANTS
    h1 = h1
    h2 = h2
    Handle = {h1, h2}
    Kind <- ArpAndRoute
    Pid <- OwnPids
    Dst = {d1}
    Net = Net
    Ha = {a1}
    Link = Link
    Gw = {g1}
    None = None
    Kernel = Kernel
    QueueMax = 12
    MaxSeq = 3
    MaxNews = 0
    MaxFaults = 1
INVARIANTS TypeOK FailureIsTrue
PROPERTIES CallsReturn
CHECK_DEADLOCK FALSE
