------------------------------ MODULE Library ------------------------------
(***************************************************************************)
(* The library's parts side by side.  A handle of one shares nothing with  *)
(* a handle of another, so a behaviour is that of one part, which is       *)
(* chosen at the start; the others' variables stay 0.  (A tunnel sets      *)
(* interfaces up: Tun contains Intf.)                                      *)
(***************************************************************************)
EXTENDS Listing, Firewall, Tun, Tables, Ethernet, WinNames, PyData, IpUtil, Rand, PyHandles

CONSTANTS
    Parts,         \* the parts to be looked at
    Interfaces,    \* what the kernel's interfaces may be at the start
    TunInterfaces  \* and where there are tunnels

AllParts == {"loops", "firewall", "interfaces", "tunnels", "tables", "ethernet", "windows", "addresses",
             "sums", "options", "random", "handles", "data"}
ASSUME LibraryAssumption == Parts \subseteq AllParts

VARIABLE part

ListingOff ==
    /\ lsLoop = 0 /\ lsTable = 0 /\ lsStream = 0 /\ lsAt = 0 /\ lsNext = 0 /\ lsBuf = 0 /\ lsPos = 0 /\ lsSize = 0
    /\ lsHanded = 0 /\ lsRet = 0 /\ lsCount = 0 /\ lsChanged = 0 /\ lsSeen = 0 /\ lsStayed = 0 /\ lsQuiet = 0 /\ lsCut = 0
FirewallOff ==
    /\ fwFilter = 0 /\ fwRules = 0 /\ fwAt = 0 /\ fwLeft = 0 /\ fwRet = 0 /\ fwCalls = 0 /\ fwOthers = 0
    /\ fwHeld = 0 /\ fwTook = 0 /\ fwQuiet = 0
IntfOff ==
    /\ ifSys = 0 /\ ifKern = 0 /\ ifConf = 0 /\ ifEntry = 0 /\ ifOrig = 0 /\ ifAt = 0 /\ ifRet = 0 /\ ifQuiet = 0 /\ ifPast = 0
    /\ ifOthers = 0 /\ ifCalls = 0
TunOff ==
    /\ tnAt = 0 /\ tnFds = 0 /\ tnZero = 0 /\ tnFd = 0 /\ tnSave = 0 /\ tnRet = 0 /\ tnCalls = 0 /\ tnBefore = 0 /\ tnHad = 0 /\ tnClean = 0
TablesOff ==
    /\ tbBuild = 0 /\ tbArp = 0 /\ tbRoutes = 0 /\ tbCards = 0 /\ tbAt = 0 /\ tbFound = 0 /\ tbRet = 0 /\ tbGot = 0
    /\ tbOthers = 0 /\ tbCalls = 0 /\ tbBefore = 0 /\ tbQuiet = 0
EthernetOff ==
    /\ etBuild = 0 /\ etAt = 0 /\ etHandle = 0 /\ etFds = 0 /\ etAddr = 0 /\ etStream = 0 /\ etRet = 0 /\ etGot = 0
    /\ etSent = 0 /\ etHad = 0 /\ etArrivals = 0 /\ etOthers = 0 /\ etCalls = 0
WinNamesOff == wnThere = 0 /\ wnTable = 0 /\ wnCombo = 0 /\ wnGiven = 0 /\ wnRet = 0 /\ wnCalls = 0 /\ wnOthers = 0
AddrOff == adP = 0 /\ adHanded = 0 /\ adGot = 0 /\ adCalls = 0
SumOff == suSeg = 0 /\ suIp = 0 /\ suTimes = 0
OptionOff == opBuf = 0 /\ opHl = 0 /\ opOff = 0 /\ opRet = 0
RandOff == rnGen = 0 /\ rnSince = 0 /\ rnArray = 0 /\ rnCalls = 0
HandlesOff ==
    /\ pyObj = 0 /\ pyOpen = 0 /\ pyLoops = 0 /\ pyLast = 0 /\ pyWrong = 0 /\ pyDropped = 0 /\ pyHandles = 0
    /\ pyCalls = 0
DataOff == pdX = 0 /\ pdGot = 0 /\ pdIter = 0 /\ pdRange = 0

(* A kernel may have any of these interfaces; aliases have labels on Linux *)
(* only, and Solaris has no list of addresses until intf_loop was called.  *)
IntfPart == \E kern \in Interfaces : IfInit(kern) /\ ifSys \in {"linux", "bsd"}
TunPart ==
    /\ \E kern \in TunInterfaces : IfInit(kern) /\ (ifSys = "linux" => \A n \in ToSet(Devices) \ Busy : kern[n] = Fresh)
    /\ TnInit

Starts(p, Init, Off) == IF part = p THEN Init ELSE Off
LibInit ==
    /\ part \in Parts
    /\ Starts("loops", LsInit, ListingOff) /\ Starts("firewall", FwInit, FirewallOff)
    /\ IF part = "tunnels" THEN TunPart ELSE (TunOff /\ Starts("interfaces", IntfPart, IntfOff))
    /\ Starts("tables", TbInit, TablesOff) /\ Starts("ethernet", EtInit, EthernetOff)
    /\ Starts("windows", WnInit, WinNamesOff) /\ Starts("addresses", AdInit, AddrOff)
    /\ Starts("sums", SuInit, SumOff) /\ Starts("options", OpInit, OptionOff)
    /\ Starts("random", RnInit, RandOff) /\ Starts("handles", PyInit, HandlesOff) /\ Starts("data", PdInit, DataOff)

(* Nothing outside of these parts changes. *)
libVars == <<part, lsVars, fwVars, ifVars, tnVars, tbVars, etVars, wnVars, adVars, suVars, opVars, rnVars, pyVars, pdVars>>
Only(ps, p, vars) == IF p \in ps THEN TRUE ELSE UNCHANGED vars
Within(ps) ==
    /\ part \in ps /\ part' = part
    /\ Only(ps, "loops", lsVars) /\ Only(ps, "firewall", fwVars)
    /\ Only(ps, "tunnels", tnVars) /\ Only(ps, "interfaces", ifVars)
    /\ Only(ps, "tables", tbVars) /\ Only(ps, "ethernet", etVars) /\ Only(ps, "windows", wnVars)
    /\ Only(ps, "addresses", adVars) /\ Only(ps, "sums", suVars) /\ Only(ps, "options", opVars)
    /\ Only(ps, "random", rnVars) /\ Only(ps, "handles", pyVars) /\ Only(ps, "data", pdVars)
LibNext ==
    \/ Within({"loops"}) /\ LsNext
    \/ Within({"firewall"}) /\ FwNext
    \/ Within({"interfaces"}) /\ IfNext
    \/ part = "tunnels" /\ Within({"tunnels", "interfaces"}) /\ TnNext
    \/ Within({"tables"}) /\ TbNext
    \/ Within({"ethernet"}) /\ EtNext
    \/ Within({"windows"}) /\ WnNext
    \/ Within({"addresses"}) /\ AdNext
    \/ Within({"sums"}) /\ SuNext
    \/ Within({"options"}) /\ OpNext
    \/ Within({"random"}) /\ RnNext
    \/ Within({"handles"}) /\ PyNext
    \/ Within({"data"}) /\ PdNext
LibSpec == LibInit /\ [][LibNext]_libVars
----------------------------------------------------------------------------
LibTypeOK ==
    /\ part \in Parts
    /\ CASE part = "loops" -> LsTypeOK [] part = "firewall" -> FwTypeOK [] part = "interfaces" -> IfTypeOK
         [] part = "tunnels" -> IfTypeOK /\ TnTypeOK [] part = "tables" -> TbTypeOK [] part = "ethernet" -> EtTypeOK
         [] part = "windows" -> WnTypeOK [] part = "addresses" -> AdTypeOK [] part = "sums" -> SuTypeOK
         [] part = "options" -> OpTypeOK [] part = "random" -> RnTypeOK [] part = "handles" -> PyTypeOK
         [] OTHER -> PdTypeOK

(* The parts' properties, each where its part is looked at.  Loops hand    *)
(* out entries that were in the table (arp_loop, route_loop, fw_loop and   *)
(* intf_loop, dnet.3:321-545): see Listing.                                *)
LoopsTellTruth == part = "loops" => HandsTheTruth
(* A loop that ends well has handed out what stayed in the table, once.    *)
LoopsHandOnce == part = "loops" => HandsEverything /\ HandsOnce
(* The same of dnet.3's words, with no list left out: see Listing.         *)
LoopsEndWell == part = "loops" => WellEndedIsWhole
(* fw_delete removes its rule, if it is there, and no other: see Firewall. *)
FwDeletes == part = "firewall" => FindsItsRule /\ DeletesItsRule /\ NoTwins
(* intf_set sets, and intf_get shows, what is there: see Intf.             *)
IntfShows == part = "interfaces" => IntfSetShows
(* tun_close gives descriptors and interfaces back: see Tun.               *)
TunsUndone == part = "tunnels" => TunUndone
(* The same of dnet.3's words, without exceptions: see Intf and Tun.       *)
IntfSets == part = "interfaces" => IntfSetIsTrue
TunsClose == part = "tunnels" => TunClosesAll
(* ARP and route look-ups answer from the tables, and changes change what  *)
(* they were asked to: see Tables.                                         *)
TablesTell == part = "tables" => TablesTold
(* A call of an Ethernet handle gets its own answer: see Ethernet.         *)
EthTells == part = "ethernet" => EthTold
(* The same of dnet.3's words on eth_get and eth_send, without exceptions. *)
EthGets == part = "ethernet" => EthGetIsTrue
EthSends == part = "ethernet" => EthSendIsTrue
(* An interface's name on Windows keeps its meaning: see WinNames.         *)
NamesKeep == part = "windows" => WinNamesKeep
(* Addresses come through conversions, and texts stay apart: see Addr.     *)
AddrsConvert == part = "addresses" => AddrConverts
(* Checksums come out right at the receiver: see IpUtil.                   *)
SumsVerify == part = "sums" => SumVerifies
(* Options leave headers and payload together: see IpUtil.                 *)
OptionsKeep == part = "options" => OptionsIntact
(* Numbers repeat from the same seed: see Rand.                            *)
RandsRepeat == part = "random" => RandRepeats
(* A Python object's handle is used while it is open: see PyHandles.       *)
HandlesSafe == part = "handles" => PyHandlesSafe
(* Data come through Python and back: see PyData.                          *)
DataKeep == part = "data" => PyDataKeeps
=============================================================================
