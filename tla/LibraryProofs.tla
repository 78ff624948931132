---------------------------- MODULE LibraryProofs ----------------------------
(***************************************************************************)
(* The library's invariants, part by part.  A behaviour of the library is  *)
(* one of a single part, so a part's inductive invariant, guarded by its   *)
(* name, is one of the library.                                            *)
(***************************************************************************)
EXTENDS Library, OwnStateProofs

(* Where a behaviour starts and how it goes on, by part. *)
LEMMA PartStarts ==
    ASSUME LibInit
    PROVE  /\ part = "loops" => LsInit
           /\ part = "firewall" => FwInit
           /\ part = "tables" => TbInit
           /\ part = "ethernet" => EtInit
           /\ part = "windows" => WnInit
           /\ part = "sums" => SuInit
           /\ part = "options" => OpInit
           /\ part = "random" => RnInit
           /\ part = "handles" => PyInit
           /\ part = "tunnels" => TunPart
           /\ part = "interfaces" => IntfPart
BY DEF LibInit, Starts

LEMMA PartSteps ==
    ASSUME [LibNext]_libVars
    PROVE  /\ part' = part
           /\ part = "loops" => [LsNext]_lsVars
           /\ part = "firewall" => [FwNext]_fwVars
           /\ part = "tables" => [TbNext]_tbVars
           /\ part = "ethernet" => [EtNext]_etVars
           /\ part = "windows" => [WnNext]_wnVars
           /\ part = "sums" => [SuNext]_suVars
           /\ part = "options" => [OpNext]_opVars
           /\ part = "random" => [RnNext]_rnVars
           /\ part = "handles" => [PyNext]_pyVars
           /\ part = "tunnels" => [TnNext]_<<ifVars, tnVars>>
           /\ part = "interfaces" => [IfNext]_ifVars
BY DEF LibNext, Within, libVars
----------------------------------------------------------------------------
(* The loops over the kernel's tables. *)
LoopsInv == part = "loops" => LsTruth

(* What a loop hands to its handler was in the table while the loop ran,   *)
(* and was meant to be handed over: for tables of any length, changed any  *)
(* number of times by others.  A loop over a stream must be let finish:    *)
(* what an interrupted one leaves in the stream is the next one's.         *)
THEOREM LoopsTellTruthAlways == ASSUME StreamsRunOut PROVE LibSpec => []LoopsTellTruth
<1>1. LibInit => LoopsInv
  BY PartStarts, InitTruth DEF LoopsInv
<1>2. LoopsInv /\ [LibNext]_libVars => LoopsInv'
  BY PartSteps, StepTruth DEF LoopsInv
<1>3. LoopsInv => LoopsTellTruth
  BY TruthIsHanded DEF LoopsInv, LoopsTellTruth
<1> QED  BY <1>1, <1>2, <1>3, PTL DEF LibSpec

LoopsWhole == part = "loops" => LsWhole

(* A loop that returns 0 has handed over every entry that was in the table *)
(* all the time, but for the lists whose reading it did not see fail (lsCut: *)
(* route-linux.c:232, fw-ipchains.c:161), and no loop hands one over twice, *)
(* whatever the order of its copies, reads and the changes of others: where *)
(* the table fits the buffers that do not grow, and the loop compares a     *)
(* name with the one before, as intf_loop does, not with the first of all. *)
THEOREM LoopsHandOnceAlways ==
    ASSUME StreamsRunOut, ComparesPrevious, RoomForAll PROVE LibSpec => []LoopsHandOnce
<1>1. LibInit => LoopsWhole
  BY PartStarts, InitWhole DEF LoopsWhole
<1>2. LoopsWhole /\ [LibNext]_libVars => LoopsWhole'
  BY PartSteps, StepWhole DEF LoopsWhole
<1>3. LoopsWhole => LoopsHandOnce
  BY WholeIsHanded DEF LoopsWhole, LoopsHandOnce
<1> QED  BY <1>1, <1>2, <1>3, PTL DEF LibSpec
----------------------------------------------------------------------------
(* The Python classes over the library's handles. *)
HandlesInv == part = "handles" => PyInv

(* Whatever callbacks answer and raise, no call of the library is given a  *)
(* handle that was closed: see PyHandles.                                  *)
THEOREM HandlesSafeAlways == LibSpec => []HandlesSafe
<1>1. LibInit => HandlesInv
  BY PartStarts, InitSafe DEF HandlesInv
<1>2. HandlesInv /\ [LibNext]_libVars => HandlesInv'
  BY PartSteps, StepSafe, PyHandlesAssumption DEF HandlesInv
<1>3. HandlesInv => HandlesSafe
  BY InvSafe DEF HandlesInv, HandlesSafe
<1> QED  BY <1>1, <1>2, <1>3, PTL DEF LibSpec
----------------------------------------------------------------------------
FirewallInv == part = "firewall" => FwInv

(* A rule that a filter can express is found again, fw_delete removes that  *)
(* rule and no other or says that it did not, and pf never keeps one twice: *)
(* where no other process changes rules that are deleted by number.        *)
THEOREM FwDeletesAlways == ASSUME NotContended PROVE LibSpec => []FwDeletes
<1>1. LibInit => FirewallInv
  BY PartStarts, FwInitHolds DEF FirewallInv
<1>2. FirewallInv /\ [LibNext]_libVars => FirewallInv'
  BY PartSteps, FwStepHolds DEF FirewallInv
<1>3. FirewallInv => FwDeletes
  BY FwInvDeletes DEF FirewallInv, FwDeletes
<1> QED  BY <1>1, <1>2, <1>3, PTL DEF LibSpec
----------------------------------------------------------------------------
TablesInv == part = "tables" => TbInv

(* An entry or a route that a call adds is where the kernel looks for it,  *)
(* one that it deletes is gone, what it gets is what the kernel has, and a *)
(* failure changed nothing: for any interfaces whose networks do not       *)
(* overlap, and any tables, however others changed them before the call.   *)
(* On Windows the kernel looks where the best route to the address leads.  *)
THEOREM TablesTellAlways == LibSpec => []TablesTell
<1>1. LibInit => TablesInv
  BY PartStarts, TbInitHolds DEF TablesInv
<1>2. TablesInv /\ [LibNext]_libVars => TablesInv'
  BY PartSteps, TbStepHolds DEF TablesInv
<1>3. TablesInv => TablesTell
  BY TbInvTells DEF TablesInv, TablesTell
<1> QED  BY <1>1, <1>2, <1>3, PTL DEF LibSpec
----------------------------------------------------------------------------
SumsInv == part = "sums" => SuInv

(* Checksums verify at a receiver, whatever a segment's octets, odd or     *)
(* even their number, in either order of octets of the host: TCP's, UDP's  *)
(* and ICMP's over IPv4 and IPv6, after one call and after a second        *)
(* (ip-util.c:102-180, ip6.c:50-75).  A UDP checksum is never zero.  An    *)
(* int must hold the whole sum, which htonl of a length need not let it    *)
(* (ip-util.c:106), and an ICMP packet come without a checksum.            *)
THEOREM SumsVerifyAlways == ASSUME SumsFit PROVE LibSpec => []SumsVerify
<1>1. LibInit => SumsInv
  BY PartStarts, SuInitHolds DEF SumsInv
<1>2. SumsInv /\ [LibNext]_libVars => SumsInv'
  BY PartSteps, SuStepHolds DEF SumsInv
<1>3. SumsInv => SumsVerify
  BY DEF SumsInv, SuInv, SumsVerify
<1> QED  BY <1>1, <1>2, <1>3, PTL DEF LibSpec
----------------------------------------------------------------------------
OptionsInv == part = "options" => OpInv

(* Options put into the IP and the TCP header, any number of them in any   *)
(* order, leave the headers' lengths leading to the TCP header and to the  *)
(* payload, both of them whole.                                            *)
THEOREM OptionsKeepAlways == ASSUME OneOctet PROVE LibSpec => []OptionsKeep
<1>1. LibInit => OptionsInv
  BY PartStarts, OpInitHolds DEF OptionsInv
<1>2. OptionsInv /\ [LibNext]_libVars => OptionsInv'
  BY PartSteps, OpStepHolds DEF OptionsInv
<1>3. OptionsInv => OptionsKeep
  BY OpInvKeeps DEF OptionsInv, OptionsKeep
<1> QED  BY <1>1, <1>2, <1>3, PTL DEF LibSpec
----------------------------------------------------------------------------
WindowsInv == part = "windows" => WnInv

(* On Windows an adapter keeps the name it was given, no two are given one, *)
(* and a name is looked up as its adapter, however adapters come and go.   *)
THEOREM NamesKeepAlways == LibSpec => []NamesKeep
<1>1. LibInit => WindowsInv
  BY PartStarts, WnInitHolds DEF WindowsInv
<1>2. WindowsInv /\ [LibNext]_libVars => WindowsInv'
  BY PartSteps, WnStepHolds DEF WindowsInv
<1>3. WindowsInv => NamesKeep
  BY WnInvKeeps DEF WindowsInv, NamesKeep
<1> QED  BY <1>1, <1>2, <1>3, PTL DEF LibSpec
----------------------------------------------------------------------------
RandomInv == part = "random" => RnInv

(* Generators that were given the same seed and used alike go on alike; a  *)
(* state keeps every byte, and a shuffled array every member.              *)
THEOREM RandsRepeatAlways == LibSpec => []RandsRepeat
<1>1. LibInit => RandomInv
  BY PartStarts, RnInitHolds DEF RandomInv
<1>2. RandomInv /\ [LibNext]_libVars => RandomInv'
  BY PartSteps, RnStepHolds DEF RandomInv
<1>3. RandomInv => RandsRepeat
  BY RnInvRepeats DEF RandomInv, RandsRepeat
<1> QED  BY <1>1, <1>2, <1>3, PTL DEF LibSpec
----------------------------------------------------------------------------
(* Handles that frames are sent through. *)

(* A BSD takes the first device whose name the handle's name begins with:  *)
(* no device's name begins with another's.                                 *)
NoPrefixes == \A i \in DOMAIN EtDevices : EtDevices[i].stem = EtDevices[i].name

EtOpens == etAt.pc = "open" \/ (etAt.pc = "getmsg" /\ etAt.op = "open")
EtUses == etAt.pc \in {"get", "set", "send", "close"} \/ (etAt.pc = "getmsg" /\ etAt.op # "open")

EtShape ==
    /\ etAt = [pc |-> etAt.pc, op |-> etAt.op, step |-> etAt.step, dev |-> etAt.dev, val |-> etAt.val]
    /\ etHandle = [open |-> etHandle.open, dev |-> etHandle.dev, fds |-> etHandle.fds]
    /\ etAddr = [n \in EtNames |-> etAddr[n]]
    /\ etBuild \in EtBuilds /\ etAt.step \in Nat \ {0} /\ etArrivals \in Nat
    /\ etAt.pc \in {"idle", "open", "get", "set", "send", "close", "getmsg"}
    /\ etAt.pc \notin {"idle", "getmsg"} => etAt.op = etAt.pc
    /\ etAt.pc = "getmsg" => etAt.op \in {"open", "get", "set"}

(* The descriptors the handle holds are the process's, besides those it    *)
(* had; a handle that is not open holds none.                              *)
EtDescriptors ==
    /\ etHandle.fds \subseteq Descriptors /\ etFds \subseteq {"stdin"} \cup etHandle.fds
    /\ etBuild # "pfilt" => "stdin" \in etFds
    /\ ~EtOpens /\ ~etHandle.open => etHandle.fds = {}

(* A handle is of the device it was asked for, once its first step is made. *)
EtDevs ==
    /\ etHandle.open => EtDev \in EtNames
    /\ EtOpens => etAt.dev \in EtNames /\ (etAt.step > 1 => EtDev = etAt.dev) /\ (etAt.pc = "getmsg" => etAt.step > 1)
    /\ EtUses => etHandle.open /\ etAt.dev = EtDev

(* Until a frame arrives, or an answer is left unread, the stream holds    *)
(* what a call waits for, and nothing else.                                *)
EtMine(m) ==
    \/ m.ack = "error"
    \/ /\ m.ack = AckOf(Asked)
       /\ etAt.op = "get" => m.addr = etAddr[EtDev]
       /\ etAt.op = "set" => etAddr[EtDev] = etAt.val
EtAnswers ==
    /\ ~Dlpi => etAt.pc # "getmsg"
    /\ etArrivals = 0 /\ etAt.pc # "getmsg" => etStream = <<>>
    /\ etArrivals = 0 /\ etAt.pc = "getmsg" => \E m : etStream = <<m>> /\ EtMine(m)

EtSuccess ==
    etAt.pc = "idle" /\ etRet = 0 =>
        /\ etAt.op = "get" /\ etArrivals = 0 => etGot = etAddr[EtDev]
        /\ etAt.op = "get" /\ Dlpi => etGot \in etHad
        /\ etAt.op = "set" /\ etArrivals = 0 => etAddr[EtDev] = etAt.val
        /\ etAt.op = "send" => Len(etSent) = 1 /\ etSent[1].dev \in {EtDev, "any"}
                               /\ (etBuild \notin {"winip", "unitdata"} => etSent[1].to = etAt.val.dst)

(* Whatever has gone wrong on it, an answer in the stream that tells an    *)
(* address tells one the device has had since it was opened.               *)
EtMessages(had) == [ack : {"ok", "info", "bind", "error", "data"}, addr : {0}] \cup [ack : {"physaddr"}, addr : had]
EtPast ==
    /\ etStream \in Seq(EtMessages(etHad))
    /\ ~EtOpens /\ ~etHandle.open => etStream = <<>>
    /\ EtOpens => etAddr[etAt.dev] \in etHad
    /\ ~EtOpens /\ etHandle.open => etAddr[EtDev] \in etHad

EtInv == EtShape /\ EtDescriptors /\ EtDevs /\ EtAnswers /\ EtSuccess /\ EtPast

LEMMA EtInitHolds == EtInit => EtInv
<1> SUFFICES ASSUME EtInit PROVE EtInv
  OBVIOUS
<1>1. /\ etAt = [pc |-> "idle", op |-> "none", step |-> 1, dev |-> etAt.dev, val |-> 0]
      /\ etHandle = [open |-> FALSE, dev |-> etHandle.dev, fds |-> {}]
  BY DEF EtInit
<1>2. etAddr = [n \in EtNames |-> etAddr[n]] /\ etBuild \in EtBuilds /\ etArrivals = 0 /\ etStream = <<>>
      /\ etFds = {"stdin"}
  BY DEF EtInit
<1>3. EtPast
  BY <1>1, <1>2 DEF EtPast, EtOpens
<1> QED  BY <1>1, <1>2, <1>3 DEF EtInv, EtShape, EtDescriptors, EtDevs, EtAnswers, EtSuccess, EtOpens, EtUses

LEMMA EtHadGrows ==
    ASSUME NEW had, NEW more, had \subseteq more, NEW s \in Seq(EtMessages(had)) PROVE s \in Seq(EtMessages(more))
<1>1. EtMessages(had) \subseteq EtMessages(more)
  BY DEF EtMessages
<1> QED  BY <1>1

LEMMA EtFirstStep ==
    ASSUME EtShape, NEW dev
    PROVE Opening(dev)[1] \notin Dialogue /\ Len(Opening(dev)) \in Nat /\ Len(Opening(dev)) > 1
<1>1. etBuild \in {"linux", "bsd", "snoop", "pfilt", "ndd", "dlpi", "hpraw", "unitdata", "rawip", "winip"}
  BY EthernetAssumption DEF EtShape
<1>2. Opening(dev)[1] \in {"fd", "startup"}
  BY <1>1 DEF Opening
<1>3. Len(Opening(dev)) \in {2, 3, 4, 5}
  BY <1>1 DEF Opening
<1> QED  BY <1>2, <1>3 DEF Dialogue

(* A call, and the steps of opening. *)
LEMMA EtCallKeeps ==
    ASSUME EtInv, NEW op, NEW dev, NEW val, EtCall(op, dev, val), op \in {"open", "close", "send", "get", "set"},
           op = "open" => dev \in EtNames, op # "open" => dev = EtDev
    PROVE  EtInv'
<1>1. /\ etAt' = [pc |-> op, op |-> op, step |-> 1, dev |-> dev, val |-> val] /\ etRet' = 0
      /\ UNCHANGED <<etBuild, etHandle, etFds, etAddr, etStream, etArrivals>>
      /\ etAt.pc = "idle" /\ (op = "open" <=> ~etHandle.open)
      /\ etHad' = IF op = "open" THEN {etAddr[dev]} ELSE etHad
  BY DEF EtCall, EtInv, EtShape
<1>2. EtShape'
  BY <1>1 DEF EtInv, EtShape, EtNames
<1>3. EtDescriptors' /\ EtDevs'
  BY <1>1 DEF EtInv, EtDescriptors, EtDevs, EtOpens, EtUses, EtDev, EtNames
<1>4. EtAnswers' /\ EtSuccess'
  BY <1>1 DEF EtInv, EtAnswers, EtSuccess, Dlpi
<1>5. EtPast'
  <2>1. CASE op = "open"
    <3>1. etStream' = <<>> /\ EtOpens' /\ etAddr'[etAt'.dev] \in etHad'
      BY <1>1, <2>1 DEF EtInv, EtPast, EtOpens
    <3> QED  BY <3>1 DEF EtPast
  <2>2. CASE op # "open"
    BY <1>1, <2>2 DEF EtInv, EtPast, EtOpens, EtDev
  <2> QED  BY <2>1, <2>2
<1> QED  BY <1>2, <1>3, <1>4, <1>5 DEF EtInv

LEMMA EtOpenKeeps == ASSUME EtInv, OpenStep \/ OpenDone PROVE EtInv'
<1>1. etAt.pc = "open" /\ etAt.step \in Nat \ {0} /\ etAt.op = "open"
  BY DEF OpenStep, OpenDone, EtInv, EtShape
<1>2. CASE OpenStep
  <2>1. /\ etAt' = [pc |-> "open", op |-> "open", step |-> etAt.step + 1, dev |-> etAt.dev, val |-> etAt.val]
        /\ UNCHANGED <<etBuild, etArrivals, etAddr, etStream, etRet, etGot, etSent, etHad>>
    BY <1>1, <1>2 DEF OpenStep, EtGoes, Kept, EtInv, EtShape
  <2>2. PICK fds \in SUBSET Descriptors :
           /\ etHandle' = [open |-> etHandle.open, dev |-> etAt.dev, fds |-> etHandle.fds \cup fds]
           /\ etFds' = etFds \cup fds
    <3>1. CASE Step \in Descriptors
      BY <1>2, <3>1 DEF OpenStep, EtInv, EtShape
    <3>2. CASE Step \notin Descriptors
      <4>1. etHandle' = [open |-> etHandle.open, dev |-> etAt.dev, fds |-> etHandle.fds] /\ etFds' = etFds
        BY <1>2, <3>2 DEF OpenStep, EtInv, EtShape
      <4>2. {} \in SUBSET Descriptors /\ etHandle.fds = etHandle.fds \cup {} /\ etFds = etFds \cup {}
        OBVIOUS
      <4> QED  BY <4>1, <4>2
    <3> QED  BY <3>1, <3>2
  <2>3. EtShape'
    BY <1>1, <2>1, <2>2 DEF EtInv, EtShape, EtNames
  <2>4. EtDescriptors'
    BY <2>1, <2>2 DEF EtInv, EtDescriptors, EtOpens
  <2>5. EtDevs'
    BY <1>1, <2>1, <2>2 DEF EtInv, EtDevs, EtOpens, EtUses, EtDev, EtNames
  <2>6. EtAnswers' /\ EtSuccess'
    BY <1>1, <2>1 DEF EtInv, EtAnswers, EtSuccess, Dlpi
  <2>7. EtPast'
    BY <1>1, <2>1 DEF EtInv, EtPast, EtOpens
  <2> QED  BY <2>3, <2>4, <2>5, <2>6, <2>7 DEF EtInv
<1>3. CASE OpenDone
  <2>1. /\ etAt' = [pc |-> "idle", op |-> "open", step |-> etAt.step, dev |-> etAt.dev, val |-> etAt.val]
        /\ etHandle' = [open |-> TRUE, dev |-> etHandle.dev, fds |-> etHandle.fds]
        /\ UNCHANGED <<etBuild, etArrivals, etAddr, etStream, etFds, etHad>>
    BY <1>1, <1>3 DEF OpenDone, EtReturn, Kept, EtInv, EtShape
  <2>2. etAt.step > 1
    BY <1>1, <1>3, EtFirstStep DEF OpenDone, EtSteps, EtInv
  <2>3. EtDev = etAt.dev /\ etAt.dev \in EtNames
    BY <1>1, <2>2 DEF EtInv, EtDevs, EtOpens
  <2>4. EtShape'
    BY <1>1, <2>1 DEF EtInv, EtShape, EtNames
  <2>5. EtDescriptors' /\ EtDevs'
    BY <1>1, <2>1, <2>3 DEF EtInv, EtDescriptors, EtDevs, EtOpens, EtUses, EtDev, EtNames
  <2>6. EtAnswers' /\ EtSuccess'
    BY <1>1, <2>1 DEF EtInv, EtAnswers, EtSuccess, Dlpi
  <2>7. EtPast'
    BY <1>1, <2>1, <2>3 DEF EtInv, EtPast, EtOpens, EtDev
  <2> QED  BY <2>4, <2>5, <2>6, <2>7 DEF EtInv
<1> QED  BY <1>2, <1>3

LEMMA EtClosedKeeps ==
    ASSUME EtInv, NEW zero \in SUBSET {"stdin"}, NEW ret, EtClosed(etHandle.fds \cup zero, ret),
           zero # {} => etBuild = "pfilt", etAt.pc # "idle", etAt.op \in {"open", "close"}
    PROVE  EtInv'
<1>1. /\ etAt' = [pc |-> "idle", op |-> etAt.op, step |-> etAt.step, dev |-> etAt.dev, val |-> etAt.val]
      /\ etHandle' = [open |-> FALSE, dev |-> etHandle.dev, fds |-> {}]
      /\ etFds' = etFds \ (etHandle.fds \cup zero) /\ etStream' = <<>>
      /\ UNCHANGED <<etBuild, etArrivals, etAddr>>
  BY DEF EtClosed, EtReturn, Kept, EtInv, EtShape
<1>2. EtShape'
  BY <1>1 DEF EtInv, EtShape, EtNames
<1>3. EtDescriptors'
  BY <1>1 DEF EtInv, EtDescriptors, EtOpens, Descriptors
<1>4. EtDevs' /\ EtAnswers' /\ EtSuccess'
  BY <1>1 DEF EtInv, EtDevs, EtOpens, EtUses, EtAnswers, EtSuccess, Dlpi
<1>5. EtPast'
  BY <1>1 DEF EtPast, EtOpens
<1> QED  BY <1>2, <1>3, <1>4, <1>5 DEF EtInv

LEMMA EtGivesUp == ASSUME EtInv, OpenFails \/ EtClose PROVE EtInv'
<1>1. CASE OpenFails
  <2>1. Zeroed \in SUBSET {"stdin"} /\ (Zeroed # {} => etBuild = "pfilt")
    BY DEF Zeroed
  <2>2. EtClosed(etHandle.fds \cup Zeroed, -1) /\ etAt.pc = "open" /\ etAt.op = "open"
    BY <1>1 DEF OpenFails, EtInv, EtShape
  <2> QED  BY <2>1, <2>2, EtClosedKeeps
<1>2. CASE EtClose
  <2>1. EtClosed(etHandle.fds, 0) /\ etAt.pc = "close" /\ etAt.op = "close" /\ etHandle.fds = etHandle.fds \cup {}
    BY <1>2 DEF EtClose, EtInv, EtShape
  <2> QED  BY <2>1, EtClosedKeeps
<1> QED  BY <1>1, <1>2

(* DLPI. *)
LEMMA EtPutKeeps == ASSUME EtInv, PutMsg PROVE EtInv'
<1>1. Dlpi /\ etAt.pc \in {"open", "get", "set"} /\ etAt.op = etAt.pc
      /\ (etAt.pc = "open" => Step \in Dialogue)
  BY DEF PutMsg, EtInv, EtShape
<1>2. /\ etAt' = [pc |-> "getmsg", op |-> etAt.op, step |-> etAt.step, dev |-> etAt.dev, val |-> etAt.val]
      /\ UNCHANGED <<etBuild, etArrivals, etHandle, etFds, etRet, etGot, etSent>>
  BY DEF PutMsg, EtGoes, Kept, EtInv, EtShape
<1>3. /\ etAddr = [n \in EtNames |-> etAddr[n]] /\ etAt.dev \in EtNames
      /\ etAt.op \in {"get", "set"} => etAt.dev = EtDev /\ EtDev \in EtNames
  BY <1>1 DEF EtInv, EtShape, EtDevs, EtOpens, EtUses
<1>4. etAddr' = [n \in EtNames |-> etAddr'[n]] /\ etHad' = etHad \cup {etAddr'[EtDev]}
      /\ (etAt.op # "set" => etAddr' = etAddr)
  BY <1>1, <1>3 DEF PutMsg, Remembers
<1>5. EtShape'
  BY <1>1, <1>2, <1>4 DEF EtInv, EtShape, EtNames
<1>6. EtDescriptors'
  BY <1>1, <1>2 DEF EtInv, EtDescriptors, EtOpens
<1>7. EtDevs'
  <2>1. etAt.pc = "open" => etAt.step > 1
    <3>1. etAt.pc = "open" /\ etAt.step = 1 => FALSE
      BY <1>1, EtFirstStep DEF Step, EtSteps, EtInv
    <3> QED  BY <3>1 DEF EtInv, EtShape
  <2> QED  BY <1>1, <1>2, <2>1 DEF EtInv, EtDevs, EtOpens, EtUses, EtDev, EtNames
<1>8. EtAnswers'
  <2>1. ASSUME etArrivals = 0 PROVE \E m : etStream' = <<m>> /\ EtMine(m)'
    <3>1. etStream = <<>>
      BY <1>1, <2>1 DEF EtInv, EtAnswers
    <3>2. PICK m : etStream' = Append(<<>>, m) /\ \/ m.ack = "error"
                                                  \/ /\ m.ack = AckOf(Request) /\ m.addr = (IF Request = "physaddr" THEN etAddr[etAt.dev] ELSE 0)
                                                     /\ etAddr' = IF etAt.pc = "set" THEN [etAddr EXCEPT ![etAt.dev] = etAt.val] ELSE etAddr
      <4>1. CASE /\ etStream' = Append(etStream, [ack |-> AckOf(Request), addr |-> IF Request = "physaddr" THEN etAddr[etAt.dev] ELSE 0])
                 /\ etAddr' = IF etAt.pc = "set" THEN [etAddr EXCEPT ![etAt.dev] = etAt.val] ELSE etAddr
        BY <3>1, <4>1
      <4>2. CASE etStream' = Append(etStream, [ack |-> "error", addr |-> 0])
        BY <3>1, <4>2
      <4> QED  BY <4>1, <4>2 DEF PutMsg
    <3>3. etStream' = <<m>>
      BY <3>2
    <3>4. CASE m.ack = "error"
      BY <3>3, <3>4 DEF EtMine
    <3>5. CASE /\ m.ack = AckOf(Request) /\ m.addr = (IF Request = "physaddr" THEN etAddr[etAt.dev] ELSE 0)
               /\ etAddr' = IF etAt.pc = "set" THEN [etAddr EXCEPT ![etAt.dev] = etAt.val] ELSE etAddr
      <4>1. Request = Asked'
        BY <1>1, <1>2 DEF Request, Asked, Step, EtSteps, Opening
      <4>2. etAt.op = "get" => m.addr = etAddr'[EtDev]
        <5>1. etAt.op = "get" => Request = "physaddr"
          BY <1>1 DEF Request
        <5> QED  BY <1>1, <1>3, <3>5, <5>1
      <4>3. etAt.op = "set" => etAddr'[EtDev] = etAt.val
        BY <1>1, <1>3, <3>5
      <4>4. UNCHANGED EtDev /\ etAt'.op = etAt.op /\ etAt'.val = etAt.val
        BY <1>2 DEF EtDev
      <4>5. m.ack = AckOf(Asked')
        BY <3>5, <4>1
      <4> QED  BY <3>3, <4>2, <4>3, <4>4, <4>5 DEF EtMine, AckOf
    <3> QED  BY <3>2, <3>4, <3>5
  <2> QED  BY <1>1, <1>2, <2>1 DEF EtAnswers, Dlpi
<1>9. EtSuccess'
  BY <1>2 DEF EtSuccess
<1>10. EtPast'
  <2>1. etAt.op # "open" => etHandle.open /\ etAt.dev = EtDev
    BY <1>1 DEF EtInv, EtDevs, EtUses
  <2>2. etAddr[etAt.dev] \in etHad
    BY <1>1, <2>1 DEF EtInv, EtPast, EtOpens
  <2>3. etStream \in Seq(EtMessages(etHad'))
    BY <1>4, EtHadGrows DEF EtInv, EtPast
  <2>4. PICK m : etStream' = Append(etStream, m)
                 /\ m \in {[ack |-> AckOf(Request), addr |-> IF Request = "physaddr" THEN etAddr[etAt.dev] ELSE 0],
                            [ack |-> "error", addr |-> 0]}
    BY DEF PutMsg
  <2>5. m \in EtMessages(etHad')
    <3>1. \/ AckOf(Request) \in {"ok", "info", "bind"} /\ Request # "physaddr"
          \/ AckOf(Request) = "physaddr" /\ Request = "physaddr"
      <4>1. Request \in {"info", "attach", "bind", "physaddr", "setphysaddr"}
        BY <1>1 DEF Request, Dialogue
      <4> QED  BY <4>1 DEF AckOf
    <3>2. etAddr[etAt.dev] \in etHad'
      BY <1>4, <2>2
    <3> QED  BY <2>4, <3>1, <3>2 DEF EtMessages
  <2>6. etStream' \in Seq(EtMessages(etHad'))
    BY <2>3, <2>4, <2>5
  <2>7. EtOpens' => etAddr'[etAt'.dev] \in etHad'
    BY <1>1, <1>2, <1>4, <2>2 DEF EtOpens
  <2>8. ~EtOpens' => etHandle'.open /\ etAddr'[EtDev'] \in etHad'
    BY <1>1, <1>2, <1>4, <2>1 DEF EtOpens, EtDev
  <2> QED  BY <2>6, <2>7, <2>8 DEF EtPast
<1> QED  BY <1>5, <1>6, <1>7, <1>8, <1>9, <1>10 DEF EtInv

LEMMA EtGetKeeps == ASSUME EtInv, GetMsg PROVE EtInv'
<1> DEFINE m == Head(etStream)
<1>1. etAt.pc = "getmsg" /\ etAt.op \in {"open", "get", "set"}
  BY DEF GetMsg, EtInv, EtShape
<1>2. ASSUME etArrivals = 0 PROVE EtMine(m) /\ Tail(etStream) = <<>>
  <2>1. PICK x : etStream = <<x>> /\ EtMine(x)
    BY <1>1, <1>2 DEF EtInv, EtAnswers
  <2>2. Head(<<x>>) = x /\ Tail(<<x>>) = <<>>
    OBVIOUS
  <2> QED  BY <2>1, <2>2
<1>0. etStream # <<>> /\ m \in EtMessages(etHad) /\ Tail(etStream) \in Seq(EtMessages(etHad))
  <2>1. etStream # <<>> /\ etStream \in Seq(EtMessages(etHad))
    BY DEF GetMsg, EtInv, EtPast
  <2> QED  BY <2>1
<1>3. CASE etAt.op = "open" /\ ~IsAck(m)
  <2>1. EtClosed(etHandle.fds, -1) /\ etHandle.fds = etHandle.fds \cup {}
    BY <1>3 DEF GetMsg
  <2> QED  BY <1>1, <1>3, <2>1, EtClosedKeeps
<1>4. CASE etAt.op = "open" /\ IsAck(m)
  <2>1. /\ etAt' = [pc |-> "open", op |-> "open", step |-> etAt.step + 1, dev |-> etAt.dev, val |-> etAt.val]
        /\ UNCHANGED <<etBuild, etArrivals, etHandle, etFds, etAddr, etRet, etGot, etSent, etHad>>
        /\ etStream' = Tail(etStream) /\ etAt.step \in Nat
    BY <1>4 DEF GetMsg, EtGoes, Kept, EtInv, EtShape
  <2>2. EtShape'
    BY <2>1 DEF EtInv, EtShape, EtNames
  <2>3. EtDescriptors'
    BY <1>1, <1>4, <2>1 DEF EtInv, EtDescriptors, EtOpens
  <2>4. EtDevs'
    BY <1>1, <1>4, <2>1 DEF EtInv, EtDevs, EtOpens, EtUses, EtDev, EtNames
  <2>5. EtAnswers' /\ EtSuccess'
    BY <1>2, <2>1 DEF EtAnswers, EtSuccess
  <2>6. EtPast'
    BY <1>0, <1>1, <1>4, <2>1 DEF EtInv, EtPast, EtOpens
  <2> QED  BY <2>2, <2>3, <2>4, <2>5, <2>6 DEF EtInv
<1>5. CASE etAt.op \in {"get", "set"}
  <2>1. /\ etAt' = [pc |-> "idle", op |-> etAt.op, step |-> etAt.step, dev |-> etAt.dev, val |-> etAt.val]
        /\ UNCHANGED <<etBuild, etArrivals, etHandle, etFds, etAddr, etSent, etHad>>
        /\ etStream' = Tail(etStream)
        /\ etRet' = 0 => IsAck(m) /\ etGot' = m.addr
    BY <1>5 DEF GetMsg, EtReturn, Kept, EtInv, EtShape
  <2>2. EtShape'
    BY <2>1 DEF EtInv, EtShape, EtNames
  <2>3. EtDescriptors' /\ EtDevs'
    BY <1>1, <1>5, <2>1 DEF EtInv, EtDescriptors, EtDevs, EtOpens, EtUses, EtDev, EtNames
  <2>4. EtAnswers'
    BY <1>2, <2>1 DEF EtAnswers
  <2>5. EtSuccess'
    <3>1. ASSUME etArrivals = 0, etRet' = 0
          PROVE  (etAt.op = "get" => m.addr = etAddr[EtDev]) /\ (etAt.op = "set" => etAddr[EtDev] = etAt.val)
      <4>1. m.ack = AckOf(Asked) /\ EtMine(m)
        BY <1>2, <2>1, <3>1 DEF IsAck
      <4>2. AckOf(Asked) # "error"
        BY <1>5 DEF AckOf, Asked
      <4> QED  BY <4>1, <4>2 DEF EtMine
    <3>2. etRet' = 0 /\ etAt.op = "get" => etGot' \in etHad
      <4>1. etRet' = 0 /\ etAt.op = "get" => m.ack = "physaddr"
        BY <2>1 DEF IsAck, Asked, AckOf
      <4> QED  BY <1>0, <2>1, <4>1 DEF EtMessages
    <3> QED  BY <1>5, <2>1, <3>1, <3>2 DEF EtSuccess, EtDev
  <2>6. EtPast'
    BY <1>0, <1>1, <1>5, <2>1 DEF EtInv, EtPast, EtOpens, EtDev, EtDevs, EtUses
  <2> QED  BY <2>2, <2>3, <2>4, <2>5, <2>6 DEF EtInv
<1> QED  BY <1>1, <1>3, <1>4, <1>5

LEMMA EtDlpiKeeps == ASSUME EtInv, DlpiFails \/ Arrive PROVE EtInv'
<1>1. CASE DlpiFails /\ etAt.op = "open"
  <2>1. EtClosed(etHandle.fds, -1) /\ etHandle.fds = etHandle.fds \cup {} /\ etAt.pc # "idle"
    BY <1>1 DEF DlpiFails
  <2> QED  BY <1>1, <2>1, EtClosedKeeps
<1>2. CASE DlpiFails /\ etAt.op # "open"
  <2>1. /\ etAt' = [pc |-> "idle", op |-> etAt.op, step |-> etAt.step, dev |-> etAt.dev, val |-> etAt.val]
        /\ UNCHANGED <<etBuild, etHandle, etFds, etAddr, etStream, etSent, etHad>> /\ etRet' = -1
        /\ etAt.pc \in {"get", "set", "getmsg"}
        /\ etArrivals' = etArrivals + (IF etAt.pc = "getmsg" THEN 1 ELSE 0) /\ etArrivals \in Nat
    BY <1>2 DEF DlpiFails, EtInv, EtShape
  <2>2. EtShape'
    BY <2>1 DEF EtInv, EtShape, EtNames
  <2>3. EtDescriptors' /\ EtDevs'
    BY <1>2, <2>1 DEF EtInv, EtDescriptors, EtDevs, EtOpens, EtUses, EtDev, EtNames
  <2>4. EtAnswers' /\ EtSuccess'
    BY <2>1 DEF EtInv, EtAnswers, EtSuccess, Dlpi
  <2>5. EtPast'
    BY <1>2, <2>1 DEF EtInv, EtPast, EtOpens, EtDev, EtDevs, EtUses
  <2> QED  BY <2>2, <2>3, <2>4, <2>5 DEF EtInv
<1>3. CASE Arrive
  <2>1. UNCHANGED <<etBuild, etAt, etHandle, etFds, etAddr, etRet, etGot, etSent, etHad>>
        /\ etArrivals' = etArrivals + 1 /\ etArrivals \in Nat
    BY <1>3 DEF Arrive, EtInv, EtShape
  <2>2. EtShape'
    BY <2>1 DEF EtInv, EtShape, EtNames
  <2>3. EtDescriptors' /\ EtDevs'
    BY <2>1 DEF EtInv, EtDescriptors, EtDevs, EtOpens, EtUses, EtDev, EtNames
  <2>4. etArrivals' # 0
    BY <2>1
  <2>5. EtAnswers'
    BY <2>1, <2>4 DEF EtInv, EtAnswers, Dlpi
  <2>6. EtSuccess'
    BY <2>1, <2>4 DEF EtInv, EtSuccess, EtDev, Dlpi
  <2>7. EtPast'
    <3>1. EtOpens \/ etHandle.open
      BY <1>3 DEF Arrive, EtInv, EtDescriptors
    <3>2. etStream' \in Seq(EtMessages(etHad))
      <4>1. etStream' = Append(etStream, [ack |-> "data", addr |-> 0]) /\ etStream \in Seq(EtMessages(etHad))
        BY <1>3 DEF Arrive, EtInv, EtPast
      <4>2. [ack |-> "data", addr |-> 0] \in EtMessages(etHad)
        BY DEF EtMessages
      <4> QED  BY <4>1, <4>2
    <3> QED  BY <2>1, <3>1, <3>2 DEF EtInv, EtPast, EtOpens, EtDev
  <2> QED  BY <2>2, <2>3, <2>5, <2>6, <2>7 DEF EtInv
<1> QED  BY <1>1, <1>2, <1>3

(* The other systems. *)
LEMMA BsdFindsDevice == ASSUME NoPrefixes, EtDev \in EtNames PROVE EtDevices[Begins].name = EtDev
<1> DEFINE chosen == CHOOSE x \in ToSet(EtDevices) : x.name = EtDev
           I == {i \in 1 .. Len(EtDevices) : EtDevices[i].name = EtDev \/ EtDevices[i].name = chosen.stem}
<1>1. DOMAIN EtDevices = 1 .. Len(EtDevices) /\ Len(EtDevices) \in Nat
  BY EthernetAssumption
<1>2. PICK k \in 1 .. Len(EtDevices) : EtDevices[k].name = EtDev
  BY <1>1 DEF EtNames
<1>3. chosen \in ToSet(EtDevices) /\ chosen.name = EtDev
  <2>1. EtDevices[k] \in ToSet(EtDevices)
    BY <1>1 DEF ToSet
  <2> QED  BY <1>2, <2>1
<1>4. chosen.stem = EtDev
  BY <1>3 DEF NoPrefixes, ToSet
<1>5. Begins = IF I # {} THEN Min(I) ELSE 0
  BY DEF Begins, SelectInSeq
<1>6. I \in SUBSET Nat /\ k \in I
  BY <1>1, <1>2
<1>7. Min(I) \in I
  BY <1>6, MinHolds
<1> HIDE DEF chosen
<1> QED  BY <1>4, <1>5, <1>6, <1>7

LEMMA EtReturns ==
    ASSUME EtShape, NEW ret, NEW got, EtReturn(ret, got)
    PROVE  /\ etAt' = [pc |-> "idle", op |-> etAt.op, step |-> etAt.step, dev |-> etAt.dev, val |-> etAt.val]
           /\ etRet' = ret /\ etGot' = got /\ UNCHANGED <<etBuild, etArrivals>>
BY DEF EtReturn, Kept, EtShape

LEMMA EtElsewhereKeeps == ASSUME NoPrefixes, EtInv, EthGet \/ EthSet \/ EthSend PROVE EtInv'
<1>1. /\ etAt.pc = etAt.op /\ etAt.pc \in {"get", "set", "send"} /\ UNCHANGED <<etHandle, etFds, etStream>>
      /\ EtDev \in EtNames /\ etAddr = [n \in EtNames |-> etAddr[n]] /\ etHandle.open
  BY DEF EthGet, EthSet, EthSend, EtInv, EtShape, EtDevs, EtUses
<1>2. /\ etAt' = [pc |-> "idle", op |-> etAt.op, step |-> etAt.step, dev |-> etAt.dev, val |-> etAt.val]
      /\ UNCHANGED <<etBuild, etArrivals>>
  BY EtReturns DEF EthGet, EthSet, EthSend, EtInv
<1>3. etAddr' = etAddr \/ etAddr' = [etAddr EXCEPT ![EtDev] = etAt.val]
  BY DEF EthGet, EthSet, EthSend
<1>8. EtPast'
  <2>1. etHad \subseteq etHad' /\ etAddr'[EtDev] \in etHad'
    BY <1>1 DEF EthGet, EthSet, EthSend, Remembers, EtInv, EtPast, EtOpens
  <2>2. etStream' \in Seq(EtMessages(etHad'))
    BY <1>1, <2>1, EtHadGrows DEF EtInv, EtPast
  <2> QED  BY <1>1, <1>2, <2>1, <2>2 DEF EtPast, EtOpens, EtDev
<1>4. EtShape'
  BY <1>1, <1>2, <1>3 DEF EtInv, EtShape, EtNames
<1>5. EtDescriptors' /\ EtDevs'
  BY <1>1, <1>2 DEF EtInv, EtDescriptors, EtDevs, EtOpens, EtUses, EtDev, EtNames
<1>6. EtAnswers'
  BY <1>1, <1>2 DEF EtInv, EtAnswers, Dlpi
<1>7. EtSuccess'
  <2>1. CASE EthGet
    <3>1. etRet' = 0 => etGot' = etAddr[EtDev] /\ etAddr' = etAddr
      BY <1>1, <2>1, EtReturns, BsdFindsDevice DEF EthGet, EtInv
    <3>2. ~Dlpi
      BY <2>1 DEF EthGet, Dlpi
    <3> QED  BY <1>1, <1>2, <2>1, <3>1, <3>2 DEF EtSuccess, EtDev, EthGet, Dlpi
  <2>2. CASE EthSet
    <3>1. etRet' = 0 => etAddr' = [etAddr EXCEPT ![EtDev] = etAt.val]
      BY <2>2, EtReturns DEF EthSet, EtInv
    <3>2. etRet' = 0 => etAddr'[EtDev] = etAt.val
      BY <1>1, <3>1
    <3> QED  BY <1>1, <1>2, <2>2, <3>2 DEF EtSuccess, EtDev, EthSet
  <2>3. CASE EthSend
    <3>1. etRet' = 0 => \E a \in SentTo(etAt.val).to : etSent' = <<[SentTo(etAt.val) EXCEPT !.to = a]>>
      BY <2>3, EtReturns DEF EthSend, EtInv
    <3>2. /\ SentTo(etAt.val) = [dev |-> SentTo(etAt.val).dev, to |-> SentTo(etAt.val).to, proto |-> SentTo(etAt.val).proto]
          /\ SentTo(etAt.val).dev \in {EtDev, "any"}
          /\ etBuild \notin {"winip", "unitdata"} => SentTo(etAt.val).to = {etAt.val.dst}
      BY DEF SentTo
    <3>3. etRet' = 0 => \E a \in SentTo(etAt.val).to :
                            Len(etSent') = 1 /\ etSent'[1].dev = SentTo(etAt.val).dev /\ etSent'[1].to = a
      BY <3>1, <3>2
    <3> QED  BY <1>1, <1>2, <2>3, <3>2, <3>3 DEF EtSuccess, EtDev, EthSend
  <2> QED  BY <2>1, <2>2, <2>3
<1> QED  BY <1>4, <1>5, <1>6, <1>7, <1>8 DEF EtInv

LEMMA EtOthersKeep == ASSUME EtInv, OthersSetAddr PROVE EtInv'
<1>1. /\ etAt.pc = "idle"
      /\ etAt' = [pc |-> "idle", op |-> "none", step |-> etAt.step, dev |-> etAt.dev, val |-> etAt.val]
      /\ etAddr' = [n \in EtNames |-> etAddr'[n]]
      /\ UNCHANGED <<etBuild, etHandle, etFds, etStream, etRet, etGot, etSent, etArrivals>>
  BY DEF OthersSetAddr, EtInv, EtShape
<1>2. EtShape'
  BY <1>1 DEF EtInv, EtShape, EtNames
<1>3. EtDescriptors' /\ EtDevs'
  BY <1>1 DEF EtInv, EtDescriptors, EtDevs, EtOpens, EtUses, EtDev, EtNames
<1>4. EtAnswers' /\ EtSuccess'
  BY <1>1 DEF EtInv, EtAnswers, EtSuccess, Dlpi
<1>5. EtPast'
  <2>1. etHad' = etHad \cup {etAddr'[EtDev]}
    BY DEF OthersSetAddr, Remembers
  <2>2. etStream' \in Seq(EtMessages(etHad'))
    BY <1>1, <2>1, EtHadGrows DEF EtInv, EtPast
  <2> QED  BY <1>1, <2>1, <2>2 DEF EtInv, EtPast, EtOpens, EtDev
<1> QED  BY <1>2, <1>3, <1>4, <1>5 DEF EtInv

LEMMA EtStepHolds == ASSUME NoPrefixes, EtInv, [EtNext]_etVars PROVE EtInv'
<1>1. CASE UNCHANGED etVars
  <2>1. EtShape' /\ EtDescriptors' /\ EtDevs' /\ EtSuccess'
    BY <1>1 DEF etVars, EtInv, EtShape, EtDescriptors, EtDevs, EtSuccess, EtOpens, EtUses, EtDev, EtNames, Dlpi
  <2>2. EtAnswers'
    BY <1>1 DEF etVars, EtInv, EtAnswers, EtMine, EtDev, Asked, Step, EtSteps, Opening, Dlpi
  <2>3. EtPast'
    BY <1>1 DEF etVars, EtInv, EtPast, EtOpens, EtDev
  <2> QED  BY <2>1, <2>2, <2>3 DEF EtInv
<1>2. ASSUME NEW op \in {"open", "close", "send", "get", "set"}, NEW dev, NEW val, EtCall(op, dev, val),
             op = "open" => dev \in EtNames, op # "open" => dev = EtDev
      PROVE  EtInv'
  BY <1>2, EtCallKeeps
<1>3. CASE \/ \E n \in EtNames : EtCall("open", n, 0)
           \/ EtCall("close", EtDev, 0) \/ \E f \in Frames : EtCall("send", EtDev, f)
           \/ ~RawIp /\ (EtCall("get", EtDev, 0) \/ \E a \in Addresses : EtCall("set", EtDev, a))
  BY <1>2, <1>3
<1> QED
  BY <1>1, <1>3, EtOpenKeeps, EtGivesUp, EtPutKeeps, EtGetKeeps, EtDlpiKeeps, EtElsewhereKeeps, EtOthersKeep DEF EtNext

LEMMA EtInvTells == EtInv => EthTold
BY DEF EtInv, EtSuccess, EtDescriptors, EtOpens, EthTold

EthernetInv == part = "ethernet" => EtInv

(* A call of an Ethernet handle gets its own answer: for any number of     *)
(* calls, frames that arrive and addresses others set, on every system,    *)
(* with whatever failing; where DLPI sends unit data, and on Windows,      *)
(* nothing is said of where a frame goes.  On a BSD no device's name may   *)
(* begin with another's, for eth-bsd.c compares as far as the shorter one  *)
(* goes.                                                                   *)
THEOREM EthTellsAlways == ASSUME NoPrefixes PROVE LibSpec => []EthTells
<1>1. LibInit => EthernetInv
  BY PartStarts, EtInitHolds DEF EthernetInv
<1>2. EthernetInv /\ [LibNext]_libVars => EthernetInv'
  BY PartSteps, EtStepHolds DEF EthernetInv
<1>3. EthernetInv => EthTells
  BY EtInvTells DEF EthernetInv, EthTells
<1> QED  BY <1>1, <1>2, <1>3, PTL DEF LibSpec
----------------------------------------------------------------------------
=============================================================================
