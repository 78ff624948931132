------------------------------ MODULE Ethernet ------------------------------
(***************************************************************************)
(* Handles that frames and datagrams are sent through: eth_open, eth_send, *)
(* eth_get, eth_set and eth_close of six systems, and ip_open, ip_send and *)
(* ip_close on a raw socket.  Opening is a chain of calls that may each    *)
(* fail; DLPI is a dialogue over a stream on which frames arrive as well.  *)
(***************************************************************************)
EXTENDS Integers, Sequences, SequencesExt

CONSTANTS
    EtBuilds,    \* the systems, see EthernetAssumption; DLPI has three ways to send
    EtDevices,   \* devices in the kernel's order: [name, stem], stem a name or a prefix of one
    Addresses,   \* link addresses
    Style2,      \* DLPI providers that have to be attached
    Frames,      \* [src, dst, proto] of what is sent
    MaxArrivals, MaxEtOthers, MaxEtCalls  \* bounds: frames that come in or answers left, changes by others, calls

EtNames == {EtDevices[i].name : i \in DOMAIN EtDevices}
ASSUME EthernetAssumption ==
    /\ EtBuilds \subseteq {"linux", "bsd", "snoop", "pfilt", "ndd", "dlpi", "hpraw", "unitdata", "rawip", "winip"}
    /\ EtDevices \in Seq([name : STRING, stem : STRING])
    /\ {MaxArrivals, MaxEtOthers, MaxEtCalls} \subseteq Nat /\ Style2 \subseteq EtNames

VARIABLES
    etBuild,
    etAt,        \* [pc, op, step, dev, val]: the call, and how far it has come
    etHandle,    \* the handle: [open, dev, fds]
    etFds,       \* the descriptors of the process
    etAddr,      \* the kernel's link addresses
    etStream,    \* what the stream has to be read
    etRet, etGot,
    etSent,      \* history: what the last call sent, and where
    etHad,       \* history: the link addresses the device has had since it was opened
    etArrivals, etOthers, etCalls
etVars == <<etBuild, etAt, etHandle, etFds, etAddr, etStream, etRet, etGot, etSent, etHad, etArrivals, etOthers, etCalls>>

(* What eth_open and ip_open call, in order.  A descriptor's name is the   *)
(* field that holds it; calloc has left 0 in fields that are not set yet.  *)
Opening(dev) ==
    CASE etBuild = "linux" -> <<"fd", "broadcast", "index">>
      [] etBuild = "bsd"   -> <<"fd", "setif", "hdrcmplt">>
      [] etBuild = "snoop" -> <<"fd", "bind", "sndbuf">>
      [] etBuild = "pfilt" -> <<"fd", "sock">>
      [] etBuild = "ndd"   -> <<"fd", "bind", "connect">>
      [] etBuild = "rawip" -> <<"fd", "hdrincl", "getbuf", "setbuf", "broadcast">>
      [] etBuild = "winip" -> <<"startup", "fd", "hdrincl">>
      [] etBuild = "dlpi" -> IF dev \in Style2 THEN <<"fd", "info", "attach", "bind", "raw">>
                             ELSE <<"fd", "info", "bind", "raw">>
      [] OTHER            -> IF dev \in Style2 THEN <<"fd", "info", "attach", "bind">> ELSE <<"fd", "info", "bind">>
Dlpi == etBuild \in {"dlpi", "hpraw", "unitdata"}
Descriptors == {"fd", "sock"}
Dialogue == {"info", "attach", "bind", "physaddr", "setphysaddr"}
AckOf(req) == CASE req \in {"attach", "setphysaddr"} -> "ok" [] OTHER -> req

EtInit ==
    /\ etBuild \in EtBuilds /\ etFds = {"stdin"} /\ etStream = <<>>
    /\ etAt = [pc |-> "idle", op |-> "none", step |-> 1, dev |-> CHOOSE n \in EtNames : TRUE, val |-> 0]
    /\ etHandle = [open |-> FALSE, dev |-> etAt.dev, fds |-> {}]
    /\ etAddr \in {[n \in EtNames |-> CHOOSE i \in 1 .. Len(EtDevices) : EtDevices[i].name = n]}
    /\ etRet = 0 /\ etGot = 0 /\ etSent = <<>> /\ etHad = {} /\ etArrivals = 0 /\ etOthers = 0 /\ etCalls = 0
----------------------------------------------------------------------------
Kept == UNCHANGED <<etBuild, etArrivals, etOthers, etCalls>>
EtReturn(ret, got) == etAt' = [etAt EXCEPT !.pc = "idle"] /\ etRet' = ret /\ etGot' = got /\ Kept
EtGoes(pc, step) == etAt' = [etAt EXCEPT !.pc = pc, !.step = step] /\ Kept /\ UNCHANGED <<etRet, etGot, etSent>>

EtCall(op, dev, val) ==
    /\ etAt.pc = "idle" /\ etCalls < MaxEtCalls /\ etCalls' = etCalls + 1
    /\ (op = "open") = ~etHandle.open
    /\ etAt' = [pc |-> op, op |-> op, step |-> 1, dev |-> dev, val |-> val]
    /\ etRet' = 0 /\ etGot' = 0 /\ etSent' = <<>> /\ etHad' = IF op = "open" THEN {etAddr[dev]} ELSE etHad
    /\ UNCHANGED <<etBuild, etHandle, etFds, etAddr, etStream, etArrivals, etOthers>>
EtDev == etHandle.dev
Remembers == etHad' = etHad \cup {etAddr'[EtDev]}

EtSteps == Opening(etAt.dev)
Step == EtSteps[etAt.step]
OpenStep ==
    /\ etAt.pc = "open" /\ etAt.step <= Len(EtSteps) /\ Step \notin Dialogue
    /\ etHandle' = [etHandle EXCEPT !.fds = IF Step \in Descriptors THEN @ \cup {Step} ELSE @, !.dev = etAt.dev]
    /\ etFds' = IF Step \in Descriptors THEN etFds \cup {Step} ELSE etFds
    /\ EtGoes("open", etAt.step + 1) /\ UNCHANGED <<etAddr, etStream, etHad>>
OpenDone ==
    /\ etAt.pc = "open" /\ etAt.step > Len(EtSteps)
    /\ etHandle' = [etHandle EXCEPT !.open = TRUE] /\ EtReturn(0, etGot)
    /\ UNCHANGED <<etFds, etAddr, etStream, etSent, etHad>>
(* A step fails: the handle is closed, with what its fields hold.  A field *)
(* that was not come to holds 0, which is pfilt's to close.                *)
Zeroed == IF etBuild = "pfilt" /\ Step = "fd" THEN {"stdin"} ELSE {}
EtClosed(fds, ret) ==
    /\ etFds' = etFds \ fds /\ etStream' = <<>>
    /\ etHandle' = [etHandle EXCEPT !.open = FALSE, !.fds = {}]
    /\ EtReturn(ret, etGot) /\ UNCHANGED <<etAddr, etSent, etHad>>
OpenFails ==
    /\ etAt.pc = "open" /\ etAt.step <= Len(EtSteps)
    /\ EtClosed(etHandle.fds \cup Zeroed, -1)
EtClose == etAt.pc = "close" /\ EtClosed(etHandle.fds, 0)

(* dlpi_msg: a request is put on the stream and the provider answers it;   *)
(* then one message is read, and it has to be the answer.                  *)
Request == CASE etAt.pc = "open" -> Step [] etAt.pc = "get" -> "physaddr" [] etAt.pc = "set" -> "setphysaddr"
PutMsg ==
    /\ Dlpi /\ etAt.pc \in {"open", "get", "set"}
    /\ etAt.pc = "open" => etAt.step <= Len(EtSteps) /\ Step \in Dialogue
    /\ \/ /\ etStream' = Append(etStream, [ack |-> AckOf(Request), addr |-> IF Request = "physaddr" THEN etAddr[etAt.dev] ELSE 0])
          /\ etAddr' = IF etAt.pc = "set" THEN [etAddr EXCEPT ![etAt.dev] = etAt.val] ELSE etAddr
       \/ etStream' = Append(etStream, [ack |-> "error", addr |-> 0]) /\ etAddr' = etAddr
    /\ EtGoes("getmsg", etAt.step) /\ Remembers /\ UNCHANGED <<etHandle, etFds>>
Asked == CASE etAt.op = "open" -> Step [] etAt.op = "get" -> "physaddr" [] etAt.op = "set" -> "setphysaddr"
AnyAck(m) == TRUE                                         \* mutant: dl_primitive not looked at
IsAck(m) == m.ack = AckOf(Asked)
GetMsg ==
    /\ etAt.pc = "getmsg" /\ etStream # <<>>
    /\ LET m == Head(etStream)
           mine == IsAck(m)
       IN IF etAt.op = "open"
          THEN IF mine THEN EtGoes("open", etAt.step + 1) /\ etStream' = Tail(etStream)
                            /\ UNCHANGED <<etHandle, etFds, etAddr, etHad>>
               ELSE EtClosed(etHandle.fds, -1)
          ELSE /\ etStream' = Tail(etStream)
               /\ EtReturn(IF mine THEN 0 ELSE -1, IF mine THEN m.addr ELSE 0)
               /\ UNCHANGED <<etHandle, etFds, etAddr, etSent, etHad>>
(* putmsg or getmsg fails.  A failed getmsg leaves the answer where it is, *)
(* for the next call to find: etArrivals counts it with the frames.        *)
DlpiFails ==
    /\ Dlpi /\ etAt.pc \in {"get", "set", "getmsg"}
    /\ IF etAt.op = "open" THEN EtClosed(etHandle.fds, -1)
       ELSE /\ etArrivals' = etArrivals + (IF etAt.pc = "getmsg" THEN 1 ELSE 0) /\ etArrivals' <= MaxArrivals
            /\ etAt' = [etAt EXCEPT !.pc = "idle"] /\ etRet' = -1 /\ etGot' = 0
            /\ UNCHANGED <<etBuild, etHandle, etFds, etAddr, etStream, etSent, etHad, etOthers, etCalls>>
(* Frames for the SAP that was bound come in on the same stream. *)
Arrive ==
    /\ Dlpi /\ etHandle.fds # {} /\ etArrivals < MaxArrivals /\ etArrivals' = etArrivals + 1
    /\ etStream' = Append(etStream, [ack |-> "data", addr |-> 0])
    /\ UNCHANGED <<etBuild, etAt, etHandle, etFds, etAddr, etRet, etGot, etSent, etHad, etOthers, etCalls>>

(* eth_get elsewhere.  BSD takes the first interface whose name the device *)
(* begins with; AIX passes over the end of its list and always fails.      *)
Begins == SelectInSeq(EtDevices, LAMBDA d : d.name = EtDev \/ d.name = (CHOOSE x \in ToSet(EtDevices) : x.name = EtDev).stem)
EthGet ==
    /\ etAt.pc = "get" /\ etBuild \in {"linux", "bsd", "snoop", "pfilt", "ndd"}
    /\ \/ etBuild # "ndd" /\ EtReturn(0, etAddr[IF etBuild = "bsd" THEN EtDevices[Begins].name ELSE EtDev])
       \/ EtReturn(-1, 0)
    /\ UNCHANGED <<etHandle, etFds, etAddr, etStream, etSent, etHad>>
EthSet ==
    /\ etAt.pc = "set" /\ etBuild \in {"linux", "bsd", "snoop", "pfilt", "ndd"}
    /\ \/ etBuild # "ndd" /\ etAddr' = [etAddr EXCEPT ![EtDev] = etAt.val] /\ EtReturn(0, 0)
       \/ etAddr' = etAddr /\ EtReturn(-1, 0)
    /\ Remembers /\ UNCHANGED <<etHandle, etFds, etStream, etSent>>

(* A frame leaves on the handle's device; Linux says its protocol as well. *)
(* A datagram goes where its header says: on Windows, to its source.       *)
(* Without DLIOCRAW or HP's raw data DLPI is told the destination apart    *)
(* from the frame, and eth_send copies it to ctlbuf + dlen, four times too *)
(* far, for ctlbuf is an array of words: where the provider looks for it   *)
(* are octets nobody wrote.                                                *)
RawIp == etBuild \in {"rawip", "winip"}
SentTo(f) == CASE etBuild = "rawip" -> [dev |-> "any", to |-> {f.dst}, proto |-> 0]
               [] etBuild = "winip" -> [dev |-> "any", to |-> {f.src}, proto |-> 0]
               [] etBuild = "unitdata" -> [dev |-> EtDev, to |-> Addresses \cup {0}, proto |-> 0]
               [] etBuild = "linux" -> [dev |-> EtDev, to |-> {f.dst}, proto |-> f.proto]
               [] OTHER -> [dev |-> EtDev, to |-> {f.dst}, proto |-> 0]
EthSend ==
    /\ etAt.pc = "send"
    /\ \/ /\ \E a \in SentTo(etAt.val).to : etSent' = <<[SentTo(etAt.val) EXCEPT !.to = a]>>
          /\ EtReturn(0, 0)
       \/ etSent' = <<>> /\ EtReturn(-1, 0)
    /\ UNCHANGED <<etHandle, etFds, etAddr, etStream, etHad>>

(* Others change a device's address between two calls. *)
OthersSetAddr ==
    /\ etAt.pc = "idle" /\ etOthers < MaxEtOthers /\ etOthers' = etOthers + 1
    /\ \E n \in EtNames, a \in Addresses : etAddr' = [etAddr EXCEPT ![n] = a]
    /\ etAt' = [etAt EXCEPT !.op = "none"] /\ Remembers
    /\ UNCHANGED <<etBuild, etHandle, etFds, etStream, etRet, etGot, etSent, etArrivals, etCalls>>

EtNext ==
    \/ \E n \in EtNames : EtCall("open", n, 0)
    \/ EtCall("close", EtDev, 0) \/ \E f \in Frames : EtCall("send", EtDev, f)
    \/ ~RawIp /\ (EtCall("get", EtDev, 0) \/ \E a \in Addresses : EtCall("set", EtDev, a))
    \/ OpenStep \/ OpenDone \/ OpenFails \/ EtClose
    \/ PutMsg \/ GetMsg \/ DlpiFails \/ Arrive \/ EthGet \/ EthSet \/ EthSend \/ OthersSetAddr
----------------------------------------------------------------------------
EtTypeOK ==
    /\ etBuild \in EtBuilds /\ etRet \in {-1, 0} /\ etHandle.fds \subseteq etFds
    /\ etAddr \in [EtNames -> Addresses]

(* A handle speaks for the device it was opened on.  When eth_get succeeds *)
(* the address is that device's at this moment, not another's and not one  *)
(* of an earlier answer; when eth_set succeeds the device has the address; *)
(* when something is sent it leaves there, to the destination in its       *)
(* header (not on Windows, nor as unit data of DLPI).  A DLPI handle keeps *)
(* that until a frame comes in before an answer, or an answer is left      *)
(* unread: the wrong message is taken for the answer, and from then on     *)
(* every answer is the one before (eth-dlpi.c:65); but even then what      *)
(* eth_get delivers is an address the device has had since it was opened.  *)
(* A handle that is closed, or could not be opened, has left the process   *)
(* the descriptors it had (pfilt takes 0 with it, eth-pfilt.c:82).         *)
EthTold ==
    /\ etAt.pc = "idle" /\ etRet = 0 =>
          /\ etAt.op = "get" /\ etArrivals = 0 => etGot = etAddr[EtDev]
          /\ etAt.op = "get" /\ Dlpi => etGot \in etHad
          /\ etAt.op = "set" /\ etArrivals = 0 => etAddr[EtDev] = etAt.val
          /\ etAt.op = "send" => Len(etSent) = 1 /\ etSent[1].dev \in {EtDev, "any"}
                                 /\ (etBuild \notin {"winip", "unitdata"} => etSent[1].to = etAt.val.dst)
    /\ etAt.pc = "idle" /\ ~etHandle.open => etFds = (IF etBuild = "pfilt" THEN etFds \cap {"stdin"} ELSE {"stdin"})

(* dnet.3: eth_get retrieves the link address of the handle's interface.   *)
EthGetIsTrue == etAt.pc = "idle" /\ etRet = 0 /\ etAt.op = "get" => etGot = etAddr[EtDev]
(* dnet.3: eth_send transmits the frame it is given: to its destination.   *)
EthSendIsTrue == etAt.pc = "idle" /\ etRet = 0 /\ etAt.op = "send" => etSent[1].to = etAt.val.dst
=============================================================================
