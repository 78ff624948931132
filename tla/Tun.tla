-------------------------------- MODULE Tun ---------------------------------
(***************************************************************************)
(* Tunnels: tun_open, tun_send, tun_recv and tun_close, over the           *)
(* interface calls of Intf.  BSD takes the first free device and puts the  *)
(* interface back as it was on close; Linux attaches an interface to a     *)
(* descriptor and it goes with it; Solaris links streams and runs          *)
(* ifconfig.                                                               *)
(***************************************************************************)
EXTENDS Intf, FiniteSets

CONSTANTS
    Devices,     \* the interfaces of /dev/tun0, /dev/tun1, ..., in order
    Busy,        \* devices that cannot be opened: other processes have them open
    Fresh,       \* what an interface is like whose device is not open
    TunArgs,     \* [src, dst, mtu]
    Zeros,       \* descriptor 0 when the program starts: "taken", or "free" where standard input is closed
    MaxTuns      \* bound: calls of tun_open
ASSUME TunAssumption ==
    /\ Devices \in Seq(Names) /\ Devices # <<>> /\ IsInjective(Devices) /\ Busy \subseteq Names /\ MaxTuns \in Nat
    /\ \A n \in ToSet(Devices) : Kind[n] = "tun"
    /\ Names \cap {"fd", "ip_fd", "if_fd", "intf", "lost", "free", "taken"} = {} /\ Zeros \subseteq {"free", "taken"}
    /\ TunArgs # {} /\ TunArgs \subseteq [src : Ips, dst : Ips, mtu : Nat]

VARIABLES
    tnAt,        \* [pc, dev, arg]: dev is the number of a device, or of a step
    tnFds,       \* descriptors this process has open: an interface's goes by its name, "intf" is intf_open's
    tnZero,      \* which of them has number 0: it goes to the first that is opened
    tnFd,        \* the ones the handle knows of
    tnSave,      \* tun->save: an interface and its configuration
    tnRet,       \* what the last call returned: "null", "tun" or a length
    tnCalls,
    tnBefore,    \* history: the interfaces when tun_open was called
    tnHad,       \* history: the descriptors that were open then
    tnClean      \* history: reading an interface was not refused, and putting it back succeeded, with no address passed over
tnVars == <<tnAt, tnFds, tnZero, tnFd, tnSave, tnRet, tnCalls, tnBefore, tnHad, tnClean>>

Dev(i) == Devices[i]
Unset(name) == [dst |-> NoneOf(Ip(0)), addr |-> NoneOf(Ip(0)), link |-> 0, mtu |-> 0, up |-> FALSE,
                noarp |-> FALSE, aliases |-> <<>>, name |-> name]
TnInit ==
    /\ tnAt = [pc |-> "none", dev |-> 1, arg |-> CHOOSE a \in TunArgs : TRUE]
    /\ tnFds = {} /\ tnZero \in Zeros /\ tnFd = {} /\ tnSave = Unset(Dev(1)) /\ tnRet = "null" /\ tnCalls = 0
    /\ tnBefore = ifKern /\ tnHad = {} /\ tnClean = TRUE

TnGo(pc, dev) == tnAt' = [tnAt EXCEPT !.pc = pc, !.dev = dev]
Hist == UNCHANGED <<tnCalls, tnBefore, tnHad>>
Quietly == UNCHANGED <<tnFds, tnZero, tnFd, tnSave, tnRet, tnClean>> /\ Hist
(* intf_get reads into tun->save, which is empty before. *)
EmptyEntry(name) ==
    /\ ifEntry' = Unset(name)
    /\ UNCHANGED <<ifSys, ifKern, ifConf, ifOrig, ifAt, ifRet, ifQuiet, ifPast, ifOthers, ifCalls>>

TunOpen(arg) ==
    /\ tnAt.pc = "none" /\ IfIdle /\ tnCalls < MaxTuns /\ tnCalls' = tnCalls + 1
    /\ tnAt' = [pc |-> CASE ifSys = "solaris" -> "streams" [] ifSys = "bsd" -> "intf" [] OTHER -> "fd", dev |-> 1, arg |-> arg]
    /\ tnSave' = Unset(Dev(1)) /\ EmptyEntry(Dev(1))
    /\ tnBefore' = ifKern /\ tnHad' = tnFds /\ tnClean' = TRUE
    /\ UNCHANGED <<tnFds, tnZero, tnFd, tnRet>>

Opens(d) == tnFds' = tnFds \cup {d} /\ tnZero' = (IF tnZero = "free" THEN d ELSE tnZero)
Closes(ds) == tnFds' = tnFds \ ds /\ tnZero' = (IF tnZero \in ds THEN "free" ELSE tnZero)
TunFails == TnGo("undo", tnAt.dev) /\ Quietly /\ UNCHANGED ifVars
(* Linux opens its descriptor first, and then an interface handle; BSD     *)
(* begins with the handle.                                                 *)
OpenFd ==
    /\ tnAt.pc = "fd" /\ IfIdle
    /\ \/ Opens("fd") /\ tnFd' = {"fd"} /\ TnGo("intf", 1) /\ Hist /\ UNCHANGED <<tnSave, tnRet, tnClean, ifVars>>
       \/ TunFails
IntfOpen ==
    /\ tnAt.pc = "intf" /\ IfIdle
    /\ \/ /\ Opens("intf") /\ tnFd' = tnFd \cup {"intf"}
          /\ TnGo(IF ifSys = "bsd" THEN "open" ELSE "attach", 1) /\ Hist /\ UNCHANGED <<tnSave, tnRet, tnClean, ifVars>>
       \/ TunFails
(* A device is opened once at a time.  On Linux the kernel makes an        *)
(* interface with a free number for the descriptor.                        *)
Taken == Busy \cup tnFds
Attach ==
    /\ tnAt.pc = "attach" /\ IfIdle
    /\ \/ \E i \in DOMAIN Devices :
             LET Becomes1(d) == IF d = "fd" THEN Dev(i) ELSE d IN
             /\ Dev(i) \notin Taken
             /\ tnFds' = {Becomes1(d) : d \in tnFds} /\ tnFd' = {Becomes1(d) : d \in tnFd} /\ tnZero' = Becomes1(tnZero)
             /\ tnSave' = Unset(Dev(i)) /\ ifKern' = [ifKern EXCEPT ![Dev(i)] = Fresh]
             /\ TnGo("setup", tnAt.dev) /\ Hist
             /\ UNCHANGED <<tnRet, tnClean, ifSys, ifConf, ifEntry, ifOrig, ifAt, ifRet, ifQuiet, ifPast, ifOthers, ifCalls>>
       \/ TunFails
(* BSD goes from device to device: the interface of the one that can be    *)
(* opened is saved, with no room for aliases, and one that cannot be read  *)
(* is passed over.                                                         *)
OpenDevice ==
    /\ tnAt.pc = "open" /\ IfIdle /\ Dev(tnAt.dev) \notin Taken
    /\ Opens(Dev(tnAt.dev)) /\ tnFd' = {Dev(tnAt.dev), "intf"} /\ tnSave' = Unset(Dev(tnAt.dev))
    /\ TnGo("saved", tnAt.dev) /\ IfCall("get", Dev(tnAt.dev), <<>>, 0, <<>>) /\ UNCHANGED ifCalls
    /\ Hist /\ UNCHANGED <<tnRet, tnClean>>
NextDevice(fd) ==
    /\ TnGo(IF tnAt.dev < Len(Devices) THEN "open" ELSE "undo", IF tnAt.dev < Len(Devices) THEN tnAt.dev + 1 ELSE tnAt.dev)
    /\ tnFd' = fd /\ EmptyEntry(Dev(tnAt.dev)) /\ Hist /\ UNCHANGED <<tnFds, tnZero, tnRet>>
NoDevice ==
    /\ tnAt.pc = "open" /\ IfIdle /\ Dev(tnAt.dev) \in Taken
    /\ tnSave' = Unset(Dev(tnAt.dev)) /\ tnClean' = tnClean
    /\ NextDevice({"intf"})
SavesName == Unset(ifEntry.name)                          \* mutant: only the name is kept
SavedEntry == [ifEntry EXCEPT !.aliases = <<>>]
Saved ==
    /\ tnAt.pc = "saved" /\ IfIdle
    /\ tnSave' = SavedEntry
    /\ IF ifRet = 0
       THEN /\ TnGo("setup", tnAt.dev) /\ tnClean' = (tnClean /\ ifQuiet)
            /\ Hist /\ UNCHANGED <<tnFds, tnZero, tnFd, tnRet, ifVars>>
       ELSE tnClean' = FALSE /\ NextDevice(tnFd)

(* The interface is set up, and on BSD a route to the peer is tried in any *)
(* case: it is not modelled, as nothing is made of its result.             *)
TunAsk == [Unset(tnSave.name) EXCEPT !.up = TRUE, !.addr = Ip(tnAt.arg.src), !.dst = Ip(tnAt.arg.dst), !.mtu = tnAt.arg.mtu]
SetUp ==
    /\ tnAt.pc = "setup" /\ IfIdle /\ TnGo("set", tnAt.dev)
    /\ IfCall("set", tnSave.name, TunAsk, 99, <<>>) /\ UNCHANGED ifCalls /\ Quietly
Opened ==
    /\ tnAt.pc = "set" /\ IfIdle
    /\ IF ifRet = 0 THEN TnGo("tun", tnAt.dev) /\ tnRet' = "tun" ELSE TnGo("undo", tnAt.dev) /\ tnRet' = tnRet
    /\ Hist /\ UNCHANGED <<tnFds, tnZero, tnFd, tnSave, tnClean, ifVars>>

(* Solaris: three streams are opened, and linked after a new unit has been *)
(* had for the first; each step can fail.  ifconfig's own failure is not   *)
(* seen, as system returns its status and no negative number.              *)
Streams == <<{"fd"}, {"ip_fd"}, {}, {"if_fd"}, {}, {}, {}>>
OpenStreams ==
    /\ tnAt.pc = "streams"
    /\ \/ /\ tnAt.dev <= Len(Streams)
          /\ tnFds' = tnFds \cup Streams[tnAt.dev] /\ tnFd' = tnFd \cup Streams[tnAt.dev]
          /\ TnGo("streams", tnAt.dev + 1) /\ tnRet' = tnRet
       \/ /\ tnAt.dev > Len(Streams) /\ TnGo("tun", 1) /\ tnRet' = "tun" /\ UNCHANGED <<tnFds, tnFd>>
       \/ TnGo("undo", 1) /\ UNCHANGED <<tnFds, tnFd, tnRet>>
    /\ Hist /\ UNCHANGED <<tnZero, tnSave, tnClean, ifVars>>

(* Four octets that say the family go before a packet on Linux and         *)
(* OpenBSD: they are counted as sent, and taken off what was received, an  *)
(* error's -1 included.                                                    *)
Header == IF ifSys = "linux" THEN 4 ELSE 0
TunSend(n) == tnAt.pc = "tun" /\ tnRet' \in {n + Header, -1} /\ UNCHANGED <<tnAt, tnFds, tnZero, tnFd, tnSave, tnClean, ifVars>> /\ Hist
TunRecv(n) == tnAt.pc = "tun" /\ tnRet' \in {n, -1 - Header} /\ UNCHANGED <<tnAt, tnFds, tnZero, tnFd, tnSave, tnClean, ifVars>> /\ Hist

(* tun_close, also of a tunnel that could not be opened: the device goes   *)
(* down and loses its addresses as it is closed; then BSD puts back what   *)
(* was saved, if it has an interface handle, and closes that.  Linux and   *)
(* BSD close a descriptor only if it is greater than 0.                    *)
TunClose ==
    /\ tnAt.pc = "tun" /\ IfIdle /\ TnGo("undo", tnAt.dev) /\ Quietly /\ UNCHANGED ifVars
Left == IF ifSys = "solaris" THEN {} ELSE (tnFd \cap {tnZero}) \ {"intf"}
Restores == ifSys = "bsd" /\ "intf" \in tnFd
CloseDevice ==
    /\ tnAt.pc = "undo" /\ IfIdle
    /\ LET ds == (tnFd \ Left) \ (IF Restores THEN {"intf"} ELSE {})
           Lost(d) == IF d = "fd" /\ ifSys = "linux" THEN "lost" ELSE d
           gone == [n \in Names |-> IF n \in ds THEN [ifKern[n] EXCEPT !.addrs = <<>>, !.dst = NoneOf(Ip(0)), !.up = FALSE]
                                    ELSE ifKern[n]]
       IN /\ tnFds' = {Lost(d) : d \in tnFds \ ds}
          /\ tnZero' = IF tnZero \in ds THEN "free" ELSE Lost(tnZero)
          /\ tnFd' = (tnFd \cap {"intf"}) \ ds
          /\ ifKern' = IF ifSys = "linux" THEN [n \in Names |-> IF n \in ds THEN Fresh ELSE ifKern[n]] ELSE gone
    /\ TnGo(IF Restores THEN "restore" ELSE "closed", tnAt.dev)
    /\ Hist /\ UNCHANGED <<tnSave, tnRet, tnClean, ifSys, ifConf, ifEntry, ifOrig, ifAt, ifRet, ifQuiet, ifPast, ifOthers, ifCalls>>
Restore ==
    /\ tnAt.pc = "restore" /\ IfIdle /\ TnGo("restored", tnAt.dev)
    /\ IfCall("set", tnSave.name, tnSave, 99, <<>>) /\ UNCHANGED ifCalls /\ Quietly
Closed ==
    /\ tnAt.pc \in {"closed", "restored"} /\ IfIdle /\ TnGo("none", 1) /\ tnRet' = "null"
    /\ Closes(tnFd) /\ tnFd' = {}
    /\ tnClean' = (tnClean /\ (tnAt.pc = "restored" => ifRet = 0 /\ ifPast \subseteq {"kept"}))
    /\ Hist /\ UNCHANGED <<tnSave, ifVars>>

TnSteps ==
    \/ OpenFd \/ IntfOpen \/ Attach \/ OpenDevice \/ NoDevice \/ Saved \/ SetUp \/ Opened \/ OpenStreams
    \/ TunClose \/ CloseDevice \/ Restore \/ Closed
TnNext ==
    \/ \E a \in TunArgs : TunOpen(a)
    \/ TnSteps
    \/ \E n \in {1} : TunSend(n) \/ TunRecv(n)
    \/ IfSteps /\ UNCHANGED tnVars
----------------------------------------------------------------------------
TnTypeOK ==
    /\ tnFd \subseteq tnFds /\ tnFds \subseteq ToSet(Devices) \cup {"fd", "ip_fd", "if_fd", "intf", "lost"}
    /\ tnZero \in tnFds \cup {"free", "taken"}
    /\ tnSave.name \in Names /\ tnAt.arg \in TunArgs /\ tnAt.dev \in 1 .. Len(Devices) + Len(Streams) + 1

(* An interface as the property compares it: addresses without netmasks.   *)
Config(k) == [k EXCEPT !.addrs = [i \in DOMAIN @ |-> @[i].ip]]

(* Once a tunnel is closed, or could not be opened, no descriptor of it is *)
(* left open but one with number 0, and each interface, that one's apart,  *)
(* is as it was before tun_open (tun-bsd.c:140: "Restore interface         *)
(* configuration on close"), however far tun_open and intf_set had come;   *)
(* other processes' interfaces are never touched.                          *)
TunUndone ==
    /\ tnAt.pc = "none" /\ tnClean =>
          /\ tnHad \subseteq tnFds /\ tnFds \ tnHad \subseteq {tnZero}
          /\ \A n \in ToSet(Devices) \ (tnFds \ tnHad) : Config(ifKern[n]) = Config(tnBefore[n])
    /\ \A n \in Busy : ifKern[n] = tnBefore[n]

(* dnet.3:801 `closes the specified handle`: with number 0, too.           *)
TunClosesAll == tnAt.pc = "none" /\ tnClean => tnFds = tnHad
=============================================================================
