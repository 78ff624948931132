------------------------------ MODULE IpCooked ------------------------------
(***************************************************************************)
(* ip-cooked.c: IP datagrams sent as Ethernet frames.  ip_send finds the   *)
(* interface the kernel would use, then the hardware address of the        *)
(* destination or of its gateway, asking the network for it and sleeping   *)
(* up to three times, and sends the datagram in one frame or in fragments. *)
(*                                                                         *)
(* arp_get and route_get are used as they promise (see BsdRouting): each   *)
(* tells what the kernel's tables hold at a moment of the call.  Those     *)
(* change at any time.  A host stands for its IP address and for its       *)
(* hardware address.                                                       *)
(***************************************************************************)
EXTENDS Integers, Sequences, SequencesExt, FiniteSets

CONSTANTS
    Intf,        \* interfaces, in the order intf_loop gives them
    Usable,      \* those that are up, Ethernet and have an IP address
    Mtu,         \* of each interface
    Host,        \* addresses of other hosts
    Via,         \* the interface to whose link a host is attached, or None
    Gateways,    \* the gateways the kernel may have for a host
    Dgrams,      \* lengths of datagrams
    Hl,          \* the length of their header
    None,        \* no interface, or no gateway: attached
    Broadcast    \* ETH_ADDR_BROADCAST

(* A gateway is an attached host, or one of the machine's own interfaces   *)
(* (its address), which some systems give for attached hosts.              *)
ASSUME IntfAssumption ==
    /\ Intf \in Seq(Range(Intf)) /\ \A i, j \in 1..Len(Intf) : Intf[i] = Intf[j] => i = j
    /\ Usable \subseteq Range(Intf) /\ Mtu \in [Range(Intf) -> Nat]
    /\ \A i \in Usable : Mtu[i] > Hl
ASSUME HostAssumption ==
    /\ Via \in [Host -> Range(Intf) \cup {None}]
    /\ \A h \in Host : /\ Gateways[h] \subseteq Host \cup Range(Intf) \cup {None}
                       /\ \A g \in Gateways[h] \cap Host : Via[g] # None
    /\ Host \cap Range(Intf) = {} /\ None \notin Host \cup Range(Intf) /\ Broadcast \notin Host
ASSUME LengthAssumption == Hl \in Nat /\ \A n \in Dgrams : n \in Nat /\ n > Hl

VARIABLES
    known,    \* hosts the kernel's ARP cache has
    gw,       \* the gateway its routing table has for each host
    held,     \* handles and descriptors open in the ip_t
    stage,    \* how far ip_open has come
    list,     \* ip_intf_list
    pc, dst, len, ipi,
    try,      \* i, the passes of the loop that looks for the hardware address
    target,   \* arpent.arp_pa
    ha,       \* arpent.arp_ha
    at, room, \* p - start, and fraglen
    wire,     \* frames sent by the call
    ret,      \* what the last call returned
    asked, count,         \* history: whom the call sent ARP requests for, how often
    hops, heard, lacked   \* history: its next hops, hosts known, hosts not known
tables  == <<known, gw>>
handle  == <<held, stage, list>>
dgram   == <<dst, len, ipi>>
lookup  == <<try, target, ha>>
frames  == <<at, room, wire>>
history == <<hops, heard, lacked>>
requests == <<asked, count>>
vars == <<tables, handle, pc, dgram, lookup, frames, ret, requests, history>>

-----------------------------------------------------------------------------
(* The kernel and the network, which are not part of libdnet.              *)

Out(d) == CASE gw[d] = None        -> Via[d]
            [] gw[d] \in Range(Intf) -> gw[d]
            [] OTHER               -> Via[gw[d]]
NextHop(d) == IF gw[d] = None THEN d ELSE gw[d]
Unknown == (Host \cup Range(Intf)) \ known

Calling == pc \notin {"closed", "opening", "open"}
Observe ==
    IF Calling
    THEN /\ hops' = hops \cup {NextHop(dst)'}
         /\ heard' = heard \cup known'
         /\ lacked' = lacked \cup Unknown'
    ELSE UNCHANGED history

Learn(h) ==
    /\ Via[h] # None /\ known' = known \cup {h}
    /\ UNCHANGED <<gw, handle, pc, dgram, lookup, frames, ret, requests>>
    /\ Observe
Forget(h) ==
    /\ known' = known \ {h}
    /\ UNCHANGED <<gw, handle, pc, dgram, lookup, frames, ret, requests>>
    /\ Observe
Move(h) ==
    /\ \E g \in Gateways[h] : gw' = [gw EXCEPT ![h] = g]
    /\ UNCHANGED <<known, handle, pc, dgram, lookup, frames, ret, requests>>
    /\ Observe

-----------------------------------------------------------------------------
(* ip_open and ip_close. *)

Needs == <<"arp", "intf", "route", "fd">>

Init ==
    /\ known \in SUBSET {h \in Host : Via[h] # None}
    /\ gw \in [Host -> UNION {Gateways[h] : h \in Host}] /\ \A h \in Host : gw[h] \in Gateways[h]
    /\ held = {} /\ stage = 0 /\ list = <<>> /\ pc = "closed"
    /\ dst \in Host /\ len = 0 /\ ipi = None
    /\ try = 0 /\ target = dst /\ ha = Broadcast /\ at = 0 /\ room = 0 /\ wire = <<>>
    /\ ret = 0 /\ asked = {} /\ count = 0 /\ hops = {} /\ heard = {} /\ lacked = {}

Open ==
    /\ pc = "closed" /\ pc' = "opening"
    /\ UNCHANGED <<tables, handle, dgram, lookup, frames, ret, requests, history>>

Acquire ==
    /\ pc = "opening" /\ stage < Len(Needs)
    /\ held' = held \cup {Needs[stage + 1]} /\ stage' = stage + 1
    /\ UNCHANGED <<tables, list, pc, dgram, lookup, frames, ret, requests, history>>

(* intf_loop calls _add_ip_intf.                                           *)
AddIntf ==
    LET n == stage - Len(Needs) + 1 IN
    /\ pc = "opening" /\ stage >= Len(Needs) /\ n <= Len(Intf)
    /\ list' = IF Intf[n] \in Usable THEN <<Intf[n]>> \o list ELSE list
    /\ stage' = stage + 1
    /\ UNCHANGED <<tables, held, pc, dgram, lookup, frames, ret, requests, history>>

Opened ==
    /\ pc = "opening" /\ stage = Len(Needs) + Len(Intf) /\ pc' = "open"
    /\ UNCHANGED <<tables, handle, dgram, lookup, frames, ret, requests, history>>

ClosesHandles == Range(Needs)            \* mutant: eth_close forgotten
Closes == Range(list) \cup Range(Needs)

(* ip_close, called by the client or by an ip_open that failed.            *)
Close ==
    /\ pc \in {"opening", "open"} /\ pc' = "closed"
    /\ held' = held \ Closes /\ list' = <<>> /\ stage' = 0
    /\ UNCHANGED <<tables, dgram, lookup, frames, ret, requests, history>>

-----------------------------------------------------------------------------
(* ip_send. *)

Send(d, n) ==
    /\ pc = "open" /\ pc' = "lookup"
    /\ dst' = d /\ len' = n /\ ipi' = None
    /\ try' = 0 /\ target' = d /\ ha' = Broadcast
    /\ at' = 0 /\ room' = 0 /\ wire' = <<>> /\ asked' = {} /\ count' = 0
    /\ hops' = {NextHop(d)} /\ heard' = known /\ lacked' = Unknown
    /\ UNCHANGED <<tables, handle, ret>>

Return(r) == pc' = "open" /\ ret' = r
Goes(to) == pc' = to /\ UNCHANGED ret

LosesOne(i) == <<i>> \o SelectSeq(list, LAMBDA j : j \notin {i, list[1]})  \* mutant
ToFront(i) == <<i>> \o RemoveAt(list, CHOOSE n \in DOMAIN list : list[n] = i)

(* _lookup_ip_intf: connect and getsockname give the address of the        *)
(* interface the kernel would use; eth_open on first use may fail.         *)
Lookup ==
    /\ pc = "lookup"
    /\ \/ /\ Out(dst) \in Range(list)
          /\ ipi' = Out(dst) /\ held' = held \cup {Out(dst)}
          /\ list' = ToFront(Out(dst))
          /\ Goes("arp")
       \/ /\ Out(dst) \notin Range(list) \cap held
          /\ Return(-1) /\ UNCHANGED <<held, list, ipi>>
    /\ UNCHANGED <<tables, stage, dst, len, lookup, frames, requests, history>>

(* The hardware address is found: fragments, or one frame.                 *)
Found(h) ==
    /\ ha' = h
    /\ room' = IF len > Mtu[ipi] THEN Mtu[ipi] - Hl ELSE len - Hl
    /\ Goes("frame")

AlwaysKnown == TRUE                      \* mutant: arp_get's result not looked at
ArpKnows == target \in known

ArpGet ==
    /\ pc = "arp"
    /\ \/ ArpKnows /\ Found(target)
       \/ ~ArpKnows /\ Goes("route") /\ UNCHANGED <<ha, room>>
    /\ UNCHANGED <<tables, handle, dgram, try, target, at, wire, requests, history>>

(* route_get fails for a host that is attached.                            *)
AnyAnswer == gw[dst] # ipi               \* mutant: route_get's result not looked at
HasGateway == gw[dst] \notin {None, ipi}
RouteGet ==
    /\ pc = "route"
    /\ \/ HasGateway /\ target' = gw[dst] /\ Goes("gateway")
       \/ ~HasGateway /\ Goes("request") /\ UNCHANGED target
    /\ UNCHANGED <<tables, handle, dgram, try, ha, frames, requests, history>>

ArpGetGateway ==
    /\ pc = "gateway"
    /\ \/ ArpKnows /\ Found(target)
       \/ ~ArpKnows /\ Goes("request") /\ UNCHANGED <<ha, room>>
    /\ UNCHANGED <<tables, handle, dgram, try, target, at, wire, requests, history>>

(* _request_arp; whether eth_send succeeds is not looked at.               *)
RequestArp ==
    /\ pc = "request" /\ Goes("sleep")
    /\ asked' = asked \cup {target}
    /\ count' = IF count < 4 THEN count + 1 ELSE count    \* one too many is enough to know
    /\ UNCHANGED <<tables, handle, dgram, lookup, frames, history>>

TwoTries == 2                            \* mutant
Tries == 3
SameTry == try                           \* mutant: i is not counted
NextTry == try + 1
Wake ==
    /\ pc = "sleep" /\ try' = NextTry
    /\ IF NextTry < Tries THEN Goes("arp") /\ UNCHANGED <<ha, room>> ELSE Found(Broadcast)
    /\ UNCHANGED <<tables, handle, dgram, target, at, wire, requests, history>>

Body == len - Hl
MoreAlways == TRUE                       \* mutant: IP_MF in the last fragment
More == at + room < Body
Offset == at \div 8
Frame == [to |-> ha, off |-> Offset, from |-> at, n |-> room, more |-> More]

SendFrame ==
    /\ pc = "frame" /\ at < Body
    /\ wire' = Append(wire, Frame)
    /\ at' = at + room
    /\ room' = IF Body - at' < room THEN Body - at' ELSE room
    /\ IF at' < Body THEN Goes("frame") ELSE Return(len)
    /\ UNCHANGED <<tables, handle, dgram, lookup, requests, history>>

(* eth_send fails, or sends less. *)
SendFails ==
    /\ pc = "frame" /\ Return(-1)
    /\ UNCHANGED <<tables, handle, dgram, lookup, frames, requests, history>>

-----------------------------------------------------------------------------
Opening == Acquire \/ AddIntf \/ Opened
Sending ==
    \/ Lookup \/ ArpGet \/ RouteGet \/ ArpGetGateway \/ RequestArp \/ Wake
    \/ SendFrame \/ SendFails

Environment == \E h \in Host : Learn(h) \/ Forget(h) \/ Move(h)

Next ==
    \/ Open \/ Opening \/ Close
    \/ \E d \in Host, n \in Dgrams : Send(d, n)
    \/ Sending
    \/ Environment

Spec == Init /\ [][Next]_vars

(* The calling thread runs on; nothing is assumed of the network.          *)
FairSpec == Spec /\ WF_vars(Sending)

-----------------------------------------------------------------------------
(* Properties. *)

(* The variables hold values of their types.                               *)
TypeOK ==
    /\ known \subseteq Host /\ gw \in [Host -> Host \cup Range(Intf) \cup {None}]
    /\ held \subseteq Range(Needs) \cup Range(Intf)
    /\ stage \in 0..(Len(Needs) + Len(Intf)) /\ list \in Seq(Usable)
    /\ pc \in {"closed", "opening", "open", "lookup", "arp", "route", "gateway",
               "request", "sleep", "frame"}
    /\ dst \in Host /\ len \in Dgrams \cup {0} /\ ipi \in Usable \cup {None}
    /\ try \in 0..3 /\ target \in Host \cup Range(Intf) /\ ha \in Host \cup Range(Intf) \cup {Broadcast}
    /\ at \in Nat /\ room \in Nat
    /\ wire \in Seq([to : Host \cup {Broadcast}, off : Nat, from : Nat, n : Nat, more : BOOLEAN])
    /\ ret \in Dgrams \cup {0, -1}
    /\ asked \subseteq Host \cup Range(Intf) /\ count \in 0..4

(* However its elements move to the front, ip_intf_list holds each usable  *)
(* interface once, and an Ethernet handle only for those.                  *)
ListIntact ==
    Calling \/ pc = "open" =>
        /\ Range(list) = Usable /\ Len(list) = Cardinality(Usable)
        /\ held \subseteq Usable \cup Range(Needs)

(* Nothing stays open after ip_close, or an ip_open that failed.           *)
NothingLeaks == pc = "closed" => held = {}

(* A frame to one host goes to the destination, or to a next hop the       *)
(* routing table gave for it during the call, and its hardware address was *)
(* in the ARP cache during the call.                                       *)
UnicastToNextHop ==
    \A i \in 1..Len(wire) :
        wire[i].to # Broadcast => wire[i].to \in heard \cap (hops \cup {dst})

(* A frame is broadcast only when three requests, each for the destination *)
(* or a next hop of it, brought no answer: some of them was not known then.*)
BroadcastIsLastResort ==
    \A i \in 1..Len(wire) :
        wire[i].to = Broadcast =>
            /\ count = 3 /\ dst \in lacked
            /\ asked \subseteq lacked \cap (hops \cup {dst})

(* What a receiver puts together from the frames: where each octet goes.   *)
Received ==
    UNION {{<<8 * wire[i].off + k, wire[i].from + k>> : k \in 0..(wire[i].n - 1)} :
              i \in 1..Len(wire)}
Delivered ==
    /\ Received = {<<k, k>> : k \in 0..(Body - 1)}
    /\ \A i \in 1..Len(wire) : ~wire[i].more <=> 8 * wire[i].off + wire[i].n = Body

(* ip_send returns the datagram's length exactly if a receiver can put it  *)
(* together from the frames sent.                                          *)
SuccessIsDelivery ==
    pc = "open" /\ ret # 0 => (ret = -1 <=> ~Delivered)

(* Every ip_send returns, whatever the network answers.                    *)
SendReturns == pc = "lookup" ~> pc = "open"
=============================================================================
