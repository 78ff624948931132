------------------------------- MODULE Tables -------------------------------
(***************************************************************************)
(* ARP and routing tables changed entry by entry: arp_add, arp_delete and  *)
(* arp_get by ioctls, where Linux wants an interface's name, which is      *)
(* looked for beforehand; route_add, route_delete and route_get by ioctls  *)
(* (HP-UX); and all of them by the IP helper calls of Windows.  Addresses  *)
(* are 0 .. 7, of Bits = 3 bits.                                           *)
(***************************************************************************)
EXTENDS Integers, Sequences, SequencesExt, FiniteSets

CONSTANTS
    Builds,      \* of "linux", "streams", "hpux" and "windows"
    Cards,       \* interfaces in order: [name, eth, addr, bits]
    Macs,        \* link addresses
    Dests,       \* what is asked for: [addr, bits]
    Gateways,
    Known,       \* entries and routes that are there from the start
    MaxTbOthers, MaxTbCalls   \* bounds

Bits == 3
Size == <<8, 4, 2, 1>>   \* of a network of no, one, two or three bits
Prefix(a, bits) == a \div Size[bits + 1]
Net(d) == [addr |-> Prefix(d.addr, d.bits) * Size[d.bits + 1], bits |-> d.bits]
Covers(d, a) == Prefix(d.addr, d.bits) = Prefix(a, d.bits)
IsHost(d) == d.bits = Bits

CardNames == {Cards[i].name : i \in DOMAIN Cards}
TbNets == [addr : 0 .. 7, bits : 0 .. Bits]

ASSUME TablesAssumption ==
    /\ Builds \subseteq {"linux", "streams", "hpux", "windows"}
    /\ Dests \subseteq TbNets /\ Dests # {}
    /\ Cards \in Seq([name : CardNames, eth : BOOLEAN, addr : 0 .. 7, bits : 0 .. Bits])
    /\ CardNames \cap {"none", "all"} = {} /\ \A i, j \in DOMAIN Cards : Cards[i].name = Cards[j].name => i = j
    /\ MaxTbOthers \in Nat /\ MaxTbCalls \in Nat

(* ARP is for Ethernet; a table has one entry for an address, one route    *)
(* for a network, and a route's network is cut to its bits.  Among the     *)
(* routes are those to the interfaces' own networks, which are local.      *)
ASSUME KnownAssumption ==
    /\ Known.arp \subseteq [pa : 0 .. 7, dev : {Cards[i].name : i \in {j \in DOMAIN Cards : Cards[j].eth}},
                           ha : Macs, com : BOOLEAN]
    /\ \A e, f \in Known.arp : e.pa = f.pa /\ e.dev = f.dev => e = f
    /\ \A r \in Known.routes : r.net \in TbNets /\ Net(r.net) = r.net /\ r.dev \in {Cards[i].name : i \in DOMAIN Cards}
    /\ \A r, s \in Known.routes : r.net = s.net => r = s

VARIABLES
    tbBuild,
    tbArp,       \* the kernel's ARP entries: [pa, dev, ha, com]
    tbRoutes,    \* the kernel's routes: [net, gw, local, dev]
    tbCards,     \* the kernel's interfaces
    tbAt,        \* the call: [pc, table, op, dst, val]
    tbFound,     \* what it has found so far: a name, or a route
    tbRet, tbGot,   \* what it returned
    tbOthers, tbCalls,
    tbBefore,    \* history: the tables when it was called
    tbQuiet      \* history: others left them alone and the kernel refused nothing
tbHist == <<tbOthers, tbCalls, tbBefore>>
tbVars == <<tbBuild, tbArp, tbRoutes, tbCards, tbAt, tbFound, tbRet, tbGot, tbHist, tbQuiet>>

(* The kernel: the interface of the longest prefix, and the longest route. *)
Longest(S, d(_)) == CHOOSE x \in S : \A y \in S : d(x).bits >= d(y).bits
KDev(a) ==
    LET on == {i \in DOMAIN tbCards : Covers(tbCards[i], a)}
    IN IF on = {} THEN "none" ELSE tbCards[Longest(on, LAMBDA i : tbCards[i])].name
Ways(a) == {r \in tbRoutes : Covers(r.net, a)}
Best(a) == Longest(Ways(a), LAMBDA r : r.net)
(* Where an address is reached: Windows asks the routing table for it.     *)
Through(a) ==
    IF tbBuild # "windows" THEN KDev(a) ELSE IF Ways(a) = {} THEN "none" ELSE Best(a).dev
Entries(a, dev) == {e \in tbArp : e.pa = a /\ e.dev = dev}

TbInit ==
    /\ tbBuild \in Builds /\ tbCards = Cards /\ tbArp = Known.arp /\ tbRoutes = Known.routes
    /\ tbAt = [pc |-> "idle", table |-> "none", op |-> "none", dst |-> CHOOSE d \in Dests : TRUE, val |-> 0]
    /\ tbFound = "none" /\ tbRet = 0 /\ tbGot = 0 /\ tbOthers = 0 /\ tbCalls = 0
    /\ tbBefore = [arp |-> tbArp, routes |-> tbRoutes] /\ tbQuiet = TRUE
----------------------------------------------------------------------------
TbReturn(ret, got, arp, routes) ==
    /\ tbAt' = [tbAt EXCEPT !.pc = "idle"] /\ tbRet' = ret /\ tbGot' = got
    /\ tbArp' = arp /\ tbRoutes' = routes
    /\ UNCHANGED <<tbBuild, tbCards, tbFound, tbHist>>
TbFails == TbReturn(-1, tbGot, tbArp, tbRoutes) /\ UNCHANGED tbQuiet
TbGoes(pc, found) ==
    /\ tbAt' = [tbAt EXCEPT !.pc = pc] /\ tbFound' = found
    /\ UNCHANGED <<tbBuild, tbArp, tbRoutes, tbCards, tbRet, tbGot, tbHist, tbQuiet>>

LooksFirst(table, op) == tbBuild = "windows" \/ (tbBuild = "linux" /\ table = "arp" /\ op # "delete")
TbCall(table, op, dst, val) ==
    /\ tbAt.pc = "idle" /\ tbCalls < MaxTbCalls /\ tbCalls' = tbCalls + 1
    /\ tbAt' = [pc |-> IF LooksFirst(table, op) THEN "look" ELSE "do", table |-> table, op |-> op, dst |-> dst, val |-> val]
    /\ tbFound' = "none" /\ tbBefore' = [arp |-> tbArp, routes |-> tbRoutes] /\ tbQuiet' = TRUE
    /\ UNCHANGED <<tbBuild, tbArp, tbRoutes, tbCards, tbRet, tbGot, tbOthers>>
Pa == tbAt.dst.addr
Doing(table, op) == tbAt.pc = "do" /\ tbAt.table = table /\ tbAt.op = op

(* _arp_set_dev over intf_loop: the first Ethernet interface whose network *)
(* has the address, and no interface is an error.                          *)
AnyCard(c) == c.eth                                       \* mutant: the network not looked at
OnNet(c) == c.eth /\ Covers(c, Pa)
SetDev ==
    /\ tbAt.pc = "look" /\ tbBuild = "linux"
    /\ LET i == SelectInSeq(tbCards, OnNet)
       IN IF i = 0 THEN TbFails ELSE TbGoes("do", tbCards[i].name)
(* Windows: an entry goes where the best route to its address leads, by a  *)
(* gateway or not; a new route goes where the best one to its gateway      *)
(* leads, and a route to be deleted has to be the best one to its own      *)
(* network.  arp_get reads the whole table.                                *)
BestInterface ==
    /\ tbAt.pc = "look" /\ tbBuild = "windows"
    /\ \/ /\ tbAt.table = "arp" /\ tbAt.op # "get"
          /\ IF Through(Pa) = "none" THEN TbFails ELSE TbGoes("do", Through(Pa))
       \/ tbAt.table = "arp" /\ tbAt.op = "get" /\ TbGoes("do", "all")
       \/ /\ tbAt.table = "route" /\ tbAt.op = "add"
          /\ IF Through(tbAt.val) = "none" THEN TbFails ELSE TbGoes("do", Through(tbAt.val))
       \/ /\ tbAt.table = "route" /\ tbAt.op = "delete"
          /\ IF Ways(Pa) = {} \/ Best(Pa).net # tbAt.dst THEN TbFails ELSE TbGoes("do", Best(Pa))
       \/ tbAt.table = "route" /\ tbAt.op = "get" /\ TbGoes("do", "best")
Refuses == tbAt.pc # "idle" /\ TbReturn(-1, tbGot, tbArp, tbRoutes) /\ tbQuiet' = FALSE

(* Without a name the kernel takes the interface the address is on. *)
DevOf == IF tbFound \in {"none", "all"} THEN KDev(Pa) ELSE tbFound
ArpAdd ==
    /\ Doing("arp", "add")
    /\ IF DevOf = "none" THEN TbFails
       ELSE LET new == [pa |-> Pa, dev |-> DevOf, ha |-> tbAt.val, com |-> TRUE]
                arp == (tbArp \ Entries(Pa, DevOf)) \cup {new}
            IN \/ TbReturn(0, tbGot, arp, tbRoutes) /\ UNCHANGED tbQuiet
               \* a datagram is sent so that the entry shows in the MIB, and that may fail
               \/ tbBuild = "streams" /\ TbReturn(-1, tbGot, arp, tbRoutes) /\ tbQuiet' = FALSE
ArpDelete ==
    /\ Doing("arp", "delete")
    /\ IF Entries(Pa, DevOf) = {} THEN TbFails
       ELSE TbReturn(0, tbGot, tbArp \ Entries(Pa, DevOf), tbRoutes) /\ UNCHANGED tbQuiet
Answers(S) == IF S = {} THEN TbFails ELSE \E e \in S : TbReturn(0, e.ha, tbArp, tbRoutes) /\ UNCHANGED tbQuiet
ArpGet ==
    /\ Doing("arp", "get")
    /\ Answers(IF tbFound = "all" THEN {e \in tbArp : e.pa = Pa} ELSE {e \in Entries(Pa, DevOf) : e.com})

NewRoute == [net |-> IF IsHost(tbAt.dst) THEN tbAt.dst ELSE Net(tbAt.dst), gw |-> tbAt.val, local |-> FALSE, dev |-> tbFound]
Same(n) == {r \in tbRoutes : r.net = n}
TbRouteAdd ==
    /\ Doing("route", "add")
    /\ IF Same(NewRoute.net) # {} THEN TbFails
       ELSE TbReturn(0, tbGot, tbArp, tbRoutes \cup {NewRoute}) /\ UNCHANGED tbQuiet
TbRouteDelete ==
    /\ Doing("route", "delete")
    /\ LET gone == IF tbBuild = "windows" THEN {tbFound} \cap tbRoutes ELSE Same(NewRoute.net)
       IN IF gone = {} THEN TbFails
          ELSE TbReturn(0, tbGot, tbArp, tbRoutes \ gone) /\ UNCHANGED tbQuiet
(* HP-UX asks for a host of its own in place of the default route.         *)
Target == IF tbBuild = "hpux" /\ Pa = 0 THEN 6 ELSE Pa
TbRouteGet ==
    /\ Doing("route", "get")
    /\ IF Ways(Target) = {} \/ Best(Target).local THEN TbFails
       ELSE TbReturn(0, Best(Target).gw, tbArp, tbRoutes) /\ UNCHANGED tbQuiet

OthersChangeTables ==
    /\ tbOthers < MaxTbOthers /\ tbOthers' = tbOthers + 1 /\ tbQuiet' = FALSE
    /\ \/ /\ tbBuild # "windows"     \* where the routes to its network would go with it
          /\ \E i \in DOMAIN tbCards, a \in 0 .. 7 : tbCards' = [tbCards EXCEPT ![i].addr = a]
          /\ UNCHANGED <<tbArp, tbRoutes>>
       \/ /\ \E e \in tbArp : tbArp' = (tbArp \ {e}) \cup {[e EXCEPT !.com = FALSE]}
          /\ UNCHANGED <<tbCards, tbRoutes>>
       \/ /\ \E r \in tbRoutes : tbRoutes' = tbRoutes \ {r}
          /\ UNCHANGED <<tbCards, tbArp>>
    /\ UNCHANGED <<tbBuild, tbAt, tbFound, tbRet, tbGot, tbCalls, tbBefore>>

TbNext ==
    \/ \E d \in Dests :
          \/ /\ tbBuild # "hpux" /\ IsHost(d)
             /\ \/ \E m \in Macs : TbCall("arp", "add", d, m)
                \/ TbCall("arp", "delete", d, 0) \/ TbCall("arp", "get", d, 0)
          \/ /\ tbBuild \in {"hpux", "windows"}
             /\ \/ \E g \in Gateways : TbCall("route", "add", d, g)
                \/ TbCall("route", "delete", d, 0)
                \/ (IsHost(d) \/ d.addr = 0) /\ TbCall("route", "get", d, 0)
    \/ SetDev \/ BestInterface \/ Refuses
    \/ ArpAdd \/ ArpDelete \/ ArpGet \/ TbRouteAdd \/ TbRouteDelete \/ TbRouteGet
    \/ OthersChangeTables
----------------------------------------------------------------------------
TbTypeOK ==
    /\ tbBuild \in Builds /\ tbRet \in {-1, 0} /\ tbAt.dst \in Dests
    /\ \A e \in tbArp : e.ha \in Macs /\ e.dev \in CardNames
    /\ \A e, f \in tbArp : e.pa = f.pa /\ e.dev = f.dev => e = f
    /\ \A r, s \in tbRoutes : r.net = s.net => r = s

(* arp_add and arp_get take the first Ethernet interface with a network     *)
(* that has the address, the kernel (and arp_delete) the longest: they     *)
(* agree where networks do not overlap.                                    *)
Disjoint ==
    \A i, j \in DOMAIN tbCards : i # j =>
        ~Covers(tbCards[i], tbCards[j].addr) /\ ~Covers(tbCards[j], tbCards[i].addr)
Unchanged == tbArp = tbBefore.arp /\ tbRoutes = tbBefore.routes
(* When a call of these returns and nobody interfered, on networks that do *)
(* not overlap, an entry that was added is where the kernel will look for  *)
(* its address, with nothing else disturbed; one that was deleted is gone; *)
(* what was got is what the kernel uses (on Windows, what it has at some   *)
(* interface: a route that moved leaves entries behind); and a failure     *)
(* changed nothing, and told the truth about the entry it did not find     *)
(* (dnet.3:366, 556).                                                      *)
TablesTold ==
    tbAt.pc = "idle" /\ tbQuiet /\ tbCalls > 0 /\ Disjoint =>
        LET mine == Entries(Pa, Through(Pa))
            named == Same(tbAt.dst)
        IN /\ tbRet = -1 => Unchanged
           /\ tbAt.table = "arp" =>
                /\ tbAt.op = "add" /\ tbRet = 0 =>
                      /\ \E e \in mine : e.ha = tbAt.val /\ e.com
                      /\ tbArp \ mine = {e \in tbBefore.arp : e.pa # Pa \/ e.dev # Through(Pa)}
                /\ tbAt.op = "delete" => mine = {}
                /\ tbAt.op = "get" /\ tbRet = 0 =>
                      \E e \in tbArp : e.pa = Pa /\ e.ha = tbGot /\ (tbBuild # "windows" => e \in mine)
                /\ tbAt.op = "get" /\ tbRet = -1 => ~ \E e \in mine : e.com
           /\ tbAt.table = "route" =>
                /\ tbAt.op = "add" /\ tbRet = 0 => tbRoutes = tbBefore.routes \cup {NewRoute}
                /\ tbAt.op = "delete" /\ (\A r \in tbRoutes : r.net.addr = Pa => r.net = tbAt.dst) => named = {}
                /\ tbAt.op = "delete" /\ tbRet = 0 => \E r \in tbBefore.routes : tbBefore.routes = tbRoutes \cup {r}
                /\ tbAt.op = "get" /\ tbRet = 0 => tbGot = Best(Target).gw
=============================================================================
