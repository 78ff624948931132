----------------------------- MODULE RouteLinux -----------------------------
(***************************************************************************)
(* route-linux.c: a routing handle changes the kernel's table with ioctls  *)
(* and looks routes up over a netlink socket of its own.  The kernel       *)
(* answers a lookup before sendmsg returns; a signal may interrupt the     *)
(* recvmsg that follows, and the answer stays in the socket.  The sequence *)
(* number is a static variable, common to the handles of the process,      *)
(* whose one thread makes one call after the other.                        *)
(***************************************************************************)
EXTENDS Integers, Sequences

CONSTANTS
    Handle,
    Dst,          \* destinations
    Default,          \* 0.0.0.0: the destination of the default route
    Probe,        \* 6.6.6.6, asked for in place of Default
    Gw,           \* gateways, each on an interface of its own
    OnLink,       \* a route without gateway
    None,         \* no route
    MaxSeq,       \* bound: lookups
    MaxCuts       \* bound: interrupted lookups of a handle

ASSUME RouteAssumption ==
    /\ Default \notin Dst /\ Probe \notin Dst /\ Default # Probe
    /\ OnLink \notin Gw /\ None \notin Gw \cup {OnLink}
    /\ MaxSeq \in Nat /\ MaxCuts \in Nat

VARIABLES
    table,      \* the kernel's routing table
    queue,      \* answers in each netlink socket
    seq,        \* the static variable
    pc, cur, arg,      \* the call: where it is, its handle and arguments
    done,       \* what the last call returned, once it has
    cuts,       \* history: interrupted lookups of each handle
    cut,        \* history: this call was cut short by a signal, a failed sendmsg
                \* or a vanished interface
    seen        \* history: what the kernel would have answered, while it ran
call   == <<pc, cur, arg>>
vars   == <<table, queue, seq, call, done, cuts, cut, seen>>

Key == Dst \cup {Default, Probe}
Route == Gw \cup {OnLink, None}
Answer == [seq : Nat, route : Route]
Ops == {"route_add", "route_delete", "route_get"}

Nothing == [ret |-> -1, gw |-> None]

(* The kernel, which is not part of libdnet.                               *)
Best(d) == IF table[d] # None THEN table[d] ELSE table[Default]

(* A default route is looked up by an address that is hoped to have no     *)
(* other route.                                                            *)
Asks(d) == IF d = Default THEN Probe ELSE d
Observe == seen' = IF pc = "idle" THEN seen ELSE seen \cup {Best(Asks(arg.dst))'}

(* Others change the table. *)
Change(d, r) ==
    /\ table[d] # r /\ table' = [table EXCEPT ![d] = r]
    /\ UNCHANGED <<queue, seq, call, done, cuts, cut>> /\ Observe

-----------------------------------------------------------------------------
Init ==
    /\ table \in [Key -> Route]
    /\ queue = [h \in Handle |-> <<>>] /\ seq = 0
    /\ pc = "idle" /\ cur \in Handle /\ arg = [op |-> "route_get", dst |-> Default, gw |-> None]
    /\ done = Nothing
    /\ cuts = [h \in Handle |-> 0] /\ cut = FALSE /\ seen = {None}

Call(h, op, d, g) ==
    /\ pc = "idle" /\ pc' = op /\ cur' = h
    /\ op = "route_add" <=> g # None
    /\ arg' = [op |-> op, dst |-> d, gw |-> g]
    /\ done' = Nothing /\ cut' = FALSE /\ seen' = {Best(Asks(d))}
    /\ UNCHANGED <<table, queue, seq, cuts>>

Return(ret, g) == pc' = "idle" /\ done' = [ret |-> ret, gw |-> g] /\ UNCHANGED <<cur, arg>>

(* ioctl SIOCADDRT. *)
RouteAdd ==
    /\ pc = "route_add"
    /\ \/ table[arg.dst] = None /\ table' = [table EXCEPT ![arg.dst] = arg.gw] /\ Return(0, None)
       \/ table[arg.dst] # None /\ Return(-1, None) /\ UNCHANGED table
    /\ UNCHANGED <<queue, seq, cuts, cut>> /\ Observe

(* ioctl SIOCDELRT. *)
RouteDelete ==
    /\ pc = "route_delete"
    /\ table' = [table EXCEPT ![arg.dst] = None]
    /\ Return(IF table[arg.dst] # None THEN 0 ELSE -1, None)
    /\ UNCHANGED <<queue, seq, cuts, cut>> /\ Observe

OldSeq == seq                          \* mutant: nlmsg_seq = seq++
SentSeq == seq + 1

(* sendmsg; it may fail.  Lookups that find no route are answered too.     *)
SendLookup ==
    /\ pc = "route_get" /\ seq < MaxSeq
    /\ seq' = seq + 1
    /\ \/ /\ queue' = [queue EXCEPT ![cur] =
                          Append(@, [seq |-> SentSeq, route |-> Best(Asks(arg.dst))])]
          /\ pc' = "recvmsg" /\ UNCHANGED <<cur, arg, done, cut>>
       \/ Return(-1, None) /\ cut' = TRUE /\ UNCHANGED queue
    /\ UNCHANGED <<table, cuts, seen>>

(* A signal interrupts recvmsg. *)
Interrupt ==
    /\ pc = "recvmsg" /\ cuts[cur] < MaxCuts
    /\ Return(-1, None)
    /\ cuts' = [cuts EXCEPT ![cur] = @ + 1] /\ cut' = TRUE
    /\ UNCHANGED <<table, queue, seq, seen>>

AnySeq(m) == TRUE                      \* mutant: nlmsg_seq not looked at
Current(m) == m.seq = seq

AnyRoute(m) == m.route # None          \* mutant: no test for ADDR_TYPE_NONE
HasGateway(m) == m.route \in Gw

ReadsAll(q) == <<>>                    \* mutant: reads on
Rest(q) == Tail(q)

(* The gateway's interface may have gone: if_indextoname finds no name.    *)
ReadAnswer ==
    LET m == Head(queue[cur]) IN
    /\ pc = "recvmsg" /\ queue[cur] # <<>>
    /\ queue' = [queue EXCEPT ![cur] = Rest(@)]
    /\ \/ Current(m) /\ HasGateway(m) /\ Return(0, m.route) /\ UNCHANGED cut
       \/ Current(m) /\ HasGateway(m) /\ Return(-1, None) /\ cut' = TRUE
       \/ ~(Current(m) /\ HasGateway(m)) /\ Return(-1, None) /\ UNCHANGED cut
    /\ UNCHANGED <<table, seq, cuts, seen>>

-----------------------------------------------------------------------------
Step == RouteAdd \/ RouteDelete \/ SendLookup \/ Interrupt \/ ReadAnswer

Next ==
    \/ Step
    \/ \E h \in Handle, op \in Ops, d \in Dst \cup {Default}, g \in Gw \cup {None} : Call(h, op, d, g)
    \/ \E d \in Key, r \in Route : Change(d, r)

Spec == Init /\ [][Next]_vars

-----------------------------------------------------------------------------
(* Properties. *)

(* The variables hold values of their types.                               *)
TypeOK ==
    /\ table \in [Key -> Route]
    /\ queue \in [Handle -> Seq(Answer)] /\ seq \in Nat
    /\ pc \in Ops \cup {"idle", "recvmsg"} /\ cur \in Handle
    /\ arg \in [op : Ops, dst : Dst \cup {Default}, gw : Gw \cup {None}]
    /\ done \in [ret : {0, -1}, gw : Gw \cup {None}]
    /\ cuts \in [Handle -> Nat] /\ cut \in BOOLEAN /\ seen \subseteq Route

(* A gateway that route_get delivers is the one the kernel had while it    *)
(* ran, whatever lookups were interrupted before.                          *)
GetIsTrue ==
    pc = "idle" /\ arg.op = "route_get" /\ done.ret = 0 => done.gw \in seen \cap Gw

(* On a handle none of whose lookups was interrupted route_get fails only  *)
(* if the kernel had no gateway at some moment of the call.                *)
FailsOnlyWithoutGateway ==
    pc = "idle" /\ arg.op = "route_get" /\ done.ret = -1 => ~(seen \subseteq Gw)
FailureIsTrue == cuts[cur] = 0 /\ ~cut => FailsOnlyWithoutGateway

(* Each interrupted lookup leaves one answer in the handle's socket, and   *)
(* nothing takes it out: every later lookup reads the answer before its    *)
(* own.                                                                    *)
BacklogIsCuts ==
    \A h \in Handle :
        Len(queue[h]) = cuts[h] + (IF pc = "recvmsg" /\ cur = h THEN 1 ELSE 0)

(* dnet.3: route_get retrieves the entry for the destination; it returns   *)
(* -1 on failure: interrupted, no gateway, or a vanished interface.        *)
Recovers == ~cut => FailsOnlyWithoutGateway
=============================================================================
