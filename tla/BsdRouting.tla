----------------------------- MODULE BsdRouting -----------------------------
(***************************************************************************)
(* arp-bsd.c and route-bsd.c: ARP and routing handles that talk to the     *)
(* kernel over routing sockets.  A request is written to the handle's      *)
(* socket; the kernel carries it out before write returns and sends its    *)
(* reply, as it does every other message, to EVERY open routing socket.    *)
(* A handle finds its own reply by process id and sequence number.         *)
(*                                                                         *)
(* The kernel's table maps a host destination to a link-level address (an  *)
(* ARP entry) or to a gateway (a route); Net stands for the network that   *)
(* covers all of them and answers a lookup no host entry matches.          *)
(***************************************************************************)
EXTENDS Integers, Sequences, FiniteSets

CONSTANTS
    Handle,       \* open handles
    Kind,         \* "arp" or "route", of each
    Pid,          \* the process each belongs to
    Dst, Net,     \* host destinations, and the covering network
    Ha, Link,     \* link-level addresses, and that of a network
    Gw,           \* gateways
    None,         \* no entry
    Kernel,       \* the pid of messages the kernel sends by itself
    QueueMax,     \* messages a socket buffer holds; more are dropped
    MaxSeq,       \* bound: requests a handle makes
    MaxNews,      \* bound: changes the kernel makes by itself
    MaxFaults     \* bound: system calls that fail for reasons of their own

ASSUME HandleAssumption ==
    /\ Kind \in [Handle -> {"arp", "route"}]
    /\ Kernel \notin {Pid[h] : h \in Handle}
ASSUME ValueAssumption ==
    /\ Net \notin Dst
    /\ None \notin Ha \cup Gw \cup {Link} /\ (Ha \cup {Link}) \cap Gw = {}
ASSUME BoundAssumption == {QueueMax, MaxSeq, MaxNews, MaxFaults} \subseteq Nat

VARIABLES
    table,     \* the kernel's table
    queue,     \* what each socket has received and its handle not yet read
    seq,       \* arp->seq and r->seq
    pc,        \* where a handle is in its call
    arg,       \* the call: operation, destination and value
    req,       \* the request it makes, or made last
    odd,       \* arp_msg: an odd number of foreign messages was read
    heard,     \* the type and the gateway of the message in the buffer
    done,      \* what the last call returned
    news,      \* changes the kernel has made by itself
    faults,    \* system calls that have failed for reasons of their own
    seen,      \* history: entries for dst and Net while the call ran
    wrote,     \* history: the keys of the table the call changed
    repeated,  \* history: whether the call repeated a request
    fault      \* history: which system calls of the call failed so

kernel  == <<table, queue>>
history == <<seen, wrote, repeated, fault>>
vars == <<kernel, seq, pc, arg, req, odd, heard, done, news, faults, history>>

LinkLevel == Ha \cup {Link}
Value == LinkLevel \cup Gw
Key == Dst \cup {Net}
Types == {"GET", "ADD", "DELETE"}
Request == [type : Types, dst : Key, val : Value \cup {None}]
Errnos == {"none", "ESRCH", "EEXIST"}
Message == [type : Types, pid : {Pid[h] : h \in Handle} \cup {Kernel}, seq : Nat,
            dst : Key, val : Value \cup {None}, err : Errnos]
ArpOps == {"arp_add", "arp_delete", "arp_get"}
RouteOps == {"route_add", "route_delete", "route_get"}

-----------------------------------------------------------------------------
(* The kernel, which is not part of libdnet.                               *)

Match(d) == IF table[d] # None THEN d ELSE Net

Errno(r) ==
    LET entry == table[IF r.type = "GET" THEN Match(r.dst) ELSE r.dst] IN
    IF r.type = "ADD" THEN IF entry # None THEN "EEXIST" ELSE "none"
                      ELSE IF entry = None THEN "ESRCH" ELSE "none"

Changes(r) == r.type # "GET" /\ Errno(r) = "none"

TableAfter(r) ==
    IF Changes(r)
    THEN [table EXCEPT ![r.dst] = IF r.type = "ADD" THEN r.val ELSE None]
    ELSE table

Reply(r, pid, n) ==
    LET found == r.type = "GET" /\ Errno(r) = "none" IN
    [type |-> r.type, pid |-> pid, seq |-> n,
     dst |-> IF found THEN Match(r.dst) ELSE r.dst,
     val |-> IF found THEN table[Match(r.dst)] ELSE r.val,
     err |-> Errno(r)]

(* Every socket gets the message, the requester's too, if it has room.     *)
Broadcast(m) ==
    queue' = [h \in Handle |-> IF Len(queue[h]) < QueueMax
                               THEN Append(queue[h], m) ELSE queue[h]]

Witness == seen' = [h \in Handle |->
    IF pc[h] = "idle" THEN seen[h] ELSE seen[h] \cup {<<table'[arg[h].dst], table'[Net]>>}]

(* The kernel learns or forgets a link-level address by itself.            *)
News(d) ==
    /\ news < MaxNews
    /\ \E r \in [type : {"ADD", "DELETE"}, dst : {d}, val : Ha] :
          /\ r.type = "DELETE" => table[d] \in Ha
          /\ Changes(r)
          /\ table' = TableAfter(r)
          /\ Broadcast(Reply(r, Kernel, 0))
    /\ Witness
    /\ news' = news + 1
    /\ UNCHANGED <<seq, pc, arg, req, odd, heard, done, faults, wrote, repeated, fault>>

-----------------------------------------------------------------------------
(* Calls. *)

Init ==
    /\ table \in [Key -> Value \cup {None}]
    /\ table[Net] \in {Link} \cup Gw /\ \A d \in Dst : table[d] # Link
    /\ queue = [h \in Handle |-> <<>>]
    /\ seq = [h \in Handle |-> 0]
    /\ pc = [h \in Handle |-> "idle"]
    /\ arg = [h \in Handle |-> [op |-> "open", dst |-> Net, val |-> None]]
    /\ req = [h \in Handle |-> [type |-> "GET", dst |-> Net, val |-> None]]
    /\ odd = [h \in Handle |-> FALSE]
    /\ heard = [h \in Handle |-> [type |-> "GET", val |-> None]]
    /\ done = [h \in Handle |-> [ret |-> 0, val |-> None]]
    /\ news = 0 /\ faults = 0
    /\ seen = [h \in Handle |-> {}]
    /\ wrote = [h \in Handle |-> {}]
    /\ repeated = [h \in Handle |-> FALSE]
    /\ fault = [h \in Handle |-> {}]

(* route_add asks at once; every other call begins with a lookup.          *)
Call(h, op, d, v) ==
    /\ pc[h] = "idle" /\ seq[h] + 2 <= MaxSeq
    /\ op \in IF Kind[h] = "arp" THEN ArpOps ELSE RouteOps
    /\ op = "arp_add" => v \in Ha
    /\ op = "route_add" => v \in Gw
    /\ op \notin {"arp_add", "route_add"} => v = None
    /\ pc' = [pc EXCEPT ![h] = "send"]
    /\ arg' = [arg EXCEPT ![h] = [op |-> op, dst |-> d, val |-> v]]
    /\ req' = [req EXCEPT ![h] =
                 IF op = "route_add" THEN [type |-> "ADD", dst |-> d, val |-> v]
                                     ELSE [type |-> "GET", dst |-> d, val |-> None]]
    /\ seen' = [seen EXCEPT ![h] = {<<table[d], table[Net]>>}]
    /\ wrote' = [wrote EXCEPT ![h] = {}]
    /\ repeated' = [repeated EXCEPT ![h] = FALSE]
    /\ fault' = [fault EXCEPT ![h] = {}]
    /\ UNCHANGED <<kernel, seq, odd, heard, done, news, faults>>

Returns(h, ret, v) ==
    /\ pc' = [pc EXCEPT ![h] = "idle"]
    /\ done' = [done EXCEPT ![h] = [ret |-> ret, val |-> v]]

Goes(h, to) == pc' = [pc EXCEPT ![h] = to] /\ UNCHANGED done

(* The write system call: the kernel acts and answers within it.           *)
KernelActs(h, n) ==
    /\ table' = TableAfter(req[h])
    /\ Broadcast(Reply(req[h], Pid[h], n))
    /\ wrote' = [wrote EXCEPT ![h] = @ \cup (IF Changes(req[h]) THEN {req[h].dst} ELSE {})]
    /\ Witness

(* arp_msg lets ESRCH pass when it deletes.                                *)
ToleratesAll(err, type) == TRUE              \* mutant: errno not looked at
Tolerated(err, type) == err = "none" \/ (err = "ESRCH" /\ type = "DELETE")

CountsDown(h) == seq[h] - 1                  \* mutant: --arp->seq
KeepsSeq(h) == seq[h]                        \* mutant: arp->seq
NextSeq(h) == seq[h] + 1

Send(h) ==
    LET r == req[h] IN
    /\ pc[h] = "send"
    /\ seq' = [seq EXCEPT ![h] = NextSeq(h)]
    /\ KernelActs(h, NextSeq(h))
    /\ odd' = [odd EXCEPT ![h] = FALSE]
    /\ heard' = [heard EXCEPT ![h] = [type |-> r.type, val |-> r.val]]
    /\ IF Kind[h] = "arp"
       THEN IF Tolerated(Errno(r), r.type) THEN Goes(h, "wait") ELSE Returns(h, -1, None)
       ELSE IF Errno(r) # "none" THEN Returns(h, -1, None)
            ELSE IF r.type = "GET" THEN Goes(h, "wait") ELSE Returns(h, 0, None)
    /\ UNCHANGED <<arg, req, news, faults, repeated, fault>>

(* arp_msg writes the request again.  The type it tests is that of the     *)
(* message it read last.                                                   *)
Repeat(h) ==
    /\ pc[h] = "again"
    /\ KernelActs(h, seq[h])
    /\ repeated' = [repeated EXCEPT ![h] = TRUE]
    /\ IF Tolerated(Errno(req[h]), heard[h].type) THEN Goes(h, "wait") ELSE Returns(h, -1, None)
    /\ UNCHANGED <<seq, arg, req, odd, heard, news, faults, fault>>

MineBySeq(h, m) == m.seq = seq[h]            \* mutant: no look at the pid
MineLater(h, m) == m.pid = Pid[h] /\ m.seq > seq[h]    \* mutant: seq++ after
Mine(h, m) == m.pid = Pid[h] /\ m.seq = seq[h] /\ (Kind[h] = "route" => m.type = "GET")

Pops(h) ==
    /\ pc[h] = "wait" /\ queue[h] # <<>>
    /\ queue' = [queue EXCEPT ![h] = Tail(@)]
    /\ heard' = [heard EXCEPT ![h] = [type |-> Head(queue[h]).type, val |-> Head(queue[h]).val]]
    /\ UNCHANGED <<table, seq, arg, news, seen, wrote, repeated>>

(* A message that is not the reply.  arp_msg repeats its request at every  *)
(* second one that another process caused; route_msg only reads on.        *)
ReadOther(h) ==
    LET m == Head(queue[h])
        foreign == Kind[h] = "arp" /\ m.pid # Pid[h]
    IN
    /\ Pops(h) /\ ~Mine(h, m)
    /\ odd' = [odd EXCEPT ![h] = IF foreign THEN ~@ ELSE @]
    /\ Goes(h, IF foreign /\ odd[h] THEN "again" ELSE "wait")
    /\ UNCHANGED <<req, faults, fault>>

(* The reply: the call ends, or asks for the change it is meant to make.   *)
Asks(h, r) == Goes(h, "send") /\ req' = [req EXCEPT ![h] = r]
Ends(h, ret, v) == Returns(h, ret, v) /\ UNCHANGED req

Found(h, m) ==
    IF arg[h].op \in ArpOps
    THEN m.val \in LinkLevel /\ (arg[h].op = "arp_get" => m.dst = arg[h].dst)
    ELSE m.err = "none" /\ m.val \in Gw

AlwaysLookup(h) == TRUE                      \* mutant: judges every reply
IsLookup(h) == req[h].type = "GET"

ReadReply(h) ==
    LET m == Head(queue[h])
        op == arg[h].op
    IN
    /\ Pops(h) /\ Mine(h, m)
    /\ \/ ~IsLookup(h) /\ Ends(h, 0, None)
       \/ IsLookup(h) /\ ~Found(h, m) /\ Ends(h, -1, None)
       \/ /\ IsLookup(h) /\ Found(h, m)
          /\ \/ op = "arp_add" /\ Asks(h, [type |-> "ADD", dst |-> arg[h].dst, val |-> arg[h].val])
             \/ op = "arp_delete" /\ Asks(h, [type |-> "DELETE", dst |-> m.dst, val |-> m.val])
             \/ op = "route_delete" /\ Asks(h, [type |-> "DELETE", dst |-> arg[h].dst, val |-> m.val])
             \/ op \in {"arp_get", "route_get"} /\ Ends(h, 0, m.val)
    /\ UNCHANGED <<odd, faults, fault>>

-----------------------------------------------------------------------------
(* System calls that fail for reasons of their own.                        *)

Faults(h, what) ==
    /\ faults < MaxFaults /\ faults' = faults + 1
    /\ fault' = [fault EXCEPT ![h] = @ \cup {what}]

(* A write refused before the kernel looks at the request: a signal, no    *)
(* memory, no privilege.                                                   *)
WriteFails(h) ==
    /\ pc[h] \in {"send", "again"} /\ Faults(h, "write")
    /\ seq' = [seq EXCEPT ![h] = IF pc[h] = "send" THEN NextSeq(h) ELSE @]
    /\ repeated' = [repeated EXCEPT ![h] = @ \/ pc[h] = "again"]
    /\ Returns(h, -1, None)
    /\ UNCHANGED <<kernel, arg, req, odd, heard, news, seen, wrote>>

(* A read interrupted by a signal, or told that a message was dropped.     *)
(* arp_msg fails.  route_msg leaves its loop and goes on with the buffer   *)
(* as it stands, its own request or the message read last: it takes the    *)
(* gateway in it, or the caller's where there is none; a link-level        *)
(* gateway, an interface without a name, or a caller's gateway that is no  *)
(* address makes it fail.                                                  *)
ReadFails(h) ==
    LET op == arg[h].op
        v == heard[h].val
    IN
    /\ pc[h] = "wait" /\ Faults(h, "read")
    /\ \/ op \in ArpOps /\ Ends(h, -1, None)
       \/ /\ op \in RouteOps /\ IsLookup(h)
          /\ \/ op = "route_get" /\ v \notin LinkLevel /\ Ends(h, 0, v)
             \/ /\ op = "route_delete" /\ v \notin LinkLevel
                /\ Asks(h, [type |-> "DELETE", dst |-> arg[h].dst, val |-> v])
             \/ (v # None \/ op = "route_delete") /\ Ends(h, -1, None)
    /\ UNCHANGED <<kernel, seq, arg, odd, heard, news, seen, wrote, repeated>>

(* The reply's interface has no name any more.                             *)
NameFails(h) ==
    LET m == Head(queue[h]) IN
    /\ Pops(h) /\ Mine(h, m) /\ Faults(h, "name")
    /\ arg[h].op \in RouteOps /\ IsLookup(h) /\ Found(h, m)
    /\ Ends(h, -1, None)
    /\ UNCHANGED odd

-----------------------------------------------------------------------------
Step(h) == Send(h) \/ Repeat(h) \/ ReadOther(h) \/ ReadReply(h)

Next ==
    \/ \E h \in Handle : Step(h)
    \/ \E h \in Handle : WriteFails(h) \/ ReadFails(h) \/ NameFails(h)
    \/ \E h \in Handle, op \in ArpOps \cup RouteOps, d \in Dst, v \in Ha \cup Gw \cup {None} :
          Call(h, op, d, v)
    \/ \E d \in Dst : News(d)

Spec == Init /\ [][Next]_vars

(* A handle's thread keeps running: a read returns when there is a message *)
(* and a write always returns.                                             *)
FairSpec == Spec /\ \A h \in Handle : WF_vars(Step(h))

-----------------------------------------------------------------------------
(* Properties. *)

Phases == {"idle", "send", "wait", "again"}
Ops == ArpOps \cup RouteOps \cup {"open"}

(* The variables hold values of their types.                               *)
TypeOK ==
    /\ table \in [Key -> Value \cup {None}]
    /\ queue \in [Handle -> Seq(Message)]
    /\ seq \in [Handle -> Nat]
    /\ pc \in [Handle -> Phases]
    /\ arg \in [Handle -> [op : Ops, dst : Key, val : Value \cup {None}]]
    /\ req \in [Handle -> Request]
    /\ odd \in [Handle -> BOOLEAN]
    /\ heard \in [Handle -> [type : Types, val : Value \cup {None}]]
    /\ done \in [Handle -> [ret : {0, -1}, val : Value \cup {None}]]
    /\ news \in Nat /\ faults \in Nat
    /\ seen \in [Handle -> SUBSET ((Value \cup {None}) \X (Value \cup {None}))]
    /\ wrote \in [Handle -> SUBSET Key]
    /\ repeated \in [Handle -> BOOLEAN]
    /\ fault \in [Handle -> SUBSET {"write", "read", "name"}]

(* While a handle waits, a message in its socket that carries its process  *)
(* id and sequence number answers the request it made: left-over replies   *)
(* of earlier or repeated requests, and those of others, do not match.     *)
Answers(m, r) == m.type = r.type /\ (m.dst = r.dst \/ (r.type = "GET" /\ m.dst = Net))
ReplyIsMine ==
    \A h \in Handle : pc[h] \in {"wait", "again"} =>
        \A i \in 1..Len(queue[h]) :
            Mine(h, queue[h][i]) => Answers(queue[h][i], req[h])

Succeeded(h, op) == pc[h] = "idle" /\ arg[h].op = op /\ done[h].ret = 0

(* What arp_get delivers was in the table while it ran, and so was what    *)
(* route_get delivers if no read of its failed.                            *)
RouteTrue(h) == \E s \in seen[h] : done[h].val = IF s[1] # None THEN s[1] ELSE s[2]
GetIsTrue ==
    \A h \in Handle :
        /\ Succeeded(h, "arp_get") => \E s \in seen[h] : s[1] = done[h].val
        /\ Succeeded(h, "route_get") /\ "read" \notin fault[h] => RouteTrue(h)

(* dnet.3: route_get retrieves the entry for the destination it is given,  *)
(* and returns -1 on failure: what it delivers was a route while it ran.   *)
RouteGetIsTrue == \A h \in Handle : Succeeded(h, "route_get") => RouteTrue(h)

(* When a change is reported done, the table showed it while the call ran: *)
(* the new entry, or its absence.                                          *)
SuccessHappened ==
    \A h \in Handle :
        /\ Succeeded(h, "arp_add") \/ Succeeded(h, "route_add") =>
              \E s \in seen[h] : s[1] = arg[h].val
        /\ Succeeded(h, "arp_delete") \/ Succeeded(h, "route_delete") =>
              \E s \in seen[h] : s[1] = None

(* A call that failed changed nothing, unless it had repeated a request or *)
(* a read of its failed.                                                   *)
Failed(h) == pc[h] = "idle" /\ done[h].ret = -1
FailureChangedNothing ==
    \A h \in Handle : Failed(h) /\ ~repeated[h] /\ "read" \notin fault[h] => wrote[h] = {}

(* dnet.3: every routine returns 0 on success and -1 on failure; a call    *)
(* that failed changed nothing.                                            *)
FailureIsFailure == \A h \in Handle : Failed(h) => wrote[h] = {}

(* dnet.3: arp_delete deletes the entry for the address it is given; no    *)
(* call changes another entry.                                             *)
OnlyItsEntry == \A h \in Handle : wrote[h] \subseteq {arg[h].dst}

(* dnet.3: arp_get retrieves the entry for the address it is given, and    *)
(* fails only when there is none: some moment of the call had no link-     *)
(* level entry.  The same for route_get and gateways.  All this if no      *)
(* system call of the call failed for a reason of its own.                 *)
FailureIsTrue ==
    \A h \in Handle : Failed(h) /\ fault[h] = {} =>
        /\ arg[h].op = "arp_get" => \E s \in seen[h] : s[1] \notin LinkLevel
        /\ arg[h].op = "route_get" =>
              \E s \in seen[h] : (IF s[1] # None THEN s[1] ELSE s[2]) \notin Gw

(* Every call returns. *)
CallsReturn == \A h \in Handle : pc[h] # "idle" ~> pc[h] = "idle"
=============================================================================
