-------------------------- MODULE BsdRoutingProofs --------------------------
(***************************************************************************)
(* Proofs about BsdRouting, for any handles of different processes, any    *)
(* table, any socket buffers and any bounds.  The argument: a handle's     *)
(* sequence number grows, so that among the messages in its socket those   *)
(* with its process id are no newer than its last request (Fresh); those   *)
(* that carry its number were therefore written since that request, and    *)
(* tell what the table was while the call ran (Tells).                     *)
(***************************************************************************)
EXTENDS BsdRouting, TLAPS

(* No two handles belong to one process. *)
OwnProcess == \A g, h \in Handle : Pid[g] = Pid[h] => g = h

InQueue(h) == {queue[h][i] : i \in 1..Len(queue[h])}
Waiting(h) == pc[h] \in {"wait", "again"}

(* The answer to a lookup tells what the table was at some moment of the   *)
(* call.                                                                   *)
Tells(h, m) ==
    \E s \in seen[h] :
        \/ m.err = "none" /\ s[1] # None /\ m.dst = arg[h].dst /\ m.val = s[1]
        \/ m.err = "none" /\ s[1] = None /\ s[2] # None /\ m.dst = Net /\ m.val = s[2]
        \/ m.err # "none" /\ s[1] = None /\ s[2] = None /\ m.dst = arg[h].dst /\ m.val = None

Fresh(h) == \A m \in InQueue(h) : m.pid = Pid[h] => m.seq <= seq[h]

Truthful(h) ==
    Waiting(h) => \A m \in InQueue(h) : m.pid = Pid[h] /\ m.seq = seq[h] =>
        /\ m.type = req[h].type
        /\ m.type = "GET" => Tells(h, m)
        /\ m.type # "GET" => m.dst = req[h].dst

(* The request belongs to the call. *)
Asked(h) ==
    pc[h] # "idle" =>
        /\ arg[h].op \in IF Kind[h] = "arp" THEN ArpOps ELSE RouteOps
        /\ arg[h].dst \in Dst
        /\ req[h].type = "GET" => req[h].dst = arg[h].dst /\ req[h].val = None
                                  /\ arg[h].op # "route_add"
        /\ req[h].type = "ADD" => /\ arg[h].op \in {"arp_add", "route_add"}
                                  /\ req[h].dst = arg[h].dst /\ req[h].val = arg[h].val
        /\ req[h].type = "DELETE" => /\ arg[h].op \in {"arp_delete", "route_delete"}
                                     /\ \/ req[h].dst = arg[h].dst
                                        \/ \E s \in seen[h] : s[1] = None

(* A change that was asked for and not refused was seen in the table.      *)
Changed(h) ==
    Waiting(h) =>
        /\ req[h].type = "ADD" => \E s \in seen[h] : s[1] = arg[h].val
        /\ req[h].type = "DELETE" => \E s \in seen[h] : s[1] = None

(* Nothing was changed before a change was asked for.                      *)
Untouched(h) == pc[h] = "send" \/ (Waiting(h) /\ req[h].type = "GET") => wrote[h] = {}

(* The results of a finished call are as the properties say.               *)
Results(h) ==
    /\ Succeeded(h, "arp_get") => \E s \in seen[h] : s[1] = done[h].val
    /\ Succeeded(h, "route_get") /\ "read" \notin fault[h] => RouteTrue(h)
    /\ Succeeded(h, "arp_add") \/ Succeeded(h, "route_add") =>
          \E s \in seen[h] : s[1] = arg[h].val
    /\ Succeeded(h, "arp_delete") \/ Succeeded(h, "route_delete") =>
          \E s \in seen[h] : s[1] = None
    /\ Failed(h) /\ ~repeated[h] /\ "read" \notin fault[h] => wrote[h] = {}
    /\ Failed(h) /\ fault[h] = {} /\ arg[h].op = "arp_get" => \E s \in seen[h] : s[1] \notin LinkLevel
    /\ Failed(h) /\ fault[h] = {} /\ arg[h].op = "route_get" =>
          \E s \in seen[h] : (IF s[1] # None THEN s[1] ELSE s[2]) \notin Gw

Facts(h) ==
    Fresh(h) /\ Truthful(h) /\ Asked(h) /\ Changed(h) /\ Untouched(h) /\ Results(h)

IInv == TypeOK /\ \A h \in Handle : Facts(h)

-----------------------------------------------------------------------------
(* What the kernel does. *)

(* A broadcast adds at most its message to a socket.                       *)
LEMMA BroadcastAdds ==
    ASSUME queue \in [Handle -> Seq(Message)], NEW m \in Message, Broadcast(m)
    PROVE  /\ queue' \in [Handle -> Seq(Message)]
           /\ \A h \in Handle : InQueue(h)' \subseteq InQueue(h) \cup {m}
<1>1. \A h \in Handle : Append(queue[h], m) \in Seq(Message)
  OBVIOUS
<1>2. queue' \in [Handle -> Seq(Message)]
  BY <1>1 DEF Broadcast
<1>3. ASSUME NEW h \in Handle PROVE InQueue(h)' \subseteq InQueue(h) \cup {m}
  <2> DEFINE q == queue[h]
  <2>1. q \in Seq(Message)
    OBVIOUS
  <2>2. CASE Len(q) < QueueMax
    <3>1. queue'[h] = Append(q, m)
      BY <2>2 DEF Broadcast
    <3>2. \A i \in 1..Len(queue'[h]) : queue'[h][i] = m \/ (i \in 1..Len(q) /\ queue'[h][i] = q[i])
      BY <2>1, <3>1
    <3>3. QED  BY <3>2 DEF InQueue
  <2>3. CASE ~(Len(q) < QueueMax)
    BY <2>3 DEF Broadcast, InQueue
  <2>4. QED  BY <2>2, <2>3
<1>4. QED  BY <1>2, <1>3

LEMMA InQueueType ==
    ASSUME TypeOK, NEW h \in Handle
    PROVE  InQueue(h) \subseteq Message /\ \A m \in InQueue(h) : m.seq \in Nat
<1>1. queue[h] \in Seq(Message)
  BY DEF TypeOK
<1>2. InQueue(h) \subseteq Message
  BY <1>1 DEF InQueue
<1>3. QED  BY <1>2 DEF Message

LEMMA TableType ==
    ASSUME table \in [Key -> Value \cup {None}], NEW r \in Request
    PROVE  TableAfter(r) \in [Key -> Value \cup {None}]
BY DEF TableAfter, Request

(* A reply names its request and tells what the table holds.               *)
LEMMA ReplyType ==
    ASSUME table \in [Key -> Value \cup {None}], NEW r \in Request,
           NEW p \in {Pid[h] : h \in Handle} \cup {Kernel}, NEW n \in Nat
    PROVE  /\ Reply(r, p, n) \in Message
           /\ Reply(r, p, n).pid = p /\ Reply(r, p, n).seq = n
           /\ Reply(r, p, n).type = r.type
           /\ r.type # "GET" => Reply(r, p, n).dst = r.dst
<1> DEFINE found == r.type = "GET" /\ Errno(r) = "none"
           d == IF found THEN Match(r.dst) ELSE r.dst
           v == IF found THEN table[Match(r.dst)] ELSE r.val
<1>1. r.type \in Types /\ r.dst \in Key /\ r.val \in Value \cup {None}
  BY DEF Request
<1>2. Match(r.dst) \in Key
  BY <1>1 DEF Match, Key
<1>3. Errno(r) \in Errnos
  BY <1>1 DEF Errno, Errnos, Types
<1>4. d \in Key /\ v \in Value \cup {None}
  BY <1>1, <1>2
<1>5. Reply(r, p, n) = [type |-> r.type, pid |-> p, seq |-> n, dst |-> d, val |-> v, err |-> Errno(r)]
  BY DEF Reply
<1> HIDE DEF d, v
<1>6. Reply(r, p, n) \in Message
  BY <1>1, <1>3, <1>4, <1>5 DEF Message
<1>7. r.type # "GET" => d = r.dst
  BY DEF d
<1>8. QED  BY <1>5, <1>6, <1>7

(* What a message to the kernel does to the variables, whoever sends it.   *)
LEMMA WitnessType ==
    ASSUME TypeOK, table' \in [Key -> Value \cup {None}], Witness
    PROVE  /\ seen' \in [Handle -> SUBSET ((Value \cup {None}) \X (Value \cup {None}))]
           /\ \A h \in Handle : seen[h] \subseteq seen'[h]
           /\ \A h \in Handle : pc[h] # "idle" =>
                 <<table'[arg[h].dst], table'[Net]>> \in seen'[h]
<1>1. \A h \in Handle : arg[h].dst \in Key
  BY DEF TypeOK
<1>2. Net \in Key
  BY DEF Key
<1>3. \A h \in Handle :
         <<table'[arg[h].dst], table'[Net]>> \in (Value \cup {None}) \X (Value \cup {None})
  BY <1>1, <1>2
<1>4. QED  BY <1>3 DEF Witness, TypeOK

LEMMA ActsType ==
    ASSUME TypeOK, NEW h \in Handle, NEW n \in Nat, KernelActs(h, n)
    PROVE  /\ table' \in [Key -> Value \cup {None}]
           /\ queue' \in [Handle -> Seq(Message)]
           /\ wrote' \in [Handle -> SUBSET Key]
           /\ seen' \in [Handle -> SUBSET ((Value \cup {None}) \X (Value \cup {None}))]
           /\ \A g \in Handle : seen[g] \subseteq seen'[g]
           /\ \A g \in Handle : InQueue(g)' \subseteq InQueue(g) \cup {Reply(req[h], Pid[h], n)}
           /\ \A g \in Handle \ {h} : wrote'[g] = wrote[g]
<1>1. req[h] \in Request /\ table \in [Key -> Value \cup {None}]
      /\ queue \in [Handle -> Seq(Message)] /\ wrote \in [Handle -> SUBSET Key]
  BY DEF TypeOK
<1>2. table' \in [Key -> Value \cup {None}]
  BY <1>1, TableType DEF KernelActs
<1>3. Reply(req[h], Pid[h], n) \in Message
  BY <1>1, ReplyType
<1>4. Broadcast(Reply(req[h], Pid[h], n)) /\ Witness
  BY DEF KernelActs
<1>5. /\ queue' \in [Handle -> Seq(Message)]
      /\ \A g \in Handle : InQueue(g)' \subseteq InQueue(g) \cup {Reply(req[h], Pid[h], n)}
  BY <1>1, <1>3, <1>4, BroadcastAdds
<1>6. req[h].dst \in Key
  BY <1>1 DEF Request
<1>7. wrote' \in [Handle -> SUBSET Key] /\ \A g \in Handle \ {h} : wrote'[g] = wrote[g]
  BY <1>1, <1>6 DEF KernelActs
<1>8. QED  BY <1>2, <1>4, <1>5, <1>7, WitnessType

-----------------------------------------------------------------------------
(* Types. *)

LEMMA InitType == Init => TypeOK
<1> SUFFICES ASSUME Init PROVE TypeOK
  OBVIOUS
<1>1. [type |-> "GET", dst |-> Net, val |-> None] \in Request
  BY DEF Request, Types, Key
<1>2. [op |-> "open", dst |-> Net, val |-> None] \in [op : Ops, dst : Key, val : Value \cup {None}]
  BY DEF Ops, Key
<1>3. [ret |-> 0, val |-> None] \in [ret : {0, -1}, val : Value \cup {None}]
  OBVIOUS
<1>4. queue \in [Handle -> Seq(Message)]
  BY DEF Init
<1>5. QED  BY <1>1, <1>2, <1>3, <1>4 DEF Init, TypeOK, Phases, Types

LEMMA GoesType ==
    ASSUME TypeOK, NEW h \in Handle, NEW to \in Phases, Goes(h, to)
    PROVE  /\ pc' \in [Handle -> Phases]
           /\ done' \in [Handle -> [ret : {0, -1}, val : Value \cup {None}]]
BY DEF TypeOK, Goes

LEMMA ReturnsType ==
    ASSUME TypeOK, NEW h \in Handle, NEW ret \in {0, -1}, NEW v \in Value \cup {None},
           Returns(h, ret, v)
    PROVE  /\ pc' \in [Handle -> Phases]
           /\ done' \in [Handle -> [ret : {0, -1}, val : Value \cup {None}]]
BY DEF TypeOK, Returns, Phases

LEMMA NewsType ==
    ASSUME TypeOK, NEW d \in Dst, News(d)
    PROVE  TypeOK' /\ \E m : /\ m.pid = Kernel
                             /\ \A g \in Handle : InQueue(g)' \subseteq InQueue(g) \cup {m}
<1>1. PICK r \in [type : {"ADD", "DELETE"}, dst : {d}, val : Ha] :
         /\ table' = TableAfter(r)
         /\ Broadcast(Reply(r, Kernel, 0))
  BY DEF News
<1>2. r \in Request
  BY DEF Request, Types, Key, Value, LinkLevel
<1> DEFINE m == Reply(r, Kernel, 0)
<1>3. table \in [Key -> Value \cup {None}] /\ queue \in [Handle -> Seq(Message)] /\ news \in Nat
  BY DEF TypeOK
<1>4. m \in Message /\ m.pid = Kernel
  BY <1>2, <1>3, ReplyType
<1>5. table' \in [Key -> Value \cup {None}]
  BY <1>1, <1>2, <1>3, TableType
<1> HIDE DEF m
<1>6. /\ queue' \in [Handle -> Seq(Message)]
      /\ \A g \in Handle : InQueue(g)' \subseteq InQueue(g) \cup {m}
  BY <1>1, <1>3, <1>4, BroadcastAdds DEF m
<1>7. seen' \in [Handle -> SUBSET ((Value \cup {None}) \X (Value \cup {None}))]
  BY <1>5, WitnessType DEF News
<1>8. news' \in Nat
  BY <1>3 DEF News
<1>9. TypeOK'
  BY <1>5, <1>6, <1>7, <1>8 DEF News, TypeOK
<1>10. QED  BY <1>4, <1>6, <1>9

LEMMA CallType ==
    ASSUME TypeOK, NEW h \in Handle, NEW op \in ArpOps \cup RouteOps, NEW d \in Dst,
           NEW v \in Ha \cup Gw \cup {None}, Call(h, op, d, v)
    PROVE  TypeOK'
<1>1. d \in Key /\ v \in Value \cup {None}
  BY DEF Key, Value, LinkLevel
<1>2. [op |-> op, dst |-> d, val |-> v] \in [op : Ops, dst : Key, val : Value \cup {None}]
  BY <1>1 DEF Ops
<1>3. arg' \in [Handle -> [op : Ops, dst : Key, val : Value \cup {None}]]
  BY <1>2 DEF Call, TypeOK
<1>4. /\ [type |-> "ADD", dst |-> d, val |-> v] \in Request
      /\ [type |-> "GET", dst |-> d, val |-> None] \in Request
  BY <1>1 DEF Request, Types
<1>5. req' \in [Handle -> Request]
  BY <1>4 DEF Call, TypeOK
<1>6. <<table[d], table[Net]>> \in (Value \cup {None}) \X (Value \cup {None})
  BY <1>1 DEF TypeOK, Key
<1>7. seen' \in [Handle -> SUBSET ((Value \cup {None}) \X (Value \cup {None}))]
  BY <1>6 DEF Call, TypeOK
<1>8. /\ pc' \in [Handle -> Phases]
      /\ wrote' \in [Handle -> SUBSET Key] /\ repeated' \in [Handle -> BOOLEAN]
      /\ fault' \in [Handle -> SUBSET {"write", "read", "name"}]
  BY DEF Call, TypeOK, Phases
<1>9. UNCHANGED <<table, queue, seq, odd, heard, done, news, faults>>
  BY DEF Call, kernel
<1>10. QED  BY <1>3, <1>5, <1>7, <1>8, <1>9 DEF TypeOK

LEMMA SendType == ASSUME TypeOK, NEW h \in Handle, Send(h) PROVE TypeOK'
<1>1. /\ seq[h] + 1 \in Nat /\ seq' \in [Handle -> Nat] /\ KernelActs(h, seq[h] + 1)
  BY DEF TypeOK, Send, NextSeq
<1>2. /\ table' \in [Key -> Value \cup {None}]
      /\ queue' \in [Handle -> Seq(Message)]
      /\ wrote' \in [Handle -> SUBSET Key]
      /\ seen' \in [Handle -> SUBSET ((Value \cup {None}) \X (Value \cup {None}))]
  BY <1>1, ActsType
<1>3. \/ Goes(h, "wait") \/ Returns(h, -1, None) \/ Returns(h, 0, None)
  BY DEF Send
<1>4. /\ pc' \in [Handle -> Phases]
      /\ done' \in [Handle -> [ret : {0, -1}, val : Value \cup {None}]]
  <2>1. "wait" \in Phases /\ None \in Value \cup {None} /\ {0, -1} \subseteq {0, -1}
    BY DEF Phases
  <2>2. QED  BY <1>3, <2>1, GoesType, ReturnsType
<1>5. /\ odd' \in [Handle -> BOOLEAN]
      /\ heard' \in [Handle -> [type : Types, val : Value \cup {None}]]
      /\ UNCHANGED <<arg, req, news, faults, repeated, fault>>
  BY DEF Send, TypeOK, Request
<1>6. QED  BY <1>1, <1>2, <1>4, <1>5 DEF TypeOK

LEMMA RepeatType == ASSUME TypeOK, NEW h \in Handle, Repeat(h) PROVE TypeOK'
<1>1. seq[h] \in Nat /\ KernelActs(h, seq[h])
  BY DEF TypeOK, Repeat
<1>2. /\ table' \in [Key -> Value \cup {None}]
      /\ queue' \in [Handle -> Seq(Message)]
      /\ wrote' \in [Handle -> SUBSET Key]
      /\ seen' \in [Handle -> SUBSET ((Value \cup {None}) \X (Value \cup {None}))]
  BY <1>1, ActsType
<1>3. Goes(h, "wait") \/ Returns(h, -1, None)
  BY DEF Repeat
<1>4. /\ pc' \in [Handle -> Phases]
      /\ done' \in [Handle -> [ret : {0, -1}, val : Value \cup {None}]]
  <2>1. "wait" \in Phases /\ None \in Value \cup {None}
    BY DEF Phases
  <2>2. QED  BY <1>3, <2>1, GoesType, ReturnsType
<1>5. /\ repeated' \in [Handle -> BOOLEAN]
      /\ UNCHANGED <<seq, arg, req, odd, heard, news, faults, fault>>
  BY DEF Repeat, TypeOK
<1>6. QED  BY <1>2, <1>4, <1>5 DEF TypeOK

(* Reading takes the first message out of the handle's own socket.         *)
LEMMA PopsType ==
    ASSUME TypeOK, NEW h \in Handle, Pops(h)
    PROVE  /\ Head(queue[h]) \in Message /\ Head(queue[h]) \in InQueue(h)
           /\ queue' \in [Handle -> Seq(Message)]
           /\ heard' \in [Handle -> [type : Types, val : Value \cup {None}]]
           /\ \A g \in Handle : InQueue(g)' \subseteq InQueue(g)
           /\ pc[h] = "wait"
           /\ UNCHANGED <<table, seq, arg, news, seen, wrote, repeated>>
<1> DEFINE q == queue[h]
<1>1. q \in Seq(Message) /\ q # <<>> /\ queue \in [Handle -> Seq(Message)]
  BY DEF TypeOK, Pops
<1>2. Tail(q) \in Seq(Message) /\ 1 \in 1..Len(q) /\ Head(q) = q[1] /\ Head(q) \in Message
  BY <1>1
<1>3. queue' \in [Handle -> Seq(Message)] /\ queue'[h] = Tail(q)
  BY <1>1, <1>2 DEF Pops
<1>4. Head(q).type \in Types /\ Head(q).val \in Value \cup {None}
  BY <1>2 DEF Message
<1>5. heard' \in [Handle -> [type : Types, val : Value \cup {None}]]
  BY <1>4 DEF Pops, TypeOK
<1>6. \A i \in 1..Len(Tail(q)) : i + 1 \in 1..Len(q) /\ Tail(q)[i] = q[i + 1]
  BY <1>1
<1>7. InQueue(h)' \subseteq InQueue(h)
  BY <1>3, <1>6 DEF InQueue
<1>8. \A g \in Handle \ {h} : InQueue(g)' = InQueue(g)
  BY DEF Pops, InQueue, TypeOK
<1>9. pc[h] = "wait" /\ UNCHANGED <<table, seq, arg, news, seen, wrote, repeated>>
  BY DEF Pops
<1>10. q[1] \in InQueue(h)
  BY <1>2 DEF InQueue
<1>11. \A g \in Handle : InQueue(g)' \subseteq InQueue(g)
  BY <1>7, <1>8
<1> HIDE DEF q
<1>12. QED  BY <1>2, <1>3, <1>5, <1>9, <1>10, <1>11 DEF q

LEMMA ReadOtherType == ASSUME TypeOK, NEW h \in Handle, ReadOther(h) PROVE TypeOK'
<1>1. Pops(h) /\ UNCHANGED <<req, faults, fault>> /\ (Goes(h, "again") \/ Goes(h, "wait"))
  BY DEF ReadOther
<1>2. "again" \in Phases /\ "wait" \in Phases
  BY DEF Phases
<1>3. /\ pc' \in [Handle -> Phases]
      /\ done' \in [Handle -> [ret : {0, -1}, val : Value \cup {None}]]
  BY <1>1, <1>2, GoesType
<1>4. odd' \in [Handle -> BOOLEAN]
  BY DEF ReadOther, TypeOK
<1>5. QED  BY <1>1, <1>3, <1>4, PopsType DEF TypeOK

LEMMA ReadReplyType == ASSUME TypeOK, NEW h \in Handle, ReadReply(h) PROVE TypeOK'
<1> DEFINE m == Head(queue[h])
<1>1. Pops(h) /\ UNCHANGED <<odd, faults, fault>>
  BY DEF ReadReply
<1>2. m \in Message /\ queue' \in [Handle -> Seq(Message)]
      /\ heard' \in [Handle -> [type : Types, val : Value \cup {None}]]
      /\ UNCHANGED <<table, seq, arg, news, seen, wrote, repeated>>
  BY <1>1, PopsType
<1>3. m.val \in Value \cup {None} /\ m.dst \in Key
      /\ arg[h].dst \in Key /\ arg[h].val \in Value \cup {None}
  BY <1>2 DEF Message, TypeOK
<1>4. /\ [type |-> "ADD", dst |-> arg[h].dst, val |-> arg[h].val] \in Request
      /\ [type |-> "DELETE", dst |-> m.dst, val |-> m.val] \in Request
      /\ [type |-> "DELETE", dst |-> arg[h].dst, val |-> m.val] \in Request
  BY <1>3 DEF Request, Types
<1>5. \/ Ends(h, 0, None) \/ Ends(h, -1, None) \/ Ends(h, 0, m.val)
      \/ \E r \in Request : Asks(h, r)
  BY <1>4 DEF ReadReply
<1>6. /\ pc' \in [Handle -> Phases]
      /\ done' \in [Handle -> [ret : {0, -1}, val : Value \cup {None}]]
  <2>1. "send" \in Phases
    BY DEF Phases
  <2>2. \/ Goes(h, "send") \/ Returns(h, 0, None) \/ Returns(h, -1, None) \/ Returns(h, 0, m.val)
    BY <1>5 DEF Ends, Asks
  <2> HIDE DEF m
  <2>3. QED  BY <1>3, <2>1, <2>2, GoesType, ReturnsType
<1>7. req' \in [Handle -> Request]
  BY <1>5 DEF Ends, Asks, TypeOK
<1>8. QED  BY <1>1, <1>2, <1>6, <1>7 DEF TypeOK

-----------------------------------------------------------------------------
(* The facts about a handle's own steps. *)

(* What the steps of others, and of the kernel, leave a handle with.       *)
Stands(h) ==
    /\ pc'[h] = pc[h] /\ arg'[h] = arg[h] /\ req'[h] = req[h] /\ seq'[h] = seq[h]
    /\ done'[h] = done[h] /\ wrote'[h] = wrote[h] /\ repeated'[h] = repeated[h]
    /\ fault'[h] = fault[h] /\ seen[h] \subseteq seen'[h]

LEMMA OthersKeep ==
    ASSUME NEW h \in Handle, Facts(h), Stands(h), NEW m, m.pid # Pid[h],
           InQueue(h)' \subseteq InQueue(h) \cup {m}
    PROVE  Facts(h)'
<1>1. \A x \in InQueue(h)' : x.pid = Pid[h] => x \in InQueue(h)
  OBVIOUS
<1>2. Fresh(h)'
  BY <1>1 DEF Facts, Fresh, Stands
<1>3. \A x : Tells(h, x) => Tells(h, x)'
  BY DEF Tells, Stands
<1>4. Truthful(h)'
  BY <1>1, <1>3 DEF Facts, Truthful, Stands, Waiting
<1>5. Asked(h)' /\ Changed(h)' /\ Untouched(h)'
  BY DEF Facts, Asked, Changed, Untouched, Stands, Waiting
<1>6. Results(h)'
  BY DEF Facts, Results, RouteTrue, Succeeded, Failed, Stands
<1>7. QED  BY <1>2, <1>4, <1>5, <1>6 DEF Facts

(* A request the kernel has just acted on. *)
LEMMA ActsTell ==
    ASSUME TypeOK, NEW h \in Handle, Asked(h), pc[h] # "idle", NEW n \in Nat,
           KernelActs(h, n), arg'[h] = arg[h],
           NEW r, r = req[h], NEW m, m = Reply(r, Pid[h], n)
    PROVE  /\ m.pid = Pid[h] /\ m.seq = n /\ m.type = r.type
           /\ r.type # "GET" => m.dst = r.dst
           /\ r.type = "GET" => Tells(h, m)' /\ wrote'[h] = wrote[h]
           /\ Errno(r) # "none" => wrote'[h] = wrote[h]
           /\ r.type = "GET" /\ Errno(r) # "none" => <<None, None>> \in seen'[h]
           /\ r.type = "ADD" /\ Errno(r) = "none" => \E s \in seen'[h] : s[1] = arg[h].val
           /\ r.type = "DELETE" => \E s \in seen'[h] : s[1] = None
<1> DEFINE d == arg[h].dst
<1>1. /\ r \in Request /\ r.type \in Types /\ r.dst \in Key /\ d \in Dst /\ Net # d
      /\ table \in [Key -> Value \cup {None}] /\ d \in Key /\ Net \in Key
  BY ValueAssumption DEF TypeOK, Request, Asked, Key
<1>2. m.pid = Pid[h] /\ m.seq = n /\ m.type = r.type /\ (r.type # "GET" => m.dst = r.dst)
  BY <1>1, ReplyType
<1>3. /\ table' = TableAfter(r) /\ table' \in [Key -> Value \cup {None}]
      /\ <<table'[d], table'[Net]>> \in seen'[h] /\ seen[h] \subseteq seen'[h]
  <2>1. table' = TableAfter(r) /\ Witness
    BY DEF KernelActs
  <2>2. table' \in [Key -> Value \cup {None}]
    BY <2>1, <1>1, TableType
  <2>3. QED  BY <2>1, <2>2, WitnessType
<1>4. Errno(r) # "none" \/ r.type = "GET" => wrote'[h] = wrote[h] /\ table' = table
  BY <1>3 DEF KernelActs, Changes, TableAfter, TypeOK
<1>5. ASSUME r.type = "GET"
      PROVE  Tells(h, m)' /\ (Errno(r) # "none" => <<None, None>> \in seen'[h])
  <2>1. r.dst = d /\ r.val = None /\ table' = table
    BY <1>4, <1>5 DEF Asked
  <2>2. CASE table[d] # None
    <3>1. Errno(r) = "none" /\ Match(d) = d
      BY <1>5, <2>1, <2>2 DEF Errno, Match
    <3>2. m.err = "none" /\ m.dst = d /\ m.val = table[d]
      BY <1>5, <2>1, <3>1 DEF Reply
    <3>3. QED  BY <1>3, <2>1, <2>2, <3>1, <3>2 DEF Tells
  <2>3. CASE table[d] = None /\ table[Net] # None
    <3>1. Errno(r) = "none" /\ Match(d) = Net
      BY <1>5, <2>1, <2>3 DEF Errno, Match
    <3>2. m.err = "none" /\ m.dst = Net /\ m.val = table[Net]
      BY <1>5, <2>1, <3>1 DEF Reply
    <3>3. QED  BY <1>3, <2>1, <2>3, <3>1, <3>2 DEF Tells
  <2>4. CASE table[d] = None /\ table[Net] = None
    <3>1. Errno(r) = "ESRCH"
      BY <1>5, <2>1, <2>4 DEF Errno, Match
    <3>2. m.err = "ESRCH" /\ m.dst = d /\ m.val = None
      BY <1>5, <2>1, <3>1 DEF Reply
    <3>3. QED  BY <1>3, <2>1, <2>4, <3>1, <3>2 DEF Tells
  <2>5. QED  BY <2>2, <2>3, <2>4
<1>6. ASSUME r.type = "ADD", Errno(r) = "none"
      PROVE  \E s \in seen'[h] : s[1] = arg[h].val
  <2>1. r.dst = d /\ r.val = arg[h].val
    BY <1>6 DEF Asked
  <2>2. table'[d] = arg[h].val
    BY <1>1, <1>3, <1>6, <2>1 DEF TableAfter, Changes
  <2>3. QED  BY <1>3, <2>2
<1>7. ASSUME r.type = "DELETE"
      PROVE  \E s \in seen'[h] : s[1] = None
  <2>1. CASE r.dst = d
    <3>1. table'[d] = None
      BY <1>1, <1>3, <1>7, <2>1 DEF TableAfter, Changes, Errno
    <3>2. QED  BY <1>3, <3>1
  <2>2. CASE r.dst # d
    BY <1>3, <1>7, <2>2 DEF Asked
  <2>3. QED  BY <2>1, <2>2
<1>8. QED  BY <1>2, <1>4, <1>5, <1>6, <1>7

LEMMA CallFacts ==
    ASSUME TypeOK, NEW h \in Handle, Facts(h), NEW op \in ArpOps \cup RouteOps, NEW d \in Dst,
           NEW v \in Ha \cup Gw \cup {None}, Call(h, op, d, v)
    PROVE  Facts(h)'
<1>1. /\ pc'[h] = "send" /\ arg'[h] = [op |-> op, dst |-> d, val |-> v] /\ wrote'[h] = {}
      /\ op \in IF Kind[h] = "arp" THEN ArpOps ELSE RouteOps
      /\ queue' = queue /\ seq' = seq
      /\ req'[h] = IF op = "route_add" THEN [type |-> "ADD", dst |-> d, val |-> v]
                                       ELSE [type |-> "GET", dst |-> d, val |-> None]
  BY DEF Call, TypeOK, kernel
<1>2. Fresh(h)'
  BY <1>1 DEF Facts, Fresh, InQueue
<1>3. Truthful(h)' /\ Changed(h)' /\ Untouched(h)'
  BY <1>1 DEF Truthful, Changed, Untouched, Waiting
<1>4. Asked(h)'
  BY <1>1 DEF Asked
<1>5. Results(h)'
  BY <1>1 DEF Results, RouteTrue, Succeeded, Failed
<1>6. QED  BY <1>2, <1>3, <1>4, <1>5 DEF Facts

(* A call that asks for a change, or looks up, asks what its name says.    *)
LEMMA AskedTypes ==
    ASSUME TypeOK, NEW h \in Handle, Asked(h), pc[h] # "idle"
    PROVE  /\ arg[h].op \in {"arp_get", "route_get"} => req[h].type = "GET"
           /\ arg[h].op \in {"arp_add", "route_add"} => req[h].type \in {"GET", "ADD"}
           /\ arg[h].op \in {"arp_delete", "route_delete"} => req[h].type \in {"GET", "DELETE"}
           /\ arg[h].op = "route_add" => req[h].type = "ADD"
           /\ Kind[h] = "arp" => arg[h].op \in ArpOps
           /\ Kind[h] # "arp" => arg[h].op \in RouteOps
<1>1. req[h].type \in {"GET", "ADD", "DELETE"}
  BY DEF TypeOK, Request, Types
<1>2. QED  BY <1>1 DEF Asked, ArpOps, RouteOps

LEMMA SendFacts ==
    ASSUME TypeOK, NEW h \in Handle, Facts(h), Send(h)
    PROVE  Facts(h)'
<1> DEFINE r == req[h]
           m == Reply(r, Pid[h], seq[h] + 1)
<1>1. /\ pc[h] = "send" /\ seq[h] \in Nat /\ KernelActs(h, seq[h] + 1)
      /\ seq'[h] = seq[h] + 1 /\ UNCHANGED <<arg, req, repeated, fault>>
      /\ pc'[h] \in {"wait", "idle"}
      /\ Asked(h) /\ wrote[h] = {}
  BY DEF Send, TypeOK, NextSeq, Goes, Returns, Facts, Untouched
<1>2. PICK x : x = m
  OBVIOUS
<1>3. /\ x.pid = Pid[h] /\ x.seq = seq'[h] /\ x.type = r.type
      /\ r.type # "GET" => x.dst = r.dst
      /\ r.type = "GET" => Tells(h, x)' /\ wrote'[h] = wrote[h]
      /\ Errno(r) # "none" => wrote'[h] = wrote[h]
      /\ r.type = "GET" /\ Errno(r) # "none" => <<None, None>> \in seen'[h]
      /\ r.type = "ADD" /\ Errno(r) = "none" => \E s \in seen'[h] : s[1] = arg[h].val
      /\ r.type = "DELETE" => \E s \in seen'[h] : s[1] = None
  BY <1>1, <1>2, ActsTell
<1>4. InQueue(h)' \subseteq InQueue(h) \cup {x} /\ seen[h] \subseteq seen'[h]
  BY <1>1, <1>2, ActsType
<1> HIDE DEF m
<1>5. \A y \in InQueue(h)' : y.pid = Pid[h] => y.seq <= seq[h] \/ y = x
  BY <1>4 DEF Facts, Fresh
<1>6. \A y \in InQueue(h) : y.seq \in Nat
  BY InQueueType
<1>7. Fresh(h)'
  BY <1>1, <1>3, <1>4, <1>6 DEF Fresh, Facts
<1>8. Truthful(h)'
  <2>1. \A y \in InQueue(h)' : y.pid = Pid[h] /\ y.seq = seq'[h] => y = x
    BY <1>1, <1>5
  <2>2. QED  BY <1>1, <1>3, <2>1 DEF Truthful
<1>9. Asked(h)'
  BY <1>1, <1>4 DEF Asked
<1>10. CASE pc'[h] = "wait"
  <2>1. r.type = "ADD" => Errno(r) = "none"
    BY <1>10, <1>1 DEF Send, Goes, Returns, Tolerated, TypeOK
  <2>2. Changed(h)' /\ Untouched(h)'
    BY <1>1, <1>3, <1>10, <2>1 DEF Changed, Untouched, Waiting
  <2>3. Results(h)'
    BY <1>10 DEF Results, RouteTrue, Succeeded, Failed
  <2>4. QED  BY <1>7, <1>8, <1>9, <2>2, <2>3 DEF Facts
<1>11. CASE pc'[h] = "idle" /\ done'[h].ret = -1
  <2>1. Errno(r) # "none"
    BY <1>1, <1>11 DEF Send, Goes, Returns, Tolerated, TypeOK
  <2>2. arg[h].op \in {"arp_get", "route_get"} => <<None, None>> \in seen'[h]
    BY <1>1, <1>3, <2>1, AskedTypes
  <2>3. None \notin LinkLevel /\ None \notin Gw
    BY ValueAssumption DEF LinkLevel
  <2>4. Results(h)'
    BY <1>1, <1>3, <1>11, <2>1, <2>2, <2>3 DEF Results, RouteTrue, Succeeded, Failed
  <2>5. Changed(h)' /\ Untouched(h)'
    BY <1>11 DEF Changed, Untouched, Waiting
  <2>6. QED  BY <1>7, <1>8, <1>9, <2>4, <2>5 DEF Facts
<1>12. CASE pc'[h] = "idle" /\ done'[h].ret = 0
  <2>1. Kind[h] # "arp" /\ Errno(r) = "none" /\ r.type # "GET"
    BY <1>1, <1>12 DEF Send, Goes, Returns, Tolerated, TypeOK
  <2>2. /\ arg[h].op \in {"route_add", "route_delete"}
        /\ arg[h].op = "route_add" => r.type = "ADD"
        /\ arg[h].op = "route_delete" => r.type = "DELETE"
    BY <1>1, <2>1, AskedTypes DEF RouteOps
  <2>3. Results(h)'
    BY <1>1, <1>3, <1>12, <2>1, <2>2 DEF Results, RouteTrue, Succeeded, Failed
  <2>4. Changed(h)' /\ Untouched(h)'
    BY <1>12 DEF Changed, Untouched, Waiting
  <2>5. QED  BY <1>7, <1>8, <1>9, <2>3, <2>4 DEF Facts
<1>13. pc'[h] = "idle" => done'[h].ret \in {0, -1}
  BY <1>1 DEF Send, Goes, Returns, TypeOK
<1>14. QED  BY <1>1, <1>10, <1>11, <1>12, <1>13

LEMMA RepeatFacts ==
    ASSUME TypeOK, NEW h \in Handle, Facts(h), Repeat(h)
    PROVE  Facts(h)'
<1> DEFINE r == req[h]
           m == Reply(r, Pid[h], seq[h])
<1>1. /\ pc[h] = "again" /\ seq[h] \in Nat /\ KernelActs(h, seq[h])
      /\ UNCHANGED <<seq, arg, req, fault>> /\ repeated'[h] = TRUE
      /\ pc'[h] = "wait" \/ (pc'[h] = "idle" /\ done'[h].ret = -1)
      /\ Asked(h)
  BY DEF Repeat, TypeOK, Goes, Returns, Facts
<1>2. PICK x : x = m
  OBVIOUS
<1>3. /\ x.pid = Pid[h] /\ x.seq = seq[h] /\ x.type = r.type
      /\ r.type # "GET" => x.dst = r.dst
      /\ r.type = "GET" => Tells(h, x)' /\ wrote'[h] = wrote[h]
      /\ Errno(r) # "none" => wrote'[h] = wrote[h]
      /\ r.type = "GET" /\ Errno(r) # "none" => <<None, None>> \in seen'[h]
      /\ r.type = "ADD" /\ Errno(r) = "none" => \E s \in seen'[h] : s[1] = arg[h].val
      /\ r.type = "DELETE" => \E s \in seen'[h] : s[1] = None
  BY <1>1, <1>2, ActsTell
<1>4. InQueue(h)' \subseteq InQueue(h) \cup {x} /\ seen[h] \subseteq seen'[h]
  BY <1>1, <1>2, ActsType
<1> HIDE DEF m
<1>5. Fresh(h)'
  BY <1>1, <1>3, <1>4 DEF Fresh, Facts
<1>6. Truthful(h)'
  <2>1. \A y : Tells(h, y) => Tells(h, y)'
    BY <1>1, <1>4 DEF Tells
  <2>2. QED  BY <1>1, <1>3, <1>4, <2>1 DEF Truthful, Facts, Waiting
<1>7. Asked(h)'
  BY <1>1, <1>4 DEF Asked
<1>8. Changed(h)'
  BY <1>1, <1>4 DEF Changed, Waiting, Facts
<1>9. Untouched(h)'
  BY <1>1, <1>3 DEF Untouched, Waiting, Facts
<1>10. Results(h)'
  <2>1. CASE pc'[h] = "wait"
    BY <2>1 DEF Results, RouteTrue, Succeeded, Failed
  <2>2. CASE pc'[h] = "idle" /\ done'[h].ret = -1
    <3>1. Errno(r) # "none"
      BY <1>1, <2>2 DEF Repeat, Goes, Returns, Tolerated, TypeOK
    <3>2. arg[h].op \in {"arp_get", "route_get"} => <<None, None>> \in seen'[h]
      BY <1>1, <1>3, <3>1, AskedTypes
    <3>3. None \notin LinkLevel /\ None \notin Gw
      BY ValueAssumption DEF LinkLevel
    <3>4. QED  BY <1>1, <2>2, <3>2, <3>3 DEF Results, RouteTrue, Succeeded, Failed
  <2>3. QED  BY <1>1, <2>1, <2>2
<1>11. QED  BY <1>5, <1>6, <1>7, <1>8, <1>9, <1>10 DEF Facts

LEMMA ReadOtherFacts ==
    ASSUME TypeOK, NEW h \in Handle, Facts(h), ReadOther(h)
    PROVE  Facts(h)'
<1>1. /\ pc[h] = "wait" /\ pc'[h] \in {"wait", "again"}
      /\ InQueue(h)' \subseteq InQueue(h)
      /\ UNCHANGED <<table, seq, arg, req, seen, wrote, repeated, fault>>
  <2>1. Pops(h) /\ UNCHANGED <<req, fault>> /\ (Goes(h, "again") \/ Goes(h, "wait"))
    BY DEF ReadOther
  <2>2. QED  BY <2>1, PopsType DEF Goes, TypeOK
<1>2. Fresh(h)'
  BY <1>1 DEF Facts, Fresh
<1>3. Truthful(h)'
  <2>1. \A y : Tells(h, y) => Tells(h, y)'
    BY <1>1 DEF Tells
  <2>2. QED  BY <1>1, <2>1 DEF Facts, Truthful, Waiting
<1>4. Asked(h)' /\ Changed(h)' /\ Untouched(h)'
  BY <1>1 DEF Facts, Asked, Changed, Untouched, Waiting
<1>5. Results(h)'
  BY <1>1 DEF Results, RouteTrue, Succeeded, Failed
<1>6. QED  BY <1>2, <1>3, <1>4, <1>5 DEF Facts

(* What a reply that is found good, or not, tells of the table.            *)
LEMMA FoundTells ==
    ASSUME TypeOK, NEW h \in Handle, Asked(h), pc[h] # "idle",
           NEW m \in Message, Tells(h, m), req[h].type = "GET"
    PROVE  /\ Found(h, m) /\ arg[h].op = "arp_get" => \E s \in seen[h] : s[1] = m.val
           /\ Found(h, m) /\ arg[h].op = "route_get" =>
                 \E s \in seen[h] : m.val = IF s[1] # None THEN s[1] ELSE s[2]
           /\ Found(h, m) /\ m.dst # arg[h].dst => \E s \in seen[h] : s[1] = None
           /\ ~Found(h, m) /\ arg[h].op = "arp_get" => \E s \in seen[h] : s[1] \notin LinkLevel
           /\ ~Found(h, m) /\ arg[h].op = "route_get" =>
                 \E s \in seen[h] : (IF s[1] # None THEN s[1] ELSE s[2]) \notin Gw
<1>1. arg[h].dst \in Dst /\ Net # arg[h].dst
  BY ValueAssumption DEF Asked
<1>2. None \notin LinkLevel /\ None \notin Gw
  BY ValueAssumption DEF LinkLevel
<1>3. PICK s \in seen[h] :
        \/ m.err = "none" /\ s[1] # None /\ m.dst = arg[h].dst /\ m.val = s[1]
        \/ m.err = "none" /\ s[1] = None /\ s[2] # None /\ m.dst = Net /\ m.val = s[2]
        \/ m.err # "none" /\ s[1] = None /\ s[2] = None /\ m.dst = arg[h].dst /\ m.val = None
  BY DEF Tells
<1>4. /\ Found(h, m) /\ arg[h].op = "arp_get" => s[1] = m.val
      /\ ~Found(h, m) /\ arg[h].op = "arp_get" => s[1] \notin LinkLevel
  BY <1>1, <1>2, <1>3 DEF Found, ArpOps
<1>5. /\ Found(h, m) /\ arg[h].op = "route_get" => m.val = IF s[1] # None THEN s[1] ELSE s[2]
      /\ ~Found(h, m) /\ arg[h].op = "route_get" =>
            (IF s[1] # None THEN s[1] ELSE s[2]) \notin Gw
  BY <1>2, <1>3 DEF Found, ArpOps
<1>6. m.dst # arg[h].dst => s[1] = None
  BY <1>3
<1>7. QED  BY <1>4, <1>5, <1>6

LEMMA ReadReplyFacts ==
    ASSUME TypeOK, NEW h \in Handle, Facts(h), ReadReply(h)
    PROVE  Facts(h)'
<1>1. PICK m : m = Head(queue[h])
  OBVIOUS
<1>2. /\ Pops(h) /\ Mine(h, m)
      /\ \/ ~IsLookup(h) /\ Ends(h, 0, None)
         \/ IsLookup(h) /\ ~Found(h, m) /\ Ends(h, -1, None)
         \/ /\ IsLookup(h) /\ Found(h, m)
            /\ \/ /\ arg[h].op = "arp_add"
                  /\ Asks(h, [type |-> "ADD", dst |-> arg[h].dst, val |-> arg[h].val])
               \/ /\ arg[h].op = "arp_delete"
                  /\ Asks(h, [type |-> "DELETE", dst |-> m.dst, val |-> m.val])
               \/ /\ arg[h].op = "route_delete"
                  /\ Asks(h, [type |-> "DELETE", dst |-> arg[h].dst, val |-> m.val])
               \/ arg[h].op \in {"arp_get", "route_get"} /\ Ends(h, 0, m.val)
  BY <1>1 DEF ReadReply
<1>3. /\ m \in InQueue(h) /\ m \in Message /\ pc[h] = "wait"
      /\ InQueue(h)' \subseteq InQueue(h)
      /\ UNCHANGED <<seq, arg, seen, wrote, repeated, fault>>
  BY <1>1, <1>2, PopsType DEF ReadReply
<1>4. /\ Asked(h) /\ m.type = req[h].type
      /\ IsLookup(h) => req[h].type = "GET" /\ Tells(h, m) /\ wrote[h] = {}
  BY <1>2, <1>3 DEF Facts, Truthful, Untouched, Waiting, Mine, IsLookup
<1>5. Fresh(h)'
  BY <1>3 DEF Facts, Fresh
<1>6. pc'[h] \in {"send", "idle"}
  BY <1>2 DEF Ends, Asks, Goes, Returns, TypeOK
<1>7. Truthful(h)' /\ Changed(h)'
  BY <1>6 DEF Truthful, Changed, Waiting
<1>8. CASE ~IsLookup(h)
  <2>1. pc'[h] = "idle" /\ done'[h].ret = 0
    BY <1>2, <1>8 DEF Ends, Returns, TypeOK
  <2>2. req[h].type \in {"ADD", "DELETE"}
    BY <1>8 DEF IsLookup, TypeOK, Request, Types
  <2>3. /\ arg[h].op \notin {"arp_get", "route_get"}
        /\ arg[h].op \in {"arp_add", "route_add"} => req[h].type = "ADD"
        /\ arg[h].op \in {"arp_delete", "route_delete"} => req[h].type = "DELETE"
    BY <1>3, <1>4, <2>2, AskedTypes
  <2>4. Changed(h) /\ Waiting(h)
    BY <1>3 DEF Facts, Waiting
  <2>5. Results(h)'
    BY <1>3, <2>1, <2>3, <2>4 DEF Results, RouteTrue, Succeeded, Failed, Changed
  <2>6. Asked(h)' /\ Untouched(h)'
    BY <2>1 DEF Asked, Untouched, Waiting
  <2>7. QED  BY <1>5, <1>7, <2>5, <2>6 DEF Facts
<1>9. CASE IsLookup(h) /\ ~Found(h, m)
  <2>1. pc'[h] = "idle" /\ done'[h].ret = -1
    BY <1>2, <1>9 DEF Ends, Returns, TypeOK
  <2>2. /\ arg[h].op = "arp_get" => \E s \in seen[h] : s[1] \notin LinkLevel
        /\ arg[h].op = "route_get" =>
              \E s \in seen[h] : (IF s[1] # None THEN s[1] ELSE s[2]) \notin Gw
    BY <1>3, <1>4, <1>9, FoundTells
  <2>3. Results(h)'
    BY <1>3, <1>4, <1>9, <2>1, <2>2 DEF Results, RouteTrue, Succeeded, Failed
  <2>4. Asked(h)' /\ Untouched(h)'
    BY <2>1 DEF Asked, Untouched, Waiting
  <2>5. QED  BY <1>5, <1>7, <2>3, <2>4 DEF Facts
<1>10. CASE IsLookup(h) /\ Found(h, m) /\ arg[h].op \in {"arp_get", "route_get"}
  <2>1. pc'[h] = "idle" /\ done'[h].ret = 0 /\ done'[h].val = m.val
    BY <1>2, <1>10 DEF Ends, Returns, TypeOK
  <2>2. /\ arg[h].op = "arp_get" => \E s \in seen[h] : s[1] = m.val
        /\ arg[h].op = "route_get" =>
              \E s \in seen[h] : m.val = IF s[1] # None THEN s[1] ELSE s[2]
    BY <1>3, <1>4, <1>10, FoundTells
  <2>3. Results(h)'
    BY <1>3, <1>10, <2>1, <2>2 DEF Results, RouteTrue, Succeeded, Failed
  <2>4. Asked(h)' /\ Untouched(h)'
    BY <2>1 DEF Asked, Untouched, Waiting
  <2>5. QED  BY <1>5, <1>7, <2>3, <2>4 DEF Facts
<1>11. CASE IsLookup(h) /\ Found(h, m) /\ arg[h].op \notin {"arp_get", "route_get"}
  <2>1. PICK r : /\ Asks(h, r)
                 /\ \/ arg[h].op = "arp_add" /\ r = [type |-> "ADD", dst |-> arg[h].dst, val |-> arg[h].val]
                    \/ arg[h].op = "arp_delete" /\ r = [type |-> "DELETE", dst |-> m.dst, val |-> m.val]
                    \/ arg[h].op = "route_delete" /\ r = [type |-> "DELETE", dst |-> arg[h].dst, val |-> m.val]
    BY <1>2, <1>11
  <2>2. pc'[h] = "send" /\ req'[h] = r
    BY <2>1 DEF Asks, Goes, TypeOK
  <2>3. m.dst # arg[h].dst => \E s \in seen[h] : s[1] = None
    BY <1>3, <1>4, <1>11, FoundTells
  <2>4. Asked(h)'
    BY <1>3, <1>4, <2>1, <2>2, <2>3 DEF Asked
  <2>5. Untouched(h)' /\ Results(h)'
    BY <1>3, <1>4, <1>11, <2>2 DEF Untouched, Results, RouteTrue, Succeeded, Failed
  <2>6. QED  BY <1>5, <1>7, <2>4, <2>5 DEF Facts
<1>12. QED  BY <1>8, <1>9, <1>10, <1>11

-----------------------------------------------------------------------------
(* System calls that fail for reasons of their own.                        *)

LEMMA FaultType ==
    ASSUME TypeOK, NEW h \in Handle, NEW what \in {"write", "read", "name"}, Faults(h, what)
    PROVE  /\ faults' \in Nat
           /\ fault' \in [Handle -> SUBSET {"write", "read", "name"}]
           /\ fault'[h] = fault[h] \cup {what}
           /\ \A g \in Handle \ {h} : fault'[g] = fault[g]
BY DEF Faults, TypeOK

LEMMA WriteFailsKeeps ==
    ASSUME TypeOK, NEW h \in Handle, Facts(h), WriteFails(h)
    PROVE  TypeOK' /\ Facts(h)'
<1>1. /\ pc[h] \in {"send", "again"} /\ Returns(h, -1, None)
      /\ seq' \in [Handle -> Nat] /\ seq[h] <= seq'[h]
      /\ repeated' \in [Handle -> BOOLEAN]
      /\ pc[h] = "again" => repeated'[h]
      /\ UNCHANGED <<table, queue, arg, req, odd, heard, news, seen, wrote>>
  <2>1. seq' \in [Handle -> Nat] /\ seq[h] <= seq'[h]
    BY DEF WriteFails, NextSeq, TypeOK
  <2>2. repeated' \in [Handle -> BOOLEAN]
    BY Zenon DEF WriteFails, TypeOK
  <2>3. pc[h] = "again" => repeated'[h]
    BY Zenon DEF WriteFails, TypeOK
  <2>4. QED  BY <2>1, <2>2, <2>3 DEF WriteFails, kernel
<1>2. /\ pc' \in [Handle -> Phases]
      /\ done' \in [Handle -> [ret : {0, -1}, val : Value \cup {None}]]
  BY <1>1, ReturnsType
<1>3. /\ faults' \in Nat /\ fault' \in [Handle -> SUBSET {"write", "read", "name"}]
      /\ fault'[h] = fault[h] \cup {"write"}
  BY FaultType DEF WriteFails
<1>4. TypeOK'
  BY <1>1, <1>2, <1>3 DEF TypeOK
<1>5. pc'[h] = "idle" /\ done'[h].ret = -1
  BY <1>1 DEF Returns, TypeOK
<1>6. Fresh(h)'
  <2>1. \A m \in InQueue(h) : m.seq \in Nat
    BY InQueueType
  <2>2. InQueue(h)' = InQueue(h) /\ seq[h] \in Nat /\ seq'[h] \in Nat
    BY <1>1 DEF InQueue, TypeOK
  <2>3. QED  BY <1>1, <2>1, <2>2 DEF Facts, Fresh
<1>7. Truthful(h)' /\ Asked(h)' /\ Changed(h)' /\ Untouched(h)'
  BY <1>5 DEF Truthful, Asked, Changed, Untouched, Waiting
<1>8. Results(h)'
  <2>1. pc[h] = "again" \/ wrote[h] = {}
    BY <1>1 DEF Facts, Untouched
  <2>2. QED  BY <1>1, <1>3, <1>5, <2>1 DEF Results, RouteTrue, Succeeded, Failed
<1>9. QED  BY <1>4, <1>6, <1>7, <1>8 DEF Facts

LEMMA ReadFailsKeeps ==
    ASSUME TypeOK, NEW h \in Handle, Facts(h), ReadFails(h)
    PROVE  TypeOK' /\ Facts(h)'
<1> DEFINE v == heard[h].val
           r == [type |-> "DELETE", dst |-> arg[h].dst, val |-> v]
<1>1. /\ pc[h] = "wait"
      /\ UNCHANGED <<table, queue, seq, arg, odd, heard, news, seen, wrote, repeated>>
      /\ \/ Ends(h, -1, None)
         \/ arg[h].op = "route_get" /\ Ends(h, 0, v)
         \/ arg[h].op = "route_delete" /\ Asks(h, r)
  BY DEF ReadFails, kernel
<1>2. /\ faults' \in Nat /\ fault' \in [Handle -> SUBSET {"write", "read", "name"}]
      /\ "read" \in fault'[h]
  BY FaultType DEF ReadFails
<1>3. v \in Value \cup {None} /\ r \in Request
  BY DEF TypeOK, Request, Types
<1> HIDE DEF v, r
<1>4. /\ pc' \in [Handle -> Phases]
      /\ done' \in [Handle -> [ret : {0, -1}, val : Value \cup {None}]]
  <2>1. "send" \in Phases
    BY DEF Phases
  <2>2. Goes(h, "send") \/ Returns(h, -1, None) \/ Returns(h, 0, v)
    BY <1>1 DEF Ends, Asks
  <2>3. QED  BY <1>3, <2>1, <2>2, GoesType, ReturnsType
<1>5. req' \in [Handle -> Request]
  BY <1>1, <1>3 DEF Ends, Asks, TypeOK
<1>6. TypeOK'
  BY <1>1, <1>2, <1>4, <1>5 DEF TypeOK
<1>7. Fresh(h)'
  BY <1>1 DEF Facts, Fresh, InQueue
<1>8. pc'[h] \in {"send", "idle"}
  BY <1>1 DEF Ends, Asks, Goes, Returns, TypeOK
<1>9. Truthful(h)' /\ Changed(h)'
  BY <1>8 DEF Truthful, Changed, Waiting
<1>10. Results(h)'
  BY <1>1, <1>2 DEF Results, RouteTrue, Succeeded, Failed, Ends, Asks, Goes, Returns, TypeOK
<1>11. Asked(h)'
  <2>1. CASE pc'[h] = "idle"
    BY <2>1 DEF Asked
  <2>2. CASE arg[h].op = "route_delete" /\ Asks(h, r)
    <3>1. req'[h] = r /\ Asked(h)
      BY <2>2 DEF Asks, TypeOK, Facts
    <3>2. QED  BY <1>1, <2>2, <3>1 DEF Asked, r
  <2>3. QED  BY <1>1, <2>1, <2>2 DEF Ends, Returns, TypeOK
<1>12. Untouched(h)'
  <2>1. CASE pc'[h] = "idle"
    BY <2>1 DEF Untouched, Waiting
  <2>2. CASE arg[h].op = "route_delete" /\ Asks(h, r)
    <3>1. PICK q : q = req[h]
      OBVIOUS
    <3>2. q.type = "GET"
      BY <3>1, <2>2 DEF ReadFails, IsLookup, ArpOps
    <3>3. QED  BY <1>1, <3>1, <3>2 DEF Facts, Untouched, Waiting
  <2>3. QED  BY <1>1, <2>1, <2>2 DEF Ends, Returns, TypeOK
<1>13. QED  BY <1>6, <1>7, <1>9, <1>10, <1>11, <1>12 DEF Facts

LEMMA NameFailsKeeps ==
    ASSUME TypeOK, NEW h \in Handle, Facts(h), NameFails(h)
    PROVE  TypeOK' /\ Facts(h)'
<1>1. Pops(h) /\ UNCHANGED <<odd, req>> /\ Returns(h, -1, None) /\ IsLookup(h)
  BY DEF NameFails, Ends
<1>2. /\ pc[h] = "wait" /\ queue' \in [Handle -> Seq(Message)]
      /\ heard' \in [Handle -> [type : Types, val : Value \cup {None}]]
      /\ InQueue(h)' \subseteq InQueue(h)
      /\ UNCHANGED <<table, seq, arg, news, seen, wrote, repeated>>
  BY <1>1, PopsType
<1>3. /\ faults' \in Nat /\ fault' \in [Handle -> SUBSET {"write", "read", "name"}]
      /\ fault'[h] = fault[h] \cup {"name"}
  BY FaultType DEF NameFails
<1>4. /\ pc' \in [Handle -> Phases]
      /\ done' \in [Handle -> [ret : {0, -1}, val : Value \cup {None}]]
  BY <1>1, ReturnsType
<1>5. TypeOK'
  BY <1>1, <1>2, <1>3, <1>4 DEF TypeOK
<1>6. pc'[h] = "idle" /\ done'[h].ret = -1
  BY <1>1 DEF Returns, TypeOK
<1>7. Fresh(h)'
  BY <1>2 DEF Facts, Fresh
<1>8. Truthful(h)' /\ Asked(h)' /\ Changed(h)' /\ Untouched(h)'
  BY <1>6 DEF Truthful, Asked, Changed, Untouched, Waiting
<1>9. Results(h)'
  <2>1. wrote[h] = {}
    BY <1>1, <1>2 DEF Facts, Untouched, Waiting, IsLookup
  <2>2. QED  BY <1>2, <1>3, <1>6, <2>1 DEF Results, RouteTrue, Succeeded, Failed
<1>10. QED  BY <1>5, <1>7, <1>8, <1>9 DEF Facts

-----------------------------------------------------------------------------
(* The theorem. *)

LEMMA InitFacts == Init => IInv
<1> SUFFICES ASSUME Init PROVE TypeOK /\ \A h \in Handle : Facts(h)
  BY DEF IInv
<1>1. TypeOK
  BY InitType
<1>2. ASSUME NEW h \in Handle PROVE Facts(h)
  <2>1. pc[h] = "idle" /\ arg[h].op = "open" /\ done[h].ret = 0 /\ InQueue(h) = {}
    BY DEF Init, InQueue
  <2>2. QED
    BY <2>1 DEF Facts, Fresh, Truthful, Asked, Changed, Untouched, Results, RouteTrue, Waiting, Succeeded, Failed
<1>3. QED  BY <1>1, <1>2

LEMMA StepKeeps ==
    ASSUME OwnProcess, IInv, NEW h \in Handle, Step(h)
    PROVE  IInv'
<1>1. TypeOK /\ \A g \in Handle : Facts(g)
  BY DEF IInv
<1>2. TypeOK' /\ Facts(h)'
  BY <1>1, SendType, RepeatType, ReadOtherType, ReadReplyType,
     SendFacts, RepeatFacts, ReadOtherFacts, ReadReplyFacts DEF Step
<1>3. ASSUME NEW g \in Handle, g # h PROVE Facts(g)'
  <2>1. Pid[h] # Pid[g]
    BY <1>3 DEF OwnProcess
  <2>2. CASE Send(h) \/ Repeat(h)
    <3>1. PICK n \in Nat : KernelActs(h, n)
      BY <1>1, <2>2 DEF Send, Repeat, NextSeq, TypeOK
    <3>2. PICK x : x = Reply(req[h], Pid[h], n)
      OBVIOUS
    <3>3. req[h] \in Request /\ table \in [Key -> Value \cup {None}]
      BY <1>1 DEF TypeOK
    <3>4. x.pid = Pid[h]
      BY <3>2, <3>3, ReplyType
    <3>5. /\ InQueue(g)' \subseteq InQueue(g) \cup {x}
          /\ wrote'[g] = wrote[g] /\ seen[g] \subseteq seen'[g]
      BY <1>1, <1>3, <3>1, <3>2, ActsType
    <3>6. Stands(g)
      BY <1>1, <1>3, <2>2, <3>5 DEF Stands, Send, Repeat, Goes, Returns, TypeOK
    <3>7. QED  BY <1>1, <2>1, <3>4, <3>5, <3>6, OthersKeep
  <2>3. CASE ReadOther(h) \/ ReadReply(h)
    <3>1. Pops(h)
      BY <2>3 DEF ReadOther, ReadReply
    <3>2. InQueue(g)' \subseteq InQueue(g)
          /\ UNCHANGED <<seq, arg, seen, wrote, repeated, fault>>
      BY <1>1, <2>3, <3>1, PopsType DEF ReadOther, ReadReply
    <3>3. Stands(g)
      BY <1>1, <1>3, <2>3, <3>2
      DEF Stands, ReadOther, ReadReply, Goes, Returns, Asks, Ends, TypeOK
    <3>4. PICK x \in Message : x.pid = Kernel
      <4>1. [type |-> "GET", pid |-> Kernel, seq |-> 0, dst |-> Net, val |-> None, err |-> "none"]
               \in Message
        BY DEF Message, Types, Key, Errnos
      <4>2. QED  BY <4>1
    <3>5. x.pid # Pid[g]
      BY <3>4, HandleAssumption
    <3>6. QED  BY <1>1, <3>2, <3>3, <3>5, OthersKeep
  <2>4. QED  BY <2>2, <2>3 DEF Step
<1>4. QED  BY <1>2, <1>3 DEF IInv

LEMMA FaultKeeps ==
    ASSUME IInv, NEW h \in Handle, WriteFails(h) \/ ReadFails(h) \/ NameFails(h)
    PROVE  IInv'
<1>1. TypeOK /\ \A g \in Handle : Facts(g)
  BY DEF IInv
<1>2. TypeOK' /\ Facts(h)'
  BY <1>1, WriteFailsKeeps, ReadFailsKeeps, NameFailsKeeps
<1>3. ASSUME NEW g \in Handle, g # h PROVE Facts(g)'
  <2>1. InQueue(g)' \subseteq InQueue(g)
    BY <1>1, PopsType DEF WriteFails, ReadFails, NameFails, InQueue, kernel
  <2>2. fault'[g] = fault[g]
    BY <1>1, <1>3, FaultType DEF WriteFails, ReadFails, NameFails
  <2>3. Stands(g)
    <3>1. CASE WriteFails(h)
      BY <1>1, <1>3, <2>2, <3>1 DEF Stands, WriteFails, Returns, TypeOK
    <3>2. CASE ReadFails(h)
      BY <1>1, <1>3, <2>2, <3>2 DEF Stands, ReadFails, Ends, Asks, Goes, Returns, TypeOK
    <3>3. CASE NameFails(h)
      BY <1>1, <1>3, <2>2, <3>3 DEF Stands, NameFails, Pops, Ends, Returns, TypeOK
    <3>4. QED  BY <3>1, <3>2, <3>3
  <2>4. PICK x \in Message : x.pid = Kernel
    <3>1. [type |-> "GET", pid |-> Kernel, seq |-> 0, dst |-> Net, val |-> None, err |-> "none"]
             \in Message
      BY DEF Message, Types, Key, Errnos
    <3>2. QED  BY <3>1
  <2>5. x.pid # Pid[g]
    BY <2>4, HandleAssumption
  <2>6. QED  BY <1>1, <2>1, <2>3, <2>5, OthersKeep
<1>4. QED  BY <1>2, <1>3 DEF IInv

LEMMA CallKeeps ==
    ASSUME IInv, NEW h \in Handle, NEW op \in ArpOps \cup RouteOps, NEW d \in Dst,
           NEW v \in Ha \cup Gw \cup {None}, Call(h, op, d, v)
    PROVE  IInv'
<1>1. TypeOK /\ \A g \in Handle : Facts(g)
  BY DEF IInv
<1>2. TypeOK' /\ Facts(h)'
  BY <1>1, CallType, CallFacts
<1>3. ASSUME NEW g \in Handle, g # h PROVE Facts(g)'
  <2>1. Stands(g) /\ queue' = queue
    BY <1>1, <1>3 DEF Stands, Call, TypeOK, kernel
  <2>2. PICK x \in Message : x.pid = Kernel
    <3>1. [type |-> "GET", pid |-> Kernel, seq |-> 0, dst |-> Net, val |-> None, err |-> "none"]
             \in Message
      BY DEF Message, Types, Key, Errnos
    <3>2. QED  BY <3>1
  <2>3. x.pid # Pid[g] /\ InQueue(g)' \subseteq InQueue(g) \cup {x}
    BY <2>1, <2>2, HandleAssumption DEF InQueue
  <2>4. QED  BY <1>1, <2>1, <2>3, OthersKeep
<1>4. QED  BY <1>2, <1>3 DEF IInv

LEMMA NewsKeeps ==
    ASSUME IInv, NEW d \in Dst, News(d)
    PROVE  IInv'
<1>1. TypeOK /\ \A g \in Handle : Facts(g)
  BY DEF IInv
<1>2. TypeOK'
  BY <1>1, NewsType
<1>3. PICK m : /\ m.pid = Kernel
               /\ \A g \in Handle : InQueue(g)' \subseteq InQueue(g) \cup {m}
  BY <1>1, NewsType
<1>4. ASSUME NEW g \in Handle PROVE Facts(g)'
  <2>1. seen[g] \subseteq seen'[g]
    BY <1>1, <1>2, WitnessType DEF News, TypeOK
  <2>2. Stands(g)
    BY <2>1 DEF Stands, News
  <2>3. m.pid # Pid[g]
    BY <1>3, HandleAssumption
  <2>4. QED  BY <1>1, <1>3, <2>2, <2>3, OthersKeep
<1>5. QED  BY <1>2, <1>4 DEF IInv

(* What the invariant says of the properties. *)
LEMMA IInvImplies ==
    IInv => TypeOK /\ ReplyIsMine /\ GetIsTrue /\ SuccessHappened
            /\ FailureChangedNothing /\ FailureIsTrue
<1> SUFFICES ASSUME IInv
             PROVE TypeOK /\ ReplyIsMine /\ GetIsTrue /\ SuccessHappened
                   /\ FailureChangedNothing /\ FailureIsTrue
  OBVIOUS
<1>1. TypeOK /\ \A h \in Handle : Facts(h)
  BY DEF IInv
<1>2. ReplyIsMine
  <2>1. SUFFICES ASSUME NEW h \in Handle, pc[h] \in {"wait", "again"},
                        NEW i \in 1..Len(queue[h]), Mine(h, queue[h][i])
                 PROVE  Answers(queue[h][i], req[h])
    BY DEF ReplyIsMine
  <2>2. PICK m : m = queue[h][i]
    OBVIOUS
  <2>3. m \in InQueue(h) /\ Facts(h) /\ m.pid = Pid[h] /\ m.seq = seq[h]
    BY <1>1, <2>1, <2>2 DEF InQueue, Mine
  <2>4. /\ m.type = req[h].type
        /\ m.type = "GET" => Tells(h, m)
        /\ m.type # "GET" => m.dst = req[h].dst
    BY <2>1, <2>3 DEF Facts, Truthful, Waiting
  <2>5. req[h].type = "GET" => req[h].dst = arg[h].dst
    BY <2>1, <2>3 DEF Facts, Asked
  <2>6. QED  BY <2>2, <2>4, <2>5 DEF Answers, Tells
<1>3. GetIsTrue /\ SuccessHappened /\ FailureChangedNothing /\ FailureIsTrue
  BY <1>1 DEF Facts, Results, RouteTrue, GetIsTrue, SuccessHappened, FailureChangedNothing, FailureIsTrue
<1>4. QED  BY <1>1, <1>2, <1>3

(* If no two handles belong to one process then the invariant holds,       *)
(* however their requests, replies and the kernel's own changes            *)
(* interleave, and whatever a socket drops.                                *)
THEOREM CallsInv ==
    ASSUME OwnProcess
    PROVE  Spec => []IInv
<1>1. Init => IInv
  BY InitFacts
<1>2. IInv /\ [Next]_vars => IInv'
  <2> SUFFICES ASSUME IInv, [Next]_vars PROVE IInv'
    OBVIOUS
  <2>1. CASE Next
    BY <2>1, OwnProcess, StepKeeps, FaultKeeps, CallKeeps, NewsKeeps DEF Next
  <2>2. CASE UNCHANGED vars
    <3>1. UNCHANGED <<table, queue, seq, pc, arg, req, odd, heard, done, news, faults,
                      seen, wrote, repeated, fault>>
      BY <2>2 DEF vars, kernel, history
    <3>2. TypeOK'
      BY <3>1 DEF IInv, TypeOK
    <3>3. ASSUME NEW h \in Handle PROVE Facts(h)'
      <4>1. Facts(h)
        BY DEF IInv
      <4>2. Fresh(h)' /\ Truthful(h)'
        BY <3>1, <4>1 DEF Facts, Fresh, Truthful, Tells, Waiting, InQueue
      <4>3. Asked(h)' /\ Changed(h)' /\ Untouched(h)'
        BY <3>1, <4>1 DEF Facts, Asked, Changed, Untouched, Waiting
      <4>4. Results(h)'
        BY <3>1, <4>1 DEF Facts, Results, RouteTrue, Succeeded, Failed
      <4>5. QED  BY <4>2, <4>3, <4>4 DEF Facts
    <3>4. QED  BY <3>2, <3>3 DEF IInv
  <2>3. QED  BY <2>1, <2>2
<1>3. QED  BY <1>1, <1>2, PTL DEF Spec

(* The variables keep their types: every message is one the kernel sends.  *)
THEOREM CallsTypes ==
    ASSUME OwnProcess
    PROVE  Spec => []TypeOK
BY OwnProcess, CallsInv, IInvImplies, PTL

(* A handle takes no message for its reply that is not: left-over replies, *)
(* and those of others, do not match.                                      *)
THEOREM RepliesAreMine ==
    ASSUME OwnProcess
    PROVE  Spec => []ReplyIsMine
BY OwnProcess, CallsInv, IInvImplies, PTL

(* What arp_get delivers was in the table while it ran; and so was what    *)
(* route_get delivers, unless a read of its failed.                        *)
THEOREM GetsAreTrue ==
    ASSUME OwnProcess
    PROVE  Spec => []GetIsTrue
BY OwnProcess, CallsInv, IInvImplies, PTL

(* What arp_add, arp_delete, route_add and route_delete report done, the   *)
(* table showed while they ran.                                            *)
THEOREM SuccessesHappened ==
    ASSUME OwnProcess
    PROVE  Spec => []SuccessHappened
BY OwnProcess, CallsInv, IInvImplies, PTL

(* A call that fails without having repeated a request, and without a      *)
(* failed read, changed nothing.                                           *)
THEOREM FailuresChangedNothing ==
    ASSUME OwnProcess
    PROVE  Spec => []FailureChangedNothing
BY OwnProcess, CallsInv, IInvImplies, PTL

(* arp_get and route_get fail only if a system call failed for reasons of  *)
(* its own, or there was no entry to deliver at some moment of the call.   *)
THEOREM FailuresAreTrue ==
    ASSUME OwnProcess
    PROVE  Spec => []FailureIsTrue
BY OwnProcess, CallsInv, IInvImplies, PTL
=============================================================================
