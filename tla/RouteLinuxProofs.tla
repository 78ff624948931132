-------------------------- MODULE RouteLinuxProofs --------------------------
(***************************************************************************)
(* What route_get of route-linux.c tells is true, for any number of        *)
(* handles, destinations and gateways and any number of interruptions.     *)
(***************************************************************************)
EXTENDS RouteLinux, SequenceTheorems, TLAPS

(* No answer is newer than the last request, and an answer to the last one *)
(* waits in the socket of the handle that asked.                           *)
Numbered ==
    \A h \in Handle : \A i \in 1..Len(queue[h]) :
        /\ queue[h][i].seq <= seq
        /\ pc = "recvmsg" /\ queue[h][i].seq = seq => queue[h][i].route \in seen

(* While recvmsg waits, the answer to the last request is the newest in    *)
(* the socket.                                                             *)
Newest ==
    pc = "recvmsg" =>
        /\ queue[cur] # <<>>
        /\ queue[cur][Len(queue[cur])].seq = seq

(* A call is where its operation leads. *)
OwnCall ==
    /\ pc \in Ops => arg.op = pc
    /\ pc = "recvmsg" => arg.op = "route_get"

(* What the kernel would answer now is among what it would have answered.  *)
Watched == pc # "idle" => Best(Asks(arg.dst)) \in seen

IInv ==
    /\ TypeOK /\ Numbered /\ Newest /\ OwnCall /\ Watched
    /\ BacklogIsCuts /\ GetIsTrue /\ FailureIsTrue

-----------------------------------------------------------------------------
(* What the kernel answers is a route.                                     *)
LEMMA BestType ==
    ASSUME TypeOK, NEW d \in Dst \cup {Default}
    PROVE  Best(Asks(d)) \in Route
BY DEF TypeOK, Best, Asks, Key

(* So does what is seen of it. *)
LEMMA ObserveType ==
    ASSUME TypeOK, table' \in [Key -> Route], arg' = arg, Observe
    PROVE  seen' \subseteq Route /\ seen \subseteq seen'
<1>1. Asks(arg.dst)' \in Key  BY DEF TypeOK, Asks, Key
<1>2. Best(Asks(arg.dst))' \in Route  BY <1>1 DEF Best, Key
<1> QED  BY <1>2 DEF Observe, TypeOK

(* Invariants that speak of sockets and lookups are kept by a step that    *)
(* leaves both alone.                                                      *)
LEMMA Aside ==
    ASSUME IInv, UNCHANGED <<queue, seq, cuts, cur>>, pc # "recvmsg", pc' # "recvmsg"
    PROVE  Numbered' /\ Newest' /\ BacklogIsCuts'
BY DEF IInv, Numbered, Newest, BacklogIsCuts

LEMMA InitInv == Init => IInv
<1> SUFFICES ASSUME Init PROVE IInv  OBVIOUS
<1>1. TypeOK
  <2>1. queue \in [Handle -> Seq(Answer)]  BY DEF Init
  <2> QED  BY <2>1 DEF Init, TypeOK, Nothing, Ops, Route, Key
<1>2. Numbered /\ Newest /\ OwnCall /\ Watched /\ BacklogIsCuts
  BY DEF Init, Numbered, Newest, OwnCall, Watched, BacklogIsCuts, Ops
<1>3. GetIsTrue /\ FailureIsTrue
  BY RouteAssumption DEF Init, GetIsTrue, FailureIsTrue, FailsOnlyWithoutGateway, Nothing
<1> QED  BY <1>1, <1>2, <1>3 DEF IInv

LEMMA ChangeInv ==
    ASSUME IInv, NEW d \in Key, NEW r \in Route, Change(d, r)
    PROVE  IInv'
<1>1. /\ UNCHANGED <<queue, seq, pc, cur, arg, done, cuts, cut>>
      /\ table' = [table EXCEPT ![d] = r] /\ Observe
  BY DEF Change, call
<1>2. TypeOK  BY DEF IInv
<1>3. table' \in [Key -> Route]  BY <1>1, <1>2 DEF TypeOK
<1>4. seen' \subseteq Route /\ seen \subseteq seen'  BY <1>1, <1>2, <1>3, ObserveType
<1>5. TypeOK'  BY <1>1, <1>2, <1>3, <1>4 DEF TypeOK
<1>6. Numbered'  BY <1>1, <1>4 DEF IInv, Numbered
<1>7. Newest' /\ OwnCall' /\ BacklogIsCuts'  BY <1>1 DEF IInv, Newest, OwnCall, BacklogIsCuts
<1>8. pc = "idle" => seen' = seen  BY <1>1 DEF Observe
<1>9. GetIsTrue' /\ FailureIsTrue'
  BY <1>1, <1>8 DEF IInv, GetIsTrue, FailureIsTrue, FailsOnlyWithoutGateway
<1>10. Watched'  BY <1>1 DEF Observe, Watched
<1> QED  BY <1>5, <1>6, <1>7, <1>9, <1>10 DEF IInv

LEMMA CallInv ==
    ASSUME IInv, NEW h \in Handle, NEW op \in Ops, NEW d \in Dst \cup {Default}, NEW g \in Gw \cup {None},
           Call(h, op, d, g)
    PROVE  IInv'
<1>1. TypeOK  BY DEF IInv
<1>2. Best(Asks(d)) \in Route  BY <1>1, BestType
<1>3. /\ pc = "idle" /\ pc' = op /\ cur' = h /\ arg' = [op |-> op, dst |-> d, gw |-> g]
      /\ done' = Nothing /\ cut' = FALSE /\ seen' = {Best(Asks(d))}
      /\ UNCHANGED <<table, queue, seq, cuts>>
  BY DEF Call
<1>4. TypeOK'  BY <1>1, <1>2, <1>3 DEF TypeOK, Nothing
<1>5. pc' \notin {"idle", "recvmsg"} /\ pc # "recvmsg"  BY <1>3 DEF Ops
<1>6. Numbered' /\ Newest' /\ BacklogIsCuts'
  BY <1>3, <1>5 DEF IInv, Numbered, Newest, BacklogIsCuts
<1>7. OwnCall'  BY <1>3, <1>5 DEF OwnCall
<1>9. Watched'  BY <1>3 DEF Watched, Best, Asks
<1>8. GetIsTrue' /\ FailureIsTrue'
  BY <1>5 DEF GetIsTrue, FailureIsTrue, FailsOnlyWithoutGateway
<1> QED  BY <1>4, <1>6, <1>7, <1>8, <1>9 DEF IInv

LEMMA AddInv == ASSUME IInv, RouteAdd PROVE IInv'
<1>1. /\ pc = "route_add" /\ pc' = "idle" /\ done' \in [ret : {0, -1}, gw : {None}]
      /\ UNCHANGED <<queue, seq, cuts, cut, cur, arg>> /\ Observe
  BY DEF RouteAdd, Return
<1>2. TypeOK  BY DEF IInv
<1>3. arg.dst \in Key /\ arg.gw \in Route  BY <1>2 DEF TypeOK, Key, Route
<1>4. table' \in [Key -> Route]  BY <1>2, <1>3 DEF TypeOK, RouteAdd
<1>5. seen' \subseteq Route  BY <1>1, <1>2, <1>4, ObserveType
<1>6. TypeOK'  BY <1>1, <1>2, <1>4, <1>5 DEF TypeOK
<1>7. Numbered' /\ Newest' /\ BacklogIsCuts'  BY <1>1, Aside
<1>8. OwnCall'  BY <1>1 DEF OwnCall, Ops
<1>9. arg'.op = "route_add"  BY <1>1 DEF IInv, OwnCall, Ops
<1>10. GetIsTrue' /\ FailureIsTrue'  BY <1>9 DEF GetIsTrue, FailureIsTrue, FailsOnlyWithoutGateway
<1>11. Watched'  BY <1>1 DEF Watched
<1> QED  BY <1>6, <1>7, <1>8, <1>10, <1>11 DEF IInv

LEMMA DeleteInv == ASSUME IInv, RouteDelete PROVE IInv'
<1>1. /\ pc = "route_delete" /\ pc' = "idle" /\ done' \in [ret : {0, -1}, gw : {None}]
      /\ UNCHANGED <<queue, seq, cuts, cut, cur, arg>> /\ Observe
  BY DEF RouteDelete, Return
<1>2. TypeOK  BY DEF IInv
<1>3. arg.dst \in Key /\ None \in Route  BY <1>2 DEF TypeOK, Key, Route
<1>4. table' \in [Key -> Route]  BY <1>2, <1>3 DEF TypeOK, RouteDelete
<1>5. seen' \subseteq Route  BY <1>1, <1>2, <1>4, ObserveType
<1>6. TypeOK'  BY <1>1, <1>2, <1>4, <1>5 DEF TypeOK
<1>7. Numbered' /\ Newest' /\ BacklogIsCuts'  BY <1>1, Aside
<1>8. OwnCall'  BY <1>1 DEF OwnCall, Ops
<1>9. arg'.op = "route_delete"  BY <1>1 DEF IInv, OwnCall, Ops
<1>10. GetIsTrue' /\ FailureIsTrue'  BY <1>9 DEF GetIsTrue, FailureIsTrue, FailsOnlyWithoutGateway
<1>11. Watched'  BY <1>1 DEF Watched
<1> QED  BY <1>6, <1>7, <1>8, <1>10, <1>11 DEF IInv

(* sendmsg failed. *)
LEMMA NotSentInv ==
    ASSUME IInv, SendLookup, pc' # "recvmsg" PROVE IInv'
<1>1. /\ pc = "route_get" /\ pc' = "idle" /\ seq' = seq + 1 /\ cut' = TRUE /\ done' = [ret |-> -1, gw |-> None]
      /\ UNCHANGED <<table, queue, cur, arg, cuts, seen>>
  BY DEF SendLookup, Return
<1>2. TypeOK  BY DEF IInv
<1>3. TypeOK'  BY <1>1, <1>2 DEF TypeOK, Ops
<1>4. Numbered'
  <2> SUFFICES ASSUME NEW h \in Handle, NEW i \in 1..Len(queue[h])
               PROVE  queue[h][i].seq <= seq + 1
    BY <1>1 DEF Numbered
  <2>1. queue[h][i] \in Answer  BY <1>2, ElementOfSeq DEF TypeOK
  <2>2. queue[h][i].seq <= seq /\ seq \in Nat /\ queue[h][i].seq \in Nat
    BY <1>2, <2>1 DEF IInv, Numbered, TypeOK, Answer
  <2> QED  BY <2>2
<1>5. Newest' /\ BacklogIsCuts'  BY <1>1 DEF IInv, Newest, BacklogIsCuts
<1>6. OwnCall'  BY <1>1 DEF OwnCall, Ops
<1>7. GetIsTrue' /\ FailureIsTrue'  BY <1>1 DEF GetIsTrue, FailureIsTrue
<1>8. Watched'  BY <1>1 DEF Watched
<1> QED  BY <1>3, <1>4, <1>5, <1>6, <1>7, <1>8 DEF IInv

(* The request is sent, and its answer is the newest of the socket.        *)
LEMMA SentInv ==
    ASSUME IInv, SendLookup, pc' = "recvmsg" PROVE IInv'
<1> DEFINE m == [seq |-> seq + 1, route |-> Best(Asks(arg.dst))]
           q == queue[cur]
<1>1. /\ pc = "route_get" /\ seq' = seq + 1 /\ queue' = [queue EXCEPT ![cur] = Append(q, m)]
      /\ UNCHANGED <<table, cur, arg, done, cut, cuts, seen>>
  BY DEF SendLookup, Return, SentSeq
<1>2. TypeOK  BY DEF IInv
<1>3. /\ cur \in Handle /\ seq \in Nat /\ q \in Seq(Answer)  BY <1>2 DEF TypeOK
<1>4. m \in Answer
  <2>1. arg.dst \in Dst \cup {Default}  BY <1>2 DEF TypeOK
  <2>2. Best(Asks(arg.dst)) \in Route  BY <1>2, <2>1, BestType
  <2> QED  BY <1>3, <2>2 DEF Answer
<1> HIDE DEF m, q
<1>5. /\ Append(q, m) \in Seq(Answer) /\ Append(q, m) # <<>> /\ Len(Append(q, m)) = Len(q) + 1
      /\ \A i \in 1..Len(q) : Append(q, m)[i] = q[i]
      /\ Append(q, m)[Len(q) + 1] = m
  BY <1>3, <1>4, AppendProperties
<1>6. queue' \in [Handle -> Seq(Answer)] /\ queue'[cur] = Append(q, m)
  BY <1>1, <1>2, <1>3, <1>5 DEF TypeOK
<1>7. TypeOK'  BY <1>1, <1>2, <1>6 DEF TypeOK
<1>8. m.seq = seq + 1 /\ m.route = Best(Asks(arg.dst))  BY DEF m
<1>9. m.route \in seen  BY <1>1, <1>8 DEF IInv, Watched
<1>10. Numbered'
  <2> SUFFICES ASSUME NEW h \in Handle, NEW i \in 1..Len(queue'[h])
               PROVE  /\ queue'[h][i].seq <= seq + 1
                      /\ queue'[h][i].seq = seq + 1 => queue'[h][i].route \in seen
    BY <1>1 DEF Numbered
  <2>1. ASSUME queue'[h] = queue[h] \/ (h = cur /\ i \in 1..Len(q)),
               queue'[h][i] = queue[h][i], i \in 1..Len(queue[h])
        PROVE  queue'[h][i].seq <= seq /\ queue'[h][i].seq \in Nat
    <3>1. queue[h] \in Seq(Answer)  BY <1>2 DEF TypeOK
    <3>2. queue[h][i] \in Answer  BY <2>1, <3>1, ElementOfSeq
    <3> QED  BY <2>1, <3>2 DEF IInv, Numbered, Answer
  <2>2. CASE h # cur
    <3>1. queue'[h] = queue[h]  BY <1>1, <1>2, <2>2 DEF TypeOK
    <3> QED  BY <1>3, <2>1, <3>1
  <2>3. CASE h = cur /\ i \in 1..Len(q)
    <3>1. queue'[h][i] = queue[h][i]  BY <1>5, <1>6, <2>3 DEF q
    <3> QED  BY <1>3, <2>1, <2>3, <3>1 DEF q
  <2>4. CASE h = cur /\ i = Len(q) + 1
    BY <1>3, <1>5, <1>6, <1>8, <1>9, <2>4
  <2>5. h = cur => i \in 1..Len(q) \/ i = Len(q) + 1
    BY <1>3, <1>5, <1>6, LenProperties
  <2> QED  BY <2>2, <2>3, <2>4, <2>5
<1>11. Newest'  BY <1>1, <1>5, <1>6, <1>8 DEF Newest
<1>12. BacklogIsCuts'
  <2> SUFFICES ASSUME NEW h \in Handle
               PROVE  Len(queue'[h]) = cuts[h] + (IF h = cur THEN 1 ELSE 0)
    BY <1>1 DEF BacklogIsCuts
  <2>1. Len(queue[h]) = cuts[h] + 0 /\ cuts[h] \in Nat  BY <1>1, <1>2 DEF IInv, BacklogIsCuts, TypeOK
  <2>2. CASE h = cur  BY <1>5, <1>6, <2>1, <2>2 DEF q
  <2>3. CASE h # cur
    <3>1. queue'[h] = queue[h]  BY <1>1, <1>2, <2>3 DEF TypeOK
    <3> QED  BY <2>1, <2>3, <3>1
  <2> QED  BY <2>2, <2>3
<1>13. OwnCall'  BY <1>1 DEF IInv, OwnCall, Ops
<1>14. Watched'  BY <1>1 DEF IInv, Watched, Best, Asks
<1>15. GetIsTrue' /\ FailureIsTrue'  BY DEF GetIsTrue, FailureIsTrue, FailsOnlyWithoutGateway
<1> QED  BY <1>7, <1>10, <1>11, <1>12, <1>13, <1>14, <1>15 DEF IInv

(* The answer stays in the socket. *)
LEMMA InterruptInv == ASSUME IInv, Interrupt PROVE IInv'
<1>1. /\ pc = "recvmsg" /\ pc' = "idle" /\ done' = [ret |-> -1, gw |-> None] /\ cut' = TRUE
      /\ cuts' = [cuts EXCEPT ![cur] = @ + 1]
      /\ UNCHANGED <<table, queue, seq, cur, arg, seen>>
  BY DEF Interrupt, Return
<1>2. TypeOK  BY DEF IInv
<1>3. TypeOK'  BY <1>1, <1>2 DEF TypeOK, Ops
<1>4. Numbered'  BY <1>1 DEF IInv, Numbered
<1>5. Newest' /\ OwnCall' /\ Watched'  BY <1>1 DEF Newest, OwnCall, Watched, Ops
<1>6. BacklogIsCuts'
  <2> SUFFICES ASSUME NEW h \in Handle PROVE Len(queue[h]) = cuts'[h]
    <3>1. \A h \in Handle : Len(queue[h]) = cuts'[h] + 0
      <4> TAKE h \in Handle
      <4>1. Len(queue[h]) = cuts'[h] /\ cuts'[h] \in Nat  BY <1>3 DEF TypeOK
      <4> QED  BY <4>1
    <3> QED  BY <1>1, <3>1 DEF BacklogIsCuts
  <2>1. Len(queue[h]) = cuts[h] + (IF h = cur THEN 1 ELSE 0) /\ cuts[h] \in Nat
    BY <1>1, <1>2 DEF IInv, BacklogIsCuts, TypeOK
  <2> QED  BY <1>1, <1>2, <2>1 DEF TypeOK
<1>7. GetIsTrue' /\ FailureIsTrue'  BY <1>1 DEF GetIsTrue, FailureIsTrue
<1> QED  BY <1>3, <1>4, <1>5, <1>6, <1>7 DEF IInv

(* The oldest answer is read; only one to the last request is used.        *)
LEMMA ReadInv == ASSUME IInv, ReadAnswer PROVE IInv'
<1> DEFINE q == queue[cur]
           m == Head(q)
<1>1. /\ pc = "recvmsg" /\ pc' = "idle" /\ q # <<>> /\ queue' = [queue EXCEPT ![cur] = Tail(q)]
      /\ UNCHANGED <<table, seq, cur, arg, cuts, seen>>
      /\ \/ m.seq = seq /\ m.route \in Gw /\ done' = [ret |-> 0, gw |-> m.route] /\ cut' = cut
         \/ done' = [ret |-> -1, gw |-> None] /\ cut' = TRUE
         \/ /\ ~(m.seq = seq /\ m.route \in Gw)
            /\ done' = [ret |-> -1, gw |-> None] /\ cut' = cut
  BY DEF ReadAnswer, Return, Rest, Current, HasGateway
<1>2. TypeOK  BY DEF IInv
<1>3. /\ cur \in Handle /\ seq \in Nat /\ q \in Seq(Answer)  BY <1>2 DEF TypeOK
<1>4. /\ Tail(q) \in Seq(Answer) /\ Len(Tail(q)) = Len(q) - 1
      /\ \A i \in 1..Len(Tail(q)) : Tail(q)[i] = q[i + 1]
  BY <1>1, <1>3, HeadTailProperties
<1>5. m = q[1] /\ Len(q) \in Nat \ {0}  BY <1>1, <1>3, EmptySeq, LenProperties
<1>6. queue' \in [Handle -> Seq(Answer)] /\ queue'[cur] = Tail(q)
  BY <1>1, <1>2, <1>3, <1>4 DEF TypeOK
<1>7. done' \in [ret : {0, -1}, gw : Gw \cup {None}] /\ cut' \in BOOLEAN
  <2>1. cut \in BOOLEAN  BY <1>2 DEF TypeOK
  <2>2. CASE m.route \in Gw /\ done' = [ret |-> 0, gw |-> m.route] /\ cut' = cut
    BY <2>1, <2>2
  <2>3. CASE done' = [ret |-> -1, gw |-> None] /\ cut' \in {cut, TRUE}
    BY <2>1, <2>3
  <2> QED  BY <1>1, <2>2, <2>3
<1>8. TypeOK'  BY <1>1, <1>2, <1>6, <1>7 DEF TypeOK
<1>9. Numbered'
  <2> SUFFICES ASSUME NEW h \in Handle, NEW i \in 1..Len(queue'[h])
               PROVE  queue'[h][i].seq <= seq
    BY <1>1 DEF Numbered
  <2>1. CASE h # cur
    <3>1. queue'[h] = queue[h]  BY <1>1, <1>2, <2>1 DEF TypeOK
    <3> QED  BY <3>1 DEF IInv, Numbered
  <2>2. CASE h = cur
    <3>1. i \in 1..Len(Tail(q)) /\ i + 1 \in 1..Len(q)  BY <1>4, <1>5, <1>6, <2>2
    <3>2. queue'[h][i] = queue[h][i + 1]  BY <1>4, <1>6, <2>2, <3>1
    <3> QED  BY <2>2, <3>1, <3>2 DEF IInv, Numbered
  <2> QED  BY <2>1, <2>2
<1>10. Newest' /\ OwnCall' /\ Watched'  BY <1>1 DEF Newest, OwnCall, Watched, Ops
<1>11. ASSUME NEW h \in Handle
       PROVE  Len(queue[h]) = cuts[h] + (IF h = cur THEN 1 ELSE 0) /\ cuts[h] \in Nat
  BY <1>1, <1>2 DEF IInv, BacklogIsCuts, TypeOK
<1>12. BacklogIsCuts'
  <2> SUFFICES ASSUME NEW h \in Handle PROVE Len(queue'[h]) = cuts[h]
    <3>1. \A h \in Handle : Len(queue'[h]) = cuts[h] + 0  BY <1>11
    <3> QED  BY <1>1, <3>1 DEF BacklogIsCuts
  <2>1. CASE h = cur  BY <1>4, <1>6, <1>11, <2>1
  <2>2. CASE h # cur
    <3>1. queue'[h] = queue[h]  BY <1>1, <1>2, <2>2 DEF TypeOK
    <3> QED  BY <1>11, <2>2, <3>1
  <2> QED  BY <2>1, <2>2
<1>13. m.seq = seq => m.route \in seen
  BY <1>1, <1>3, <1>5 DEF IInv, Numbered
<1>14. GetIsTrue'  BY <1>1, <1>13 DEF GetIsTrue
<1>15. FailureIsTrue'
  <2> SUFFICES ASSUME cuts[cur] = 0, cut' = FALSE, done'.ret = -1 PROVE ~(seen \subseteq Gw)
    BY <1>1, <1>7 DEF FailureIsTrue, FailsOnlyWithoutGateway
  <2>1. Len(q) = 1
    <3>1. Len(queue[cur]) = cuts[cur] + 1  BY <1>3, <1>11
    <3> QED  BY <3>1 DEF q
  <2>2. m.seq = seq  BY <1>1, <1>5, <2>1 DEF IInv, Newest
  <2>3. m.route \notin Gw  BY <1>1, <2>2
  <2> QED  BY <1>13, <2>2, <2>3
<1> QED  BY <1>8, <1>9, <1>10, <1>12, <1>14, <1>15 DEF IInv

LEMMA StutterInv == ASSUME IInv, UNCHANGED vars PROVE IInv'
BY DEF vars, call, IInv, TypeOK, Numbered, Newest, OwnCall, Watched, Best, Asks,
       BacklogIsCuts, GetIsTrue, FailureIsTrue, FailsOnlyWithoutGateway

-----------------------------------------------------------------------------
(* The invariant holds for any handles, gateways and interruptions.        *)
THEOREM LookupsInv == Spec => []IInv
<1>1. Init => IInv  BY InitInv
<1>2. IInv /\ [Next]_vars => IInv'
  <2> SUFFICES ASSUME IInv, [Next]_vars PROVE IInv'  OBVIOUS
  <2>1. CASE \E h \in Handle, op \in Ops, d \in Dst \cup {Default}, g \in Gw \cup {None} : Call(h, op, d, g)
    BY <2>1, CallInv
  <2>2. CASE RouteAdd  BY <2>2, AddInv
  <2>3. CASE RouteDelete  BY <2>3, DeleteInv
  <2>4. CASE SendLookup  BY <2>4, SentInv, NotSentInv
  <2>5. CASE Interrupt  BY <2>5, InterruptInv
  <2>6. CASE ReadAnswer  BY <2>6, ReadInv
  <2>7. CASE \E d \in Key, r \in Route : Change(d, r)  BY <2>7, ChangeInv
  <2>8. CASE UNCHANGED vars  BY <2>8, StutterInv
  <2> QED  BY <2>1, <2>2, <2>3, <2>4, <2>5, <2>6, <2>7, <2>8 DEF Next, Step
<1> QED  BY <1>1, <1>2, PTL DEF Spec

(* The variables keep their types.                                         *)
THEOREM LookupsTypes == Spec => []TypeOK
<1>1. IInv => TypeOK  BY DEF IInv
<1> QED  BY <1>1, LookupsInv, PTL

(* A gateway route_get delivers is one the kernel had for the destination  *)
(* during the call (route-linux.c:171-220).                                *)
THEOREM LookupsTellTheTruth == Spec => []GetIsTrue
<1>1. IInv => GetIsTrue  BY DEF IInv
<1> QED  BY <1>1, LookupsInv, PTL

(* On a handle without interrupted lookups route_get fails only if the     *)
(* kernel had no gateway at some moment of the call.                       *)
THEOREM FailuresTellTheTruth == Spec => []FailureIsTrue
<1>1. IInv => FailureIsTrue  BY DEF IInv
<1> QED  BY <1>1, LookupsInv, PTL

(* The answers left in a socket are those of its interrupted lookups: each *)
(* of them puts every later lookup of that handle one answer behind.       *)
THEOREM BacklogGrowsByCuts == Spec => []BacklogIsCuts
<1>1. IInv => BacklogIsCuts  BY DEF IInv
<1> QED  BY <1>1, LookupsInv, PTL
=============================================================================
