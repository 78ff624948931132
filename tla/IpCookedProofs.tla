--------------------------- MODULE IpCookedProofs ---------------------------
(***************************************************************************)
(* Proofs about IpCooked, for any interfaces, hosts, gateways, MTUs and    *)
(* datagrams, and whatever the network and the kernel's tables do.         *)
(***************************************************************************)
EXTENDS IpCooked, FiniteSetTheorems, SequenceTheorems, TLAPS

Link == Range(Intf)
Searching == {"lookup", "arp", "route", "gateway", "request", "sleep"}

(* What is open is in the list or one of the four that ip_open needs; the  *)
(* list grows interface by interface, and never holds one twice.           *)
Kept ==
    /\ held \subseteq Range(list) \cup Range(Needs)
    /\ \A i, j \in 1..Len(list) : list[i] = list[j] => i = j
    /\ pc = "closed" => held = {} /\ stage = 0 /\ list = <<>>
    /\ pc = "opening" => Range(list) = Usable \cap {Intf[k] : k \in 1..(stage - 4)}
    /\ pc \notin {"closed", "opening"} => Range(list) = Usable

(* While a call runs, its history has what the tables say now.             *)
Watched ==
    Calling => known \subseteq heard /\ Unknown \subseteq lacked /\ NextHop(dst) \in hops

(* What the search has found out when it comes to a step: whom it looks    *)
(* for is the destination or a next hop; whom it asks for was not known,   *)
(* nor was the destination when it was looked for first; a pass of the     *)
(* loop asks once.                                                         *)
Searched ==
    /\ Calling => target \in hops \cup {dst} /\ len \in Dgrams
    /\ pc \in {"lookup", "arp"} /\ try = 0 => target = dst
    /\ pc \in {"route", "gateway", "request", "sleep"} \/ (pc = "arp" /\ try > 0) => dst \in lacked
    /\ pc \in {"route", "request"} => target \in lacked
    /\ pc \in Searching =>
          try < 3 /\ count = (IF pc = "sleep" THEN try + 1 ELSE try) /\ wire = <<>> /\ at = 0
    /\ pc = "lookup" => try = 0
    /\ Calling /\ pc # "lookup" => ipi \in Usable
    /\ asked \subseteq lacked \cap (hops \cup {dst})

(* Where a frame may go. *)
Addressed(h) ==
    /\ h \in Host \cup {Broadcast}
    /\ h = Broadcast => count = 3 /\ dst \in lacked
    /\ h # Broadcast => h \in heard \cap (hops \cup {dst})
Directed ==
    /\ pc = "frame" => Addressed(ha)
    /\ \A i \in 1..Len(wire) : Addressed(wire[i].to)

(* How far the frames have come. *)
Cut == pc = "frame" => at < Body /\ room > 0 /\ at + room <= Body

IInv == TypeOK /\ Kept /\ Watched /\ Searched /\ Directed /\ Cut

-----------------------------------------------------------------------------
LEMMA NeedsFour == Len(Needs) = 4 /\ \A k \in 1..4 : Needs[k] \in Range(Needs)
<1>1. Len(Needs) = 4 /\ DOMAIN Needs = 1..4
  BY DEF Needs
<1> QED BY <1>1 DEF Range

LEMMA HopTypes ==
    ASSUME TypeOK, NEW d \in Host
    PROVE  NextHop(d) \in Host \cup Link \cup {None}
BY DEF TypeOK, NextHop, Link

LEMMA InitInv == Init => IInv
<1> SUFFICES ASSUME Init PROVE IInv
  OBVIOUS
<1>1. gw \in [Host -> Host \cup Link \cup {None}]
  <2>1. \A h \in Host : gw[h] \in Host \cup Link \cup {None}
    BY HostAssumption DEF Init, Link
  <2> QED BY <2>1 DEF Init
<1>2. TypeOK
  BY <1>1, NeedsFour, IntfAssumption DEF Init, TypeOK, Link
<1>3. Range(list) = {}
  BY DEF Init, Range
<1> QED BY <1>2, <1>3 DEF Init, IInv, Kept, Watched, Searched, Directed, Cut, Calling, Searching
-----------------------------------------------------------------------------
(* The network's and the kernel's own steps.                               *)
LEMMA TypesOfEnvironment ==
    ASSUME IInv, Environment
    PROVE  TypeOK'
<1>1. PICK h \in Host : Learn(h) \/ Forget(h) \/ Move(h)
  BY DEF Environment
<1>2. gw' \in [Host -> Host \cup Link \cup {None}]
  <2>1. \A g \in Gateways[h] : g \in Host \cup Link \cup {None}
    BY HostAssumption DEF Link
  <2> QED BY <1>1, <2>1 DEF Learn, Forget, Move, IInv, TypeOK, Link
<1> QED BY <1>1, <1>2 DEF Learn, Forget, Move, IInv, TypeOK, handle, dgram, lookup, frames, requests, Link

LEMMA EnvironmentKeeps ==
    ASSUME IInv, Environment
    PROVE  IInv'
<1>1. PICK h \in Host : Learn(h) \/ Forget(h) \/ Move(h)
  BY DEF Environment
<1>2. UNCHANGED <<handle, pc, dgram, lookup, frames, ret, requests>> /\ Observe
  BY <1>1 DEF Learn, Forget, Move
<1>3. /\ hops \subseteq hops' /\ heard \subseteq heard' /\ lacked \subseteq lacked'
      /\ Calling' <=> Calling
  BY <1>2 DEF Observe, history, Calling
<1>4. Watched'
  BY <1>2 DEF Watched, Observe, Calling
<1>5. Kept'
  BY <1>2 DEF IInv, Kept, handle
<1>6. Searched'
  BY <1>2, <1>3 DEF IInv, Searched, handle, dgram, lookup, frames, requests, Searching, Calling
<1>7. Directed'
  BY <1>2, <1>3 DEF IInv, Directed, Addressed, dgram, lookup, frames, requests
<1>8. Cut'
  BY <1>2 DEF IInv, Cut, Body, frames, dgram
<1> QED BY <1>4, <1>5, <1>6, <1>7, <1>8, TypesOfEnvironment DEF IInv
-----------------------------------------------------------------------------
(* ip_open and ip_close. *)
LEMMA InFront ==
    ASSUME NEW s \in Seq(Link), NEW e \in Link
    PROVE  /\ <<e>> \o s \in Seq(Range(s) \cup {e}) /\ Range(<<e>> \o s) = Range(s) \cup {e}
           /\ Len(<<e>> \o s) = Len(s) + 1 /\ (<<e>> \o s)[1] = e
           /\ \A k \in 1..Len(s) : (<<e>> \o s)[k + 1] = s[k]
<1>1. Len(<<e>> \o s) = Len(s) + 1 /\ (<<e>> \o s)[1] = e /\ \A k \in 1..Len(s) : (<<e>> \o s)[k + 1] = s[k]
  OBVIOUS
<1>2. Range(<<e>> \o s) = Range(s) \cup {e}
  <2>1. PICK t : t = <<e>>
    OBVIOUS
  <2>2. t \in Seq(Link) /\ Range(t) = {e}
    BY <2>1 DEF Range
  <2>3. Range(t \o s) = Range(t) \cup Range(s)
    BY <2>2, RangeConcatenation
  <2> QED BY <2>1, <2>2, <2>3
<1>3. <<e>> \o s \in Seq(Link)
  OBVIOUS
<1> QED BY <1>1, <1>2, <1>3, SeqOfRange

LEMMA ListTypes == 
    ASSUME TypeOK
    PROVE  list \in Seq(Link) /\ Range(list) = {list[k] : k \in 1..Len(list)} /\ Range(list) \subseteq Usable
<1>1. list \in Seq(Usable) /\ Usable \subseteq Link
  BY IntfAssumption DEF TypeOK, Link
<1>2. list \in Seq(Link)
  BY <1>1, SeqMonotonic
<1> QED BY <1>1, <1>2, RangeEquality, RangeOfSeq

LEMMA HandleTypes ==
    ASSUME TypeOK, UNCHANGED <<tables, dgram, lookup, frames, ret, requests>>,
           held' \subseteq Range(Needs) \cup Link, stage' \in 0..(4 + Len(Intf)), list' \in Seq(Usable),
           pc' \in {"closed", "opening", "open"}
    PROVE  TypeOK'
BY NeedsFour DEF TypeOK, tables, dgram, lookup, frames, requests, Link

LEMMA AddIntfKeeps ==
    ASSUME IInv, AddIntf
    PROVE  TypeOK' /\ Kept'
<1> DEFINE n == stage - Len(Needs) + 1
<1>1. n \in 1..Len(Intf) /\ n = stage - 3 /\ Intf[n] \in Link /\ stage' = stage + 1 /\ pc' = pc /\ held' = held
  BY NeedsFour, IntfAssumption DEF AddIntf, IInv, TypeOK, Link, Range
<1> HIDE DEF n
<1>2. TypeOK /\ list \in Seq(Link) /\ Range(list) = {list[k] : k \in 1..Len(list)}
  BY ListTypes DEF IInv
<1>3. Range(list) = Usable \cap {Intf[k] : k \in 1..(n - 1)} /\ n = stage' - 4 /\ stage' \in 5..(4 + Len(Intf))
  <2>1. n - 1 = stage - 4 /\ n = stage' - 4 /\ stage' \in 5..(4 + Len(Intf))
    BY <1>1, <1>2, IntfAssumption DEF TypeOK
  <2>2. Range(list) = Usable \cap {Intf[k] : k \in 1..(stage - 4)}
    BY DEF AddIntf, IInv, Kept
  <2> QED BY <2>1, <2>2
<1>4. CASE Intf[n] \in Usable
  <2>1. list' = <<Intf[n]>> \o list
    BY <1>4 DEF AddIntf, n
  <2>2. Range(list') = Range(list) \cup {Intf[n]} /\ list' \in Seq(Range(list)  \cup {Intf[n]})
        /\ Len(list') = Len(list) + 1 /\ list'[1] = Intf[n]
        /\ \A k \in 1..Len(list) : list'[k + 1] = list[k]
    BY <1>1, <1>2, <2>1, InFront
  <2>3. Range(list') = Usable \cap {Intf[k] : k \in 1..n}
    <3>1. \A k \in 1..n : k = n \/ k \in 1..(n - 1)
      BY <1>1, IntfAssumption
    <3> QED BY <1>1, <1>3, <1>4, <2>2, <3>1
  <2>4. Intf[n] \notin Range(list)
    BY <1>1, <1>3, IntfAssumption
  <2>5. \A i, j \in 1..Len(list') : list'[i] = list'[j] => i = j
    <3>1. \A i \in 1..Len(list') : i = 1 \/ (i - 1 \in 1..Len(list) /\ list'[i] = list[i - 1])
      <4>1. \A i \in 1..Len(list') : i = 1 \/ (i - 1 \in 1..Len(list) /\ i = (i - 1) + 1)
        BY <1>2, <2>2
      <4> QED BY <2>2, <4>1
    <3>2. \A k \in 1..Len(list) : list[k] # Intf[n]
      BY <1>2, <2>4
    <3>3. \A i, j \in 1..Len(list) : list[i] = list[j] => i = j
      BY DEF IInv, Kept
    <3>4. SUFFICES ASSUME NEW i \in 1..Len(list'), NEW j \in 1..Len(list'), list'[i] = list'[j]
                   PROVE  i = j
      OBVIOUS
    <3>5. i = 1 <=> j = 1
      BY <2>2, <3>1, <3>2, <3>4
    <3>6. ASSUME i # 1, j # 1 PROVE i - 1 = j - 1
      BY <3>1, <3>3, <3>4, <3>6
    <3> QED BY <3>5, <3>6
  <2>6. list' \in Seq(Usable)
    BY <2>2, <2>3, SeqMonotonic
  <2>7. TypeOK'
    <3>1. UNCHANGED <<tables, dgram, lookup, frames, ret, requests>> /\ pc' = "opening"
      BY <1>1 DEF AddIntf
    <3>2. held' \subseteq Range(Needs) \cup Link /\ list' \in Seq(Usable)
      BY <1>1, <1>2, <2>6 DEF TypeOK, Link
    <3>3. stage' \in 0..(4 + Len(Intf))
      BY <1>3
    <3> QED BY <1>2, <3>1, <3>2, <3>3, HandleTypes
  <2>8. Kept'
    BY <1>1, <1>3, <2>2, <2>3, <2>5 DEF AddIntf, IInv, Kept
  <2> QED BY <2>7, <2>8
<1>5. CASE Intf[n] \notin Usable
  <2>1. list' = list
    BY <1>5 DEF AddIntf, n
  <2>2. Range(list') = Usable \cap {Intf[k] : k \in 1..n}
    <3>1. \A k \in 1..n : k = n \/ k \in 1..(n - 1)
      BY <1>1, IntfAssumption
    <3> QED BY <1>1, <1>3, <1>5, <2>1, <3>1
  <2>3. TypeOK'
    <3>1. UNCHANGED <<tables, dgram, lookup, frames, ret, requests>> /\ pc' = "opening"
      BY <1>1 DEF AddIntf
    <3>2. held' \subseteq Range(Needs) \cup Link /\ list' \in Seq(Usable)
      BY <1>1, <1>2, <2>1 DEF TypeOK, Link
    <3>3. stage' \in 0..(4 + Len(Intf))
      BY <1>3
    <3> QED BY <1>2, <3>1, <3>2, <3>3, HandleTypes
  <2> QED BY <1>1, <1>3, <2>1, <2>2, <2>3 DEF AddIntf, IInv, Kept
<1> QED BY <1>4, <1>5

(* What ip_open and ip_close do to the handle.                             *)
LEMMA OpenKeeps ==
    ASSUME IInv, Open \/ Acquire \/ Opened \/ Close
    PROVE  TypeOK' /\ Kept'
<1>1. TypeOK /\ Kept /\ list \in Seq(Link)
  BY ListTypes DEF IInv
<1>2. CASE Open
  <2>1. Range(list) = {} /\ {Intf[k] : k \in 1..(stage - 4)} = {}
    BY <1>1, <1>2 DEF Open, Kept, Range
  <2> QED BY <1>1, <1>2, <2>1 DEF Open, TypeOK, Kept, tables, handle, dgram, lookup, frames, requests
<1>3. CASE Acquire
  <2>1. stage + 1 \in 1..4 /\ stage' = stage + 1 /\ stage \in Int
    <3>1. stage \in 0..(4 + Len(Intf)) /\ stage < 4 /\ stage' = stage + 1
      BY <1>1, <1>3, NeedsFour DEF Acquire, TypeOK
    <3> QED BY <3>1, IntfAssumption
  <2>2. {Intf[k] : k \in 1..(stage - 4)} = {} /\ {Intf[k] : k \in 1..(stage' - 4)} = {}
    <3>1. 1..(stage - 4) = {} /\ 1..(stage' - 4) = {}
      BY <2>1
    <3> QED BY <3>1
  <2>3. held' \subseteq held \cup Range(Needs)
    BY <1>3, <2>1, NeedsFour DEF Acquire
  <2>4. TypeOK'
    BY <1>1, <1>3, <2>1, <2>3, HandleTypes, IntfAssumption DEF Acquire, TypeOK, Link
  <2> QED BY <1>1, <1>3, <2>2, <2>3, <2>4 DEF Acquire, Kept
<1>4. CASE Opened
  <2>1. {Intf[k] : k \in 1..(stage - 4)} = Link
    <3>1. stage - 4 = Len(Intf)
      BY <1>4, NeedsFour, IntfAssumption DEF Opened
    <3>2. Link = {Intf[k] : k \in 1..Len(Intf)}
      BY IntfAssumption, RangeEquality DEF Link
    <3> QED BY <3>1, <3>2
  <2>2. TypeOK'
    BY <1>1, <1>4 DEF Opened, TypeOK, tables, handle, dgram, lookup, frames, requests
  <2> QED BY <1>1, <1>4, <2>1, <2>2, IntfAssumption DEF Opened, Kept, handle, Link
<1>5. CASE Close
  <2>1. held' = {} /\ list' = <<>> /\ stage' = 0 /\ pc' = "closed"
    BY <1>1, <1>5 DEF Close, Closes, Kept
  <2>2. TypeOK'
    BY <1>1, <1>5, <2>1, NeedsFour, IntfAssumption DEF Close, TypeOK, tables, dgram, lookup, frames, requests
  <2> QED BY <2>1, <2>2 DEF Kept
<1> QED BY <1>2, <1>3, <1>4, <1>5

LEMMA OpeningKeeps ==
    ASSUME IInv, Open \/ Opening \/ Close
    PROVE  IInv'
<1>1. TypeOK' /\ Kept'
  BY OpenKeeps, AddIntfKeeps DEF Opening
<1>2. UNCHANGED <<tables, dgram, lookup, frames, requests, history>> /\ ~Calling' /\ ~Calling /\ pc' # "frame" /\ pc # "frame"
  BY DEF Opening, Open, Acquire, AddIntf, Opened, Close, Calling
<1>3. Watched' /\ Searched' /\ Directed' /\ Cut'
  BY <1>2 DEF IInv, Watched, Searched, Directed, Addressed, Cut, Searching, Calling, dgram, lookup, frames, requests, history
<1> QED BY <1>1, <1>3 DEF IInv
-----------------------------------------------------------------------------
(* ip_send. *)
LEMMA SendKeeps ==
    ASSUME IInv, NEW d \in Host, NEW n \in Dgrams, Send(d, n)
    PROVE  IInv'
<1>1. TypeOK'
  BY DEF IInv, Send, TypeOK, tables, handle
<1>2. Kept'
  BY DEF IInv, Send, Kept, handle
<1>3. NextHop(dst)' = NextHop(d) /\ Unknown' = Unknown /\ known' = known
  BY DEF Send, NextHop, Unknown, tables
<1>4. Watched' /\ Searched' /\ Directed' /\ Cut'
  BY <1>3 DEF IInv, Send, Watched, Searched, Directed, Cut, Searching, Calling
<1> QED BY <1>1, <1>2, <1>4 DEF IInv

(* The interface found moves to the front of the list, which keeps what it *)
(* holds.                                                                  *)
LEMMA MovesToFront ==
    ASSUME IInv, NEW e \in Range(list)
    PROVE  /\ ToFront(e) \in Seq(Usable) /\ Range(ToFront(e)) = Range(list)
           /\ \A i, j \in 1..Len(ToFront(e)) : ToFront(e)[i] = ToFront(e)[j] => i = j
<1> DEFINE k == CHOOSE n \in DOMAIN list : list[n] = e
           before == SubSeq(list, 1, k - 1)
           after == SubSeq(list, k + 1, Len(list))
           rest == before \o after
<1>1. list \in Seq(Usable) /\ list \in Seq(Link) /\ Range(list) = {list[n] : n \in 1..Len(list)} /\ Range(list) \subseteq Usable
      /\ \A i, j \in 1..Len(list) : list[i] = list[j] => i = j
  BY ListTypes DEF IInv, Kept, TypeOK
<1>2. k \in 1..Len(list) /\ list[k] = e /\ Len(list) \in Nat
  BY <1>1
<1> HIDE DEF k
<1>3. /\ before \in Seq(Usable) /\ Len(before) = k - 1 /\ \A i \in 1..(k - 1) : before[i] = list[i]
      /\ after \in Seq(Usable) /\ Len(after) = Len(list) - k /\ \A i \in 1..(Len(list) - k) : after[i] = list[i + k]
  BY <1>1, <1>2
<1> HIDE DEF before, after
<1>4. /\ rest \in Seq(Usable) /\ Len(rest) = Len(list) - 1
      /\ \A i \in 1..(Len(list) - 1) : rest[i] = IF i < k THEN list[i] ELSE list[i + 1]
  <2>1. /\ rest \in Seq(Usable) /\ Len(rest) = Len(list) - 1
        /\ \A i \in 1..(Len(list) - 1) : rest[i] = IF i <= Len(before) THEN before[i] ELSE after[i - Len(before)]
    <3>1. /\ rest \in Seq(Usable) /\ Len(rest) = Len(before) + Len(after)
          /\ \A i \in 1..(Len(before) + Len(after)) : rest[i] = IF i <= Len(before) THEN before[i] ELSE after[i - Len(before)]
      BY <1>3, ConcatProperties
    <3>2. Len(before) + Len(after) = Len(list) - 1
      BY <1>2, <1>3
    <3> QED BY <3>1, <3>2
  <2>2. ASSUME NEW i \in 1..(Len(list) - 1), i < k PROVE rest[i] = list[i]
    BY <1>2, <1>3, <2>1, <2>2
  <2>3. ASSUME NEW i \in 1..(Len(list) - 1), ~(i < k) PROVE rest[i] = list[i + 1]
    <3>1. i - (k - 1) \in 1..(Len(list) - k) /\ (i - (k - 1)) + k = i + 1 /\ ~(i <= k - 1)
      BY <1>2, <2>3
    <3> QED BY <1>3, <2>1, <3>1
  <2> QED BY <2>1, <2>2, <2>3
<1> HIDE DEF rest
<1>5. e \in Usable /\ e \in Link /\ Usable \subseteq Link
  BY <1>1, IntfAssumption DEF Link
<1>6. rest \in Seq(Link)
  BY <1>4, <1>5, SeqMonotonic
<1>7. ToFront(e) = <<e>> \o rest
  BY DEF ToFront, RemoveAt, k, before, after, rest
<1>8. /\ ToFront(e) \in Seq(Range(rest) \cup {e}) /\ Range(ToFront(e)) = Range(rest) \cup {e}
      /\ Len(ToFront(e)) = Len(list) /\ ToFront(e)[1] = e
      /\ \A i \in 1..Len(rest) : ToFront(e)[i + 1] = rest[i]
  <2>1. Len(rest) + 1 = Len(list)
    BY <1>2, <1>4
  <2>2. /\ <<e>> \o rest \in Seq(Range(rest) \cup {e}) /\ Range(<<e>> \o rest) = Range(rest) \cup {e}
        /\ Len(<<e>> \o rest) = Len(rest) + 1 /\ (<<e>> \o rest)[1] = e
        /\ \A i \in 1..Len(rest) : (<<e>> \o rest)[i + 1] = rest[i]
    BY <1>5, <1>6, InFront
  <2> QED BY <1>7, <2>1, <2>2
<1>9. Range(rest) = {rest[i] : i \in 1..Len(rest)}
  BY <1>6, RangeEquality
<1>10. \A i \in 1..Len(rest) : rest[i] # e /\ rest[i] \in Range(list)
  <2> SUFFICES ASSUME NEW i \in 1..Len(rest) PROVE rest[i] # e /\ rest[i] \in Range(list)
    OBVIOUS
  <2>1. CASE i < k
    <3>1. rest[i] = list[i] /\ i \in 1..Len(list) /\ i # k
      BY <1>2, <1>4, <2>1
    <3> QED BY <1>1, <1>2, <3>1
  <2>2. CASE ~(i < k)
    <3>1. rest[i] = list[i + 1] /\ i + 1 \in 1..Len(list) /\ i + 1 # k
      BY <1>2, <1>4, <2>2
    <3> QED BY <1>1, <1>2, <3>1
  <2> QED BY <2>1, <2>2
<1>11. \A n \in 1..Len(list) : n = k \/ list[n] \in Range(rest)
  <2> SUFFICES ASSUME NEW n \in 1..Len(list), n # k PROVE list[n] \in Range(rest)
    OBVIOUS
  <2>1. CASE n < k
    <3>1. n \in 1..Len(rest) /\ rest[n] = list[n]
      BY <1>2, <1>4, <2>1
    <3> QED BY <1>9, <3>1
  <2>2. CASE n > k
    <3>1. n - 1 \in 1..Len(rest) /\ rest[n - 1] = list[n]
      BY <1>2, <1>4, <2>2
    <3> QED BY <1>9, <3>1
  <2> QED BY <1>2, <2>1, <2>2
<1>12. Range(ToFront(e)) = Range(list)
  <2>1. Range(ToFront(e)) \subseteq Range(list)
    BY <1>8, <1>9, <1>10
  <2>2. Range(list) \subseteq Range(ToFront(e))
    BY <1>1, <1>2, <1>8, <1>11
  <2> QED BY <2>1, <2>2
<1>13. \A i, j \in 1..Len(rest) : rest[i] = rest[j] => i = j
  <2> SUFFICES ASSUME NEW i \in 1..Len(rest), NEW j \in 1..Len(rest), rest[i] = rest[j] PROVE i = j
    OBVIOUS
  <2>1. \A m \in 1..Len(rest) : \/ m < k /\ rest[m] = list[m] /\ m \in 1..Len(list)
                                \/ m >= k /\ rest[m] = list[m + 1] /\ m + 1 \in 1..Len(list)
    BY <1>2, <1>4
  <2> QED BY <1>1, <1>2, <2>1
<1>14. \A i, j \in 1..Len(ToFront(e)) : ToFront(e)[i] = ToFront(e)[j] => i = j
  <2> SUFFICES ASSUME NEW i \in 1..Len(ToFront(e)), NEW j \in 1..Len(ToFront(e)), ToFront(e)[i] = ToFront(e)[j]
               PROVE  i = j
    OBVIOUS
  <2>1. \A m \in 1..Len(ToFront(e)) : m = 1 \/ (m - 1 \in 1..Len(rest) /\ ToFront(e)[m] = rest[m - 1])
    <3>1. \A m \in 1..Len(ToFront(e)) : m = 1 \/ (m - 1 \in 1..Len(rest) /\ m = (m - 1) + 1)
      BY <1>2, <1>4, <1>8
    <3> QED BY <1>8, <3>1
  <2>2. i = 1 <=> j = 1
    BY <1>8, <1>10, <2>1
  <2>3. ASSUME i # 1, j # 1 PROVE i - 1 = j - 1
    BY <1>13, <2>1, <2>3
  <2> QED BY <2>2, <2>3
<1>15. ToFront(e) \in Seq(Usable)
  BY <1>1, <1>8, <1>12, SeqMonotonic
<1> QED BY <1>12, <1>14, <1>15

(* A step that leaves the tables and the history alone keeps what the      *)
(* history says of them.                                                   *)
LEMMA WatchedStays ==
    ASSUME IInv, UNCHANGED <<tables, dst, history>>, Calling' => Calling
    PROVE  Watched'
BY DEF IInv, Watched, tables, history, NextHop, Unknown

LEMMA LookupKeeps ==
    ASSUME IInv, Lookup
    PROVE  IInv'
<1>1. Calling /\ Watched' /\ TypeOK /\ Kept /\ Range(list) \subseteq Usable
  BY WatchedStays, ListTypes DEF Lookup, Calling, IInv
<1>2. CASE Out(dst) \in Range(list) /\ ipi' = Out(dst) /\ held' = held \cup {Out(dst)}
           /\ list' = ToFront(Out(dst)) /\ Goes("arp")
  <2>1. /\ list' \in Seq(Usable) /\ Range(list') = Range(list) /\ ipi' \in Usable
        /\ \A i, j \in 1..Len(list') : list'[i] = list'[j] => i = j
    BY <1>1, <1>2, MovesToFront
  <2>2. TypeOK'
    BY <1>1, <1>2, <2>1, IntfAssumption DEF Lookup, Goes, TypeOK, tables, lookup, frames, requests
  <2>3. Kept'
    BY <1>1, <1>2, <2>1 DEF Lookup, Goes, Kept
  <2>4. Searched' /\ Directed' /\ Cut'
    BY <1>1, <1>2, <2>1 DEF Lookup, Goes, IInv, Searched, Directed, Addressed, Cut, Searching, Calling, lookup, frames, requests, history
  <2> QED BY <1>1, <2>2, <2>3, <2>4 DEF IInv
<1>3. CASE Return(-1) /\ UNCHANGED <<held, list, ipi>>
  <2>1. TypeOK' /\ Kept'
    BY <1>1, <1>3 DEF Lookup, Return, TypeOK, Kept, tables, lookup, frames, requests
  <2>2. Searched' /\ Directed' /\ Cut'
    BY <1>1, <1>3 DEF Lookup, Return, IInv, Searched, Directed, Addressed, Cut, Searching, Calling, lookup, frames, requests, history
  <2> QED BY <1>1, <2>1, <2>2 DEF IInv
<1> QED BY <1>2, <1>3 DEF Lookup

(* The first frame is cut to fit.                                          *)
LEMMA FoundCuts ==
    ASSUME IInv, NEW h \in Host \cup {Broadcast}, Found(h), UNCHANGED <<at, dgram>>, pc \in Searching \ {"lookup"}
    PROVE  room' \in Nat /\ ha' = h /\ pc' = "frame" /\ ret' = ret /\ Cut'
<1>1. len \in Dgrams /\ ipi \in Usable /\ at = 0 /\ Calling
  BY DEF IInv, Searched, Searching, Calling
<1>2. Mtu[ipi] \in Nat /\ Mtu[ipi] > Hl /\ len > Hl /\ len \in Nat /\ Hl \in Nat
  BY <1>1, IntfAssumption, LengthAssumption
<1> QED BY <1>1, <1>2 DEF Found, Goes, Cut, Body, dgram

LEMMA ArpGetKeeps ==
    ASSUME IInv, ArpGet \/ ArpGetGateway
    PROVE  IInv'
<1>1. Calling /\ Calling' /\ TypeOK /\ Watched' /\ UNCHANGED <<tables, handle, dgram, try, target, at, wire, requests, history>>
      /\ pc \in Searching \ {"lookup"}
  BY WatchedStays DEF ArpGet, ArpGetGateway, Calling, IInv, Searching, Found, Goes, dgram
<1>2. CASE ArpKnows /\ Found(target)
  <2>1. target \in Host /\ target \in heard \cap (hops \cup {dst}) /\ target # Broadcast
    BY <1>1, <1>2, HostAssumption DEF IInv, ArpKnows, TypeOK, Watched, Searched
  <2>2. room' \in Nat /\ ha' = target /\ pc' = "frame" /\ ret' = ret /\ Cut'
    BY <1>1, <1>2, <2>1, FoundCuts
  <2>3. TypeOK'
    BY <1>1, <2>1, <2>2 DEF TypeOK, tables, handle, dgram, requests
  <2>5. Kept'
    BY <1>1, <2>2 DEF IInv, Kept, handle, Calling
  <2>4. Searched' /\ Directed'
    BY <1>1, <2>1, <2>2 DEF IInv, Searched, Directed, Addressed, Searching, Calling, dgram, requests, history
  <2> QED BY <1>1, <2>2, <2>3, <2>4, <2>5 DEF IInv
<1>3. CASE /\ ~ArpKnows /\ UNCHANGED <<ha, room, ret>>
           /\ \/ pc = "arp" /\ pc' = "route"
              \/ pc = "gateway" /\ pc' = "request"
  <2>1. target \in lacked
    BY <1>1, <1>3 DEF ArpKnows, TypeOK, Unknown, IInv, Watched
  <2>2. TypeOK' /\ Kept'
    BY <1>1, <1>3 DEF IInv, TypeOK, Kept, tables, handle, dgram, requests
  <2>3. Searched' /\ Directed' /\ Cut'
    BY <1>1, <1>3, <2>1 DEF IInv, Searched, Directed, Addressed, Cut, Searching, Calling, TypeOK, dgram, requests, history
  <2> QED BY <1>1, <2>2, <2>3 DEF IInv
<1>4. CASE ArpGet
  <2>1. \/ ArpKnows /\ Found(target)
        \/ ~ArpKnows /\ Goes("route") /\ UNCHANGED <<ha, room>>
    BY <1>4 DEF ArpGet
  <2>2. pc = "arp"
    BY <1>4 DEF ArpGet
  <2> QED BY <1>2, <1>3, <2>1, <2>2 DEF Goes
<1>5. CASE ArpGetGateway
  BY <1>2, <1>3, <1>5 DEF ArpGetGateway, Goes
<1> QED BY <1>4, <1>5

LEMMA RouteGetKeeps ==
    ASSUME IInv, RouteGet
    PROVE  IInv'
<1>1. Calling /\ Calling' /\ TypeOK /\ Watched' /\ ret' = ret
  BY WatchedStays DEF RouteGet, Calling, IInv, Goes, dgram
<1>2. gw[dst] # None => NextHop(dst) = gw[dst] /\ gw[dst] \in Host \cup Range(Intf)
  BY <1>1 DEF NextHop, TypeOK
<1>3. TypeOK' /\ Kept'
  BY <1>1, <1>2 DEF RouteGet, HasGateway, Goes, IInv, TypeOK, Kept, tables, handle, dgram, requests, frames
<1>4. Searched' /\ Directed' /\ Cut'
  BY <1>1, <1>2 DEF RouteGet, HasGateway, Goes, IInv, Watched, Searched, Directed, Addressed, Cut, Searching, Calling, dgram, requests, frames, history
<1> QED BY <1>1, <1>3, <1>4 DEF IInv

LEMMA RequestKeeps ==
    ASSUME IInv, RequestArp
    PROVE  IInv'
<1>1. Calling /\ Calling' /\ TypeOK /\ Watched' /\ ret' = ret /\ count = try /\ try < 3 /\ count' = count + 1
  BY WatchedStays DEF RequestArp, Calling, IInv, Goes, dgram, Searched, Searching, TypeOK
<1>2. TypeOK' /\ Kept'
  BY <1>1 DEF RequestArp, Goes, IInv, TypeOK, Kept, tables, handle, dgram, lookup, frames
<1>3. Searched' /\ Directed' /\ Cut'
  BY <1>1 DEF RequestArp, Goes, IInv, Searched, Directed, Addressed, Cut, Searching, Calling, dgram, lookup, frames, history
<1> QED BY <1>1, <1>2, <1>3 DEF IInv

LEMMA WakeKeeps ==
    ASSUME IInv, Wake
    PROVE  IInv'
<1>1. Calling /\ Calling' /\ TypeOK /\ Watched' /\ try' = try + 1 /\ count = try + 1 /\ try \in 0..2
      /\ UNCHANGED <<tables, handle, dgram, target, at, wire, requests, history>> /\ pc = "sleep" /\ dst \in lacked
  BY WatchedStays DEF Wake, Calling, IInv, Found, Goes, dgram, Searched, Searching, TypeOK, NextTry
<1>2. CASE NextTry < Tries /\ Goes("arp") /\ UNCHANGED <<ha, room>>
  <2>1. TypeOK' /\ Kept'
    BY <1>1, <1>2 DEF Goes, IInv, TypeOK, Kept, tables, handle, dgram, requests
  <2>2. Searched' /\ Directed' /\ Cut'
    BY <1>1, <1>2 DEF NextTry, Tries, Goes, IInv, Searched, Directed, Addressed, Cut, Searching, Calling, dgram, requests, history
  <2> QED BY <1>1, <2>1, <2>2 DEF IInv
<1>3. CASE ~(NextTry < Tries) /\ Found(Broadcast)
  <2>1. room' \in Nat /\ ha' = Broadcast /\ pc' = "frame" /\ ret' = ret /\ Cut'
    BY <1>1, <1>3, FoundCuts DEF Searching
  <2>2. TypeOK' /\ Kept'
    BY <1>1, <2>1 DEF IInv, TypeOK, Kept, tables, handle, dgram, requests
  <2>3. count = 3
    BY <1>1, <1>3 DEF NextTry, Tries
  <2>4. Searched' /\ Directed'
    BY <1>1, <2>1, <2>3 DEF IInv, Searched, Directed, Addressed, Searching, Calling, dgram, requests, history
  <2> QED BY <1>1, <2>1, <2>2, <2>4 DEF IInv
<1> QED BY <1>2, <1>3 DEF Wake

(* A frame is sent to where the search has led, and the next one follows   *)
(* it without a gap.                                                       *)
LEMMA SendFrameKeeps ==
    ASSUME IInv, SendFrame
    PROVE  IInv'
<1>1. Calling /\ TypeOK /\ Watched' /\ pc = "frame" /\ at \in Nat /\ room \in Nat /\ len \in Dgrams
      /\ UNCHANGED <<tables, handle, dgram, lookup, requests, history>> /\ ipi \in Usable
  BY WatchedStays DEF SendFrame, Calling, IInv, TypeOK, dgram, Searched
<1>2. len \in Nat /\ Hl \in Nat /\ Body \in Nat /\ at < Body /\ room > 0 /\ at + room <= Body /\ Addressed(ha)
  BY <1>1, LengthAssumption DEF IInv, Cut, Body, Directed
<1>3. Frame \in [to : Host \cup {Broadcast}, off : Nat, from : Nat, n : Nat, more : BOOLEAN] /\ Frame.to = ha
  <2>1. Offset \in Nat /\ More \in BOOLEAN
    BY <1>1 DEF Offset, More
  <2> QED BY <1>1, <1>2, <2>1 DEF Frame, Addressed
<1>4. wire \in Seq([to : Host \cup {Broadcast}, off : Nat, from : Nat, n : Nat, more : BOOLEAN])
      /\ wire' = Append(wire, Frame) /\ at' = at + room /\ Len(wire') = Len(wire) + 1
      /\ \A i \in 1..Len(wire') : wire'[i] = Frame \/ (i \in 1..Len(wire) /\ wire'[i] = wire[i])
  BY <1>1, <1>3 DEF SendFrame, TypeOK
<1>5. room' = IF Body - at' < room THEN Body - at' ELSE room
  BY DEF SendFrame
<1>6. at' \in Nat /\ room' \in Nat /\ at' <= Body /\ (at' < Body => room' > 0 /\ at' + room' <= Body)
  BY <1>1, <1>2, <1>4, <1>5
<1>7. \/ pc' = "frame" /\ at' < Body /\ ret' = ret
      \/ pc' = "open" /\ ret' = len
  BY DEF SendFrame, Goes, Return
<1>8. Body' = Body
  BY <1>1 DEF Body, dgram
<1>9. TypeOK'
  <2>1. wire' \in Seq([to : Host \cup {Broadcast}, off : Nat, from : Nat, n : Nat, more : BOOLEAN])
    BY <1>3, <1>4
  <2> QED BY <1>1, <1>6, <1>7, <2>1 DEF TypeOK, tables, handle, dgram, lookup, requests
<1>10. Kept' /\ Cut'
  BY <1>1, <1>6, <1>7, <1>8 DEF IInv, Kept, Cut, handle
<1>11. Searched'
  BY <1>1, <1>7 DEF IInv, Searched, Searching, Calling, handle, dgram, lookup, requests, history
<1>12. Directed'
  <2>1. \A h : Addressed(h) => Addressed(h)'
    BY <1>1 DEF Addressed, requests, history, dgram
  <2>2. Addressed(ha') /\ \A i \in 1..Len(wire') : Addressed(wire'[i].to)
    BY <1>1, <1>2, <1>3, <1>4 DEF IInv, Directed, lookup
  <2> QED BY <2>1, <2>2 DEF Directed
<1> QED BY <1>1, <1>9, <1>10, <1>11, <1>12 DEF IInv

LEMMA SendFailsKeeps ==
    ASSUME IInv, SendFails
    PROVE  IInv'
<1>1. Calling /\ Watched' /\ pc' = "open" /\ ret' = -1 /\ UNCHANGED <<tables, handle, dgram, lookup, frames, requests, history>>
  BY WatchedStays DEF SendFails, Return, Calling, dgram
<1>2. TypeOK' /\ Kept'
  BY <1>1 DEF IInv, TypeOK, Kept, Calling, tables, handle, dgram, lookup, frames, requests
<1>3. Searched' /\ Directed' /\ Cut'
  BY <1>1 DEF IInv, Searched, Directed, Addressed, Cut, Searching, Calling, dgram, lookup, frames, requests, history
<1> QED BY <1>1, <1>2, <1>3 DEF IInv

LEMMA StepKeeps == IInv /\ [Next]_vars => IInv'
<1> SUFFICES ASSUME IInv, [Next]_vars PROVE IInv'
  OBVIOUS
<1>1. CASE Next
  BY <1>1, OpeningKeeps, SendKeeps, LookupKeeps, ArpGetKeeps, RouteGetKeeps, RequestKeeps, WakeKeeps,
     SendFrameKeeps, SendFailsKeeps, EnvironmentKeeps DEF Next, Sending
<1>2. CASE UNCHANGED vars
  BY <1>2 DEF vars, tables, handle, dgram, lookup, frames, requests, history, IInv, TypeOK, Kept, Watched,
              Searched, Directed, Addressed, Cut, Searching, Calling, Unknown, NextHop, Body
<1> QED BY <1>1, <1>2

(* The invariant of the whole specification.                              *)
THEOREM SendInv == Spec => []IInv
BY InitInv, StepKeeps, PTL DEF Spec
-----------------------------------------------------------------------------
(* What the invariant says of the runs' properties.                        *)

(* The variables keep their types, whatever the network and the kernel do. *)
THEOREM Types == Spec => []TypeOK
<1>1. IInv => TypeOK
  BY DEF IInv
<1> QED BY <1>1, SendInv, PTL

(* ip_intf_list holds each usable interface exactly once, after any number *)
(* of moves to the front, and an Ethernet handle for no other.             *)
THEOREM ListIntactAlways == Spec => []ListIntact
<1>1. ASSUME IInv, Calling \/ pc = "open" PROVE ListIntact
  <2>1. Range(list) = Usable /\ held \subseteq Range(list) \cup Range(Needs)
    BY <1>1 DEF IInv, Kept, Calling
  <2>2. list \in Seq(Link) /\ Range(list) = {list[k] : k \in 1..Len(list)} /\ list \in [1..Len(list) -> Usable]
    BY <1>1, <2>1, ListTypes DEF IInv, TypeOK
  <2>3. list \in Bijection(1..Len(list), Usable)
    BY <1>1, <2>1, <2>2 DEF IInv, Kept, Bijection, Injection, Surjection, IsInjective
  <2>4. Len(list) \in Nat /\ ExistsBijection(1..Len(list), Usable)
    BY <2>2, <2>3 DEF ExistsBijection
  <2>5. Cardinality(Usable) = Len(list)
    BY <2>4, FS_CountingElements
  <2> QED BY <2>1, <2>5 DEF ListIntact
<1>2. IInv => ListIntact
  BY <1>1 DEF ListIntact
<1> QED BY <1>2, SendInv, PTL

(* ip_close, and an ip_open that fails at any of its steps, leave nothing  *)
(* open.                                                                   *)
THEOREM NothingLeaksEver == Spec => []NothingLeaks
<1>1. IInv => NothingLeaks
  BY DEF IInv, Kept, NothingLeaks
<1> QED BY <1>1, SendInv, PTL

(* Every frame that is not broadcast goes to the destination or to a next  *)
(* hop it had during the call, whose hardware address was known then.      *)
THEOREM UnicastGoesToNextHop == Spec => []UnicastToNextHop
<1>1. IInv => UnicastToNextHop
  BY DEF IInv, Directed, Addressed, UnicastToNextHop
<1> QED BY <1>1, SendInv, PTL

(* Every frame that is broadcast follows three unanswered requests.        *)
THEOREM BroadcastComesLast == Spec => []BroadcastIsLastResort
<1>1. IInv => BroadcastIsLastResort
  BY DEF IInv, Directed, Addressed, Searched, BroadcastIsLastResort
<1> QED BY <1>1, SendInv, PTL
-----------------------------------------------------------------------------
(* Fragments.  Offsets count eight octets: the interfaces' MTUs must leave *)
(* a multiple of eight for the data, as Ethernet's 1500 does.              *)
EightOctets == \A i \in Usable : (Mtu[i] - Hl) % 8 = 0

Through(n) == {<<k, k>> : k \in 0..(n - 1)}

LEMMA ThroughGrows ==
    ASSUME NEW n \in Nat, NEW m \in Nat
    PROVE  Through(n + m) = Through(n) \cup {<<j, j>> : j \in n..(n + m - 1)}
<1>1. 0..((n + m) - 1) = 0..(n - 1) \cup n..(n + m - 1)
  OBVIOUS
<1>2. \A S, T : {<<j, j>> : j \in S \cup T} = {<<j, j>> : j \in S} \cup {<<j, j>> : j \in T}
  OBVIOUS
<1>3. Through(n + m) = {<<j, j>> : j \in 0..(n - 1) \cup n..(n + m - 1)}
  BY <1>1, Zenon DEF Through
<1> QED  BY <1>2, <1>3 DEF Through

(* The frames sent are the datagram's beginning, without gap or overlap,   *)
(* the last of them is known by its flag, and only a failed call stops     *)
(* before it.                                                              *)
Whole ==
    /\ pc = "frame" => at % 8 = 0 /\ (at + room < Body => room % 8 = 0)
    /\ Received = Through(at)
    /\ \A i \in 1..Len(wire) : ~wire[i].more <=> 8 * wire[i].off + wire[i].n = Body
    /\ ~Calling /\ ret # 0 => len \in Dgrams /\ (IF ret = -1 THEN at < Body ELSE at = Body)

LEMMA NothingReceived == ASSUME wire = <<>>, at = 0 PROVE Received = Through(at)
BY DEF Received, Through

LEMMA InitWhole == Init => Whole
BY NothingReceived DEF Init, Whole, Calling

(* Steps that send no frame. *)
LEMMA WholeStays ==
    ASSUME IInv, Whole, UNCHANGED <<wire, at, len>>,
           pc' = "frame" => pc = "frame" /\ room' = room,
           Calling \/ Calling' \/ ret' = ret,
           ~Calling' => \/ ~Calling /\ ret' = ret
                        \/ ret' = -1 /\ at < Body /\ len \in Dgrams
    PROVE  Whole'
<1>1. Received' = Received /\ Body' = Body /\ Through(at)' = Through(at)
  BY DEF Received, Body, Through
<1> QED BY <1>1 DEF Whole, Calling

LEMMA FoundWhole ==
    ASSUME EightOctets, IInv, Whole, NEW h, Found(h), UNCHANGED <<wire, at, dgram>>, pc \in Searching \ {"lookup"}
    PROVE  Whole'
<1>1. len \in Dgrams /\ ipi \in Usable /\ at = 0 /\ Received' = Received /\ Body' = Body /\ Through(at)' = Through(at)
  BY DEF IInv, Searched, Searching, Calling, Received, Body, Through, dgram
<1>2. Mtu[ipi] \in Nat /\ len > Hl /\ len \in Nat /\ Hl \in Nat /\ (Mtu[ipi] - Hl) % 8 = 0
  BY <1>1, IntfAssumption, LengthAssumption DEF EightOctets
<1>3. room' % 8 = 0 \/ at' + room' = Body'
  BY <1>1, <1>2 DEF Found, Body, dgram
<1>4. at' % 8 = 0 /\ at' + room' < Body' => room' % 8 = 0
  BY <1>1, <1>2, <1>3 DEF Body, Found, dgram
<1>5. at' % 8 = 0 /\ pc' = "frame"
  BY <1>1 DEF Found, Goes
<1> QED BY <1>1, <1>4, <1>5 DEF Whole, Calling, dgram

LEMMA SendFrameWhole ==
    ASSUME IInv, Whole, SendFrame
    PROVE  Whole'
<1> DEFINE F == [to : Host \cup {Broadcast}, off : Nat, from : Nat, n : Nat, more : BOOLEAN]
<1>1. pc = "frame" /\ at \in Nat /\ room \in Nat /\ len \in Dgrams /\ len \in Nat /\ Hl \in Nat /\ Body \in Nat
      /\ at < Body /\ room > 0 /\ at + room <= Body /\ wire \in Seq(F) /\ len' = len /\ Addressed(ha)
  BY LengthAssumption DEF SendFrame, IInv, TypeOK, Searched, Calling, Cut, Body, dgram, Directed
<1>2. at % 8 = 0 /\ (at + room < Body => room % 8 = 0) /\ Received = Through(at)
  BY <1>1 DEF Whole
<1>3. Frame \in F /\ Frame.from = at /\ Frame.n = room /\ 8 * Frame.off = at /\ (~Frame.more <=> at + room = Body)
  <2>1. Offset \in Nat /\ 8 * Offset = at /\ More \in BOOLEAN
    BY <1>1, <1>2 DEF Offset, More
  <2>2. ha \in Host \cup {Broadcast}
    BY <1>1 DEF Addressed
  <2>3. ~More <=> at + room = Body
    BY <1>1 DEF More
  <2> HIDE DEF F
  <2>4. F = [to : Host \cup {Broadcast}, off : Nat, from : Nat, n : Nat, more : BOOLEAN]
    BY DEF F
  <2> QED BY <1>1, <2>1, <2>2, <2>3, <2>4 DEF Frame
<1>4. wire' = Append(wire, Frame) /\ at' = at + room /\ Body' = Body
      /\ room' = IF Body - at' < room THEN Body - at' ELSE room
  BY <1>1 DEF SendFrame, Body
<1>5. /\ Len(wire') = Len(wire) + 1 /\ wire'[Len(wire) + 1] = Frame /\ Len(wire) \in Nat
      /\ \A i \in 1..Len(wire) : wire'[i] = wire[i]
      /\ \A i \in 1..Len(wire') : i = Len(wire) + 1 \/ i \in 1..Len(wire)
  <2> HIDE DEF F
  <2> QED BY <1>1, <1>3, <1>4
<1> HIDE DEF F
<1>6. \A i \in 1..Len(wire') : ~wire'[i].more <=> 8 * wire'[i].off + wire'[i].n = Body'
  BY <1>3, <1>4, <1>5 DEF Whole
<1>7. Received' = Through(at)'
  <2> DEFINE Octets(f) == {<<8 * f.off + k, f.from + k>> : k \in 0..(f.n - 1)}
  <2>1. Received = UNION {Octets(wire[i]) : i \in 1..Len(wire)}
    BY DEF Received
  <2>2. Received' = UNION {Octets(wire'[i]) : i \in 1..Len(wire')}
    BY DEF Received
  <2>3. Octets(Frame) = {<<at + k, at + k>> : k \in 0..(room - 1)}
    BY <1>3
  <2> HIDE DEF Octets
  <2>4. Received' = Received \cup Octets(Frame)
    <3>1. \A i \in 1..Len(wire') : Octets(wire'[i]) = IF i = Len(wire) + 1 THEN Octets(Frame) ELSE Octets(wire[i])
      BY <1>5
    <3>2. Len(wire) + 1 \in 1..Len(wire') /\ \A i \in 1..Len(wire) : i \in 1..Len(wire') /\ i # Len(wire) + 1
      BY <1>5
    <3> QED BY <1>5, <2>1, <2>2, <3>1, <3>2
  <2>8. Through(at + room) = Through(at) \cup Octets(Frame)
    <3>1. Octets(Frame) = {<<j, j>> : j \in at..(at + room - 1)}
      <4>1. \A k \in 0..(room - 1) : at + k \in at..(at + room - 1)
        BY <1>1
      <4>2. \A j \in at..(at + room - 1) : j - at \in 0..(room - 1) /\ j = at + (j - at)
        BY <1>1
      <4> QED BY <2>3, <4>1, <4>2
    <3> QED BY <1>1, <3>1, ThroughGrows
  <2>9. Through(at)' = Through(at + room)
    BY <1>4 DEF Through
  <2> QED BY <1>2, <2>4, <2>8, <2>9
<1>8. pc' = "frame" => at' % 8 = 0 /\ (at' + room' < Body' => room' % 8 = 0)
  <2>1. pc' = "frame" => at + room < Body
    BY <1>1, <1>4 DEF SendFrame, Return
  <2>2. at + room < Body => (at + room) % 8 = 0
    BY <1>1, <1>2
  <2> QED BY <1>1, <1>2, <1>4, <2>1, <2>2
<1>9. ~Calling' /\ ret' # 0 => len' \in Dgrams /\ (IF ret' = -1 THEN at' < Body' ELSE at' = Body')
  <2>1. ~Calling' => ret' = len /\ ~(at' < Body)
    BY <1>1 DEF SendFrame, Goes, Return, Calling
  <2> QED BY <1>1, <1>4, <2>1
<1> QED BY <1>6, <1>7, <1>8, <1>9 DEF Whole

LEMMA StepWhole ==
    ASSUME EightOctets, IInv, Whole, [Next]_vars
    PROVE  Whole'
<1>1. CASE Open \/ Opening \/ Close \/ Environment \/ UNCHANGED vars
  <2>1. UNCHANGED <<wire, at, room, len, ret>> /\ (pc' = "frame" => pc = "frame") /\ (Calling' <=> Calling)
    BY <1>1 DEF Open, Opening, Acquire, AddIntf, Opened, Close, Environment, Learn, Forget, Move, vars,
                dgram, frames, Calling
  <2> QED BY <2>1, WholeStays
<1>2. CASE \E d \in Host, n \in Dgrams : Send(d, n)
  <2>1. wire' = <<>> /\ at' = 0 /\ pc' = "lookup"
    BY <1>2 DEF Send
  <2> QED BY <2>1, NothingReceived DEF Whole, Calling, Received, Through
<1>3. CASE Lookup
  <2>1. UNCHANGED <<wire, at, len>> /\ Calling /\ pc' # "frame" /\ (~Calling' => ret' = -1)
    BY <1>3 DEF Lookup, Goes, Return, Calling, frames
  <2>2. len \in Dgrams /\ at = 0 /\ at < Body
    BY <1>3, <2>1, LengthAssumption DEF Lookup, IInv, Searched, Searching, Body
  <2> QED BY <2>1, <2>2, WholeStays
<1>4. CASE ArpGet \/ ArpGetGateway \/ Wake
  <2>1. UNCHANGED <<wire, at, dgram>> /\ pc \in Searching \ {"lookup"} /\ pc # "frame" /\ Calling
    BY <1>4 DEF ArpGet, ArpGetGateway, Wake, Searching, Calling
  <2>2. CASE Found(target) \/ Found(Broadcast)
    BY <2>1, <2>2, FoundWhole
  <2>3. CASE Goes("route") \/ Goes("request") \/ Goes("arp")
    BY <2>1, <2>3, WholeStays DEF Goes, Calling, dgram
  <2> QED BY <1>4, <2>2, <2>3 DEF ArpGet, ArpGetGateway, Wake
<1>5. CASE RouteGet \/ RequestArp
  <2>1. UNCHANGED <<wire, at, len, ret>> /\ Calling /\ Calling' /\ pc' # "frame"
    BY <1>5 DEF RouteGet, RequestArp, Goes, Calling, frames, dgram
  <2> QED BY <2>1, WholeStays
<1>6. CASE SendFails
  <2>1. UNCHANGED <<wire, at, len>> /\ Calling /\ pc' # "frame" /\ ret' = -1 /\ len \in Dgrams /\ at < Body
    BY <1>6 DEF SendFails, Return, Calling, frames, dgram, IInv, Searched, Cut
  <2> QED BY <2>1, WholeStays
<1> QED BY <1>1, <1>2, <1>3, <1>4, <1>5, <1>6, SendFrameWhole DEF Next, Sending

(* ip_send tells the truth: the length it returns says that a receiver can *)
(* put the datagram together, and -1 that it cannot, on interfaces whose   *)
(* MTUs leave a multiple of eight octets for the data.                     *)
THEOREM SuccessIsDeliveryOfAll ==
    ASSUME EightOctets
    PROVE  Spec => []SuccessIsDelivery
<1>1. Init => IInv /\ Whole
  BY InitInv, InitWhole
<1>2. IInv /\ Whole /\ [Next]_vars => (IInv /\ Whole)'
  BY EightOctets, StepKeeps, StepWhole
<1>3. IInv /\ Whole => SuccessIsDelivery
  <2> SUFFICES ASSUME IInv, Whole, pc = "open", ret # 0 PROVE ret = -1 <=> ~Delivered
    BY DEF SuccessIsDelivery
  <2>1. len \in Dgrams /\ at \in Nat /\ (IF ret = -1 THEN at < Body ELSE at = Body) /\ Received = Through(at)
    BY DEF Whole, Calling, IInv, TypeOK
  <2>2. Body \in Nat
    BY <2>1, LengthAssumption DEF Body
  <2>3. CASE ret # -1
    BY <2>1, <2>3 DEF Whole, Delivered, Through
  <2>4. CASE ret = -1
    <3>1. at < Body /\ at \in 0..(Body - 1) /\ <<at, at>> \in {<<k, k>> : k \in 0..(Body - 1)}
      BY <2>1, <2>2, <2>4
    <3>2. <<at, at>> \notin Through(at)
      BY <2>1 DEF Through
    <3> QED BY <2>1, <2>4, <3>1, <3>2 DEF Delivered
  <2> QED BY <2>3, <2>4
<1> QED BY <1>1, <1>2, <1>3, PTL DEF Spec
=============================================================================
