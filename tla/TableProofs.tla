---------------------------- MODULE TableProofs -----------------------------
(***************************************************************************)
(* What holds of the kernel's tables however long they are and however     *)
(* often others change them: loops over them, firewall rules that are      *)
(* added and deleted, and entries of the ARP and routing tables.           *)
(***************************************************************************)
EXTENDS Listing, Firewall, Tables, FiniteSetTheorems, WellFoundedInduction, TLAPS

(* What SelectInSeq finds is the first place of a sequence where a test    *)
(* holds.                                                                  *)
LEMMA LeastNatural == ASSUME NEW T \in SUBSET Nat, T # {} PROVE \E m \in T : \A n \in T : m <= n
<1> DEFINE R == OpToRel(<, Nat)
<1>1. IsWellFoundedOn(R, Nat)
  BY NatLessThanWellFounded
<1>2. R = {p \in Nat \X Nat : p[1] < p[2]}
  BY DEF OpToRel
<1> HIDE DEF R
<1>3. \E m \in T : \A n \in T : ~(<<n, m>> \in R)
  BY <1>1, WFMin
<1>4. PICK m \in T : \A n \in T : ~(<<n, m>> \in R)
  BY <1>3
<1>5. \A n \in T : ~(n < m)
  BY <1>2, <1>4
<1> QED  BY <1>5

LEMMA MinHolds == ASSUME NEW T \in SUBSET Nat, T # {} PROVE Min(T) \in T /\ \A n \in T : Min(T) <= n
BY LeastNatural DEF Min

(* Induction up to a bound, and a recursive function's existence.          *)
LEMMA UpTo ==
    ASSUME NEW M \in Nat, NEW T, 0 \in T, \A n \in 1 .. M : n - 1 \in T => n \in T
    PROVE  0 .. M \subseteq T
<1> SUFFICES ASSUME NEW x \in 0 .. M, x \notin T PROVE FALSE
  OBVIOUS
<1> DEFINE U == {n \in 0 .. M : n \notin T}
<1>1. U \in SUBSET Nat /\ U # {}
  OBVIOUS
<1>2. PICK m \in U : \A n \in U : m <= n
  BY <1>1, LeastNatural
<1>3. m \in 1 .. M /\ m - 1 \in 0 .. M
  BY <1>2
<1>4. m - 1 \notin U
  BY <1>2, <1>3
<1> QED  BY <1>2, <1>3, <1>4

RunsTo(g, S, v, M, step) ==
    g \in [0 .. M -> S] /\ g[0] = v /\ \A n \in 1 .. M : g[n] = step[n][g[n - 1]]

LEMMA Recursion ==
    ASSUME NEW S, NEW v \in S, NEW M \in Nat, NEW step \in [1 .. M -> [S -> S]]
    PROVE  \E g : RunsTo(g, S, v, M, step)
<1> DEFINE Is(k, g) == g[0] = v /\ \A n \in 1 .. k : g[n] = step[n][g[n - 1]]
           T == {k \in 0 .. M : \E g \in [0 .. k -> S] : Is(k, g)}
<1>1. 0 \in T
  <2> DEFINE g == [n \in 0 .. 0 |-> v]
  <2>1. g \in [0 .. 0 -> S] /\ Is(0, g)
    OBVIOUS
  <2> HIDE DEF g, Is
  <2> QED  BY <2>1
<1>2. ASSUME NEW k \in 1 .. M, k - 1 \in T PROVE k \in T
  <2>1. PICK g \in [0 .. k - 1 -> S] : Is(k - 1, g)
    BY <1>2
  <2>2. k - 1 \in 0 .. k - 1 /\ g[k - 1] \in S
    OBVIOUS
  <2> DEFINE x == step[k][g[k - 1]]
             h == [n \in 0 .. k |-> IF n = k THEN x ELSE g[n]]
  <2>3. x \in S
    BY <2>2
  <2>4. h \in [0 .. k -> S]
    BY <2>3
  <2>5. h[0] = v
    <3>1. 0 \in 0 .. k /\ 0 # k /\ h[0] = g[0]
      OBVIOUS
    <3> QED  BY <2>1, <3>1
  <2>6. ASSUME NEW n \in 1 .. k PROVE h[n] = step[n][h[n - 1]]
    <3>1. n - 1 \in 0 .. k /\ n - 1 # k /\ h[n - 1] = g[n - 1]
      OBVIOUS
    <3>2. CASE n = k
      BY <3>1, <3>2
    <3>3. CASE n # k
      <4>1. n \in 1 .. k - 1 /\ h[n] = g[n]
        BY <3>3
      <4> QED  BY <2>1, <3>1, <4>1
    <3> QED  BY <3>2, <3>3
  <2>7. Is(k, h)
    BY <2>5, <2>6
  <2> HIDE DEF Is
  <2> QED  BY <2>4, <2>7
<1> HIDE DEF T
<1>3. 0 .. M \subseteq T
  BY <1>1, <1>2, UpTo
<1> QED  BY <1>3 DEF T, RunsTo

(* A function that follows the recursion has all its values in the set. *)
LEMMA Follows ==
    ASSUME NEW S, NEW v \in S, NEW M \in Nat, NEW step \in [1 .. M -> [S -> S]],
           NEW h, h = [n \in 0 .. M |-> h[n]], h[0] = v, \A n \in 1 .. M : h[n - 1] \in S => h[n] = step[n][h[n - 1]]
    PROVE  RunsTo(h, S, v, M, step)
<1> DEFINE T == {n \in 0 .. M : h[n] \in S}
<1>1. 0 \in T
  OBVIOUS
<1>2. ASSUME NEW n \in 1 .. M, n - 1 \in T PROVE n \in T
  <2>1. h[n - 1] \in S /\ n \in 0 .. M
    BY <1>2
  <2>2. h[n] = step[n][h[n - 1]]
    BY <2>1
  <2>3. step[n][h[n - 1]] \in S
    BY <2>1
  <2> QED  BY <2>1, <2>2, <2>3
<1> HIDE DEF T
<1>3. 0 .. M \subseteq T
  BY <1>1, <1>2, UpTo
<1>4. \A n \in 0 .. M : h[n] \in S
  BY <1>3 DEF T
<1>5. ASSUME NEW n \in 1 .. M PROVE h[n] = step[n][h[n - 1]]
  <2>1. n - 1 \in 0 .. M
    OBVIOUS
  <2> QED  BY <1>4, <2>1
<1> QED  BY <1>4, <1>5 DEF RunsTo
----------------------------------------------------------------------------
(* Loops: for tables of any length, changed any number of times by others, *)
(* what a loop hands to its handler was in the table while it ran, and was *)
(* meant to be handed over.                                                *)

(* getmsg takes what waits in the stream: a loop that is left early leaves *)
(* the rest of an answer for the next call.                                *)
StreamsRunOut == \A l \in Loops : l.by = "streams" => l \in Undisturbed

LsPcs == {"idle", "measure", "fetch", "ask", "control", "data", "hand"}
LsForms == {"measured", "exact", "doubled", "fixed", "whole", "file", "numbered", "chain", "streams"}
LoopForm(l) ==
    /\ l.by \in LsForms /\ l.parts \in LsParts
    /\ l.by = "numbered" => l.parts = 1
    /\ l.by = "streams" => ~l.again /\ l.twin = "none"

LEMMA LoopForms == \A l \in Loops : LoopForm(l)
<1>1. \A l \in {ArpSysctl, ArpProc, ArpStreams, ArpMib, ArpWin32} : LoopForm(l)
  BY DEF ArpSysctl, ArpProc, ArpStreams, ArpMib, ArpWin32, Loop, LoopForm, LsForms, LsParts
<1>2. \A l \in {RouteSysctl, RouteProc, RouteStreams, RouteHpux, RouteWin32, RouteVista} : LoopForm(l)
  BY DEF RouteSysctl, RouteProc, RouteStreams, RouteHpux, RouteWin32, RouteVista, Loop, LoopForm, LsForms, LsParts
<1>3. \A l \in {RulesIpchains, RulesIpfw, RulesIpf, RulesPf, RulesPipe} : LoopForm(l)
  BY DEF RulesIpchains, RulesIpfw, RulesIpf, RulesPf, RulesPipe, Loop, LoopForm, LsForms, LsParts
<1>4. \A l \in {IntfProc, IntfIfconf, IntfLifconf, IntfWin32} : LoopForm(l)
  BY DEF IntfProc, IntfIfconf, IntfLifconf, IntfWin32, Loop, LoopForm, LsForms, LsParts
<1> HIDE DEF LoopForm
<1> QED  BY <1>1, <1>2, <1>3, <1>4, LoopsAssumption
----------------------------------------------------------------------------
(* What sequences hold. *)
LEMMA SliceHolds ==
    ASSUME NEW s \in Seq(LsEntry), NEW m \in Nat \ {0}, NEW n \in Nat
    PROVE  /\ Slice(s, m, n) \in Seq(LsEntry) /\ ToSet(Slice(s, m, n)) \subseteq ToSet(s)
           /\ Len(Slice(s, m, n)) = IF m <= n /\ m <= Len(s) THEN (IF n > Len(s) THEN Len(s) ELSE n) - m + 1 ELSE 0
           /\ \A i \in DOMAIN Slice(s, m, n) : Slice(s, m, n)[i] = s[m + i - 1] /\ m + i - 1 \in DOMAIN s
<1> DEFINE k == IF n > Len(s) THEN Len(s) ELSE n
<1>1. k \in Nat /\ k <= Len(s) /\ Len(s) \in Nat
  OBVIOUS
<1>2. Slice(s, m, n) = SubSeq(s, m, k)
  BY DEF Slice
<1> HIDE DEF k
<1>3. SubSeq(s, m, k) \in Seq(LsEntry) /\ Len(SubSeq(s, m, k)) = IF m <= k THEN k - m + 1 ELSE 0
  BY <1>1
<1>4. \A i \in DOMAIN SubSeq(s, m, k) : SubSeq(s, m, k)[i] = s[m + i - 1] /\ m + i - 1 \in DOMAIN s
  BY <1>1, <1>3
<1> QED  BY <1>1, <1>2, <1>3, <1>4 DEF ToSet, k

(* Lists put together, and a list without one of its entries. *)
LEMMA ConcatFirst ==
    ASSUME NEW S, NEW s \in Seq(S), NEW t \in Seq(S), NEW i \in 1 .. Len(s) + Len(t), i <= Len(s)
    PROVE  (s \o t)[i] = s[i]
OBVIOUS

LEMMA ConcatSecond ==
    ASSUME NEW S, NEW s \in Seq(S), NEW t \in Seq(S), NEW i \in 1 .. Len(t)
    PROVE  (s \o t)[Len(s) + i] = t[i]
OBVIOUS

LEMMA ConcatLen ==
    ASSUME NEW S, NEW s \in Seq(S), NEW t \in Seq(S) PROVE s \o t \in Seq(S) /\ Len(s \o t) = Len(s) + Len(t)
OBVIOUS

IsWithout(t, S, s, i) ==
    /\ t \in Seq(S) /\ Len(t) = Len(s) - 1
    /\ \A j \in 1 .. Len(t) : t[j] = s[IF j < i THEN j ELSE j + 1]
LEMMA WithoutHolds ==
    ASSUME NEW S, NEW s \in Seq(S), NEW i \in 1 .. Len(s)
    PROVE  IsWithout(RemoveAt(s, i), S, s, i)
<1> DEFINE a == SubSeq(s, 1, i - 1)
           b == SubSeq(s, i + 1, Len(s))
<1>1. a \in Seq(S) /\ Len(a) = i - 1 /\ \A j \in 1 .. i - 1 : a[j] = s[j]
  OBVIOUS
<1>2. b \in Seq(S) /\ Len(b) = Len(s) - i /\ \A j \in 1 .. Len(s) - i : b[j] = s[i + j]
  OBVIOUS
<1>3. RemoveAt(s, i) = a \o b
  BY DEF RemoveAt
<1> HIDE DEF a, b
<1>4. a \o b \in Seq(S) /\ Len(a \o b) = Len(a) + Len(b)
  <2>1. a \in Seq(S) /\ b \in Seq(S)
    BY <1>1, <1>2
  <2> QED  BY <2>1, ConcatLen
<1>5. Len(a \o b) = Len(s) - 1
  BY <1>1, <1>2, <1>4
<1>6. ASSUME NEW j \in 1 .. Len(s) - 1 PROVE (a \o b)[j] = s[IF j < i THEN j ELSE j + 1]
  <2>1. CASE j < i
    <3>1. j \in 1 .. Len(a) + Len(b) /\ j <= Len(a)
      BY <1>1, <1>2, <2>1
    <3>2. (a \o b)[j] = a[j]
      BY <1>1, <1>2, <3>1, ConcatFirst
    <3> QED  BY <1>1, <2>1, <3>2
  <2>2. CASE ~(j < i)
    <3> DEFINE k == j - (i - 1)
    <3>1. k \in 1 .. Len(b) /\ Len(a) + k = j /\ i + k = j + 1
      BY <1>1, <1>2, <2>2
    <3> HIDE DEF k
    <3>2. (a \o b)[Len(a) + k] = b[k]
      <4>1. a \in Seq(S) /\ b \in Seq(S) /\ k \in 1 .. Len(b)
        BY <1>1, <1>2, <3>1
      <4> QED  BY <4>1, ConcatSecond
    <3>3. b[k] = s[i + k]
      BY <1>2, <3>1
    <3> QED  BY <2>2, <3>1, <3>2, <3>3
  <2> QED  BY <2>1, <2>2
<1> QED  BY <1>3, <1>4, <1>5, <1>6 DEF IsWithout

LEMMA EndsHold ==
    ASSUME NEW s \in Seq(LsEntry), NEW e \in LsEntry
    PROVE  /\ Append(s, e) \in Seq(LsEntry) /\ ToSet(Append(s, e)) = ToSet(s) \cup {e}
           /\ s # <<>> => Head(s) \in ToSet(s) /\ Tail(s) \in Seq(LsEntry) /\ ToSet(Tail(s)) \subseteq ToSet(s)
<1>1. Append(s, e) \in Seq(LsEntry) /\ Len(Append(s, e)) = Len(s) + 1
      /\ (\A i \in 1 .. Len(s) : Append(s, e)[i] = s[i]) /\ Append(s, e)[Len(s) + 1] = e
  OBVIOUS
<1>2. DOMAIN s = 1 .. Len(s) /\ DOMAIN Append(s, e) = 1 .. Len(s) + 1 /\ Len(s) \in Nat
  BY <1>1
<1>3. ToSet(Append(s, e)) = ToSet(s) \cup {e}
  <2>1. ToSet(Append(s, e)) \subseteq ToSet(s) \cup {e}
    BY <1>1, <1>2 DEF ToSet
  <2>2. ToSet(s) \subseteq ToSet(Append(s, e))
    BY <1>1, <1>2 DEF ToSet
  <2>3. e \in ToSet(Append(s, e))
    BY <1>1, <1>2 DEF ToSet
  <2> QED  BY <2>1, <2>2, <2>3
<1>4. ASSUME s # <<>>
      PROVE  Head(s) \in ToSet(s) /\ Tail(s) \in Seq(LsEntry) /\ ToSet(Tail(s)) \subseteq ToSet(s)
  <2>1. Len(s) > 0 /\ Head(s) = s[1] /\ Tail(s) \in Seq(LsEntry) /\ Len(Tail(s)) = Len(s) - 1
        /\ \A i \in 1 .. Len(s) - 1 : Tail(s)[i] = s[i + 1]
    BY <1>4
  <2>2. DOMAIN Tail(s) = 1 .. Len(s) - 1
    BY <2>1
  <2> QED  BY <1>2, <2>1, <2>2 DEF ToSet
<1> QED  BY <1>1, <1>3, <1>4
----------------------------------------------------------------------------
LsTypes ==
    /\ lsLoop \in Loops
    /\ lsTable \in [LsParts -> Seq(LsEntry)] /\ lsNext \in [LsParts -> Seq(LsEntry)]
    /\ lsAt \in [pc : LsPcs, part : LsParts] /\ lsAt.part <= lsLoop.parts
    /\ lsBuf \in Seq(LsEntry) /\ lsHanded \in Seq(LsEntry) /\ lsPos \in Nat /\ lsSize \in Nat
    /\ lsAt.pc = "measure" => lsLoop.by = "measured"
    /\ lsAt.pc = "fetch" => lsLoop.by # "streams"
    /\ lsAt.pc \in {"ask", "control", "data"} => lsLoop.by = "streams"

(* Whatever a call has copied, or follows, was in a list since it began.   *)
LsWasListed ==
    /\ lsAt.pc # "idle" => AllListed \subseteq lsSeen
    /\ ToSet(lsBuf) \subseteq lsSeen
    /\ \A p \in LsParts : ToSet(lsNext[p]) \subseteq lsSeen
    /\ \A e \in ToSet(lsHanded) : e \in lsSeen /\ Wanted(e)

(* A ticket is good for as many rules as there were.                       *)
LsTicket ==
    lsLoop.by = "numbered" =>
        /\ lsPos <= lsSize
        /\ lsQuiet /\ lsAt.pc # "idle" => lsSize = Len(lsTable[1])

(* What waits in a stream: the rest of one answer, whose next message is   *)
(* the one that is due.                                                    *)
LsMessage ==
    [kind : {"piece"}, of : Seq(LsEntry), more : BOOLEAN]
    \cup [kind : {"table"}, ours : BOOLEAN] \cup [kind : {"end"}]
Rest(st) ==
    \A i \in DOMAIN st :
        /\ (st[i].kind = "end") <=> (i = Len(st))
        /\ st[i].kind = "table" => st[i + 1].kind = "piece"
        /\ st[i].kind = "piece" => (st[i].more <=> st[i + 1].kind = "piece")
LsAnswer ==
    /\ lsStream \in Seq(LsMessage) /\ Rest(lsStream)
    /\ \A i \in DOMAIN lsStream : lsStream[i].kind = "piece" => ToSet(lsStream[i].of) \subseteq lsSeen
    /\ lsAt.pc \in {"idle", "ask"} => lsStream = <<>>
    /\ lsAt.pc \in {"control", "data", "hand"} => lsStream # <<>>
    /\ lsAt.pc = "control" => Head(lsStream).kind # "piece"
    /\ lsAt.pc = "data" => Head(lsStream).kind = "piece"
    /\ lsAt.pc = "hand" => (Head(lsStream).kind = "piece" <=> lsPos = 1)

LsTruth == LsTypes /\ LsWasListed /\ LsTicket /\ (lsLoop.by = "streams" => LsAnswer)

LEMMA PairsOfLists ==
    ASSUME NEW a \in Seq(LsEntry), NEW b \in Seq(LsEntry) PROVE <<a, b>> \in [1 .. 2 -> Seq(LsEntry)]
<1>1. DOMAIN <<a, b>> = 1 .. 2 /\ <<a, b>>[1] = a /\ <<a, b>>[2] = b
  OBVIOUS
<1>2. <<a, b>> \in Seq(Seq(LsEntry)) /\ Len(<<a, b>>) = 2
  OBVIOUS
<1> QED  BY <1>1, <1>2

LEMMA NoChains ==
    /\ <<<<>>, <<>>>> \in [1 .. 2 -> Seq(LsEntry)]
    /\ <<<<>>, <<>>>>[1] = <<>> /\ <<<<>>, <<>>>>[2] = <<>>
<1>1. <<>> \in Seq(LsEntry)
  OBVIOUS
<1>2. <<<<>>, <<>>>> \in [1 .. 2 -> Seq(LsEntry)]
  BY <1>1, PairsOfLists
<1> QED  BY <1>2

LEMMA InitTruth == LsInit => LsTruth
<1> SUFFICES ASSUME LsInit PROVE LsTruth
  OBVIOUS
<1>1. PICK a \in Lists(1), b \in IF lsLoop.parts = 2 THEN Lists(2) ELSE {<<>>} : lsTable = <<a, b>>
  BY DEF LsInit
<1>2. a \in Seq(LsEntry) /\ b \in Seq(LsEntry)
  <2>1. \A p : Lists(p) \subseteq Seq(LsEntry)
    <3> SUFFICES ASSUME NEW p, NEW s \in Lists(p) PROVE s \in Seq(LsEntry)
      OBVIOUS
    <3>1. PICK n \in 0 .. MaxTable : s \in [1 .. n -> {e \in LsEntry : e.part = p}]
      BY DEF Lists, BoundedSeq, SeqOf
    <3>2. n \in Nat /\ s \in [1 .. n -> LsEntry]
      BY <3>1
    <3> QED  BY <3>2
  <2>2. a \in Seq(LsEntry)
    BY <1>1, <2>1
  <2>3. b \in Lists(2) \/ b = <<>>
    BY <1>1
  <2>4. b \in Lists(2) => b \in Seq(LsEntry)
    BY <2>1
  <2>5. <<>> \in Seq(LsEntry)
    OBVIOUS
  <2> QED  BY <2>2, <2>3, <2>4, <2>5
<1>3. lsTable \in [LsParts -> Seq(LsEntry)] /\ lsNext \in [LsParts -> Seq(LsEntry)]
      /\ \A p \in LsParts : lsNext[p] = <<>>
  <2>1. LsParts = 1 .. 2
    BY DEF LsParts
  <2>2. lsTable \in [1 .. 2 -> Seq(LsEntry)]
    BY <1>1, <1>2, PairsOfLists
  <2>3. lsNext \in [1 .. 2 -> Seq(LsEntry)] /\ lsNext[1] = <<>> /\ lsNext[2] = <<>>
    BY NoChains DEF LsInit
  <2> QED  BY <2>1, <2>2, <2>3
<1>4. LsTypes
  BY <1>3, LoopForms DEF LsInit, LsTypes, LsPcs, LsParts, LoopForm
<1>5. ToSet(<<>>) = {}
  BY DEF ToSet
<1>6. LsWasListed /\ LsTicket
  BY <1>3, <1>5 DEF LsInit, LsWasListed, LsTicket
<1>7. LsAnswer
  BY DEF LsInit, LsAnswer, Rest
<1> QED  BY <1>4, <1>6, <1>7 DEF LsTruth

(* The ways a call goes on. *)
LEMMA ReturnsTruth ==
    ASSUME LsTruth, NEW ret, LsReturns(ret), lsLoop.by = "streams" => lsStream = <<>>
    PROVE  LsTruth'
<1>1. ToSet(<<>>) = {} /\ <<>> \in Seq(LsEntry)
  BY DEF ToSet
<1>2. lsNext' \in [LsParts -> Seq(LsEntry)] /\ \A p \in LsParts : lsNext'[p] = <<>>
  <2>1. LsParts = 1 .. 2
    BY DEF LsParts
  <2>2. lsNext' \in [1 .. 2 -> Seq(LsEntry)] /\ lsNext'[1] = <<>> /\ lsNext'[2] = <<>>
    BY NoChains DEF LsReturns
  <2> QED  BY <2>1, <2>2
<1>3. lsAt' = [pc |-> "idle", part |-> lsAt.part]
  BY DEF LsReturns, LsTruth, LsTypes
<1>4. LsTypes'
  BY <1>1, <1>2, <1>3 DEF LsReturns, LsTruth, LsTypes, LsPcs
<1>5. LsWasListed' /\ LsTicket'
  BY <1>1, <1>2, <1>3 DEF LsReturns, LsTruth, LsWasListed, LsTicket, lsHist, Wanted
<1>6. lsLoop'.by = "streams" => LsAnswer'
  BY <1>3 DEF LsReturns, LsTruth, LsAnswer, lsHist, Rest
<1> QED  BY <1>4, <1>5, <1>6 DEF LsTruth

LEMMA ReadsTruth ==
    ASSUME LsTruth, NEW pc \in {"fetch", "hand"}, NEW buf \in Seq(LsEntry), NEW pos \in Nat, NEW size \in Nat,
           lsLoop.by # "streams", ToSet(buf) \subseteq lsSeen, lsAt.pc # "idle",
           lsLoop.by = "numbered" => pos <= size /\ size = lsSize,
           Reads(pc, buf, pos, size)
    PROVE  LsTruth'
<1>1. lsAt' = [pc |-> pc, part |-> lsAt.part]
  BY DEF Reads, LsTruth, LsTypes
<1>2. LsTypes'
  BY <1>1 DEF Reads, LsTruth, LsTypes, LsPcs
<1>3. LsWasListed'
  BY <1>1 DEF Reads, LsTruth, LsWasListed, lsHist, Wanted, AllListed
<1>4. LsTicket'
  BY <1>1 DEF Reads, LsTruth, LsTicket, lsHist
<1>5. lsLoop' = lsLoop
  BY DEF Reads
<1> QED  BY <1>2, <1>3, <1>4, <1>5 DEF LsTruth

LEMMA PartEndsTruth ==
    ASSUME LsTruth, PartEnds, lsLoop.by # "streams", lsAt.pc # "idle" PROVE LsTruth'
<1>1. CASE lsAt.part = lsLoop.parts
  BY <1>1, ReturnsTruth DEF PartEnds
<1>2. CASE lsAt.part # lsLoop.parts
  <2>1. LoopForm(lsLoop) /\ lsAt.part \in LsParts /\ lsAt.part <= lsLoop.parts
    BY LoopForms DEF LsTruth, LsTypes
  <2>2. lsAt.part = 1 /\ lsLoop.parts = 2
    BY <1>2, <2>1 DEF LsParts, LoopForm
  <2>3. /\ lsAt' = [pc |-> StartOf(lsLoop), part |-> lsAt.part + 1]
        /\ lsBuf' = <<>> /\ lsPos' = 0 /\ lsSize' = 0
        /\ UNCHANGED <<lsNext, lsLoop, lsTable, lsStream, lsHanded, lsRet, lsCount, lsChanged, lsHist>>
    BY <1>2 DEF PartEnds
  <2>4. lsAt' = [pc |-> StartOf(lsLoop), part |-> 2] /\ lsLoop.by # "numbered"
        /\ StartOf(lsLoop) \in {"measure", "fetch"} /\ (StartOf(lsLoop) = "measure" => lsLoop.by = "measured")
    BY <2>1, <2>2, <2>3 DEF StartOf, LoopForm
  <2>5. ToSet(<<>>) = {} /\ <<>> \in Seq(LsEntry)
    BY DEF ToSet
  <2>6. LsTypes'
    BY <2>2, <2>3, <2>4, <2>5 DEF LsTruth, LsTypes, LsPcs, LsParts
  <2>7. LsWasListed'
    BY <2>3, <2>5 DEF LsTruth, LsWasListed, lsHist, Wanted, AllListed
  <2> QED  BY <2>3, <2>4, <2>6, <2>7 DEF LsTruth, LsTicket
<1> QED  BY <1>1, <1>2
----------------------------------------------------------------------------
(* The table, its changes, and the ways of copying it. *)
LEMMA RemoveHolds ==
    ASSUME NEW s \in Seq(LsEntry), NEW i \in DOMAIN s PROVE RemoveAt(s, i) \in Seq(LsEntry)
<1>1. i \in 1 .. Len(s) /\ Len(s) \in Nat
  OBVIOUS
<1>2. SubSeq(s, 1, i - 1) \in Seq(LsEntry) /\ SubSeq(s, i + 1, Len(s)) \in Seq(LsEntry)
  BY <1>1
<1> QED  BY <1>2 DEF RemoveAt

LEMMA ChangeTruth == ASSUME LsTruth, LsChange PROVE LsTruth'
<1>1. lsTable' \in [LsParts -> Seq(LsEntry)]
  <2>1. PICK p \in 1 .. lsLoop.parts :
           \/ \E i \in DOMAIN lsTable[p] : lsTable' = [lsTable EXCEPT ![p] = RemoveAt(@, i)]
           \/ \E e \in LsEntry : lsTable' = [lsTable EXCEPT ![p] = Append(@, e)]
    BY DEF LsChange
  <2>2. lsTable \in [LsParts -> Seq(LsEntry)] /\ lsLoop.parts \in LsParts
    BY LoopForms DEF LsTruth, LsTypes, LoopForm
  <2>3. p \in LsParts /\ lsTable[p] \in Seq(LsEntry)
    BY <2>2 DEF LsParts
  <2>4. PICK t \in Seq(LsEntry) : lsTable' = [lsTable EXCEPT ![p] = t]
    BY <2>1, <2>3, RemoveHolds, EndsHold
  <2> QED  BY <2>2, <2>4
<1>2. UNCHANGED <<lsLoop, lsStream, lsAt, lsNext, lsBuf, lsPos, lsSize, lsHanded>>
  BY DEF LsChange, lsRead
<1>3. lsSeen \subseteq lsSeen' /\ (lsAt.pc # "idle" => AllListed' \subseteq lsSeen' /\ ~lsQuiet')
  BY DEF LsChange, Idle, lsHist
<1>4. LsTypes'
  BY <1>1, <1>2 DEF LsTruth, LsTypes
<1>5. LsWasListed'
  BY <1>2, <1>3 DEF LsTruth, LsWasListed, Wanted
<1>6. LsTicket'
  BY <1>2, <1>3 DEF LsTruth, LsTicket
<1>7. lsLoop'.by = "streams" => LsAnswer'
  BY <1>2, <1>3 DEF LsTruth, LsAnswer
<1> QED  BY <1>4, <1>5, <1>6, <1>7 DEF LsTruth

LEMMA CallTruth == ASSUME LsTruth, LsCall PROVE LsTruth'
<1>1. /\ LoopForm(lsLoop) /\ lsLoop \in Loops /\ lsTable \in [LsParts -> Seq(LsEntry)]
      /\ 1 \in LsParts /\ 2 \in LsParts /\ lsAt.pc = "idle"
  BY LoopForms DEF LsTruth, LsTypes, LsParts, LsCall, Idle
<1>2. ToSet(<<>>) = {} /\ <<>> \in Seq(LsEntry)
  BY DEF ToSet
<1>3. lsNext' \in [LsParts -> Seq(LsEntry)] /\ \A p \in LsParts : ToSet(lsNext'[p]) \subseteq AllListed
  <2>1. CASE lsLoop.by = "chain"
    <3>1. \A p \in LsParts : FirstOf(Listed(p)) \in Seq(LsEntry) /\ ToSet(FirstOf(Listed(p))) \subseteq ToSet(lsTable[p])
      BY <1>1, SliceHolds DEF FirstOf, Listed
    <3>2. \A p \in LsParts : ToSet(lsTable[p]) \subseteq AllListed
      BY DEF LsParts, AllListed
    <3> QED  BY <2>1, <3>1, <3>2 DEF LsCall
  <2>2. CASE lsLoop.by # "chain"
    <3>1. LsParts = 1 .. 2 /\ lsNext' = <<<<>>, <<>>>>
      BY <2>2 DEF LsParts, LsCall
    <3> QED  BY <3>1, <1>2, NoChains
  <2> QED  BY <2>1, <2>2
<1>4. /\ lsAt' = [pc |-> StartOf(lsLoop), part |-> 1] /\ StartOf(lsLoop) \in {"measure", "fetch", "ask"}
      /\ StartOf(lsLoop) = "measure" => lsLoop.by = "measured"
      /\ StartOf(lsLoop) = "ask" <=> lsLoop.by = "streams"
  BY DEF LsCall, StartOf
<1>5. /\ lsBuf' = <<>> /\ lsPos' = 0 /\ lsHanded' = <<>> /\ lsSeen' = AllListed
      /\ UNCHANGED <<lsLoop, lsTable, lsStream>>
  BY DEF LsCall
<1>6. lsSize' \in Nat /\ (lsLoop.by = "numbered" => lsSize' = Len(lsTable[1]))
  BY <1>1 DEF LsCall, Listed
<1>7. LsTypes'
  BY <1>1, <1>2, <1>3, <1>4, <1>5, <1>6 DEF LsTypes, LsPcs, LsParts, LoopForm
<1>8. LsWasListed'
  BY <1>2, <1>3, <1>4, <1>5 DEF LsWasListed, AllListed
<1>9. LsTicket'
  BY <1>1, <1>5, <1>6 DEF LsTicket
<1>10. lsLoop'.by = "streams" => LsAnswer'
  BY <1>1, <1>4, <1>5 DEF LsTruth, LsAnswer, Rest
<1> QED  BY <1>7, <1>8, <1>9, <1>10 DEF LsTruth

LEMMA ListIsSeen ==
    ASSUME LsTruth, lsAt.pc # "idle"
    PROVE  /\ Listed(lsAt.part) \in Seq(LsEntry) /\ ToSet(Listed(lsAt.part)) \subseteq lsSeen
           /\ Len(Listed(lsAt.part)) \in Nat
<1>1. lsAt.part \in LsParts /\ lsTable \in [LsParts -> Seq(LsEntry)]
  BY DEF LsTruth, LsTypes
<1>2. Listed(lsAt.part) \in Seq(LsEntry)
  BY <1>1 DEF Listed
<1>3. ToSet(Listed(lsAt.part)) \subseteq AllListed
  BY <1>1 DEF Listed, AllListed, LsParts
<1> QED  BY <1>2, <1>3 DEF LsTruth, LsWasListed

LEMMA CopiesTruth ==
    ASSUME LsTruth, Measure \/ FetchMeasured \/ FetchExact \/ FetchDoubled \/ FetchFixed PROVE LsTruth'
<1>1. Listed(lsAt.part) \in Seq(LsEntry) /\ ToSet(Listed(lsAt.part)) \subseteq lsSeen
      /\ Len(Listed(lsAt.part)) \in Nat /\ lsAt.pc # "idle"
  BY ListIsSeen DEF Measure, FetchMeasured, FetchExact, FetchDoubled, FetchFixed
<1>2. lsLoop.by \in {"measured", "exact", "doubled", "fixed", "whole"} /\ lsSize \in Nat
  BY DEF LsTruth, LsTypes, Measure, FetchMeasured, FetchExact, FetchDoubled, FetchFixed
<1>3. ToSet(<<>>) = {} /\ <<>> \in Seq(LsEntry)
  BY DEF ToSet
<1>4. ASSUME NEW ret, LsReturns(ret) PROVE LsTruth'
  BY <1>2, <1>4, ReturnsTruth
<1>5. ASSUME NEW buf \in {<<>>, Listed(lsAt.part), Slice(Listed(lsAt.part), 1, LsRoom)},
             NEW pc \in {"fetch", "hand"}, NEW n \in Nat, Reads(pc, buf, 0, n) PROVE LsTruth'
  <2>1. LsRoom \in Nat
    BY ListingAssumption
  <2>2. buf \in Seq(LsEntry) /\ ToSet(buf) \subseteq lsSeen
    <3>1. CASE buf = Slice(Listed(lsAt.part), 1, LsRoom)
      BY <1>1, <2>1, <3>1, SliceHolds
    <3>2. CASE buf = <<>> \/ buf = Listed(lsAt.part)
      BY <1>1, <1>3, <3>2
    <3> QED  BY <3>1, <3>2
  <2> QED  BY <1>1, <1>2, <1>5, <2>2, ReadsTruth
<1>6. CASE Measure
  BY <1>1, <1>4, <1>5, <1>6 DEF Measure
<1>7. CASE FetchMeasured
  BY <1>4, <1>5, <1>7 DEF FetchMeasured
<1>8. CASE FetchExact
  BY <1>1, <1>5, <1>8 DEF FetchExact
<1>9. CASE FetchDoubled
  <2>1. 2 * lsSize + 1 \in Nat
    BY <1>2
  <2> QED  BY <1>5, <1>9, <2>1 DEF FetchDoubled
<1>10. CASE FetchFixed
  <2>1. PICK buf \in {Listed(lsAt.part), Slice(Listed(lsAt.part), 1, LsRoom)} : Reads("hand", buf, 0, 0)
    BY <1>10 DEF FetchFixed
  <2> QED  BY <1>5, <2>1
<1> QED  BY <1>6, <1>7, <1>8, <1>9, <1>10

LEMMA LinesTruth == ASSUME LsTruth, FetchLines PROVE LsTruth'
<1> DEFINE lines == Slice(Listed(lsAt.part), lsPos + 1, lsPos + Chunk)
<1>1. Listed(lsAt.part) \in Seq(LsEntry) /\ ToSet(Listed(lsAt.part)) \subseteq lsSeen
      /\ lsAt.pc = "fetch" /\ lsLoop.by = "file"
  BY ListIsSeen DEF FetchLines
<1>2. lsPos \in Nat /\ Chunk \in Nat
  BY ListingAssumption DEF LsTruth, LsTypes
<1>3. lines \in Seq(LsEntry) /\ ToSet(lines) \subseteq lsSeen
  <2>1. lsPos + 1 \in Nat \ {0} /\ lsPos + Chunk \in Nat
    BY <1>2
  <2> QED  BY <1>1, <2>1, SliceHolds
<1>4. lsPos + Len(lines) \in Nat
  BY <1>2, <1>3
<1>5. PartEnds \/ Reads("hand", lines, lsPos + Len(lines), 0)
  BY DEF FetchLines
<1> HIDE DEF lines
<1> QED  BY <1>1, <1>3, <1>4, <1>5, PartEndsTruth, ReadsTruth

LEMMA NumberedTruth == ASSUME LsTruth, FetchNumbered PROVE LsTruth'
<1>1. lsAt.pc = "fetch" /\ lsLoop.by = "numbered" /\ lsPos \in Nat /\ lsSize \in Nat /\ lsPos <= lsSize
  BY DEF FetchNumbered, LsTruth, LsTypes, LsTicket
<1>2. CASE LsReturns("zero") \/ LsReturns("error")
  BY <1>1, <1>2, ReturnsTruth
<1>3. CASE lsPos # lsSize /\ lsQuiet /\ Reads("hand", <<Listed(1)[lsPos + 1]>>, lsPos + 1, lsSize)
  <2>1. lsTable[1] \in Seq(LsEntry) /\ lsSize = Len(lsTable[1])
    BY <1>1, <1>3 DEF LsTruth, LsTypes, LsTicket, LsParts
  <2>2. lsPos + 1 \in DOMAIN lsTable[1] /\ lsPos + 1 \in Nat /\ lsPos + 1 <= lsSize
    BY <1>1, <1>3, <2>1
  <2>3. Listed(1)[lsPos + 1] \in LsEntry /\ Listed(1)[lsPos + 1] \in lsSeen
    BY <1>1, <2>1, <2>2 DEF Listed, LsTruth, LsWasListed, AllListed, ToSet
  <2> DEFINE e == Listed(1)[lsPos + 1]
  <2>4. <<e>> \in Seq(LsEntry) /\ ToSet(<<e>>) = {e}
    BY <2>3 DEF ToSet
  <2>5. Reads("hand", <<e>>, lsPos + 1, lsSize)
    BY <1>3
  <2> HIDE DEF e
  <2> QED  BY <1>1, <2>2, <2>3, <2>4, <2>5, ReadsTruth DEF e
<1> QED  BY <1>2, <1>3 DEF FetchNumbered

LEMMA ChainedTruth == ASSUME LsTruth, FetchChained PROVE LsTruth'
<1> DEFINE p == lsAt.part
           e == lsNext[p][1]
           hands(next) == /\ lsBuf' = <<e>> /\ lsNext' = [lsNext EXCEPT ![p] = next]
                          /\ lsAt' = [lsAt EXCEPT !.pc = "hand"]
                          /\ UNCHANGED <<lsLoop, lsTable, lsStream, lsPos, lsSize, lsHanded, lsRet,
                                         lsCount, lsChanged, lsHist>>
           after == Slice(Listed(p), (CHOOSE j \in DOMAIN Listed(p) : Listed(p)[j] = e) + 1,
                          (CHOOSE j \in DOMAIN Listed(p) : Listed(p)[j] = e) + 1)
<1>1. /\ lsAt.pc = "fetch" /\ lsLoop.by = "chain" /\ p \in LsParts /\ lsAt \in [pc : LsPcs, part : LsParts]
      /\ Listed(p) \in Seq(LsEntry) /\ ToSet(Listed(p)) \subseteq lsSeen
      /\ lsNext \in [LsParts -> Seq(LsEntry)]
  BY ListIsSeen DEF FetchChained, LsTruth, LsTypes
<1>2. ToSet(<<>>) = {} /\ <<>> \in Seq(LsEntry)
  BY DEF ToSet
<1>3. \/ PartEnds \/ LsReturns("error")
      \/ lsNext[p] # <<>> /\ hands(<<>>)
      \/ lsNext[p] # <<>> /\ Contains(Listed(p), e) /\ hands(after)
  BY DEF FetchChained
<1>4. Contains(Listed(p), e) => after \in Seq(LsEntry) /\ ToSet(after) \subseteq lsSeen
  <2> HAVE Contains(Listed(p), e)
  <2>1. PICK i \in DOMAIN Listed(p) : i = CHOOSE j \in DOMAIN Listed(p) : Listed(p)[j] = e
    BY DEF Contains
  <2>2. after = Slice(Listed(p), i + 1, i + 1)
    BY <2>1
  <2>3. i + 1 \in Nat \ {0}
    BY <1>1, <2>1
  <2> HIDE DEF after
  <2> QED  BY <1>1, <2>2, <2>3, SliceHolds
<1>5. ASSUME NEW next \in Seq(LsEntry), ToSet(next) \subseteq lsSeen, lsNext[p] # <<>>, hands(next)
      PROVE  LsTruth'
  <2>1. e \in LsEntry /\ e \in lsSeen
    <3>1. lsNext[p] \in Seq(LsEntry) /\ ToSet(lsNext[p]) \subseteq lsSeen
      BY <1>1 DEF LsTruth, LsWasListed
    <3>2. 1 \in DOMAIN lsNext[p]
      BY <1>5, <3>1
    <3> QED  BY <3>1, <3>2 DEF ToSet
  <2>2. <<e>> \in Seq(LsEntry) /\ ToSet(<<e>>) = {e}
    BY <2>1 DEF ToSet
  <2>3. /\ lsNext' \in [LsParts -> Seq(LsEntry)] /\ lsNext'[p] = next
        /\ \A q \in LsParts : q # p => lsNext'[q] = lsNext[q]
    BY <1>1, <1>5
  <2>4. lsAt' = [pc |-> "hand", part |-> p] /\ lsBuf' \in Seq(LsEntry) /\ ToSet(lsBuf') \subseteq lsSeen
        /\ UNCHANGED <<lsLoop, lsTable, lsStream, lsPos, lsSize, lsHanded, lsSeen, lsQuiet>>
    BY <1>1, <1>5, <2>1, <2>2 DEF lsHist
  <2> HIDE DEF hands, e, p
  <2>5. LsTypes'
    BY <1>1, <2>3, <2>4 DEF LsTruth, LsTypes, LsPcs, p
  <2>6. LsWasListed'
    BY <1>1, <1>5, <2>3, <2>4 DEF LsTruth, LsWasListed, Wanted, AllListed
  <2> QED  BY <1>1, <2>4, <2>5, <2>6 DEF LsTruth, LsTicket
<1> HIDE DEF hands, after, e
<1> QED  BY <1>1, <1>2, <1>3, <1>4, <1>5, PartEndsTruth, ReturnsTruth
----------------------------------------------------------------------------
(* Streams: an answer is taken message by message, in the order it has.    *)
LEMMA OneHolds ==
    ASSUME NEW S, NEW x \in S PROVE <<x>> \in Seq(S) /\ Len(<<x>>) = 1 /\ <<x>>[1] = x
OBVIOUS

LEMMA BeforeHolds ==
    ASSUME NEW S, NEW x \in S, NEW t \in Seq(S)
    PROVE  /\ <<x>> \o t \in Seq(S) /\ Len(<<x>> \o t) = Len(t) + 1 /\ (<<x>> \o t)[1] = x
           /\ \A i \in 1 .. Len(t) : (<<x>> \o t)[i + 1] = t[i]
<1>1. <<x>> \in Seq(S) /\ Len(<<x>>) = 1
  BY OneHolds
<1>2. <<x>> \o t \in Seq(S) /\ Len(<<x>> \o t) = Len(t) + 1 /\ (<<x>> \o t)[1] = x
  BY <1>1
<1>3. ASSUME NEW i \in 1 .. Len(t) PROVE (<<x>> \o t)[i + 1] = t[i]
  BY <1>1
<1> QED  BY <1>2, <1>3

LEMMA AfterHolds ==
    ASSUME NEW S, NEW x \in S, NEW t \in Seq(S)
    PROVE  /\ t \o <<x>> \in Seq(S) /\ Len(t \o <<x>>) = Len(t) + 1 /\ (t \o <<x>>)[Len(t) + 1] = x
           /\ \A i \in 1 .. Len(t) : (t \o <<x>>)[i] = t[i]
<1>1. <<x>> \in Seq(S) /\ Len(<<x>>) = 1 /\ <<x>>[1] = x
  BY OneHolds
<1>2. t \o <<x>> \in Seq(S) /\ Len(t \o <<x>>) = Len(t) + 1
  BY <1>1
<1>3. ASSUME NEW i \in 1 .. Len(t) PROVE (t \o <<x>>)[i] = t[i]
  BY <1>1
<1>4. (t \o <<x>>)[Len(t) + 1] = x
  BY <1>1
<1> QED  BY <1>2, <1>3, <1>4

LEMMA PiecesHold ==
    ASSUME NEW s \in Seq(LsEntry)
    PROVE  /\ Pieces(s) \in Seq(LsMessage) /\ Len(Pieces(s)) \in Nat \ {0}
           /\ \A i \in 1 .. Len(Pieces(s)) :
                 /\ Pieces(s)[i].kind = "piece" /\ (Pieces(s)[i].more <=> i < Len(Pieces(s)))
                 /\ ToSet(Pieces(s)[i].of) \subseteq ToSet(s)
<1>1. CASE s = <<>>
  <2> DEFINE m == [kind |-> "piece", of |-> <<>>, more |-> FALSE]
  <2>1. m \in LsMessage /\ m.kind = "piece" /\ m.more = FALSE /\ m.of = <<>> /\ ToSet(<<>>) = {}
    BY DEF LsMessage, ToSet
  <2>2. Pieces(s) = <<m>>
    BY <1>1 DEF Pieces
  <2> HIDE DEF m
  <2>3. <<m>> \in Seq(LsMessage) /\ Len(<<m>>) = 1 /\ <<m>>[1] = m
    BY <2>1, OneHolds
  <2>4. \A i \in 1 .. 1 : /\ <<m>>[i].kind = "piece" /\ (<<m>>[i].more <=> i < 1)
                         /\ ToSet(<<m>>[i].of) \subseteq ToSet(s)
    <3>1. \A i \in 1 .. 1 : i = 1 /\ ~(i < 1)
      OBVIOUS
    <3> QED  BY <2>1, <2>3, <3>1
  <2> QED  BY <2>2, <2>3, <2>4
<1>2. CASE s # <<>>
  <2> DEFINE m(i) == [kind |-> "piece", of |-> <<s[i]>>, more |-> i < Len(s)]
  <2>1. \A i \in DOMAIN s : /\ m(i) \in LsMessage /\ m(i).kind = "piece" /\ m(i).more = (i < Len(s))
                            /\ m(i).of = <<s[i]>> /\ ToSet(<<s[i]>>) = {s[i]}
    BY DEF LsMessage, ToSet
  <2>2. Pieces(s) = [i \in DOMAIN s |-> m(i)]
    BY <1>2 DEF Pieces
  <2> HIDE DEF m
  <2>3. DOMAIN s = 1 .. Len(s) /\ Len(s) \in Nat \ {0}
    BY <1>2
  <2>4. Pieces(s) \in Seq(LsMessage) /\ Len(Pieces(s)) = Len(s)
    <3>1. Pieces(s) \in [1 .. Len(s) -> LsMessage]
      BY <2>1, <2>2, <2>3
    <3> QED  BY <2>3, <3>1
  <2>5. \A i \in 1 .. Len(s) : Pieces(s)[i] = m(i)
    BY <2>2, <2>3
  <2>6. \A i \in DOMAIN s : {s[i]} \subseteq ToSet(s)
    BY DEF ToSet
  <2>7. \A i \in 1 .. Len(s) : /\ Pieces(s)[i].kind = "piece" /\ (Pieces(s)[i].more <=> i < Len(s))
                               /\ ToSet(Pieces(s)[i].of) \subseteq ToSet(s)
    <3> SUFFICES ASSUME NEW i \in 1 .. Len(s)
                 PROVE  /\ Pieces(s)[i].kind = "piece" /\ (Pieces(s)[i].more <=> i < Len(s))
                        /\ ToSet(Pieces(s)[i].of) \subseteq ToSet(s)
      OBVIOUS
    <3>1. Pieces(s)[i] = m(i) /\ i \in DOMAIN s
      BY <2>3, <2>5
    <3> QED  BY <2>1, <2>6, <3>1
  <2> QED  BY <2>3, <2>4, <2>7
<1> QED  BY <1>1, <1>2

LEMMA AnsweredIs ==
    ASSUME NEW s \in Seq(LsEntry)
    PROVE  LET n == Len(Pieces(s)) IN
           /\ n \in Nat \ {0} /\ Answered(s) \in Seq(LsMessage) /\ Len(Answered(s)) = n + 4
           /\ Answered(s)[1] = Table(TRUE) /\ \A i \in 2 .. n + 1 : Answered(s)[i] = Pieces(s)[i - 1]
           /\ Answered(s)[n + 2] = Table(FALSE) /\ Answered(s)[n + 3] = [kind |-> "piece", of |-> <<>>, more |-> FALSE]
           /\ Answered(s)[n + 4] = [kind |-> "end"]
<1> DEFINE a == Answered(s)
           ps == Pieces(s)
           n == Len(ps)
           q == [kind |-> "piece", of |-> <<>>, more |-> FALSE]
           end == [kind |-> "end"]
           ours == Table(TRUE)
           theirs == Table(FALSE)
           b == <<ours>> \o ps
           c == b \o <<theirs>>
           d == c \o <<q>>
<1>1. ps \in Seq(LsMessage) /\ n \in Nat \ {0}
  BY PiecesHold
<1>2. q \in LsMessage
  BY DEF LsMessage
<1>3. ours \in LsMessage /\ theirs \in LsMessage /\ end \in LsMessage
  BY DEF Table, LsMessage
<1>4. a = d \o <<end>>
  BY DEF Answered, Pieces
<1> HIDE DEF a, ps, q, end, ours, theirs, d, c, b
<1>5. /\ a \in Seq(LsMessage) /\ Len(a) = n + 4
      /\ a[1] = ours /\ (\A i \in 2 .. n + 1 : a[i] = ps[i - 1])
      /\ a[n + 2] = theirs /\ a[n + 3] = q /\ a[n + 4] = end
  <2>0. Len(ps) = n
    BY DEF n
  <2> HIDE DEF n
  <2>1. /\ b \in Seq(LsMessage) /\ Len(b) = n + 1 /\ b[1] = ours
        /\ \A i \in 1 .. n : b[i + 1] = ps[i]
    <3>1. ps \in Seq(LsMessage)
      BY <1>1
    <3> QED  BY <1>3, <2>0, <3>1, BeforeHolds DEF b
  <2>2. /\ c \in Seq(LsMessage) /\ Len(c) = n + 1 + 1 /\ c[n + 1 + 1] = theirs
        /\ \A i \in 1 .. n + 1 : c[i] = b[i]
    <3>1. b \in Seq(LsMessage) /\ Len(b) = n + 1 /\ theirs \in LsMessage
      BY <1>3, <2>1
    <3> QED  BY <3>1, AfterHolds DEF c
  <2>3. /\ d \in Seq(LsMessage) /\ Len(d) = n + 1 + 1 + 1 /\ d[n + 1 + 1 + 1] = q
        /\ \A i \in 1 .. n + 1 + 1 : d[i] = c[i]
    BY <1>2, <2>2, AfterHolds DEF d
  <2>4. /\ a \in Seq(LsMessage) /\ Len(a) = n + 1 + 1 + 1 + 1 /\ a[n + 1 + 1 + 1 + 1] = end
        /\ \A i \in 1 .. n + 1 + 1 + 1 : a[i] = d[i]
    BY <1>3, <1>4, <2>3, AfterHolds
  <2>5. n \in Nat /\ n + 1 + 1 = n + 2 /\ n + 1 + 1 + 1 = n + 3 /\ n + 1 + 1 + 1 + 1 = n + 4
    BY <1>1
  <2>6. a[1] = ours
    <3>1. 1 \in 1 .. n + 1 /\ 1 \in 1 .. n + 2 /\ 1 \in 1 .. n + 3
      BY <2>5
    <3>2. a[1] = d[1] /\ d[1] = c[1] /\ c[1] = b[1]
      BY <2>2, <2>3, <2>4, <2>5, <3>1
    <3> QED  BY <2>1, <3>2
  <2>7. ASSUME NEW i \in 2 .. n + 1 PROVE a[i] = ps[i - 1]
    <3>1. i \in 1 .. n + 1 /\ i - 1 \in 1 .. n /\ (i - 1) + 1 = i
      BY <2>5
    <3>2. i \in 1 .. n + 2 /\ i \in 1 .. n + 3
      BY <2>5
    <3> QED  BY <2>1, <2>2, <2>3, <2>4, <2>5, <3>1, <3>2
  <2>8. a[n + 2] = theirs
    <3>1. n + 2 \in 1 .. n + 2 /\ n + 2 \in 1 .. n + 3
      BY <2>5
    <3>2. a[n + 2] = d[n + 2] /\ d[n + 2] = c[n + 2]
      BY <2>3, <2>4, <2>5, <3>1
    <3> QED  BY <2>2, <2>5, <3>2
  <2>9. a[n + 3] = q
    BY <2>3, <2>4, <2>5
  <2> QED  BY <2>4, <2>5, <2>6, <2>7, <2>8, <2>9
<1> QED  BY <1>1, <1>5 DEF a, ps, q, end, ours, theirs

LEMMA AnsweredHolds ==
    ASSUME NEW s \in Seq(LsEntry)
    PROVE  /\ Answered(s) \in Seq(LsMessage) /\ Rest(Answered(s)) /\ Answered(s) # <<>>
           /\ Head(Answered(s)).kind = "table"
           /\ \A i \in DOMAIN Answered(s) :
                 Answered(s)[i].kind = "piece" => ToSet(Answered(s)[i].of) \subseteq ToSet(s)
<1> DEFINE a == Answered(s)
           ps == Pieces(s)
           n == Len(ps)
           q == [kind |-> "piece", of |-> <<>>, more |-> FALSE]
           end == [kind |-> "end"]
           ours == Table(TRUE)
           theirs == Table(FALSE)
<1>1. /\ ps \in Seq(LsMessage) /\ n \in Nat \ {0}
      /\ \A i \in 1 .. n : /\ ps[i].kind = "piece" /\ (ps[i].more <=> i < n)
                           /\ ToSet(ps[i].of) \subseteq ToSet(s)
  BY PiecesHold
<1>2. q \in LsMessage /\ q.kind = "piece" /\ q.more = FALSE /\ ToSet(q.of) \subseteq ToSet(s)
  BY DEF LsMessage, ToSet
<1>3. /\ ours \in LsMessage /\ theirs \in LsMessage /\ end \in LsMessage
      /\ ours.kind = "table" /\ theirs.kind = "table" /\ end.kind = "end"
  BY DEF Table, LsMessage
<1>4. /\ a \in Seq(LsMessage) /\ Len(a) = n + 4
      /\ a[1] = ours /\ (\A i \in 2 .. n + 1 : a[i] = ps[i - 1])
      /\ a[n + 2] = theirs /\ a[n + 3] = q /\ a[n + 4] = end
  BY AnsweredIs
<1> HIDE DEF a, ps, q, end, ours, theirs
<1>5. \A i \in DOMAIN a :
         \/ i = 1 /\ a[i].kind = "table"
         \/ i \in 2 .. n + 1 /\ a[i].kind = "piece" /\ (a[i].more <=> i < n + 1) /\ ToSet(a[i].of) \subseteq ToSet(s)
         \/ i = n + 2 /\ a[i].kind = "table"
         \/ i = n + 3 /\ a[i].kind = "piece" /\ ~a[i].more /\ ToSet(a[i].of) \subseteq ToSet(s)
         \/ i = n + 4 /\ a[i].kind = "end"
  <2> SUFFICES ASSUME NEW i \in 1 .. n + 4 PROVE
         \/ i = 1 /\ a[i].kind = "table"
         \/ i \in 2 .. n + 1 /\ a[i].kind = "piece" /\ (a[i].more <=> i < n + 1) /\ ToSet(a[i].of) \subseteq ToSet(s)
         \/ i = n + 2 /\ a[i].kind = "table"
         \/ i = n + 3 /\ a[i].kind = "piece" /\ ~a[i].more /\ ToSet(a[i].of) \subseteq ToSet(s)
         \/ i = n + 4 /\ a[i].kind = "end"
    BY <1>4
  <2>1. CASE i \in 2 .. n + 1
    BY <1>1, <1>4, <2>1
  <2>2. CASE i = 1
    BY <1>3, <1>4, <2>2
  <2>3. CASE i = n + 2
    BY <1>3, <1>4, <2>3
  <2>4. CASE i = n + 3
    BY <1>2, <1>4, <2>4
  <2>5. CASE i = n + 4
    BY <1>3, <1>4, <2>5
  <2>6. n \in Nat
    BY <1>1
  <2> HIDE DEF n
  <2>7. i = 1 \/ i \in 2 .. n + 1 \/ i = n + 2 \/ i = n + 3 \/ i = n + 4
    BY <2>6
  <2> QED  BY <2>1, <2>2, <2>3, <2>4, <2>5, <2>7
<1>6. DOMAIN a = 1 .. n + 4
  BY <1>4
<1>7. Rest(a)
  <2> SUFFICES ASSUME NEW i \in 1 .. n + 4
               PROVE  /\ (a[i].kind = "end") <=> (i = Len(a))
                      /\ a[i].kind = "table" => a[i + 1].kind = "piece"
                      /\ a[i].kind = "piece" => (a[i].more <=> a[i + 1].kind = "piece")
    BY <1>6 DEF Rest
  <2> HIDE DEF n
  <2>0. n \in Nat \ {0} /\ Len(a) = n + 4
    BY <1>1, <1>4
  <2>1. CASE i = 1
    <3>1. a[2].kind = "piece"
      BY <1>5, <1>6, <2>0
    <3> QED  BY <1>5, <1>6, <2>0, <2>1, <3>1
  <2>2. CASE i \in 2 .. n
    BY <1>5, <1>6, <2>0, <2>2
  <2>3. CASE i = n + 1
    BY <1>5, <1>6, <2>0, <2>3
  <2>4. CASE i \in n + 2 .. n + 4
    BY <1>5, <1>6, <2>0, <2>4
  <2> QED  BY <2>0, <2>1, <2>2, <2>3, <2>4
<1>8. Head(a) = a[1] /\ a # <<>>
  <2>1. n \in Nat
    BY <1>1
  <2>2. a \in Seq(LsMessage) /\ Len(a) = n + 4
    BY <1>4
  <2> HIDE DEF n
  <2>3. a # <<>>
    BY <2>1, <2>2
  <2> QED  BY <2>1, <2>2, <2>3
<1>9 a \in Seq(LsMessage) /\ Head(a).kind = "table" /\ a # <<>> /\ Rest(a)
       /\ \A i \in DOMAIN a : a[i].kind = "piece" => ToSet(a[i].of) \subseteq ToSet(s)
  <2>1. Head(a).kind = "table"
    BY <1>3, <1>4, <1>8
  <2>2. \A i \in DOMAIN a : a[i].kind = "piece" => ToSet(a[i].of) \subseteq ToSet(s)
    BY <1>5
  <2> QED  BY <1>4, <1>7, <1>8, <2>1, <2>2
<1> QED  BY <1>9 DEF a

(* What is left when one message has been taken. *)
LEMMA TailHolds ==
    ASSUME NEW st \in Seq(LsMessage), Rest(st), st # <<>>
    PROVE  /\ Tail(st) \in Seq(LsMessage) /\ Rest(Tail(st))
           /\ \A i \in DOMAIN Tail(st) : Tail(st)[i] = st[i + 1] /\ i + 1 \in DOMAIN st
           /\ Head(st).kind = "end" => Tail(st) = <<>>
           /\ Head(st).kind # "end" => Tail(st) # <<>>
           /\ Head(st).kind = "table" => Head(Tail(st)).kind = "piece"
           /\ Head(st).kind = "piece" => (Head(st).more <=> Head(Tail(st)).kind = "piece")
<1> DEFINE t == Tail(st)
<1>1. /\ Len(st) \in Nat \ {0} /\ Head(st) = st[1] /\ t \in Seq(LsMessage) /\ Len(t) = Len(st) - 1
      /\ \A i \in 1 .. Len(st) - 1 : t[i] = st[i + 1]
  OBVIOUS
<1>2. DOMAIN t = 1 .. Len(st) - 1 /\ DOMAIN st = 1 .. Len(st)
  BY <1>1
<1> HIDE DEF t
<1>3. \A i \in DOMAIN t : t[i] = st[i + 1] /\ i + 1 \in DOMAIN st
  BY <1>1, <1>2
<1>4. Rest(t)
  <2> SUFFICES ASSUME NEW i \in DOMAIN t
               PROVE  /\ (t[i].kind = "end") <=> (i = Len(t))
                      /\ t[i].kind = "table" => t[i + 1].kind = "piece"
                      /\ t[i].kind = "piece" => (t[i].more <=> t[i + 1].kind = "piece")
    BY DEF Rest
  <2>1. i \in Nat /\ t[i] = st[i + 1] /\ i + 1 \in DOMAIN st /\ i <= Len(t)
    BY <1>1, <1>2, <1>3
  <2>2. /\ (st[i + 1].kind = "end") <=> (i + 1 = Len(st))
        /\ st[i + 1].kind = "table" => st[(i + 1) + 1].kind = "piece"
        /\ st[i + 1].kind = "piece" => (st[i + 1].more <=> st[(i + 1) + 1].kind = "piece")
    BY <2>1 DEF Rest
  <2>3. (t[i].kind = "end") <=> (i = Len(t))
    BY <1>1, <2>1, <2>2
  <2>4. ASSUME t[i].kind # "end" PROVE t[i + 1] = st[(i + 1) + 1]
    <3>1. i + 1 \in DOMAIN t
      BY <1>1, <1>2, <2>1, <2>3, <2>4
    <3> QED  BY <1>3, <3>1
  <2> QED  BY <2>1, <2>2, <2>3, <2>4
<1>5. /\ (Head(st).kind = "end") <=> (1 = Len(st))
      /\ Head(st).kind = "table" => st[2].kind = "piece"
      /\ Head(st).kind = "piece" => (Head(st).more <=> st[2].kind = "piece")
  <2>1. 1 \in DOMAIN st /\ 1 + 1 = 2
    BY <1>1, <1>2
  <2> QED  BY <1>1, <2>1 DEF Rest
<1>6. Len(st) # 1 => t # <<>> /\ Head(t) = st[2]
  BY <1>1
<1>7. Len(st) = 1 => t = <<>>
  BY <1>1
<1> QED  BY <1>1, <1>3, <1>4, <1>5, <1>6, <1>7 DEF t

LEMMA AskTruth == ASSUME LsTruth, SendAsk PROVE LsTruth'
<1> DEFINE a == Answered(Listed(lsAt.part))
<1>1. /\ lsAt.pc = "ask" /\ lsLoop.by = "streams" /\ lsStream = <<>> /\ lsAt \in [pc : LsPcs, part : LsParts]
      /\ Listed(lsAt.part) \in Seq(LsEntry) /\ ToSet(Listed(lsAt.part)) \subseteq lsSeen
  BY ListIsSeen DEF SendAsk, LsTruth, LsTypes, LsAnswer
<1>2. /\ a \in Seq(LsMessage) /\ Rest(a) /\ a # <<>> /\ Head(a).kind = "table"
      /\ \A i \in DOMAIN a : a[i].kind = "piece" => ToSet(a[i].of) \subseteq lsSeen
  BY <1>1, AnsweredHolds
<1>3. lsStream' = <<>> \o a
  BY <1>1 DEF SendAsk
<1> HIDE DEF a
<1>4. lsStream' = a
  BY <1>2, <1>3
<1>5. /\ lsAt' = [pc |-> "control", part |-> lsAt.part]
      /\ UNCHANGED <<lsLoop, lsTable, lsNext, lsBuf, lsPos, lsSize, lsHanded, lsSeen, lsQuiet>>
  BY <1>1 DEF SendAsk, lsRead, lsHist
<1>6. LsTypes'
  BY <1>1, <1>5 DEF LsTruth, LsTypes, LsPcs
<1>7. LsWasListed'
  BY <1>1, <1>5 DEF LsTruth, LsWasListed, AllListed, Wanted
<1>8. LsTicket'
  BY <1>1, <1>5 DEF LsTicket
<1>9. LsAnswer'
  BY <1>2, <1>4, <1>5 DEF LsAnswer
<1> QED  BY <1>6, <1>7, <1>8, <1>9 DEF LsTruth

(* What holds of the stream once its next message has been taken. *)
LEMMA TakenHolds ==
    ASSUME LsAnswer, lsStream # <<>>, Consumes
    PROVE  /\ lsStream' \in Seq(LsMessage) /\ Rest(lsStream')
           /\ \A i \in DOMAIN lsStream' : lsStream'[i].kind = "piece" => ToSet(lsStream'[i].of) \subseteq lsSeen
           /\ Head(lsStream).kind = "end" => lsStream' = <<>>
           /\ Head(lsStream).kind # "end" => lsStream' # <<>>
           /\ Head(lsStream).kind = "table" => Head(lsStream').kind = "piece"
           /\ Head(lsStream).kind = "piece" => (Head(lsStream).more <=> Head(lsStream').kind = "piece")
<1>1. lsStream \in Seq(LsMessage) /\ Rest(lsStream)
  BY DEF LsAnswer
<1>2. lsStream' = Tail(lsStream)
  BY DEF Consumes
<1>3. \A i \in DOMAIN Tail(lsStream) : Tail(lsStream)[i].kind = "piece" => ToSet(Tail(lsStream)[i].of) \subseteq lsSeen
  BY <1>1, TailHolds DEF LsAnswer
<1> QED  BY <1>1, <1>2, <1>3, TailHolds

LEMMA ControlTruth == ASSUME LsTruth, ReadControl PROVE LsTruth'
<1>1. /\ lsAt.pc = "control" /\ lsLoop.by = "streams" /\ lsAt \in [pc : LsPcs, part : LsParts]
      /\ lsAt.part <= lsLoop.parts /\ lsLoop \in Loops /\ LoopForm(lsLoop)
  BY LoopForms DEF ReadControl, LsTruth, LsTypes
<1>2. LsAnswer /\ lsStream # <<>> /\ Head(lsStream).kind # "piece"
  BY <1>1 DEF LsTruth, LsAnswer
<1>3. Consumes /\ UNCHANGED <<lsLoop, lsTable, lsNext, lsBuf, lsHanded, lsSeen, lsQuiet, lsPos>>
      /\ (lsSize' = lsSize \/ lsSize' \in {0, 1})
  BY <1>2 DEF ReadControl, lsRead, lsHist
<1>4. \/ Head(lsStream).kind = "end" /\ lsAt' = [pc |-> "idle", part |-> lsAt.part]
      \/ Head(lsStream).kind = "end" /\ lsAt.part # lsLoop.parts /\ lsAt' = [pc |-> "ask", part |-> lsAt.part + 1]
      \/ Head(lsStream).kind = "table" /\ lsAt' = [pc |-> "data", part |-> lsAt.part]
  BY <1>1, <1>2 DEF ReadControl
<1>5. lsAt' \in [pc : LsPcs, part : LsParts] /\ lsAt'.part <= lsLoop.parts /\ lsAt'.pc \in {"idle", "ask", "data"}
  BY <1>1, <1>4 DEF LsPcs, LsParts, LoopForm
<1>6. LsTypes'
  BY <1>1, <1>3, <1>5 DEF LsTruth, LsTypes
<1>7. LsWasListed'
  BY <1>1, <1>3 DEF LsTruth, LsWasListed, AllListed, Wanted
<1>8. LsTicket'
  BY <1>1, <1>3 DEF LsTicket
<1>9. LsAnswer'
  <2>1. /\ lsStream' \in Seq(LsMessage) /\ Rest(lsStream')
        /\ \A i \in DOMAIN lsStream' : lsStream'[i].kind = "piece" => ToSet(lsStream'[i].of) \subseteq lsSeen
        /\ Head(lsStream).kind = "end" => lsStream' = <<>>
        /\ Head(lsStream).kind = "table" => lsStream' # <<>> /\ Head(lsStream').kind = "piece"
    BY <1>2, <1>3, TakenHolds
  <2> QED  BY <1>3, <1>4, <2>1 DEF LsAnswer
<1> QED  BY <1>6, <1>7, <1>8, <1>9 DEF LsTruth

LEMMA PieceTruth == ASSUME LsTruth, ReadPiece PROVE LsTruth'
<1>1. /\ lsAt.pc = "data" /\ lsLoop.by = "streams" /\ lsAt \in [pc : LsPcs, part : LsParts]
  BY DEF ReadPiece, LsTruth, LsTypes
<1>2. LsAnswer /\ lsStream # <<>> /\ Head(lsStream).kind = "piece" /\ lsStream \in Seq(LsMessage)
  BY <1>1 DEF LsTruth, LsAnswer
<1>3. Consumes /\ UNCHANGED <<lsLoop, lsTable, lsNext, lsSize, lsHanded, lsSeen, lsQuiet>>
      /\ (lsBuf' = Head(lsStream).of \/ lsBuf' = <<>>)
      /\ lsPos' = (IF Head(lsStream).more THEN 1 ELSE 0)
      /\ lsAt' = [pc |-> IF lsSize = 1 THEN "hand" ELSE IF Head(lsStream).more THEN "data" ELSE "control", part |-> lsAt.part]
  BY <1>1 DEF ReadPiece, lsHist
<1>4. Head(lsStream).of \in Seq(LsEntry) /\ ToSet(Head(lsStream).of) \subseteq lsSeen
  <2>1. Head(lsStream) = lsStream[1] /\ 1 \in DOMAIN lsStream /\ lsStream[1] \in LsMessage
    BY <1>2
  <2>2. \A m \in LsMessage : m.kind = "piece" => m.of \in Seq(LsEntry)
    BY DEF LsMessage
  <2> QED  BY <1>2, <2>1, <2>2 DEF LsAnswer
<1>5. lsBuf' \in Seq(LsEntry) /\ ToSet(lsBuf') \subseteq lsSeen
  <2>1. <<>> \in Seq(LsEntry) /\ ToSet(<<>>) = {}
    BY DEF ToSet
  <2> QED  BY <1>3, <1>4, <2>1
<1>6. LsTypes'
  <2>1. lsAt' \in [pc : LsPcs, part : LsParts] /\ lsAt'.part = lsAt.part /\ lsAt'.pc \in {"hand", "data", "control"}
    BY <1>1, <1>3 DEF LsPcs
  <2>2. lsPos' \in Nat
    BY <1>3
  <2> QED  BY <1>1, <1>3, <1>5, <2>1, <2>2 DEF LsTruth, LsTypes
<1>7. LsWasListed'
  BY <1>1, <1>3, <1>5 DEF LsTruth, LsWasListed, AllListed, Wanted
<1>8. LsTicket'
  BY <1>1, <1>3 DEF LsTicket
<1>9. LsAnswer'
  <2>1. /\ lsStream' \in Seq(LsMessage) /\ Rest(lsStream')
        /\ \A i \in DOMAIN lsStream' : lsStream'[i].kind = "piece" => ToSet(lsStream'[i].of) \subseteq lsSeen
        /\ lsStream' # <<>> /\ (Head(lsStream).more <=> Head(lsStream').kind = "piece")
    BY <1>2, <1>3, TakenHolds
  <2>2. lsPos' = 1 <=> Head(lsStream).more
    BY <1>3
  <2>3. \/ lsAt'.pc = "hand"
        \/ lsAt'.pc = "data" /\ Head(lsStream).more
        \/ lsAt'.pc = "control" /\ ~Head(lsStream).more
    BY <1>3
  <2> QED  BY <1>3, <2>1, <2>2, <2>3 DEF LsAnswer
<1> QED  BY <1>6, <1>7, <1>8, <1>9 DEF LsTruth

(* A loop over streams leaves nothing behind if nothing interrupts it. *)
LEMMA RefusedTruth == ASSUME LsTruth, Refused PROVE LsTruth'
<1>1. lsAt.pc \in {"measure", "fetch", "ask"} /\ LsReturns("error")
  BY DEF Refused
<1>2. lsLoop.by = "streams" => lsStream = <<>>
  BY <1>1 DEF LsTruth, LsTypes, LsAnswer
<1> QED  BY <1>1, <1>2, ReturnsTruth

(* A reading that ends early goes to the next list as one that ends well.  *)
LEMMA CutShortTruth == ASSUME LsTruth, CutShort PROVE LsTruth'
<1>1. /\ lsLoop \in {RouteProc, RulesIpchains} /\ lsLoop.by = "file"
      /\ lsAt \in [pc : LsPcs, part : LsParts] /\ lsAt.part <= lsLoop.parts /\ lsLoop.parts \in LsParts
      /\ lsAt.pc \in {"fetch", "hand"}
  BY DEF CutShort, RouteProc, RulesIpchains, Loop, LsTruth, LsTypes, LsParts
<1>2. ToSet(<<>>) = {} /\ <<>> \in Seq(LsEntry)
  BY DEF ToSet
<1>3. /\ lsBuf' = <<>> /\ lsPos' = 0 /\ lsSize' = 0
      /\ UNCHANGED <<lsLoop, lsTable, lsNext, lsHanded, lsSeen>>
  BY DEF CutShort
<1>4. lsAt' \in [pc : {"idle", "fetch"}, part : LsParts] /\ lsAt'.part <= lsLoop.parts
  <2>1. CASE lsAt.part = lsLoop.parts
    <3>1. lsAt' = [pc |-> "idle", part |-> lsAt.part]
      BY <1>1, <2>1 DEF CutShort
    <3> QED  BY <1>1, <3>1
  <2>2. CASE lsAt.part # lsLoop.parts
    <3>1. lsAt' = [pc |-> "fetch", part |-> lsAt.part + 1] /\ lsAt.part = 1 /\ lsLoop.parts = 2
      BY <1>1, <2>2 DEF CutShort, LsParts
    <3> QED  BY <3>1 DEF LsParts
  <2> QED  BY <2>1, <2>2
<1>5. LsTypes'
  BY <1>1, <1>2, <1>3, <1>4 DEF LsTruth, LsTypes, LsPcs
<1>6. LsWasListed'
  BY <1>1, <1>2, <1>3 DEF LsTruth, LsWasListed, Wanted, AllListed
<1> QED  BY <1>1, <1>3, <1>5, <1>6 DEF LsTruth, LsTicket

LEMMA InterruptedTruth == ASSUME StreamsRunOut, LsTruth, StreamInterrupted PROVE LsTruth'
<1>1. lsLoop \notin Undisturbed /\ LsReturns("error") /\ lsLoop \in Loops
  BY DEF StreamInterrupted, LsTruth, LsTypes
<1> QED  BY <1>1, ReturnsTruth DEF StreamsRunOut
----------------------------------------------------------------------------
(* The handler. *)
LEMMA ExhaustedTruth == ASSUME LsTruth, Exhausted PROVE LsTruth'
<1>1. lsAt.pc = "hand" /\ lsAt \in [pc : LsPcs, part : LsParts] /\ lsPos \in Nat /\ lsSize \in Nat
      /\ ToSet(<<>>) = {} /\ <<>> \in Seq(LsEntry)
  BY DEF Exhausted, LsTruth, LsTypes, ToSet
<1>2. CASE lsLoop.by = "streams"
  <2>1. /\ lsAt' = [pc |-> IF lsPos = 1 THEN "data" ELSE "control", part |-> lsAt.part]
        /\ lsBuf' = <<>>
        /\ UNCHANGED <<lsPos, lsSize, lsNext, lsLoop, lsTable, lsStream, lsHanded, lsSeen, lsQuiet>>
    BY <1>1, <1>2 DEF Exhausted, Reads, NextRead, lsHist
  <2>2. lsAt'.pc \in {"data", "control"} /\ lsAt'.part = lsAt.part /\ lsAt' \in [pc : LsPcs, part : LsParts]
    BY <1>1, <2>1 DEF LsPcs
  <2>3. LsTypes'
    BY <1>1, <1>2, <2>1, <2>2 DEF LsTruth, LsTypes
  <2>4. LsWasListed'
    BY <1>1, <2>1 DEF LsTruth, LsWasListed, AllListed, Wanted
  <2>5. LsTicket'
    BY <1>2, <2>1 DEF LsTicket
  <2>6. LsAnswer'
    BY <1>1, <1>2, <2>1 DEF LsTruth, LsAnswer
  <2> QED  BY <2>3, <2>4, <2>5, <2>6 DEF LsTruth
<1>3. CASE lsLoop.by # "streams"
  <2>1. PartEnds \/ Reads("fetch", <<>>, lsPos, lsSize)
    BY <1>3 DEF Exhausted, NextRead
  <2>2. lsLoop.by = "numbered" => lsPos <= lsSize
    BY DEF LsTruth, LsTicket
  <2> QED  BY <1>1, <1>3, <2>1, <2>2, PartEndsTruth, ReadsTruth
<1> QED  BY <1>2, <1>3

LEMMA HeadIsSeen ==
    ASSUME LsTruth, Present
    PROVE  /\ Head(lsBuf) \in LsEntry /\ Head(lsBuf) \in lsSeen
           /\ Tail(lsBuf) \in Seq(LsEntry) /\ ToSet(Tail(lsBuf)) \subseteq lsSeen
<1>1. lsBuf \in Seq(LsEntry) /\ lsBuf # <<>> /\ ToSet(lsBuf) \subseteq lsSeen
  BY DEF LsTruth, LsTypes, LsWasListed, Present
<1>2. Head(lsBuf) \in LsEntry
  BY <1>1
<1> QED  BY <1>1, <1>2, EndsHold

LEMMA PassOverTruth == ASSUME LsTruth, PassOver PROVE LsTruth'
<1>1. /\ lsAt.pc = "hand" /\ lsAt \in [pc : LsPcs, part : LsParts] /\ Reads("hand", Tail(lsBuf), lsPos, lsSize)
      /\ Tail(lsBuf) \in Seq(LsEntry) /\ ToSet(Tail(lsBuf)) \subseteq lsSeen
  BY HeadIsSeen DEF PassOver, Present, LsTruth, LsTypes
<1>2. /\ lsAt' = lsAt /\ lsBuf' = Tail(lsBuf)
      /\ UNCHANGED <<lsPos, lsSize, lsNext, lsLoop, lsTable, lsStream, lsHanded, lsSeen, lsQuiet>>
  BY <1>1 DEF Reads, lsHist
<1>3. LsTypes'
  BY <1>1, <1>2 DEF LsTruth, LsTypes
<1>4. LsWasListed'
  BY <1>1, <1>2 DEF LsTruth, LsWasListed, AllListed, Wanted
<1>5. LsTicket'
  BY <1>2 DEF LsTruth, LsTicket
<1>6. lsLoop'.by = "streams" => LsAnswer'
  BY <1>2 DEF LsTruth, LsAnswer
<1> QED  BY <1>3, <1>4, <1>5, <1>6 DEF LsTruth

LEMMA GoOnTruth == ASSUME LsTruth, GoOn PROVE LsTruth'
<1>1. /\ Head(lsBuf) \in LsEntry /\ Head(lsBuf) \in lsSeen /\ Wanted(Head(lsBuf))
      /\ Tail(lsBuf) \in Seq(LsEntry) /\ ToSet(Tail(lsBuf)) \subseteq lsSeen /\ lsHanded \in Seq(LsEntry)
  BY HeadIsSeen DEF GoOn, Due, LsTruth, LsTypes
<1>2. /\ lsHanded' = Append(lsHanded, Head(lsBuf)) /\ lsBuf' = Tail(lsBuf)
      /\ UNCHANGED <<lsAt, lsPos, lsSize, lsNext, lsLoop, lsTable, lsStream, lsSeen, lsQuiet>>
  BY DEF GoOn, lsHist
<1>3. lsHanded' \in Seq(LsEntry) /\ ToSet(lsHanded') = ToSet(lsHanded) \cup {Head(lsBuf)}
  BY <1>1, <1>2, EndsHold
<1>4. LsTypes'
  BY <1>1, <1>2, <1>3 DEF LsTruth, LsTypes
<1>5. LsWasListed'
  BY <1>1, <1>2, <1>3 DEF LsTruth, LsWasListed, AllListed, Wanted
<1>6. LsTicket'
  BY <1>2 DEF LsTruth, LsTicket
<1>7. lsLoop'.by = "streams" => LsAnswer'
  BY <1>2 DEF LsTruth, LsAnswer
<1> QED  BY <1>4, <1>5, <1>6, <1>7 DEF LsTruth

LEMMA StopTruth == ASSUME StreamsRunOut, LsTruth, Stop PROVE LsTruth'
<1>1. /\ Head(lsBuf) \in LsEntry /\ Head(lsBuf) \in lsSeen /\ Wanted(Head(lsBuf)) /\ lsHanded \in Seq(LsEntry)
      /\ lsAt \in [pc : LsPcs, part : LsParts] /\ lsLoop \in Loops /\ lsLoop.by # "streams"
  BY HeadIsSeen DEF Stop, Due, LsTruth, LsTypes, StreamsRunOut
<1>2. /\ lsHanded' = Append(lsHanded, Head(lsBuf)) /\ lsBuf' = <<>> /\ lsPos' = 0 /\ lsSize' = 0
      /\ lsAt' = [pc |-> "idle", part |-> lsAt.part] /\ lsNext' = <<<<>>, <<>>>>
      /\ UNCHANGED <<lsLoop, lsTable, lsStream, lsSeen, lsQuiet>>
  BY <1>1 DEF Stop, lsHist
<1>3. lsHanded' \in Seq(LsEntry) /\ ToSet(lsHanded') = ToSet(lsHanded) \cup {Head(lsBuf)}
      /\ lsBuf' \in Seq(LsEntry) /\ ToSet(<<>>) = {}
  <2>1. lsHanded' \in Seq(LsEntry) /\ ToSet(lsHanded') = ToSet(lsHanded) \cup {Head(lsBuf)}
    BY <1>1, <1>2, EndsHold
  <2>2. lsBuf' \in Seq(LsEntry)
    BY <1>2
  <2>3. ToSet(<<>>) = {}
    BY DEF ToSet
  <2> QED  BY <2>1, <2>2, <2>3
<1>4. lsNext' \in [LsParts -> Seq(LsEntry)] /\ \A p \in LsParts : lsNext'[p] = <<>>
  <2>1. LsParts = 1 .. 2
    BY DEF LsParts
  <2> QED  BY <1>2, <2>1, NoChains
<1>5. LsTypes'
  BY <1>1, <1>2, <1>3, <1>4 DEF LsTruth, LsTypes, LsPcs
<1>6. LsWasListed'
  BY <1>1, <1>2, <1>3, <1>4 DEF LsTruth, LsWasListed, Wanted
<1>7. LsTicket'
  BY <1>2 DEF LsTicket
<1> QED  BY <1>1, <1>2, <1>5, <1>6, <1>7 DEF LsTruth

LEMMA VanishedTruth == ASSUME LsTruth, Vanished PROVE LsTruth'
<1>1. LsReturns("error") /\ lsLoop.again /\ lsLoop \in Loops
  BY DEF Vanished, Gone, LsTruth, LsTypes
<1>2. lsLoop.by # "streams"
  BY <1>1, LoopForms DEF LoopForm
<1> QED  BY <1>1, <1>2, ReturnsTruth

LEMMA StepTruth == ASSUME StreamsRunOut, LsTruth, [LsNext]_lsVars PROVE LsTruth'
<1>1. CASE UNCHANGED lsVars
  BY <1>1 DEF lsVars, lsRead, lsHist, LsTruth, LsTypes, LsWasListed, LsTicket, LsAnswer, AllListed, Wanted
<1>2. CASE LsNext
  BY <1>2, ChangeTruth, CallTruth, CopiesTruth, LinesTruth, NumberedTruth, ChainedTruth, RefusedTruth, CutShortTruth, AskTruth,
     ControlTruth, PieceTruth, InterruptedTruth, ExhaustedTruth, PassOverTruth, VanishedTruth, GoOnTruth, StopTruth
     DEF LsNext
<1> QED  BY <1>1, <1>2

LEMMA TruthIsHanded == LsTruth => HandsTheTruth
BY DEF LsTruth, LsWasListed, HandsTheTruth
----------------------------------------------------------------------------
(* Loops hand over everything, once: for tables of any length that fit     *)
(* where the library copies them, changed any number of times by others.   *)

(* The loop over SIOCGLIFCONF takes an entry for one that it has handed    *)
(* over if it has the name of the first.                                   *)
ComparesPrevious == IntfLifconf \notin Loops
(* A buffer of fixed size has room for the tables there are.               *)
RoomForAll == \A l \in Loops : l.by = "fixed" => MaxTable + MaxChange <= LsRoom

LsOneCopy == {"measured", "exact", "doubled", "fixed", "whole"}
LoopRules(l) ==
    /\ l.by \in {"measured", "numbered"} => l.parts = 1
    /\ l.twin \in {"none", "previous"}
    /\ l.twin = "previous" => l.skips = {} /\ l.parts = 1

LEMMA LoopsRule == ASSUME ComparesPrevious PROVE \A l \in Loops : LoopRules(l)
<1>1. \A l \in {ArpSysctl, ArpProc, ArpStreams, ArpMib, ArpWin32} : LoopRules(l)
  BY DEF ArpSysctl, ArpProc, ArpStreams, ArpMib, ArpWin32, Loop, LoopRules
<1>2. \A l \in {RouteSysctl, RouteProc, RouteStreams, RouteHpux, RouteWin32, RouteVista} : LoopRules(l)
  BY DEF RouteSysctl, RouteProc, RouteStreams, RouteHpux, RouteWin32, RouteVista, Loop, LoopRules
<1>3. \A l \in {RulesIpchains, RulesIpfw, RulesIpf, RulesPf, RulesPipe} : LoopRules(l)
  BY DEF RulesIpchains, RulesIpfw, RulesIpf, RulesPf, RulesPipe, Loop, LoopRules
<1>4. \A l \in {IntfProc, IntfIfconf, IntfWin32} : LoopRules(l)
  BY DEF IntfProc, IntfIfconf, IntfWin32, Loop, LoopRules
<1> HIDE DEF LoopRules
<1> QED  BY <1>1, <1>2, <1>3, <1>4, LoopsAssumption DEF ComparesPrevious

(* Lists in which nothing comes twice, and a name's entries are neighbours. *)
Neighbours(s) == \A a, b, c \in DOMAIN s : a < b /\ b < c /\ s[a].name = s[c].name => s[b].name = s[a].name
LsListOK(s, p) == IsInjective(s) /\ Neighbours(s) /\ \A e \in ToSet(s) : e.part = p

LEMMA GroupedNeighbours == ASSUME NEW s \in Seq(LsEntry), Grouped(s) PROVE Neighbours(s)
<1> SUFFICES ASSUME NEW a \in 1 .. Len(s), NEW b \in 1 .. Len(s), NEW c \in 1 .. Len(s), a < b, b < c, s[a].name = s[c].name
             PROVE  s[b].name = s[a].name
  BY DEF Neighbours
<1> DEFINE M == b - a
           T == {n \in 0 .. M : s[a + n].name = s[a].name}
<1>1. M \in Nat /\ M \in 0 .. M /\ a + M = b
  OBVIOUS
<1>2. 0 \in T
  BY <1>1
<1>3. ASSUME NEW n \in 1 .. M, n - 1 \in T PROVE n \in T
  <2>1. a + (n - 1) \in DOMAIN s /\ c \in DOMAIN s /\ a + (n - 1) < c /\ (a + (n - 1)) + 1 = a + n /\ n \in 0 .. M
    BY <1>1
  <2>2. s[a + (n - 1)].name = s[a].name
    BY <1>3
  <2>3. s[(a + (n - 1)) + 1].name = s[a + (n - 1)].name
    BY <2>1, <2>2 DEF Grouped
  <2> QED  BY <2>1, <2>2, <2>3
<1> HIDE DEF T, M
<1>4. 0 .. M \subseteq T
  BY <1>1, <1>2, <1>3, UpTo
<1> QED  BY <1>1, <1>4 DEF T

LEMMA GroupedList ==
    ASSUME NEW s \in Seq(LsEntry), Grouped(s), NEW p, \A i \in 1 .. Len(s) : s[i].part = p PROVE LsListOK(s, p)
<1>1. \A e \in ToSet(s) : e.part = p
  BY DEF ToSet
<1> QED  BY <1>1, GroupedNeighbours DEF LsListOK, Grouped

LEMMA RemoveList ==
    ASSUME NEW s \in Seq(LsEntry), NEW p, LsListOK(s, p), NEW i \in 1 .. Len(s)
    PROVE  LsListOK(RemoveAt(s, i), p) /\ Len(RemoveAt(s, i)) = Len(s) - 1
<1> DEFINE t == RemoveAt(s, i)
<1>1. t \in Seq(LsEntry) /\ Len(t) = Len(s) - 1 /\ \A j \in 1 .. Len(t) : t[j] = s[IF j < i THEN j ELSE j + 1]
  <2>1. IsWithout(RemoveAt(s, i), LsEntry, s, i)
    BY WithoutHolds
  <2> QED  BY <2>1 DEF IsWithout
<1> HIDE DEF t
<1> DEFINE at == [j \in 1 .. Len(t) |-> IF j < i THEN j ELSE j + 1]
<1>2. ASSUME NEW j \in 1 .. Len(t) PROVE at[j] \in 1 .. Len(s) /\ t[j] = s[at[j]]
  BY <1>1
<1>3. ASSUME NEW j \in 1 .. Len(t), NEW k \in 1 .. Len(t), j < k PROVE at[j] < at[k]
  BY <1>1, <1>3
<1>4. \A j, k \in 1 .. Len(t) : at[j] = at[k] => j = k
  BY <1>1
<1>5. DOMAIN t = 1 .. Len(t) /\ DOMAIN s = 1 .. Len(s)
  BY <1>1
<1> HIDE DEF at
<1>6. IsInjective(t)
  BY <1>2, <1>4, <1>5 DEF LsListOK, IsInjective
<1>7. Neighbours(t)
  <2> SUFFICES ASSUME NEW a \in 1 .. Len(t), NEW b \in 1 .. Len(t), NEW c \in 1 .. Len(t), a < b, b < c, t[a].name = t[c].name
               PROVE  t[b].name = t[a].name
    BY <1>5 DEF Neighbours
  <2>1. at[a] < at[b] /\ at[b] < at[c]
    BY <1>3
  <2>2. at[a] \in DOMAIN s /\ at[b] \in DOMAIN s /\ at[c] \in DOMAIN s
    BY <1>2, <1>5
  <2>3. s[at[a]].name = s[at[c]].name
    BY <1>2
  <2>4. s[at[b]].name = s[at[a]].name
    BY <2>1, <2>2, <2>3 DEF LsListOK, Neighbours
  <2> QED  BY <1>2, <2>4
<1>8. \A e \in ToSet(t) : e.part = p
  BY <1>2, <1>5 DEF LsListOK, ToSet
<1> QED  BY <1>1, <1>6, <1>7, <1>8 DEF LsListOK, t

LEMMA AppendList ==
    ASSUME NEW s \in Seq(LsEntry), NEW p, LsListOK(s, p), NEW e \in LsEntry, e.part = p, Grouped(Append(s, e))
    PROVE  LsListOK(Append(s, e), p) /\ Len(Append(s, e)) = Len(s) + 1
<1>1. Append(s, e) \in Seq(LsEntry) /\ Len(Append(s, e)) = Len(s) + 1 /\ ToSet(Append(s, e)) = ToSet(s) \cup {e}
  BY EndsHold
<1> QED  BY <1>1, GroupedNeighbours DEF LsListOK, Grouped
----------------------------------------------------------------------------
(* The kernel's lists. *)
LsShape ==
    /\ \A p \in LsParts : LsListOK(lsTable[p], p) /\ Len(lsTable[p]) <= MaxTable + lsChanged
    /\ lsChanged \in Nat /\ lsChanged <= MaxChange
    /\ lsAt.pc # "idle" => lsStayed \subseteq AllListed

LEMMA InitShape == LsInit => LsShape
<1> SUFFICES ASSUME LsInit PROVE LsShape
  OBVIOUS
<1>1. PICK a \in Lists(1), b \in IF lsLoop.parts = 2 THEN Lists(2) ELSE {<<>>} : lsTable = <<a, b>>
  BY DEF LsInit
<1>2. ASSUME NEW p \in LsParts, NEW s \in Lists(p) PROVE LsListOK(s, p) /\ Len(s) <= MaxTable
  <2>1. PICK n \in 0 .. MaxTable : s \in [1 .. n -> {e \in LsEntry : e.part = p}]
    BY <1>2 DEF Lists, BoundedSeq, SeqOf
  <2>2. n \in Nat /\ s \in [1 .. n -> LsEntry] /\ \A i \in 1 .. n : s[i].part = p
    BY <2>1
  <2>3. s \in Seq(LsEntry) /\ Len(s) = n /\ MaxTable \in Nat
    BY <2>2, ListingAssumption
  <2>4. Grouped(s)
    BY <1>2 DEF Lists
  <2> QED  BY <2>1, <2>2, <2>3, <2>4, GroupedList
<1>3. LsListOK(<<>>, 2) /\ Len(<<>>) <= MaxTable
  BY ListingAssumption DEF LsListOK, IsInjective, Neighbours, ToSet
<1>4. LsListOK(a, 1) /\ Len(a) <= MaxTable /\ LsListOK(b, 2) /\ Len(b) <= MaxTable
  <2>1. 1 \in LsParts /\ 2 \in LsParts /\ (b \in Lists(2) \/ b = <<>>)
    BY <1>1 DEF LsParts
  <2> QED  BY <1>2, <1>3, <2>1
<1>5. lsTable[1] = a /\ lsTable[2] = b
  BY <1>1
<1>6. lsChanged = 0 /\ lsAt.pc = "idle"
  BY DEF LsInit
<1>7. \A p \in LsParts : LsListOK(lsTable[p], p) /\ Len(lsTable[p]) <= MaxTable + lsChanged
  <2>1. \A p \in LsParts : p = 1 \/ p = 2
    BY DEF LsParts
  <2>2. MaxTable + 0 = MaxTable
    BY ListingAssumption
  <2> QED  BY <1>4, <1>5, <1>6, <2>1, <2>2
<1> QED  BY <1>6, <1>7, ListingAssumption DEF LsShape

LEMMA ChangeShape == ASSUME LsTruth, LsShape, LsChange PROVE LsShape'
<1>1. PICK p \in 1 .. lsLoop.parts :
         \/ \E i \in DOMAIN lsTable[p] : lsTable' = [lsTable EXCEPT ![p] = RemoveAt(@, i)]
         \/ \E e \in LsEntry : e.part = p /\ Grouped(Append(lsTable[p], e)) /\ lsTable' = [lsTable EXCEPT ![p] = Append(@, e)]
  BY DEF LsChange
<1>2. lsTable \in [LsParts -> Seq(LsEntry)] /\ lsLoop.parts \in LsParts
  BY LoopForms DEF LsTruth, LsTypes, LoopForm
<1>3. p \in LsParts /\ lsTable[p] \in Seq(LsEntry)
  BY <1>2 DEF LsParts
<1>4. lsChanged' = lsChanged + 1 /\ lsChanged < MaxChange /\ lsAt' = lsAt
      /\ (lsAt.pc # "idle" => lsStayed' = lsStayed \cap AllListed')
  BY DEF LsChange, Idle, lsHist
<1>5. LsListOK(lsTable[p], p) /\ Len(lsTable[p]) \in Nat /\ Len(lsTable[p]) <= MaxTable + lsChanged
  BY <1>3 DEF LsShape
<1>6. PICK t : lsTable' = [lsTable EXCEPT ![p] = t] /\ LsListOK(t, p) /\ Len(t) \in {Len(lsTable[p]) - 1, Len(lsTable[p]) + 1}
  <2>1. CASE \E i \in DOMAIN lsTable[p] : lsTable' = [lsTable EXCEPT ![p] = RemoveAt(@, i)]
    <3>1. PICK i \in 1 .. Len(lsTable[p]) : lsTable' = [lsTable EXCEPT ![p] = RemoveAt(@, i)]
      <4>1. DOMAIN lsTable[p] = 1 .. Len(lsTable[p])
        BY <1>3
      <4> QED  BY <2>1, <4>1
    <3> QED  BY <1>3, <1>5, <3>1, RemoveList
  <2>2. ASSUME NEW e \in LsEntry, e.part = p, Grouped(Append(lsTable[p], e)), lsTable' = [lsTable EXCEPT ![p] = Append(@, e)]
        PROVE  \E t : lsTable' = [lsTable EXCEPT ![p] = t] /\ LsListOK(t, p) /\ Len(t) \in {Len(lsTable[p]) - 1, Len(lsTable[p]) + 1}
    BY <1>3, <1>5, <2>2, AppendList
  <2> QED  BY <1>1, <2>1, <2>2
<1>7. ASSUME NEW r \in LsParts PROVE LsListOK(lsTable'[r], r) /\ Len(lsTable'[r]) <= MaxTable + lsChanged'
  <2>1. lsChanged \in Nat /\ MaxTable \in Nat /\ Len(lsTable[r]) \in Nat /\ Len(lsTable[r]) <= MaxTable + lsChanged
        /\ LsListOK(lsTable[r], r)
    BY <1>2, ListingAssumption DEF LsShape
  <2>2. CASE r = p
    <3>1. lsTable'[r] = t
      BY <1>2, <1>6, <2>2
    <3> QED  BY <1>4, <1>5, <1>6, <2>1, <2>2, <3>1
  <2>3. CASE r # p
    <3>1. lsTable'[r] = lsTable[r]
      BY <1>2, <1>6, <2>3
    <3> QED  BY <1>4, <2>1, <3>1
  <2> QED  BY <2>2, <2>3
<1>8. lsChanged' \in Nat /\ lsChanged' <= MaxChange
  BY <1>4, ListingAssumption DEF LsShape
<1> QED  BY <1>4, <1>7, <1>8 DEF LsShape

(* No other step changes them. *)
LsTableSteps ==
    \/ Measure \/ FetchMeasured \/ FetchExact \/ FetchDoubled
    \/ FetchFixed \/ FetchLines \/ FetchNumbered \/ FetchChained
    \/ Refused \/ SendAsk \/ ReadControl \/ ReadPiece \/ StreamInterrupted
    \/ Exhausted \/ PassOver \/ Vanished \/ GoOn \/ Stop

LEMMA StepsKeepTable ==
    ASSUME LsTableSteps
    PROVE  lsAt.pc # "idle" /\ UNCHANGED <<lsLoop, lsTable, lsChanged, lsSeen, lsStayed, lsQuiet, lsCut, lsCount>>
<1>1. lsAt.pc # "idle"
  BY DEF LsTableSteps, Measure, FetchMeasured, FetchExact, FetchDoubled, FetchFixed, FetchLines, FetchNumbered, FetchChained,
     Refused, SendAsk, ReadControl, ReadPiece, StreamInterrupted, Exhausted, PassOver, Vanished, GoOn, Stop, Due, Present
<1>2. ASSUME NEW ret, LsReturns(ret) PROVE UNCHANGED <<lsLoop, lsTable, lsChanged, lsSeen, lsStayed, lsQuiet, lsCut, lsCount>>
  BY <1>2 DEF LsReturns, lsHist
<1>3. ASSUME NEW pc, NEW b, NEW m, NEW n, Reads(pc, b, m, n) PROVE UNCHANGED <<lsLoop, lsTable, lsChanged, lsSeen, lsStayed, lsQuiet, lsCut, lsCount>>
  BY <1>3 DEF Reads, lsHist
<1>4. ASSUME PartEnds PROVE UNCHANGED <<lsLoop, lsTable, lsChanged, lsSeen, lsStayed, lsQuiet, lsCut, lsCount>>
  BY <1>2, <1>4 DEF PartEnds, lsHist
<1>5. CASE Measure \/ FetchMeasured \/ FetchExact \/ FetchDoubled \/ FetchFixed \/ FetchLines \/ FetchNumbered \/ Exhausted
  BY <1>2, <1>3, <1>4, <1>5 DEF Measure, FetchMeasured, FetchExact, FetchDoubled, FetchFixed, FetchLines, FetchNumbered, Exhausted
<1>6. CASE FetchChained
  BY <1>2, <1>4, <1>6 DEF FetchChained, lsHist
<1>7. CASE Refused \/ StreamInterrupted \/ Vanished \/ PassOver
  <2>1. LsReturns("error") \/ Reads("hand", Tail(lsBuf), lsPos, lsSize)
    BY <1>7 DEF Refused, StreamInterrupted, Vanished, PassOver
  <2> QED  BY <1>1, <1>2, <1>3, <2>1
<1>8. CASE SendAsk \/ ReadPiece \/ GoOn \/ Stop
  <2>1. CASE SendAsk \/ ReadPiece
    BY <2>1 DEF SendAsk, ReadPiece, lsHist
  <2>2. CASE GoOn
    BY <1>1, <2>2 DEF GoOn, lsHist
  <2>3. CASE Stop
    BY <1>1, <2>3 DEF Stop, lsHist
  <2> QED  BY <1>8, <2>1, <2>2, <2>3
<1>9. CASE ReadControl
  BY <1>2, <1>9 DEF ReadControl, lsHist
<1> QED  BY <1>1, <1>5, <1>6, <1>7, <1>8, <1>9 DEF LsTableSteps

LEMMA StepShape == ASSUME LsTruth, LsShape, [LsNext]_lsVars PROVE LsShape'
<1>1. CASE LsChange
  BY <1>1, ChangeShape
<1>2. CASE LsCall
  <2>1. UNCHANGED <<lsTable, lsChanged>> /\ lsStayed' = AllListed
    BY <1>2 DEF LsCall
  <2> QED  BY <2>1 DEF LsShape, AllListed
<1>3. CASE LsTableSteps
  BY <1>3, StepsKeepTable DEF LsShape, AllListed
<1>5. CASE CutShort
  <2>1. lsAt.pc # "idle" /\ UNCHANGED <<lsLoop, lsTable, lsChanged, lsStayed>>
    BY <1>5 DEF CutShort
  <2> QED  BY <2>1 DEF LsShape, AllListed
<1>4. CASE UNCHANGED lsVars
  BY <1>4 DEF lsVars, lsHist, LsShape, AllListed
<1> QED  BY <1>1, <1>2, <1>3, <1>4, <1>5 DEF LsNext, LsTableSteps
----------------------------------------------------------------------------
(* How far a call has come.  A walk s of the part that is being read is    *)
(* what the list was when it was copied, or all the time if it is read bit *)
(* by bit.  Of it, k entries have been looked at: what they were wanted    *)
(* for is done, and the entries copied and not yet looked at come next.    *)
Owed(e) == Wanted(e) /\ e.part \notin lsCut
LsBegins == lsAt.pc \in {"measure", "ask"} \/ (lsAt.pc = "fetch" /\ lsLoop.by \in LsOneCopy)

LsWalk(s, k) ==
    /\ s \in Seq(LsEntry) /\ k \in 0 .. Len(s) /\ LsListOK(s, lsAt.part)
    /\ \A e \in lsStayed : e.part = lsAt.part => e \in ToSet(s)
    /\ \A f \in ToSet(lsHanded) : f.part < lsAt.part \/ \E i \in 1 .. k : s[i] = f
    /\ \A i \in 1 .. k : Wanted(s[i]) => Handed(s[i])
    /\ k + Len(lsBuf) <= Len(s) /\ \A i \in 1 .. Len(lsBuf) : lsBuf[i] = s[k + i]
    /\ lsLoop.twin = "previous" /\ k > 0 => lsHanded # <<>> /\ Last(lsHanded).name = s[k].name

(* The answer of a stream, of which the q-th message is due. *)
LsDue(s, k, q) ==
    LET n == Len(Pieces(s)) IN
    /\ q \in 1 .. n + 4
    /\ Len(lsStream) = n + 5 - q /\ \A i \in 1 .. Len(lsStream) : lsStream[i] = Answered(s)[q + i - 1]
    /\ lsAt.pc = "control" => lsBuf = <<>> /\ ((q = 1 /\ k = 0) \/ (q \in {n + 2, n + 4} /\ k = Len(s)))
    /\ lsAt.pc = "data" => /\ lsBuf = <<>>
                           /\ (q \in 2 .. n + 1 /\ lsSize = 1 /\ k = q - 2) \/ (q = n + 3 /\ lsSize = 0 /\ k = Len(s))
    /\ lsAt.pc = "hand" => /\ q \in 3 .. n + 2 /\ lsSize = 1 /\ (lsPos = 1 <=> q <= n + 1)
                           /\ k + Len(lsBuf) = IF s = <<>> THEN 0 ELSE q - 2

(* How each form of reading knows where it is. *)
LsReach(s, k) ==
    /\ lsLoop.by \in LsOneCopy => k + Len(lsBuf) = Len(s)
    /\ Piecemeal => s = lsTable[lsAt.part]
    /\ lsLoop.by = "file" => k + Len(lsBuf) = lsPos
    /\ lsLoop.by = "chain" => /\ lsNext[lsAt.part] = Slice(s, k + Len(lsBuf) + 1, k + Len(lsBuf) + 1)
                              /\ lsAt.part = 1 => lsNext[2] = FirstOf(lsTable[2])
    /\ lsLoop.by = "numbered" => k + Len(lsBuf) = lsPos /\ Len(s) = lsSize /\ (lsQuiet => s = lsTable[1])
    /\ lsLoop.by = "streams" => \E q \in Nat : LsDue(s, k, q)
    /\ lsAt.pc = "fetch" => lsBuf = <<>>

LsRuns ==
    /\ \A e \in lsStayed : e.part < lsAt.part /\ Owed(e) => Handed(e)
    /\ LsBegins => lsBuf = <<>> /\ \A f \in ToSet(lsHanded) : f.part < lsAt.part
    /\ ~LsBegins => \E s, k : LsWalk(s, k) /\ LsReach(s, k)
LsOnce == \A i, j \in DOMAIN lsHanded : Subject(lsHanded[i]) = Subject(lsHanded[j]) => i = j
LsDone == \A e \in lsStayed : Owed(e) => Handed(e)
LsProgress == (Piecemeal => lsQuiet) =>
    /\ LsOnce
    /\ lsAt.pc # "idle" => LsRuns
    /\ lsAt.pc = "idle" /\ lsRet = "zero" => LsDone

LsWhole == LsTruth /\ LsShape /\ LsProgress

LEMMA WholeIsHanded == LsWhole => HandsEverything /\ HandsOnce
BY DEF LsWhole, LsProgress, LsOnce, LsDone, Owed, HandsEverything, HandsOnce, Idle

LEMMA SameLoop ==
    ASSUME lsLoop' = lsLoop
    PROVE  /\ \A e : Subject(e)' = Subject(e) /\ (Wanted(e)' <=> Wanted(e))
           /\ lsCut' = lsCut => \A e : Owed(e)' <=> Owed(e)
           /\ Piecemeal' <=> Piecemeal
           /\ lsHanded' = lsHanded => (LsOnce' <=> LsOnce) /\ \A e : Handed(e)' <=> Handed(e)
BY DEF Subject, Wanted, Owed, Piecemeal, LsOnce, Handed

LEMMA EntryParts == ASSUME LsShape, lsAt.pc # "idle" PROVE \A e \in lsStayed : e.part \in LsParts /\ e \in ToSet(lsTable[e.part])
BY DEF LsShape, AllListed, LsListOK, LsParts

LEMMA ReturnsWhole ==
    ASSUME LsWhole, NEW ret, LsReturns(ret), lsAt.pc # "idle", ret = "zero" /\ (Piecemeal => lsQuiet) => LsDone
    PROVE  LsProgress'
<1>1. /\ lsAt'.pc = "idle" /\ lsRet' = ret
      /\ UNCHANGED <<lsLoop, lsHanded, lsStayed, lsQuiet, lsCut>>
  BY DEF LsReturns, lsHist, LsWhole, LsTruth, LsTypes
<1>2. (Piecemeal => lsQuiet) => LsOnce
  BY DEF LsWhole, LsProgress
<1>3. LsDone' <=> LsDone
  BY <1>1, SameLoop DEF LsDone
<1> QED  BY <1>1, <1>2, <1>3, SameLoop DEF LsProgress

(* A call goes on without handing anything over. *)
LEMMA GoesOnWhole ==
    ASSUME LsWhole, lsAt.pc # "idle", lsAt'.pc # "idle", UNCHANGED <<lsLoop, lsHanded, lsStayed, lsQuiet, lsCut>>,
           (Piecemeal => lsQuiet) /\ LsRuns => LsRuns'
    PROVE  LsProgress'
BY SameLoop DEF LsWhole, LsProgress

LEMMA StartWalk ==
    ASSUME NEW s \in Seq(LsEntry), LsListOK(s, lsAt'.part), UNCHANGED <<lsLoop, lsHanded, lsStayed>>,
           \A e \in lsStayed : e.part = lsAt'.part => e \in ToSet(s),
           \A f \in ToSet(lsHanded) : f.part < lsAt'.part,
           lsBuf' = <<>> \/ lsBuf' = s
    PROVE  LsWalk(s, 0)'
<1>1. Len(s) \in Nat /\ 0 \in 0 .. Len(s) /\ Len(<<>>) = 0 /\ \A i \in 1 .. Len(s) : s[0 + i] = s[i]
  OBVIOUS
<1>2. 0 + Len(lsBuf') <= Len(s) /\ \A i \in 1 .. Len(lsBuf') : lsBuf'[i] = s[0 + i]
  BY <1>1
<1> QED  BY <1>1, <1>2 DEF LsWalk

LEMMA SameWalk ==
    ASSUME NEW s, NEW k, LsWalk(s, k), UNCHANGED <<lsLoop, lsHanded, lsStayed>>, lsAt'.part = lsAt.part,
           k + Len(lsBuf') <= Len(s), \A i \in 1 .. Len(lsBuf') : lsBuf'[i] = s[k + i]
    PROVE  LsWalk(s, k)'
BY SameLoop DEF LsWalk

(* A part that has been walked through is done. *)
LsPartDone ==
    /\ \A e \in lsStayed : e.part <= lsAt.part /\ Owed(e) => Handed(e)
    /\ \A f \in ToSet(lsHanded) : f.part <= lsAt.part

LEMMA WalkedIsDone ==
    ASSUME LsTruth, LsShape, lsAt.pc # "idle", LsRuns, NEW s, LsWalk(s, Len(s)) PROVE LsPartDone
<1>1. lsAt.part \in {1, 2} /\ LsParts = {1, 2}
  BY DEF LsTruth, LsTypes, LsParts
<1>2. ASSUME NEW e \in lsStayed, e.part <= lsAt.part, Owed(e) PROVE Handed(e)
  <2>1. e.part \in {1, 2}
    BY <1>1, EntryParts
  <2>2. CASE e.part < lsAt.part
    BY <1>2, <2>2 DEF LsRuns
  <2>3. CASE e.part = lsAt.part
    <3>1. PICK i \in 1 .. Len(s) : s[i] = e
      BY <2>3 DEF LsWalk, ToSet
    <3> QED  BY <1>2, <3>1 DEF LsWalk, Owed
  <2> QED  BY <1>1, <1>2, <2>1, <2>2, <2>3
<1>3. ASSUME NEW f \in ToSet(lsHanded) PROVE f.part <= lsAt.part
  <2>1. f.part \in {1, 2}
    <3>1. lsHanded \in Seq(LsEntry)
      BY DEF LsTruth, LsTypes
    <3>2. f \in LsEntry
      BY <3>1 DEF ToSet
    <3> QED  BY <1>1, <3>2, ListingAssumption
  <2>2. CASE f.part < lsAt.part
    BY <1>1, <2>1, <2>2
  <2>3. ASSUME NEW i \in 1 .. Len(s), s[i] = f PROVE f.part <= lsAt.part
    <3>1. f \in ToSet(s) /\ LsListOK(s, lsAt.part)
      BY <2>3 DEF LsWalk, ToSet
    <3>2. f.part = lsAt.part
      BY <3>1 DEF LsListOK
    <3> QED  BY <1>1, <3>2
  <2> QED  BY <2>2, <2>3 DEF LsWalk
<1> QED  BY <1>2, <1>3 DEF LsPartDone

LEMMA PartDoneIsDone == ASSUME LsPartDone, lsAt.part = lsLoop.parts PROVE LsDone
BY DEF LsPartDone, LsDone, Wanted, Owed

(* The next part, or the end of the call. *)
LEMMA PartEndsWhole ==
    ASSUME LsWhole, PartEnds, lsAt.pc # "idle", lsLoop.by # "streams",
           Piecemeal => lsQuiet,
           LsPartDone, lsLoop.by = "chain" /\ lsAt.part = 1 => lsNext[2] = FirstOf(lsTable[2])
    PROVE  LsProgress'
<1>1. CASE lsAt.part = lsLoop.parts
  <2>1. LsReturns("zero") /\ LsDone
    BY <1>1, PartDoneIsDone DEF PartEnds
  <2> QED  BY <2>1, ReturnsWhole
<1>2. CASE lsAt.part # lsLoop.parts
  <2>1. LoopForm(lsLoop) /\ lsAt.part \in LsParts /\ lsAt.part <= lsLoop.parts /\ lsTable[2] \in Seq(LsEntry)
    BY LoopForms DEF LsWhole, LsTruth, LsTypes, LsParts
  <2>2. lsAt.part = 1 /\ lsLoop.parts = 2 /\ lsLoop.by # "numbered" /\ lsLoop.by \in LsForms
    BY <1>2, <2>1 DEF LsParts, LoopForm
  <2>3. /\ lsAt' = [pc |-> StartOf(lsLoop), part |-> 2]
        /\ lsBuf' = <<>> /\ lsPos' = 0 /\ lsSize' = 0
        /\ UNCHANGED <<lsNext, lsLoop, lsTable, lsStream, lsHanded, lsRet, lsStayed, lsQuiet, lsCut>>
    BY <1>2, <2>2 DEF PartEnds, lsHist
  <2>4. lsAt'.part = 2 /\ lsAt'.pc = StartOf(lsLoop) /\ lsAt'.pc \in {"measure", "fetch"}
    BY <2>2, <2>3 DEF StartOf
  <2>5. \A f \in ToSet(lsHanded) : f.part < 2
    <3>1. lsHanded \in Seq(LsEntry)
      BY DEF LsWhole, LsTruth, LsTypes
    <3>2. \A f \in ToSet(lsHanded) : f.part \in LsParts
      BY <3>1, ListingAssumption DEF ToSet
    <3> QED  BY <2>2, <3>2 DEF LsPartDone, LsParts
  <2>6. \A e \in lsStayed : e.part < 2 /\ Owed(e) => Handed(e)
    BY <2>2, EntryParts DEF LsPartDone, LsWhole, LsParts
  <2>7. CASE lsLoop.by \in LsOneCopy
    <3>1. LsBegins'
      BY <2>3, <2>4, <2>7 DEF LsBegins
    <3>2. LsRuns'
      BY <2>3, <2>4, <2>5, <2>6, <3>1, SameLoop DEF LsRuns
    <3> QED  BY <2>3, <2>4, <3>2, GoesOnWhole
  <2>8. CASE lsLoop.by \notin LsOneCopy
    <3>1. lsLoop.by \in {"file", "chain"} /\ lsAt'.pc = "fetch" /\ ~LsBegins'
      BY <2>2, <2>3, <2>4, <2>8 DEF LsForms, LsOneCopy, StartOf, LsBegins
    <3>2. PICK s \in Seq(LsEntry) : s = lsTable[2]
      BY <2>1
    <3>3. LsWalk(s, 0)'
      <4>1. LsListOK(s, 2)
        BY <3>2 DEF LsWhole, LsShape, LsParts
      <4>2. \A e \in lsStayed : e.part = 2 => e \in ToSet(s)
        BY <3>2, EntryParts DEF LsWhole
      <4> QED  BY <2>3, <2>4, <2>5, <4>1, <4>2, StartWalk
    <3>4. LsReach(s, 0)'
      <4>1. lsTable'[lsAt'.part] = s /\ lsNext'[lsAt'.part] = lsNext[2] /\ Len(lsBuf') = 0 /\ lsPos' = 0
        BY <2>3, <2>4, <3>2
      <4>2. lsLoop.by = "chain" => lsNext[2] = Slice(s, 0 + 0 + 1, 0 + 0 + 1)
        BY <2>2, <3>2 DEF FirstOf
      <4>3. lsLoop'.by \in {"file", "chain"}
        BY <2>3, <3>1
      <4> QED  BY <2>3, <2>4, <4>1, <4>2, <4>3 DEF LsReach, LsOneCopy
    <3>5. LsRuns'
      BY <2>3, <2>4, <2>6, <3>1, <3>3, <3>4, SameLoop DEF LsRuns
    <3> QED  BY <2>3, <2>4, <3>5, GoesOnWhole
  <2> QED  BY <2>7, <2>8
<1> QED  BY <1>1, <1>2
----------------------------------------------------------------------------
(* A call goes on from a list, or with one. *)
LEMMA CurrentList ==
    ASSUME LsTruth, LsShape, lsAt.pc # "idle"
    PROVE  /\ lsAt.part \in {1, 2} /\ lsAt.part <= lsLoop.parts /\ lsLoop.parts \in {1, 2} /\ lsLoop \in Loops
           /\ Listed(lsAt.part) = lsTable[lsAt.part] /\ lsTable[lsAt.part] \in Seq(LsEntry)
           /\ LsListOK(lsTable[lsAt.part], lsAt.part) /\ Len(lsTable[lsAt.part]) <= MaxTable + MaxChange
           /\ \A e \in lsStayed : e.part = lsAt.part => e \in ToSet(lsTable[lsAt.part])
           /\ lsAt = [pc |-> lsAt.pc, part |-> lsAt.part]
<1>1. lsAt.part \in LsParts /\ LsParts = {1, 2} /\ LoopForm(lsLoop) /\ lsTable \in [LsParts -> Seq(LsEntry)]
      /\ lsAt.part <= lsLoop.parts /\ lsLoop \in Loops /\ lsAt = [pc |-> lsAt.pc, part |-> lsAt.part]
  BY LoopForms DEF LsTruth, LsTypes, LsParts
<1>2. lsLoop.parts \in {1, 2}
  BY <1>1 DEF LoopForm
<1>3. \A e \in lsStayed : e.part = lsAt.part => e \in ToSet(lsTable[lsAt.part])
  BY EntryParts
<1>4. Len(lsTable[lsAt.part]) <= MaxTable + MaxChange
  <2>1. Len(lsTable[lsAt.part]) <= MaxTable + lsChanged /\ lsChanged \in Nat /\ lsChanged <= MaxChange
        /\ Len(lsTable[lsAt.part]) \in Nat
    BY <1>1 DEF LsShape
  <2> QED  BY <2>1, ListingAssumption
<1> QED  BY <1>1, <1>2, <1>3, <1>4 DEF LsShape, Listed

LEMMA OnTheWalk ==
    ASSUME LsWhole, lsAt.pc # "idle", ~LsBegins, Piecemeal => lsQuiet
    PROVE  LsRuns /\ LsOnce /\ \E s, k : LsWalk(s, k) /\ LsReach(s, k)
BY DEF LsWhole, LsProgress, LsRuns

LEMMA AtTheBeginning ==
    ASSUME LsWhole, lsAt.pc # "idle", LsBegins, Piecemeal => lsQuiet
    PROVE  LsRuns /\ LsOnce /\ lsBuf = <<>> /\ \A f \in ToSet(lsHanded) : f.part < lsAt.part
BY DEF LsWhole, LsProgress, LsRuns

(* A call that has nothing more of this part to do until the next read. *)
LEMMA BeginsWhole ==
    ASSUME LsWhole, lsAt.pc # "idle", LsBegins, lsAt'.pc # "idle", lsAt'.part = lsAt.part, LsBegins', lsBuf' = <<>>,
           UNCHANGED <<lsLoop, lsHanded, lsStayed, lsQuiet, lsCut>>
    PROVE  LsProgress'
<1>1. ASSUME Piecemeal => lsQuiet, LsRuns PROVE LsRuns'
  BY <1>1, SameLoop DEF LsRuns
<1> QED  BY <1>1, GoesOnWhole

(* A call that walks on where it is. *)
LEMMA WalkGoesOn ==
    ASSUME LsWhole, lsAt.pc # "idle", ~LsBegins, lsAt'.pc # "idle", lsAt'.part = lsAt.part, ~LsBegins',
           UNCHANGED <<lsLoop, lsHanded, lsStayed, lsQuiet, lsCut>>,
           NEW s, NEW k, (LsWalk(s, k) /\ LsReach(s, k))'
    PROVE  LsProgress'
<1>1. ASSUME Piecemeal => lsQuiet, LsRuns PROVE LsRuns'
  BY <1>1, SameLoop DEF LsRuns
<1> QED  BY <1>1, GoesOnWhole
----------------------------------------------------------------------------
LEMMA ChangeWhole == ASSUME LsWhole, LsChange PROVE LsProgress'
<1>1. UNCHANGED <<lsLoop, lsStream, lsAt, lsNext, lsBuf, lsPos, lsSize, lsHanded, lsRet>>
  BY DEF LsChange, lsRead
<1>2. CASE Idle
  <2>1. UNCHANGED <<lsStayed, lsQuiet, lsCut>>
    BY <1>2 DEF LsChange, lsHist
  <2>2. LsDone' <=> LsDone
    BY <1>1, <2>1, SameLoop DEF LsDone
  <2> QED  BY <1>1, <1>2, <2>1, <2>2, SameLoop DEF LsWhole, LsProgress, Idle
<1>3. CASE ~Idle
  <2>1. lsQuiet' = FALSE /\ lsStayed' \subseteq lsStayed /\ lsCut' = lsCut
    BY <1>3 DEF LsChange
  <2>2. CASE Piecemeal
    <3>1. Piecemeal' /\ ~lsQuiet'
      BY <1>1, <2>1, <2>2, SameLoop
    <3> QED  BY <3>1 DEF LsProgress
  <2>3. CASE ~Piecemeal
    <3>1. LsOnce /\ LsRuns /\ lsAt.pc # "idle"
      BY <1>3, <2>3 DEF LsWhole, LsProgress, Idle
    <3>2. (LsBegins' <=> LsBegins) /\ LsOnce' /\ ~Piecemeal'
      BY <1>1, <2>3, <3>1, SameLoop DEF LsBegins
    <3>3. ASSUME NEW s, NEW k, LsWalk(s, k), LsReach(s, k) PROVE (LsWalk(s, k) /\ LsReach(s, k))'
      <4>1. LsWalk(s, k)'
        BY <1>1, <2>1, <3>3, SameLoop DEF LsWalk
      <4>2. \A q : LsDue(s, k, q)' <=> LsDue(s, k, q)
        BY <1>1 DEF LsDue
      <4>3. lsLoop.by # "chain"
        BY <2>3 DEF Piecemeal
      <4>4. LsReach(s, k)'
        BY <1>1, <2>1, <3>2, <3>3, <4>2, <4>3 DEF LsReach
      <4> QED  BY <4>1, <4>4
    <3>4. LsRuns'
      <4>1. \A e \in lsStayed' : e.part < lsAt'.part /\ Owed(e)' => Handed(e)'
        BY <1>1, <2>1, <3>1, SameLoop DEF LsRuns
      <4>2. LsBegins => lsBuf' = <<>> /\ \A f \in ToSet(lsHanded') : f.part < lsAt'.part
        BY <1>1, <3>1 DEF LsRuns
      <4>3. ~LsBegins => \E s, k : (LsWalk(s, k) /\ LsReach(s, k))'
        BY <3>1, <3>3 DEF LsRuns
      <4> QED  BY <3>2, <4>1, <4>2, <4>3 DEF LsRuns
    <3> QED  BY <1>1, <3>1, <3>2, <3>4 DEF LsProgress
  <2> QED  BY <2>2, <2>3
<1> QED  BY <1>2, <1>3

LEMMA CallWhole == ASSUME LsWhole, LsCall PROVE LsProgress'
<1>1. /\ lsAt' = [pc |-> StartOf(lsLoop), part |-> 1] /\ lsBuf' = <<>> /\ lsPos' = 0 /\ lsHanded' = <<>>
      /\ lsStayed' = AllListed /\ lsQuiet' = TRUE /\ UNCHANGED <<lsLoop, lsTable, lsStream>>
      /\ lsSize' = IF lsLoop.by = "numbered" THEN Len(Listed(1)) ELSE 0
      /\ lsNext' = IF lsLoop.by = "chain" THEN [p \in LsParts |-> FirstOf(Listed(p))] ELSE <<<<>>, <<>>>>
  BY DEF LsCall
<1>2. lsAt'.part = 1 /\ lsAt'.pc = StartOf(lsLoop) /\ lsAt'.pc \in {"measure", "ask", "fetch"} /\ lsAt'.pc # "idle"
  BY <1>1 DEF StartOf
<1>3. LoopForm(lsLoop) /\ 1 \in LsParts /\ 2 \in LsParts /\ lsTable \in [LsParts -> Seq(LsEntry)]
  BY LoopForms DEF LsWhole, LsTruth, LsTypes, LsParts
<1>4. LsListOK(lsTable[1], 1) /\ LsListOK(lsTable[2], 2)
  BY <1>3 DEF LsWhole, LsShape
<1>5. \A e \in AllListed : e.part \in {1, 2} /\ (e.part = 1 => e \in ToSet(lsTable[1]))
  BY <1>4 DEF AllListed, LsListOK
<1>6. ToSet(lsHanded') = {} /\ DOMAIN lsHanded' = {}
  BY <1>1 DEF ToSet
<1>7. LsOnce'
  BY <1>6 DEF LsOnce
<1>8. \A e \in lsStayed' : ~(e.part < lsAt'.part)
  BY <1>1, <1>2, <1>5
<1>9. CASE LsBegins'
  <2>1. LsRuns'
    BY <1>1, <1>6, <1>8, <1>9 DEF LsRuns
  <2> QED  BY <1>2, <1>7, <2>1 DEF LsProgress
<1>10. CASE ~LsBegins'
  <2>1. lsLoop.by \in {"file", "numbered", "chain"} /\ lsAt'.pc = "fetch" /\ lsLoop'.by = lsLoop.by
    BY <1>1, <1>2, <1>3, <1>10 DEF LsBegins, StartOf, LsForms, LsOneCopy, LoopForm
  <2>2. PICK s \in Seq(LsEntry) : s = lsTable[1]
    BY <1>3
  <2>3. LsWalk(s, 0)'
    <3>1. Len(s) \in Nat /\ 0 \in 0 .. Len(s) /\ Len(lsBuf') = 0
      BY <1>1
    <3>2. \A e \in lsStayed' : e.part = lsAt'.part => e \in ToSet(s)
      BY <1>1, <1>2, <1>5, <2>2
    <3> QED  BY <1>2, <1>4, <1>6, <2>2, <3>1, <3>2 DEF LsWalk
  <2>4. LsReach(s, 0)'
    <3>1. lsTable'[lsAt'.part] = s /\ Len(lsBuf') = 0 /\ lsPos' = 0 /\ s = lsTable'[1]
      BY <1>1, <1>2, <2>2
    <3>2. lsLoop.by = "chain" => lsNext'[1] = Slice(s, 0 + 0 + 1, 0 + 0 + 1) /\ lsNext'[2] = FirstOf(lsTable'[2])
      BY <1>1, <1>3, <2>2 DEF FirstOf, Listed
    <3>3. lsLoop.by = "numbered" => Len(s) = lsSize'
      BY <1>1, <2>2 DEF Listed
    <3> QED  BY <1>1, <1>2, <2>1, <3>1, <3>2, <3>3 DEF LsReach, LsOneCopy
  <2>5. LsRuns'
    BY <1>8, <1>10, <2>3, <2>4 DEF LsRuns
  <2> QED  BY <1>2, <1>7, <2>5 DEF LsProgress
<1> QED  BY <1>9, <1>10

(* One copy of the whole list. *)
LEMMA CopyWhole ==
    ASSUME LsWhole, lsAt.pc = "fetch", lsLoop.by \in LsOneCopy, Reads("hand", Listed(lsAt.part), 0, 0) PROVE LsProgress'
<1>1. /\ lsAt' = [pc |-> "hand", part |-> lsAt.part] /\ lsBuf' = Listed(lsAt.part)
      /\ UNCHANGED <<lsLoop, lsTable, lsHanded, lsStayed, lsQuiet, lsCut>>
  BY CurrentList DEF Reads, lsHist, LsWhole
<1>2. PICK s \in Seq(LsEntry) : s = lsTable[lsAt.part] /\ LsListOK(s, lsAt.part)
      /\ \A e \in lsStayed : e.part = lsAt.part => e \in ToSet(s)
  BY CurrentList DEF LsWhole
<1>3. lsBuf' = s /\ LsBegins /\ ~LsBegins' /\ lsAt'.part = lsAt.part /\ lsAt'.pc = "hand" /\ ~Piecemeal /\ lsLoop'.by \in LsOneCopy
  BY <1>1, <1>2 DEF LsBegins, Piecemeal, LsOneCopy, Listed
<1>4. ASSUME LsRuns PROVE LsRuns'
  <2>1. \A f \in ToSet(lsHanded) : f.part < lsAt.part
    BY <1>3, <1>4 DEF LsRuns
  <2>2. LsWalk(s, 0)'
    BY <1>1, <1>2, <1>3, <2>1, StartWalk
  <2>3. LsReach(s, 0)'
    <3>1. Len(s) \in Nat /\ 0 + Len(lsBuf') = Len(s)
      BY <1>2, <1>3
    <3> QED  BY <1>3, <3>1, SameLoop DEF LsReach, LsOneCopy, Piecemeal
  <2> QED  BY <1>1, <1>3, <1>4, <2>2, <2>3, SameLoop DEF LsRuns
<1> QED  BY <1>1, <1>3, <1>4, GoesOnWhole

LEMMA AllOfIt == ASSUME NEW s \in Seq(LsEntry), NEW n \in Nat, Len(s) <= n PROVE Slice(s, 1, n) = s
<1>1. Slice(s, 1, n) = SubSeq(s, 1, Len(s))
  BY DEF Slice
<1>2. SubSeq(s, 1, Len(s)) = s
  OBVIOUS
<1> QED  BY <1>1, <1>2

LEMMA CopiesWhole ==
    ASSUME ComparesPrevious, RoomForAll, LsWhole,
           Measure \/ FetchMeasured \/ FetchExact \/ FetchDoubled \/ FetchFixed
    PROVE  LsProgress'
<1>1. /\ lsAt.pc \in {"measure", "fetch"} /\ lsLoop.by \in LsOneCopy /\ lsAt.pc # "idle" /\ LsBegins
      /\ lsAt.pc = "measure" => lsLoop.by = "measured"
  BY DEF Measure, FetchMeasured, FetchExact, FetchDoubled, FetchFixed, LsWhole, LsTruth, LsTypes, LsBegins, LsOneCopy
<1>2. ASSUME LsReturns("error") PROVE LsProgress'
  BY <1>1, <1>2, ReturnsWhole
<1>3. ASSUME NEW n, Reads("fetch", <<>>, 0, n) PROVE LsProgress'
  <2>1. lsAt' = [pc |-> "fetch", part |-> lsAt.part] /\ lsBuf' = <<>>
        /\ UNCHANGED <<lsLoop, lsHanded, lsStayed, lsQuiet, lsCut>>
    BY <1>1, <1>3, CurrentList DEF Reads, lsHist, LsWhole
  <2>2. LsBegins'
    BY <1>1, <2>1 DEF LsBegins
  <2> QED  BY <1>1, <2>1, <2>2, BeginsWhole
<1>4. CASE Measure
  <2>1. CASE Listed(lsAt.part) = <<>> /\ LsReturns("zero")
    <3>1. lsLoop.parts = 1 /\ lsAt.part = 1
      <4>1. LoopRules(lsLoop) /\ lsAt.part \in {1, 2} /\ lsAt.part <= lsLoop.parts /\ lsLoop.by = "measured"
        BY <1>1, <1>4, CurrentList, LoopsRule DEF LsWhole, Measure
      <4> QED  BY <4>1 DEF LoopRules
    <3>2. ASSUME NEW e \in lsStayed PROVE ~Wanted(e)
      <4>1. e.part \in {1, 2} /\ e \in ToSet(lsTable[e.part])
        BY <1>1, EntryParts DEF LsWhole, LsParts
      <4>2. ToSet(lsTable[1]) = {}
        BY <2>1, <3>1 DEF ToSet, Listed
      <4> QED  BY <3>1, <4>1, <4>2 DEF Wanted
    <3> QED  BY <1>1, <2>1, <3>2, ReturnsWhole DEF LsDone, Owed
  <2> QED  BY <1>3, <1>4, <2>1 DEF Measure
<1>5. CASE FetchMeasured \/ FetchExact \/ FetchDoubled
  BY <1>1, <1>2, <1>3, <1>5, CopyWhole DEF FetchMeasured, FetchExact, FetchDoubled
<1>6. CASE FetchFixed
  <2>1. lsLoop.by = "fixed" => Slice(Listed(lsAt.part), 1, LsRoom) = Listed(lsAt.part)
    <3> HAVE lsLoop.by = "fixed"
    <3>1. Listed(lsAt.part) \in Seq(LsEntry) /\ Len(Listed(lsAt.part)) <= MaxTable + MaxChange /\ lsLoop \in Loops
      BY <1>1, CurrentList DEF LsWhole
    <3>2. Len(Listed(lsAt.part)) <= LsRoom /\ LsRoom \in Nat
      <4>1. MaxTable + MaxChange <= LsRoom /\ LsRoom \in Nat /\ MaxTable \in Nat /\ MaxChange \in Nat
        BY <3>1, ListingAssumption DEF RoomForAll
      <4>2. Len(Listed(lsAt.part)) \in Nat
        BY <3>1
      <4> QED  BY <3>1, <4>1, <4>2
    <3> QED  BY <3>1, <3>2, AllOfIt
  <2>2. Reads("hand", Listed(lsAt.part), 0, 0)
    BY <1>6, <2>1 DEF FetchFixed
  <2> QED  BY <1>1, <1>6, <2>2, CopyWhole DEF FetchFixed
<1> QED  BY <1>4, <1>5, <1>6
(* Bit by bit: what has been read comes next of the list. *)
LEMMA ReadWhole ==
    ASSUME LsWhole, lsAt.pc = "fetch", lsLoop.by \in {"file", "numbered", "chain"},
           NEW s, NEW k, LsWalk(s, k), LsReach(s, k), NEW b \in Seq(LsEntry), k + Len(b) <= Len(s), \A i \in 1 .. Len(b) : b[i] = s[k + i],
           lsAt' = [lsAt EXCEPT !.pc = "hand"], lsBuf' = b, UNCHANGED <<lsLoop, lsTable, lsHanded, lsStayed, lsQuiet, lsCut>>,
           lsLoop.by = "file" => k + Len(b) = lsPos',
           lsLoop.by = "numbered" => k + Len(b) = lsPos' /\ lsSize' = lsSize,
           lsLoop.by = "chain" => /\ lsNext'[lsAt.part] = Slice(s, k + Len(b) + 1, k + Len(b) + 1)
                                  /\ lsAt.part = 1 => lsNext'[2] = lsNext[2]
    PROVE  LsProgress'
<1>1. lsAt' = [pc |-> "hand", part |-> lsAt.part]
  BY CurrentList DEF LsWhole
<1>2. ~LsBegins /\ ~LsBegins' /\ lsAt'.pc = "hand" /\ lsAt'.part = lsAt.part
  BY <1>1 DEF LsBegins, LsOneCopy
<1>3. LsWalk(s, k)'
  BY <1>2, SameWalk
<1>4. LsReach(s, k)'
  BY <1>2, SameLoop DEF LsReach, LsOneCopy
<1> QED  BY <1>2, <1>3, <1>4, WalkGoesOn

LEMMA LinesWhole == ASSUME LsWhole, FetchLines PROVE LsProgress'
<1>1. lsAt.pc = "fetch" /\ lsLoop.by = "file" /\ ~LsBegins /\ Piecemeal
  BY DEF FetchLines, LsBegins, LsOneCopy, Piecemeal
<1>2. UNCHANGED <<lsLoop, lsTable, lsHanded, lsStayed, lsQuiet, lsCut>>
  <2>1. UNCHANGED <<lsLoop, lsTable, lsStayed, lsQuiet, lsCut>>
    BY StepsKeepTable DEF LsTableSteps
  <2>2. lsHanded' = lsHanded
    BY DEF FetchLines, PartEnds, LsReturns, Reads
  <2> QED  BY <2>1, <2>2
<1>3. CASE ~lsQuiet
  BY <1>1, <1>2, <1>3, SameLoop DEF LsProgress
<1>4. CASE lsQuiet
  <2>1. PICK s, k : LsWalk(s, k) /\ LsReach(s, k)
    BY <1>1, <1>4, OnTheWalk
  <2>2. LsRuns
    BY <1>1, <1>4, OnTheWalk
  <2>3. /\ s = Listed(lsAt.part) /\ s \in Seq(LsEntry) /\ k \in 0 .. Len(s) /\ lsBuf = <<>> /\ k = lsPos
        /\ Chunk \in Nat \ {0}
    BY <1>1, <2>1, ListingAssumption DEF LsWalk, LsReach, Listed
  <2> DEFINE lines == Slice(s, k + 1, k + Chunk)
  <2>4. /\ lines \in Seq(LsEntry)
        /\ Len(lines) = IF k + 1 <= k + Chunk /\ k + 1 <= Len(s) THEN (IF k + Chunk > Len(s) THEN Len(s) ELSE k + Chunk) - (k + 1) + 1 ELSE 0
        /\ \A i \in DOMAIN lines : lines[i] = s[k + 1 + i - 1]
    <3>1. PICK m \in Nat \ {0}, n \in Nat : m = k + 1 /\ n = k + Chunk
      BY <2>3
    <3>2. lines = Slice(s, m, n)
      BY <3>1
    <3> HIDE DEF lines
    <3>3. s \in Seq(LsEntry)
      BY <2>3
    <3>4. /\ Slice(s, m, n) \in Seq(LsEntry)
          /\ Len(Slice(s, m, n)) = IF m <= n /\ m <= Len(s) THEN (IF n > Len(s) THEN Len(s) ELSE n) - m + 1 ELSE 0
          /\ \A i \in DOMAIN Slice(s, m, n) : Slice(s, m, n)[i] = s[m + i - 1]
      BY <3>3, SliceHolds
    <3>5. /\ lines \in Seq(LsEntry)
          /\ Len(lines) = IF m <= n /\ m <= Len(s) THEN (IF n > Len(s) THEN Len(s) ELSE n) - m + 1 ELSE 0
          /\ \A i \in DOMAIN lines : lines[i] = s[m + i - 1]
      BY <3>2, <3>4
    <3> QED  BY <3>1, <3>5
  <2>5. IF lines = <<>> THEN PartEnds ELSE Reads("hand", lines, k + Len(lines), 0)
    BY <2>3 DEF FetchLines
  <2> HIDE DEF lines
  <2>6. CASE lines = <<>>
    <3>1. k = Len(s)
      <4>1. Len(lines) = 0
        BY <2>6
      <4> QED  BY <2>3, <2>4, <4>1
    <3>2. LsPartDone
      BY <1>1, <2>1, <2>2, <3>1, WalkedIsDone DEF LsWhole
    <3> QED  BY <1>1, <1>4, <2>5, <2>6, <3>2, PartEndsWhole
  <2>7. CASE lines # <<>>
    <3>1. Reads("hand", lines, k + Len(lines), 0)
      BY <2>5, <2>7
    <3>2. lsAt' = [lsAt EXCEPT !.pc = "hand"] /\ lsBuf' = lines /\ lsPos' = k + Len(lines)
      BY <3>1 DEF Reads
    <3>3. k + Len(lines) <= Len(s)
      BY <2>3, <2>4
    <3>4. \A i \in 1 .. Len(lines) : lines[i] = s[k + i]
      <4>1. \A i \in 1 .. Len(lines) : i \in DOMAIN lines /\ k + 1 + i - 1 = k + i
        BY <2>3, <2>4
      <4> QED  BY <2>4, <4>1
    <3> QED  BY <1>1, <1>2, <2>1, <2>4, <3>2, <3>3, <3>4, ReadWhole
  <2> QED  BY <2>6, <2>7
<1> QED  BY <1>3, <1>4

LEMMA NumberedWhole == ASSUME ComparesPrevious, LsWhole, FetchNumbered PROVE LsProgress'
<1>1. lsAt.pc = "fetch" /\ lsLoop.by = "numbered" /\ ~LsBegins /\ ~Piecemeal
  BY DEF FetchNumbered, LsBegins, LsOneCopy, Piecemeal
<1>2. PICK s, k : LsWalk(s, k) /\ LsReach(s, k)
  BY <1>1, OnTheWalk
<1>3. LsRuns
  BY <1>1, OnTheWalk
<1>4. /\ s \in Seq(LsEntry) /\ k \in 0 .. Len(s) /\ lsBuf = <<>> /\ k = lsPos /\ Len(s) = lsSize
      /\ lsQuiet => s = lsTable[1]
  BY <1>1, <1>2 DEF LsWalk, LsReach
<1>5. CASE lsPos = lsSize
  <2>1. LsReturns("zero") /\ k = Len(s)
    BY <1>4, <1>5 DEF FetchNumbered
  <2>2. LsPartDone
    BY <1>1, <1>2, <1>3, <2>1, WalkedIsDone DEF LsWhole
  <2>3. lsAt.part = lsLoop.parts
    <3>1. LoopRules(lsLoop) /\ lsAt.part \in {1, 2} /\ lsAt.part <= lsLoop.parts
      BY <1>1, CurrentList, LoopsRule DEF LsWhole
    <3> QED  BY <1>1, <3>1 DEF LoopRules
  <2> QED  BY <1>1, <2>1, <2>2, <2>3, PartDoneIsDone, ReturnsWhole
<1>6. CASE lsPos # lsSize /\ lsQuiet
  <2>1. Reads("hand", <<s[k + 1]>>, k + 1, lsSize)
    BY <1>4, <1>6 DEF FetchNumbered, Listed
  <2>2. k + 1 \in 1 .. Len(s) /\ s[k + 1] \in LsEntry
    BY <1>4, <1>6
  <2>3. <<s[k + 1]>> \in Seq(LsEntry) /\ Len(<<s[k + 1]>>) = 1 /\ <<s[k + 1]>>[1] = s[k + 1]
    BY <2>2
  <2>4. lsAt' = [lsAt EXCEPT !.pc = "hand"] /\ lsBuf' = <<s[k + 1]>> /\ lsPos' = k + 1 /\ lsSize' = lsSize
        /\ UNCHANGED <<lsLoop, lsTable, lsHanded, lsStayed, lsQuiet, lsCut>>
    BY <2>1 DEF Reads, lsHist
  <2> DEFINE b == <<s[k + 1]>>
  <2>5. b \in Seq(LsEntry) /\ Len(b) = 1 /\ k + Len(b) <= Len(s) /\ (\A i \in 1 .. Len(b) : b[i] = s[k + i]) /\ k + Len(b) = lsPos'
    BY <1>4, <2>2, <2>3, <2>4
  <2>6. lsBuf' = b
    BY <2>4
  <2> HIDE DEF b
  <2> QED  BY <1>1, <1>2, <2>4, <2>5, <2>6, ReadWhole
<1>7. CASE lsPos # lsSize /\ ~lsQuiet
  BY <1>1, <1>7, ReturnsWhole DEF FetchNumbered
<1> QED  BY <1>5, <1>6, <1>7

LEMMA ChainedWhole == ASSUME LsWhole, FetchChained PROVE LsProgress'
<1>1. lsAt.pc = "fetch" /\ lsLoop.by = "chain" /\ ~LsBegins /\ Piecemeal
  BY DEF FetchChained, LsBegins, LsOneCopy, Piecemeal
<1>2. UNCHANGED <<lsLoop, lsTable, lsStayed, lsQuiet, lsCut>>
  BY StepsKeepTable DEF LsTableSteps
<1>3. lsHanded' = lsHanded
  BY DEF FetchChained, PartEnds, LsReturns
<1>4. CASE ~lsQuiet
  BY <1>1, <1>2, <1>4, SameLoop DEF LsProgress
<1>5. CASE lsQuiet
  <2> DEFINE p == lsAt.part
  <2>1. PICK s, k : LsWalk(s, k) /\ LsReach(s, k)
    BY <1>1, <1>5, OnTheWalk
  <2>2. LsRuns
    BY <1>1, <1>5, OnTheWalk
  <2>3. /\ s = Listed(p) /\ s \in Seq(LsEntry) /\ k \in 0 .. Len(s) /\ lsBuf = <<>> /\ Len(lsBuf) = 0
        /\ IsInjective(s) /\ lsNext \in [LsParts -> Seq(LsEntry)] /\ p \in {1, 2} /\ LsParts = {1, 2}
    BY <1>1, <2>1 DEF LsWalk, LsReach, Listed, LsListOK, LsWhole, LsTruth, LsTypes, LsParts
  <2>4. lsNext[p] = Slice(s, k + 1, k + 1) /\ (p = 1 => lsNext[2] = FirstOf(lsTable[2]))
    <3>1. k + 0 + 1 = k + 1
      BY <2>3
    <3> QED  BY <1>1, <2>1, <2>3, <3>1 DEF LsReach
  <2>5. /\ Len(lsNext[p]) = IF k + 1 <= Len(s) THEN 1 ELSE 0
        /\ \A i \in DOMAIN lsNext[p] : lsNext[p][i] = s[k + 1 + i - 1]
    <3>1. PICK m \in Nat \ {0} : m = k + 1
      BY <2>3
    <3>2. lsNext[p] = Slice(s, m, m)
      BY <2>4, <3>1
    <3>3. s \in Seq(LsEntry)
      BY <2>3
    <3>4. /\ Len(Slice(s, m, m)) = IF m <= m /\ m <= Len(s) THEN (IF m > Len(s) THEN Len(s) ELSE m) - m + 1 ELSE 0
          /\ \A i \in DOMAIN Slice(s, m, m) : Slice(s, m, m)[i] = s[m + i - 1]
      BY <3>3, SliceHolds
    <3>5. /\ Len(lsNext[p]) = IF m <= m /\ m <= Len(s) THEN (IF m > Len(s) THEN Len(s) ELSE m) - m + 1 ELSE 0
          /\ \A i \in DOMAIN lsNext[p] : lsNext[p][i] = s[m + i - 1]
      BY <3>2, <3>4
    <3> QED  BY <2>3, <3>1, <3>5
  <2>6. CASE lsNext[p] = <<>>
    <3>1. k = Len(s) /\ PartEnds
      <4>1. Len(lsNext[p]) = 0
        BY <2>6
      <4> QED  BY <2>3, <2>5, <2>6, <4>1 DEF FetchChained
    <3>2. LsPartDone
      BY <1>1, <2>1, <2>2, <3>1, WalkedIsDone DEF LsWhole
    <3> QED  BY <1>1, <1>5, <2>4, <3>1, <3>2, PartEndsWhole
  <2>7. CASE lsNext[p] # <<>>
    <3>1. k + 1 \in DOMAIN s /\ k + 1 \in 1 .. Len(s) /\ lsNext[p][1] = s[k + 1] /\ s[k + 1] \in LsEntry
      <4>1. lsNext[p] \in Seq(LsEntry)
        BY <2>3
      <4>2. Len(lsNext[p]) # 0 /\ 1 \in DOMAIN lsNext[p]
        BY <2>7, <4>1
      <4>3. k + 1 \in 1 .. Len(s) /\ k + 1 + 1 - 1 = k + 1
        BY <2>3, <2>5, <4>2
      <4>4. lsNext[p][1] = s[k + 1 + 1 - 1]
        BY <2>5, <4>2
      <4> QED  BY <2>3, <4>3, <4>4
    <3>2. Contains(s, s[k + 1]) /\ (CHOOSE j \in DOMAIN s : s[j] = s[k + 1]) = k + 1
      BY <2>3, <3>1 DEF Contains, IsInjective
    <3>3. lsBuf' = <<s[k + 1]>> /\ lsNext' = [lsNext EXCEPT ![p] = Slice(s, (k + 1) + 1, (k + 1) + 1)]
          /\ lsAt' = [lsAt EXCEPT !.pc = "hand"]
      <4> DEFINE at == CHOOSE j \in DOMAIN Listed(p) : Listed(p)[j] = lsNext[p][1]
      <4>1. Contains(Listed(p), lsNext[p][1]) =>
               lsBuf' = <<lsNext[p][1]>> /\ lsNext' = [lsNext EXCEPT ![p] = Slice(Listed(p), at + 1, at + 1)]
               /\ lsAt' = [lsAt EXCEPT !.pc = "hand"]
        BY <2>7 DEF FetchChained
      <4>2. at = k + 1 /\ Contains(Listed(p), lsNext[p][1])
        BY <2>3, <3>1, <3>2
      <4> HIDE DEF at
      <4> QED  BY <2>3, <3>1, <4>1, <4>2
    <3> DEFINE b == <<s[k + 1]>>
    <3>4. b \in Seq(LsEntry) /\ Len(b) = 1 /\ b[1] = s[k + 1]
      BY <3>1
    <3>5. lsBuf' = b
      BY <3>3
    <3> HIDE DEF b
    <3>6. k + Len(b) <= Len(s) /\ (\A i \in 1 .. Len(b) : b[i] = s[k + i]) /\ k + Len(b) = k + 1
      BY <2>3, <3>1, <3>4
    <3>7. lsNext'[p] = Slice(s, k + Len(b) + 1, k + Len(b) + 1) /\ (p = 1 => lsNext'[2] = lsNext[2])
      BY <2>3, <3>3, <3>6
    <3> HIDE DEF p
    <3>8. lsNext'[lsAt.part] = Slice(s, k + Len(b) + 1, k + Len(b) + 1) /\ (lsAt.part = 1 => lsNext'[2] = lsNext[2])
      BY <3>7 DEF p
    <3> QED  BY <1>1, <1>2, <1>3, <2>1, <3>3, <3>4, <3>5, <3>6, <3>8, ReadWhole
  <2> QED  BY <2>6, <2>7
<1> QED  BY <1>4, <1>5

LEMMA CutShortWhole == ASSUME LsWhole, CutShort PROVE LsProgress'
<1>1. /\ lsLoop \in {RouteProc, RulesIpchains} /\ lsLoop.by = "file" /\ lsAt.pc \in {"fetch", "hand"}
      /\ ~LsBegins /\ Piecemeal
  BY DEF CutShort, RouteProc, RulesIpchains, Loop, LsBegins, LsOneCopy, Piecemeal
<1>2. /\ UNCHANGED <<lsLoop, lsTable, lsHanded, lsStayed, lsQuiet>> /\ lsCut' = lsCut \cup {lsAt.part}
      /\ lsBuf' = <<>> /\ lsPos' = 0
  BY DEF CutShort
<1>3. CASE ~lsQuiet
  BY <1>1, <1>2, <1>3, SameLoop DEF LsProgress
<1>4. CASE lsQuiet
  <2>1. PICK s, k : LsWalk(s, k) /\ LsReach(s, k)
    BY <1>1, <1>4, OnTheWalk
  <2>2. LsRuns /\ LsOnce /\ LsOnce'
    BY <1>1, <1>2, <1>4, OnTheWalk, SameLoop
  <2>3. /\ lsAt.part \in {1, 2} /\ lsAt.part <= lsLoop.parts /\ lsLoop.parts \in {1, 2} /\ LsParts = {1, 2}
        /\ lsAt = [pc |-> lsAt.pc, part |-> lsAt.part]
    BY <1>1, CurrentList DEF LsWhole, LsParts
  <2>4. \A e : Owed(e)' => Owed(e) /\ e.part # lsAt.part
    BY <1>2, SameLoop DEF Owed
  <2>5. \A e \in lsStayed : e.part \in {1, 2}
    BY <1>1, <2>3, EntryParts DEF LsWhole
  <2>6. \A e \in lsStayed : e.part <= lsAt.part /\ Owed(e)' => Handed(e)'
    <3> SUFFICES ASSUME NEW e \in lsStayed, e.part <= lsAt.part, Owed(e)' PROVE Handed(e)'
      OBVIOUS
    <3>1. e.part < lsAt.part
      BY <2>3, <2>4, <2>5
    <3> QED  BY <1>2, <2>2, <2>4, <3>1, SameLoop DEF LsRuns
  <2>7. CASE lsAt.part = lsLoop.parts
    <3>1. lsAt'.pc = "idle"
      BY <2>3, <2>7 DEF CutShort
    <3>2. LsDone'
      BY <1>2, <2>4, <2>6, <2>7, SameLoop DEF LsDone, Owed, Wanted
    <3> QED  BY <2>2, <3>1, <3>2 DEF LsProgress
  <2>8. CASE lsAt.part # lsLoop.parts
    <3>1. lsAt.part = 1 /\ lsLoop.parts = 2 /\ lsAt' = [pc |-> "fetch", part |-> 2]
      BY <2>3, <2>8 DEF CutShort
    <3>2. lsAt'.part = 2 /\ lsAt'.pc = "fetch" /\ ~LsBegins' /\ lsLoop'.by = "file"
      BY <1>1, <1>2, <3>1 DEF LsBegins, LsOneCopy
    <3>3. PICK t \in Seq(LsEntry) : t = lsTable[2] /\ LsListOK(t, 2)
      BY <2>3 DEF LsWhole, LsTruth, LsTypes, LsShape
    <3>4. \A f \in ToSet(lsHanded) : f.part < 2
      <4>1. \A f \in ToSet(lsHanded) : f.part < 1 \/ f \in ToSet(s)
        BY <2>1, <3>1 DEF LsWalk, ToSet
      <4>2. \A f \in ToSet(s) : f.part = 1
        BY <2>1, <3>1 DEF LsWalk, LsListOK
      <4>3. \A f \in ToSet(lsHanded) : f.part \in LsParts
        <5>1. lsHanded \in Seq(LsEntry)
          BY DEF LsWhole, LsTruth, LsTypes
        <5> QED  BY <5>1, ListingAssumption DEF ToSet
      <4> QED  BY <2>3, <4>1, <4>2, <4>3
    <3>5. \A e \in lsStayed : e.part = 2 => e \in ToSet(t)
      BY <1>1, <3>3, EntryParts DEF LsWhole
    <3>6. LsWalk(t, 0)'
      BY <1>2, <3>2, <3>3, <3>4, <3>5, StartWalk
    <3>7. LsReach(t, 0)'
      BY <1>2, <3>2, <3>3 DEF LsReach, LsOneCopy
    <3>8. LsRuns'
      <4>1. \A e \in lsStayed' : e.part < lsAt'.part /\ Owed(e)' => Handed(e)'
        <5>1. \A e \in lsStayed : e.part < 2 => e.part <= lsAt.part
          BY <2>5, <3>1
        <5> QED  BY <1>2, <2>6, <3>2, <5>1
      <4> QED  BY <3>2, <3>6, <3>7, <4>1 DEF LsRuns
    <3> QED  BY <2>2, <3>2, <3>8 DEF LsProgress
  <2> QED  BY <2>7, <2>8
<1> QED  BY <1>3, <1>4

LEMMA RefusedWhole == ASSUME LsWhole, Refused \/ StreamInterrupted \/ Vanished PROVE LsProgress'
<1>1. LsReturns("error") /\ lsAt.pc # "idle"
  BY DEF Refused, StreamInterrupted, Vanished, Due, Present
<1> QED  BY <1>1, ReturnsWhole
----------------------------------------------------------------------------
(* The handler. *)
LEMMA ExhaustedWhole == ASSUME LsWhole, Exhausted, lsLoop.by # "streams" PROVE LsProgress'
<1>1. lsAt.pc = "hand" /\ lsBuf = <<>> /\ Len(lsBuf) = 0 /\ ~LsBegins
  BY DEF Exhausted, LsBegins
<1>2. UNCHANGED <<lsLoop, lsTable, lsStayed, lsQuiet, lsCut>>
  BY StepsKeepTable DEF LsTableSteps
<1>3. CASE Piecemeal /\ ~lsQuiet
  BY <1>2, <1>3, SameLoop DEF LsProgress
<1>4. CASE Piecemeal => lsQuiet
  <2>1. PICK s, k : LsWalk(s, k) /\ LsReach(s, k)
    BY <1>1, <1>4, OnTheWalk
  <2>2. LsRuns /\ s \in Seq(LsEntry) /\ k \in 0 .. Len(s)
    BY <1>1, <1>4, <2>1, OnTheWalk DEF LsWalk
  <2>3. CASE lsLoop.by \in {"file", "numbered", "chain"}
    <3>1. Reads("fetch", <<>>, lsPos, lsSize)
      BY <2>3 DEF Exhausted, NextRead
    <3>2. lsAt' = [pc |-> "fetch", part |-> lsAt.part] /\ lsBuf' = lsBuf /\ UNCHANGED <<lsPos, lsSize, lsNext, lsHanded>>
      BY <1>1, <3>1, CurrentList DEF Reads, LsWhole
    <3>3. lsAt'.part = lsAt.part /\ lsAt'.pc = "fetch" /\ ~LsBegins'
      BY <1>2, <2>3, <3>2 DEF LsBegins, LsOneCopy
    <3>4. LsWalk(s, k)'
      BY <1>2, <2>1, <3>2, <3>3, SameWalk DEF LsWalk
    <3>5. LsReach(s, k)'
      BY <1>1, <1>2, <2>1, <2>3, <3>2, <3>3, SameLoop DEF LsReach, LsOneCopy
    <3> QED  BY <1>1, <1>2, <3>2, <3>3, <3>4, <3>5, WalkGoesOn
  <2>4. CASE lsLoop.by \notin {"file", "numbered", "chain"}
    <3>1. lsLoop.by \in LsOneCopy /\ PartEnds
      <4>1. lsLoop.by \in LsForms
        BY <1>1, CurrentList, LoopForms DEF LsWhole, LoopForm
      <4> QED  BY <2>4, <4>1 DEF Exhausted, LsForms, LsOneCopy
    <3>2. k = Len(s)
      BY <1>1, <2>1, <2>2, <3>1 DEF LsReach
    <3>3. LsPartDone
      BY <1>1, <2>1, <2>2, <3>2, WalkedIsDone DEF LsWhole
    <3> QED  BY <1>1, <1>4, <2>4, <3>1, <3>3, PartEndsWhole
  <2> QED  BY <2>3, <2>4
<1> QED  BY <1>3, <1>4

(* What the handler is due is the next entry of the walk. *)
LEMMA NextOfWalk ==
    ASSUME LsTruth, LsShape, Present, NEW s, NEW k, LsWalk(s, k)
    PROVE  /\ k + 1 \in 1 .. Len(s) /\ Head(lsBuf) = s[k + 1] /\ s[k + 1] \in LsEntry /\ s[k + 1].part = lsAt.part
           /\ Len(Tail(lsBuf)) = Len(lsBuf) - 1 /\ k + 1 + Len(Tail(lsBuf)) = k + Len(lsBuf)
           /\ k + 1 + Len(Tail(lsBuf)) <= Len(s) /\ \A i \in 1 .. Len(Tail(lsBuf)) : Tail(lsBuf)[i] = s[k + 1 + i]
<1>1. lsBuf \in Seq(LsEntry) /\ lsBuf # <<>> /\ s \in Seq(LsEntry) /\ k \in 0 .. Len(s)
  BY DEF LsTruth, LsTypes, Present, LsWalk
<1>2. /\ Len(lsBuf) \in Nat \ {0} /\ Head(lsBuf) = lsBuf[1] /\ Len(Tail(lsBuf)) = Len(lsBuf) - 1
      /\ \A i \in 1 .. Len(lsBuf) - 1 : Tail(lsBuf)[i] = lsBuf[i + 1]
  BY <1>1
<1>3. k + Len(lsBuf) <= Len(s) /\ \A i \in 1 .. Len(lsBuf) : lsBuf[i] = s[k + i]
  BY DEF LsWalk
<1>4. k + 1 \in 1 .. Len(s) /\ k + 1 + Len(Tail(lsBuf)) = k + Len(lsBuf)
  BY <1>1, <1>2, <1>3
<1>5. Head(lsBuf) = s[k + 1] /\ s[k + 1] \in LsEntry /\ s[k + 1] \in ToSet(s)
  BY <1>1, <1>2, <1>3, <1>4 DEF ToSet
<1>6. s[k + 1].part = lsAt.part
  BY <1>5 DEF LsWalk, LsListOK
<1>7. ASSUME NEW i \in 1 .. Len(Tail(lsBuf)) PROVE Tail(lsBuf)[i] = s[k + 1 + i]
  <2>1. i \in 1 .. Len(lsBuf) - 1 /\ i + 1 \in 1 .. Len(lsBuf) /\ k + (i + 1) = k + 1 + i
    BY <1>1, <1>2
  <2> QED  BY <1>2, <1>3, <2>1
<1> QED  BY <1>2, <1>3, <1>4, <1>5, <1>6, <1>7

(* The walk when its next entry has been looked at. *)
LEMMA WalkAdvances ==
    ASSUME LsTruth, LsShape, Present, NEW s, NEW k, LsWalk(s, k), LsReach(s, k),
           UNCHANGED <<lsAt, lsLoop, lsTable, lsStream, lsNext, lsPos, lsSize, lsStayed, lsQuiet, lsCut>>, lsBuf' = Tail(lsBuf),
           \A e : Handed(e) => Handed(e)', Wanted(s[k + 1]) => Handed(s[k + 1])',
           \A f \in ToSet(lsHanded') : f \in ToSet(lsHanded) \/ f = s[k + 1],
           lsLoop.twin = "previous" => lsHanded' # <<>> /\ Last(lsHanded').name = s[k + 1].name
    PROVE  (LsWalk(s, k + 1) /\ LsReach(s, k + 1))'
<1>1. /\ k + 1 \in 1 .. Len(s) /\ k + 1 + Len(Tail(lsBuf)) = k + Len(lsBuf)
      /\ k + 1 + Len(Tail(lsBuf)) <= Len(s) /\ \A i \in 1 .. Len(Tail(lsBuf)) : Tail(lsBuf)[i] = s[k + 1 + i]
  BY NextOfWalk
<1>2. s \in Seq(LsEntry) /\ k \in Nat /\ \A i \in 1 .. k + 1 : i \in 1 .. k \/ i = k + 1
  BY DEF LsWalk
<1>3. LsWalk(s, k + 1)'
  <2>1. \A f \in ToSet(lsHanded') : f.part < lsAt'.part \/ \E i \in 1 .. k + 1 : s[i] = f
    <3> SUFFICES ASSUME NEW f \in ToSet(lsHanded') PROVE f.part < lsAt'.part \/ \E i \in 1 .. k + 1 : s[i] = f
      OBVIOUS
    <3>1. CASE f \in ToSet(lsHanded)
      BY <1>2, <3>1 DEF LsWalk
    <3>2. CASE f = s[k + 1]
      BY <1>2, <3>2
    <3> QED  BY <3>1, <3>2
  <2>2. \A i \in 1 .. k + 1 : Wanted(s[i])' => Handed(s[i])'
    <3> SUFFICES ASSUME NEW i \in 1 .. k + 1, Wanted(s[i])' PROVE Handed(s[i])'
      OBVIOUS
    <3>1. Wanted(s[i])
      BY SameLoop
    <3>2. CASE i \in 1 .. k
      BY <3>1, <3>2 DEF LsWalk
    <3> QED  BY <1>2, <3>1, <3>2
  <2>3. k + 1 \in 0 .. Len(s)
    BY <1>1
  <2> QED  BY <1>1, <2>1, <2>2, <2>3 DEF LsWalk
<1>4. LsReach(s, k + 1)'
  <2>1. k + 1 + Len(lsBuf') = k + Len(lsBuf) /\ lsAt.pc = "hand"
    BY <1>1 DEF Present
  <2>2. \A q : LsDue(s, k, q) => LsDue(s, k + 1, q)'
    BY <2>1 DEF LsDue
  <2> QED  BY <2>1, <2>2, SameLoop DEF LsReach
<1> QED  BY <1>3, <1>4

LEMMA LastHolds == ASSUME NEW s \in Seq(LsEntry), s # <<>> PROVE Last(s) \in ToSet(s) /\ Last(s) \in LsEntry
<1>1. Len(s) \in DOMAIN s
  OBVIOUS
<1> QED  BY <1>1 DEF Last, ToSet

LEMMA PassOverWhole == ASSUME ComparesPrevious, LsWhole, PassOver PROVE LsProgress'
<1>1. Present /\ lsAt.pc = "hand" /\ ~LsBegins
  BY DEF PassOver, Present, LsBegins
<1>2. UNCHANGED <<lsLoop, lsTable, lsStayed, lsQuiet, lsCut>>
  BY StepsKeepTable DEF LsTableSteps
<1>3. CASE Piecemeal /\ ~lsQuiet
  BY <1>2, <1>3, SameLoop DEF LsProgress
<1>4. CASE Piecemeal => lsQuiet
  <2>1. PICK s, k : LsWalk(s, k) /\ LsReach(s, k)
    BY <1>1, <1>4, OnTheWalk
  <2>2. /\ lsAt' = lsAt /\ lsBuf' = Tail(lsBuf) /\ UNCHANGED <<lsPos, lsSize, lsNext, lsHanded, lsStream>>
    BY <1>1, CurrentList DEF PassOver, Reads, LsWhole
  <2>3. k + 1 \in 1 .. Len(s) /\ Head(lsBuf) = s[k + 1] /\ s[k + 1] \in LsEntry /\ s[k + 1].part = lsAt.part
    BY <1>1, <2>1, NextOfWalk DEF LsWhole
  <2>4. LoopRules(lsLoop) /\ lsAt.part \in {1, 2} /\ lsAt.part <= lsLoop.parts /\ lsHanded \in Seq(LsEntry)
    BY <1>1, CurrentList, LoopsRule DEF LsWhole, LsTruth, LsTypes
  <2>5. ~Wanted(s[k + 1]) \/ (lsLoop.twin = "previous" /\ lsHanded # <<>> /\ Last(lsHanded).name = s[k + 1].name)
    BY <2>3, <2>4 DEF PassOver, Twin, LoopRules
  <2>6. lsLoop.twin = "previous" => lsHanded # <<>> /\ Last(lsHanded).name = s[k + 1].name
    BY <2>3, <2>4, <2>5 DEF LoopRules, Wanted
  <2>7. Wanted(s[k + 1]) => Handed(s[k + 1])
    BY <2>4, <2>5, LastHolds DEF Handed, Subject
  <2>8. (LsWalk(s, k + 1) /\ LsReach(s, k + 1))'
    BY <1>1, <1>2, <2>1, <2>2, <2>6, <2>7, SameLoop, WalkAdvances DEF LsWhole
  <2>9. ~LsBegins'
    BY <1>1, <2>2 DEF LsBegins
  <2> QED  BY <1>1, <1>2, <2>2, <2>8, <2>9, WalkGoesOn
<1> QED  BY <1>3, <1>4

(* The handler gets an entry that it has not had. *)
LEMMA HandedOnce ==
    ASSUME ComparesPrevious, LsTruth, LsShape, LsOnce, Due, NEW s, NEW k, LsWalk(s, k),
           lsLoop' = lsLoop, lsHanded' = Append(lsHanded, Head(lsBuf))
    PROVE  /\ LsOnce' /\ (\A e : Handed(e) => Handed(e)') /\ Handed(s[k + 1])'
           /\ \A f \in ToSet(lsHanded') : f \in ToSet(lsHanded) \/ f = s[k + 1]
           /\ lsHanded' # <<>> /\ Last(lsHanded').name = s[k + 1].name
<1> DEFINE h == s[k + 1]
<1>1. /\ k + 1 \in 1 .. Len(s) /\ Head(lsBuf) = h /\ h \in LsEntry /\ h.part = lsAt.part
      /\ lsHanded \in Seq(LsEntry) /\ ~Twin(h)
  BY NextOfWalk DEF Due, LsTruth, LsTypes
<1>2. s \in Seq(LsEntry) /\ k \in 0 .. Len(s) /\ LsListOK(s, lsAt.part) /\ DOMAIN s = 1 .. Len(s)
  BY DEF LsWalk
<1>3. LoopRules(lsLoop) /\ lsAt.part \in {1, 2} /\ lsAt.part <= lsLoop.parts /\ LsParts = {1, 2}
  BY CurrentList, LoopsRule DEF Due, Present, LsParts
<1>4. ASSUME NEW f \in ToSet(lsHanded), Subject(f) = Subject(h) PROVE FALSE
  <2>1. f \in LsEntry /\ f.part \in {1, 2}
    <3>1. f \in LsEntry
      BY <1>1 DEF ToSet
    <3> QED  BY <1>3, <3>1, ListingAssumption
  <2>2. CASE lsLoop.twin = "none"
    <3>1. f = h
      BY <1>4, <2>2 DEF Subject
    <3>2. PICK i \in 1 .. k : s[i] = h
      <4>1. ~(f.part < lsAt.part)
        BY <1>1, <1>3, <3>1
      <4>2. PICK i \in 1 .. k : s[i] = f
        BY <4>1 DEF LsWalk
      <4> QED  BY <3>1, <4>2
    <3>3. i \in DOMAIN s /\ k + 1 \in DOMAIN s /\ i # k + 1
      BY <1>1, <1>2
    <3> QED  BY <1>2, <3>2, <3>3 DEF LsListOK, IsInjective
  <2>3. CASE lsLoop.twin = "previous"
    <3>1. f.name = h.name /\ lsLoop.parts = 1
      BY <1>3, <1>4, <2>3 DEF Subject, LoopRules
    <3>2. PICK i \in 1 .. k : s[i] = f
      <4>1. ~(f.part < lsAt.part)
        BY <1>3, <2>1, <3>1
      <4> QED  BY <4>1 DEF LsWalk
    <3>3. k > 0 /\ i \in DOMAIN s /\ k \in DOMAIN s /\ k + 1 \in DOMAIN s /\ i <= k /\ k < k + 1
      BY <1>1, <1>2
    <3>4. s[k].name = h.name
      <4>1. CASE i = k
        BY <3>1, <3>2, <4>1
      <4>2. CASE i # k
        <5>1. i < k
          BY <1>2, <3>3, <4>2
        <5> QED  BY <1>2, <3>1, <3>2, <3>3, <5>1 DEF LsListOK, Neighbours
      <4> QED  BY <4>1, <4>2
    <3>5. lsHanded # <<>> /\ Last(lsHanded).name = s[k].name
      BY <2>3, <3>3 DEF LsWalk
    <3> QED  BY <1>1, <2>3, <3>4, <3>5 DEF Twin
  <2> QED  BY <1>3, <2>2, <2>3 DEF LoopRules
<1> HIDE DEF h
<1>5. /\ lsHanded' \in Seq(LsEntry) /\ Len(lsHanded') = Len(lsHanded) + 1 /\ lsHanded'[Len(lsHanded) + 1] = h
      /\ \A i \in 1 .. Len(lsHanded) : lsHanded'[i] = lsHanded[i]
  BY <1>1
<1>6. DOMAIN lsHanded = 1 .. Len(lsHanded) /\ DOMAIN lsHanded' = 1 .. Len(lsHanded) + 1 /\ Len(lsHanded) \in Nat
  BY <1>1, <1>5
<1>7. ToSet(lsHanded') = ToSet(lsHanded) \cup {h}
  BY <1>1, EndsHold
<1>8. LsOnce'
  <2> SUFFICES ASSUME NEW i \in 1 .. Len(lsHanded) + 1, NEW j \in 1 .. Len(lsHanded) + 1,
                      Subject(lsHanded'[i]) = Subject(lsHanded'[j])
               PROVE  i = j
    BY <1>6 DEF LsOnce, Subject
  <2>1. \A n \in 1 .. Len(lsHanded) : lsHanded[n] \in ToSet(lsHanded)
    BY <1>6 DEF ToSet
  <2>2. \A n \in 1 .. Len(lsHanded) + 1 : n \in 1 .. Len(lsHanded) \/ n = Len(lsHanded) + 1
    BY <1>6
  <2>3. CASE i \in 1 .. Len(lsHanded) /\ j \in 1 .. Len(lsHanded)
    BY <1>5, <1>6, <2>3 DEF LsOnce
  <2>4. CASE i \in 1 .. Len(lsHanded) /\ j = Len(lsHanded) + 1
    BY <1>4, <1>5, <2>1, <2>4
  <2>5. CASE j \in 1 .. Len(lsHanded) /\ i = Len(lsHanded) + 1
    BY <1>4, <1>5, <2>1, <2>5
  <2> QED  BY <2>2, <2>3, <2>4, <2>5
<1>9. (\A e : Handed(e) => Handed(e)') /\ Handed(h)'
  BY <1>7, SameLoop DEF Handed
<1>10. lsHanded' # <<>> /\ Last(lsHanded') = h
  BY <1>5, <1>6 DEF Last
<1> QED  BY <1>7, <1>8, <1>9, <1>10 DEF h

LEMMA HandingWhole == ASSUME ComparesPrevious, LsWhole, GoOn \/ Stop PROVE LsProgress'
<1>1. Due /\ Present /\ lsAt.pc = "hand" /\ ~LsBegins /\ lsHanded' = Append(lsHanded, Head(lsBuf))
  BY DEF GoOn, Stop, Due, Present, LsBegins
<1>2. UNCHANGED <<lsLoop, lsTable, lsStayed, lsQuiet, lsCut>>
  BY StepsKeepTable DEF LsTableSteps
<1>3. CASE Piecemeal /\ ~lsQuiet
  BY <1>2, <1>3, SameLoop DEF LsProgress
<1>4. CASE Piecemeal => lsQuiet
  <2>1. PICK s, k : LsWalk(s, k) /\ LsReach(s, k)
    BY <1>1, <1>4, OnTheWalk
  <2>2. LsRuns /\ LsOnce
    BY <1>1, <1>4, OnTheWalk
  <2>3. /\ LsOnce' /\ (\A e : Handed(e) => Handed(e)') /\ Handed(s[k + 1])'
        /\ \A f \in ToSet(lsHanded') : f \in ToSet(lsHanded) \/ f = s[k + 1]
        /\ lsHanded' # <<>> /\ Last(lsHanded').name = s[k + 1].name
    BY <1>1, <1>2, <2>1, <2>2, HandedOnce DEF LsWhole
  <2>4. CASE GoOn
    <3>1. lsBuf' = Tail(lsBuf) /\ UNCHANGED <<lsAt, lsPos, lsSize, lsNext, lsStream>>
      BY <2>4 DEF GoOn
    <3>2. (LsWalk(s, k + 1) /\ LsReach(s, k + 1))'
      BY <1>1, <1>2, <2>1, <2>3, <3>1, WalkAdvances DEF LsWhole
    <3>3. ~LsBegins' /\ lsAt'.pc = "hand"
      BY <1>1, <3>1 DEF LsBegins
    <3>4. LsRuns'
      BY <1>2, <2>2, <2>3, <3>1, <3>2, <3>3, SameLoop DEF LsRuns
    <3> QED  BY <2>3, <3>3, <3>4 DEF LsProgress
  <2>5. CASE Stop
    <3>1. lsAt'.pc = "idle" /\ lsRet' = "handler"
      BY <1>1, <2>5, CurrentList DEF Stop, LsWhole
    <3> QED  BY <2>3, <3>1 DEF LsProgress
  <2> QED  BY <2>4, <2>5
<1> QED  BY <1>3, <1>4
----------------------------------------------------------------------------
(* Streams. *)
LEMMA PiecesAre ==
    ASSUME NEW s \in Seq(LsEntry)
    PROVE  /\ s = <<>> => Len(Pieces(s)) = 1 /\ Pieces(s)[1].of = <<>> /\ ~Pieces(s)[1].more
           /\ s # <<>> => /\ Len(Pieces(s)) = Len(s)
                          /\ \A i \in 1 .. Len(s) : Pieces(s)[i].of = <<s[i]>> /\ (Pieces(s)[i].more <=> i < Len(s))
<1>1. CASE s = <<>>
  BY <1>1 DEF Pieces
<1>2. CASE s # <<>>
  <2> DEFINE m(i) == [kind |-> "piece", of |-> <<s[i]>>, more |-> i < Len(s)]
  <2>1. \A i : (m(i).more <=> i < Len(s)) /\ m(i).of = <<s[i]>>
    OBVIOUS
  <2>2. Pieces(s) = [i \in DOMAIN s |-> m(i)]
    BY <1>2 DEF Pieces
  <2> HIDE DEF m
  <2>3. DOMAIN s = 1 .. Len(s) /\ Len(s) \in Nat
    OBVIOUS
  <2> QED  BY <1>2, <2>1, <2>2, <2>3
<1> QED  BY <1>1, <1>2

(* What is due in a stream, and what is then. *)
LEMMA DueIs ==
    ASSUME LsAnswer, NEW s \in Seq(LsEntry), NEW k, NEW q \in Nat, LsDue(s, k, q)
    PROVE  /\ q \in 1 .. Len(Pieces(s)) + 4 /\ lsStream # <<>> /\ Head(lsStream) = Answered(s)[q]
           /\ Consumes => Len(lsStream') = Len(Pieces(s)) + 5 - (q + 1)
                          /\ \A i \in 1 .. Len(lsStream') : lsStream'[i] = Answered(s)[(q + 1) + i - 1]
<1> DEFINE n == Len(Pieces(s))
<1>1. n \in Nat \ {0} /\ lsStream \in Seq(LsMessage)
  BY AnsweredIs DEF LsAnswer
<1>2. q \in 1 .. n + 4 /\ Len(lsStream) = n + 5 - q /\ \A i \in 1 .. Len(lsStream) : lsStream[i] = Answered(s)[q + i - 1]
  BY DEF LsDue
<1> HIDE DEF n
<1>3. Len(lsStream) \in Nat \ {0} /\ 1 \in 1 .. Len(lsStream) /\ q + 1 - 1 = q
  BY <1>1, <1>2
<1>4. lsStream # <<>> /\ Head(lsStream) = lsStream[1] /\ lsStream[1] = Answered(s)[q]
  BY <1>1, <1>2, <1>3
<1>5. ASSUME Consumes
      PROVE  Len(lsStream') = n + 5 - (q + 1) /\ \A i \in 1 .. Len(lsStream') : lsStream'[i] = Answered(s)[(q + 1) + i - 1]
  <2>1. Len(lsStream') = Len(lsStream) - 1 /\ \A i \in 1 .. Len(lsStream) - 1 : lsStream'[i] = lsStream[i + 1]
    BY <1>1, <1>4, <1>5 DEF Consumes
  <2>2. \A i \in 1 .. Len(lsStream) - 1 : i + 1 \in 1 .. Len(lsStream) /\ q + (i + 1) - 1 = (q + 1) + i - 1
    BY <1>1, <1>2, <1>3
  <2>3. \A i \in 1 .. Len(lsStream) - 1 : lsStream'[i] = Answered(s)[(q + 1) + i - 1]
    BY <1>2, <2>1, <2>2
  <2> QED  BY <1>1, <1>2, <2>1, <2>3
<1> QED  BY <1>2, <1>4, <1>5 DEF n

LEMMA OnTheStream ==
    ASSUME LsWhole, lsLoop.by = "streams", lsAt.pc \in {"control", "data", "hand"}
    PROVE  /\ LsRuns /\ LsOnce /\ LsAnswer /\ ~Piecemeal /\ ~LsBegins
           /\ \E s, k : LsWalk(s, k) /\ \E q \in Nat : LsDue(s, k, q)
<1>1. ~LsBegins /\ ~Piecemeal /\ lsAt.pc # "idle"
  BY DEF LsBegins, LsOneCopy, Piecemeal
<1>2. LsRuns /\ LsOnce /\ \E s, k : LsWalk(s, k) /\ LsReach(s, k)
  BY <1>1, OnTheWalk
<1> QED  BY <1>1, <1>2 DEF LsReach, LsWhole, LsTruth

LEMMA StreamGoesOn ==
    ASSUME LsWhole, lsLoop.by = "streams", lsAt.pc \in {"control", "data", "hand"}, lsAt'.pc \in {"control", "data", "hand"},
           lsAt'.part = lsAt.part, UNCHANGED <<lsLoop, lsTable, lsHanded, lsStayed, lsQuiet, lsCut>>,
           NEW s, NEW k, NEW q \in Nat, LsWalk(s, k), LsDue(s, k, q)',
           k + Len(lsBuf') <= Len(s), \A i \in 1 .. Len(lsBuf') : lsBuf'[i] = s[k + i]
    PROVE  LsProgress'
<1>1. ~LsBegins /\ ~LsBegins' /\ lsAt'.pc # "idle" /\ lsAt'.pc # "fetch"
  BY DEF LsBegins, LsOneCopy
<1>2. LsWalk(s, k)'
  BY SameWalk
<1>3. LsReach(s, k)'
  BY <1>1, SameLoop DEF LsReach, LsOneCopy, Piecemeal
<1> QED  BY <1>1, <1>2, <1>3, WalkGoesOn

LEMMA AskWhole == ASSUME LsWhole, SendAsk PROVE LsProgress'
<1>1. /\ lsAt.pc = "ask" /\ lsLoop.by = "streams" /\ lsStream = <<>> /\ LsBegins /\ ~Piecemeal
  BY DEF SendAsk, LsWhole, LsTruth, LsTypes, LsAnswer, LsBegins, Piecemeal
<1>2. PICK s \in Seq(LsEntry) : s = lsTable[lsAt.part] /\ LsListOK(s, lsAt.part) /\ s = Listed(lsAt.part)
      /\ \A e \in lsStayed : e.part = lsAt.part => e \in ToSet(s)
  BY <1>1, CurrentList DEF LsWhole
<1>3. lsStream' = Answered(s)
  <2>1. lsStream' = <<>> \o Answered(s) /\ Answered(s) \in Seq(LsMessage)
    BY <1>1, <1>2, AnsweredIs DEF SendAsk
  <2> QED  BY <2>1
<1>4. /\ lsAt' = [pc |-> "control", part |-> lsAt.part]
      /\ UNCHANGED <<lsLoop, lsTable, lsHanded, lsStayed, lsQuiet, lsCut, lsBuf, lsPos, lsSize, lsNext>>
  BY <1>1, CurrentList DEF SendAsk, lsHist, lsRead, LsWhole
<1>5. LsRuns /\ lsBuf = <<>> /\ \A f \in ToSet(lsHanded) : f.part < lsAt.part
  BY <1>1, AtTheBeginning
<1>6. lsAt'.part = lsAt.part /\ lsAt'.pc = "control" /\ ~LsBegins' /\ Len(lsBuf') = 0 /\ lsBuf' = <<>>
  BY <1>4, <1>5 DEF LsBegins
<1>7. LsWalk(s, 0)'
  BY <1>2, <1>4, <1>5, <1>6, StartWalk
<1>8. LsDue(s, 0, 1)'
  <2>1. Len(Pieces(s)) \in Nat \ {0} /\ Len(Answered(s)) = Len(Pieces(s)) + 4
    BY AnsweredIs
  <2>2. 1 \in 1 .. Len(Pieces(s)) + 4 /\ Len(lsStream') = Len(Pieces(s)) + 5 - 1
    BY <1>3, <2>1
  <2>3. \A i \in 1 .. Len(lsStream') : lsStream'[i] = Answered(s)[1 + i - 1]
    <3>1. \A i \in 1 .. Len(lsStream') : 1 + i - 1 = i
      BY <2>1, <2>2
    <3> QED  BY <1>3, <3>1
  <2> QED  BY <1>6, <2>2, <2>3 DEF LsDue
<1>9. LsReach(s, 0)'
  <2>1. \E q \in Nat : LsDue(s, 0, q)'
    BY <1>8
  <2> QED  BY <1>1, <1>4, <1>6, <2>1, SameLoop DEF LsReach, LsOneCopy
<1>10. LsRuns'
  BY <1>4, <1>5, <1>6, <1>7, <1>9, SameLoop DEF LsRuns
<1> QED  BY <1>1, <1>4, <1>6, <1>10, GoesOnWhole

LEMMA ControlWhole == ASSUME LsWhole, ReadControl PROVE LsProgress'
<1>1. lsAt.pc = "control" /\ lsLoop.by = "streams" /\ lsAt.pc # "idle"
  BY DEF ReadControl, LsWhole, LsTruth, LsTypes
<1>2. LsRuns /\ LsOnce /\ LsAnswer /\ ~Piecemeal
  BY <1>1, OnTheStream
<1>3. PICK s, k : LsWalk(s, k) /\ \E q \in Nat : LsDue(s, k, q)
  BY <1>1, OnTheStream
<1>4. PICK q \in Nat : LsDue(s, k, q)
  BY <1>3
<1>5. s \in Seq(LsEntry) /\ k \in 0 .. Len(s)
  BY <1>3 DEF LsWalk
<1> DEFINE n == Len(Pieces(s))
<1>6. /\ n \in Nat \ {0} /\ Answered(s)[1] = Table(TRUE) /\ Answered(s)[n + 2] = Table(FALSE)
      /\ Answered(s)[n + 4] = [kind |-> "end"]
  BY <1>5, AnsweredIs
<1>7. lsBuf = <<>> /\ ((q = 1 /\ k = 0) \/ (q \in {n + 2, n + 4} /\ k = Len(s)))
  BY <1>1, <1>4 DEF LsDue
<1>8. Head(lsStream) = Answered(s)[q]
  BY <1>2, <1>4, <1>5, DueIs
<1>9. UNCHANGED <<lsLoop, lsTable, lsStayed, lsQuiet, lsCut>>
  BY StepsKeepTable DEF LsTableSteps
<1>10. CASE q = 1 \/ q = n + 2
  <2>1. n + 2 # 1
    BY <1>6
  <2>2. Head(lsStream).kind = "table" /\ (Head(lsStream).ours <=> q = 1)
    <3>1. CASE q = 1
      <4>1. Head(lsStream) = Table(TRUE)
        BY <1>6, <1>8, <3>1
      <4> QED  BY <3>1, <4>1 DEF Table
    <3>2. CASE q = n + 2
      <4>1. Head(lsStream) = Table(FALSE) /\ q # 1
        BY <1>6, <1>8, <2>1, <3>2
      <4> QED  BY <4>1 DEF Table
    <3> QED  BY <1>10, <3>1, <3>2
  <2>3. /\ Consumes /\ lsAt' = [lsAt EXCEPT !.pc = "data"] /\ lsSize' = (IF q = 1 THEN 1 ELSE 0)
        /\ UNCHANGED <<lsBuf, lsHanded>>
    BY <2>2 DEF ReadControl
  <2>4. lsAt'.pc = "data" /\ lsAt'.part = lsAt.part
    BY <1>1, <2>3, CurrentList DEF LsWhole
  <2>5. /\ Len(lsStream') = n + 5 - (q + 1)
        /\ \A i \in 1 .. Len(lsStream') : lsStream'[i] = Answered(s)[(q + 1) + i - 1]
    BY <1>2, <1>4, <1>5, <2>3, DueIs
  <2>6. q + 1 \in 1 .. n + 4 /\ q + 1 \in Nat
        /\ ((q + 1 \in 2 .. n + 1 /\ lsSize' = 1 /\ k = (q + 1) - 2) \/ (q + 1 = n + 3 /\ lsSize' = 0 /\ k = Len(s)))
    BY <1>6, <1>7, <1>10, <2>3
  <2>7. LsDue(s, k, q + 1)'
    BY <1>7, <2>3, <2>4, <2>5, <2>6 DEF LsDue
  <2>8. k + Len(lsBuf') <= Len(s) /\ \A i \in 1 .. Len(lsBuf') : lsBuf'[i] = s[k + i]
    BY <1>5, <1>7, <2>3
  <2> QED  BY <1>1, <1>3, <1>9, <2>3, <2>4, <2>6, <2>7, <2>8, StreamGoesOn
<1>11. CASE q = n + 4
  <2>1. Head(lsStream).kind = "end"
    BY <1>6, <1>8, <1>11
  <2>2. k = Len(s)
    BY <1>6, <1>7, <1>11
  <2>3. LsPartDone
    BY <1>1, <1>2, <1>3, <2>2, WalkedIsDone DEF LsWhole
  <2>4. CASE lsAt.part = lsLoop.parts
    <3>1. lsAt' = [lsAt EXCEPT !.pc = "idle"] /\ UNCHANGED lsHanded
      BY <2>1, <2>4 DEF ReadControl
    <3>2. lsAt'.pc = "idle"
      BY <1>1, <3>1, CurrentList DEF LsWhole
    <3>3. LsDone
      BY <2>3, <2>4, PartDoneIsDone
    <3>4. LsDone'
      BY <1>9, <3>1, <3>3, SameLoop DEF LsDone
    <3> QED  BY <1>2, <1>9, <3>1, <3>2, <3>4, SameLoop DEF LsProgress
  <2>5. CASE lsAt.part # lsLoop.parts
    <3>1. lsAt' = [pc |-> "ask", part |-> lsAt.part + 1] /\ UNCHANGED <<lsHanded, lsBuf>>
      BY <2>1, <2>5 DEF ReadControl, lsRead
    <3>2. lsAt.part = 1 /\ lsAt'.part = 2 /\ lsAt'.pc = "ask" /\ LsBegins'
      <4>1. lsAt.part \in {1, 2} /\ lsAt.part <= lsLoop.parts /\ lsLoop.parts \in {1, 2}
        BY <1>1, CurrentList DEF LsWhole
      <4> QED  BY <2>5, <3>1, <4>1 DEF LsBegins
    <3>3. \A f \in ToSet(lsHanded) : f.part < 2
      <4>1. \A f \in ToSet(lsHanded) : f.part \in {1, 2}
        <5>1. lsHanded \in Seq(LsEntry)
          BY DEF LsWhole, LsTruth, LsTypes
        <5> QED  BY <5>1, ListingAssumption DEF ToSet, LsParts
      <4> QED  BY <2>3, <3>2, <4>1 DEF LsPartDone
    <3>4. \A e \in lsStayed : e.part < 2 /\ Owed(e) => Handed(e)
      <4>1. \A e \in lsStayed : e.part \in {1, 2}
        BY <1>1, EntryParts DEF LsWhole, LsParts
      <4> QED  BY <2>3, <3>2, <4>1 DEF LsPartDone
    <3>5. LsRuns'
      BY <1>7, <1>9, <3>1, <3>2, <3>3, <3>4, SameLoop DEF LsRuns
    <3> QED  BY <1>1, <1>9, <3>1, <3>2, <3>5, GoesOnWhole
  <2> QED  BY <2>4, <2>5
<1> QED  BY <1>7, <1>10, <1>11

LEMMA PieceWhole == ASSUME LsWhole, ReadPiece PROVE LsProgress'
<1>1. lsAt.pc = "data" /\ lsLoop.by = "streams" /\ lsAt.pc # "idle"
  BY DEF ReadPiece, LsWhole, LsTruth, LsTypes
<1>2. LsRuns /\ LsOnce /\ LsAnswer /\ ~Piecemeal
  BY <1>1, OnTheStream
<1>3. PICK s, k : LsWalk(s, k) /\ \E q \in Nat : LsDue(s, k, q)
  BY <1>1, OnTheStream
<1>4. PICK q \in Nat : LsDue(s, k, q)
  BY <1>3
<1>5. s \in Seq(LsEntry) /\ k \in 0 .. Len(s)
  BY <1>3 DEF LsWalk
<1> DEFINE n == Len(Pieces(s))
           m == Head(lsStream)
<1>6. /\ n \in Nat \ {0} /\ (\A i \in 2 .. n + 1 : Answered(s)[i] = Pieces(s)[i - 1])
      /\ Answered(s)[n + 3] = [kind |-> "piece", of |-> <<>>, more |-> FALSE]
  BY <1>5, AnsweredIs
<1>7. lsBuf = <<>> /\ ((q \in 2 .. n + 1 /\ lsSize = 1 /\ k = q - 2) \/ (q = n + 3 /\ lsSize = 0 /\ k = Len(s)))
  BY <1>1, <1>4 DEF LsDue
<1>8. UNCHANGED <<lsLoop, lsTable, lsStayed, lsQuiet, lsCut>>
  BY StepsKeepTable DEF LsTableSteps
<1>9. /\ m = Answered(s)[q] /\ Len(lsStream') = n + 5 - (q + 1)
      /\ \A i \in 1 .. Len(lsStream') : lsStream'[i] = Answered(s)[(q + 1) + i - 1]
  BY <1>2, <1>4, <1>5, DueIs DEF ReadPiece
<1>10. /\ lsBuf' = (IF lsSize = 1 THEN m.of ELSE <<>>) /\ lsPos' = (IF m.more THEN 1 ELSE 0)
       /\ lsAt' = [pc |-> IF lsSize = 1 THEN "hand" ELSE IF m.more THEN "data" ELSE "control", part |-> lsAt.part]
       /\ UNCHANGED <<lsSize, lsHanded>>
  BY <1>1, CurrentList DEF ReadPiece, LsWhole
<1> HIDE DEF m, n
<1>11. lsAt'.part = lsAt.part /\ lsAt'.pc = IF lsSize = 1 THEN "hand" ELSE IF m.more THEN "data" ELSE "control"
  BY <1>10
<1>12. CASE q \in 2 .. n + 1 /\ lsSize = 1 /\ k = q - 2
  <2>1. q - 1 \in 1 .. n /\ m = Pieces(s)[q - 1] /\ q + 1 \in 3 .. n + 2 /\ q + 1 \in 1 .. n + 4 /\ q + 1 \in Nat
    BY <1>6, <1>9, <1>12
  <2>2. (m.more <=> q + 1 <= n + 1) /\ k + Len(lsBuf') = (IF s = <<>> THEN 0 ELSE (q + 1) - 2)
        /\ k + Len(lsBuf') <= Len(s) /\ \A i \in 1 .. Len(lsBuf') : lsBuf'[i] = s[k + i]
    <3>1. CASE s = <<>>
      <4>1. n = 1 /\ q = 2 /\ m.of = <<>> /\ ~m.more /\ k = 0
        <5>1. n = 1 /\ Pieces(s)[1].of = <<>> /\ ~Pieces(s)[1].more
          BY <1>5, <3>1, PiecesAre DEF n
        <5>2. q = 2 /\ q - 1 = 1 /\ k = 0
          BY <1>12, <5>1
        <5> QED  BY <2>1, <5>1, <5>2
      <4> QED  BY <1>10, <1>12, <3>1, <4>1
    <3>2. CASE s # <<>>
      <4>1. n = Len(s) /\ m.of = <<s[q - 1]>> /\ (m.more <=> q - 1 < n)
        BY <1>5, <2>1, <3>2, PiecesAre DEF n
      <4>2. lsBuf' = <<s[k + 1]>> /\ Len(lsBuf') = 1
        <5>1. q - 1 = k + 1
          BY <1>12
        <5> QED  BY <1>10, <1>12, <4>1, <5>1
      <4>3. k + 1 <= Len(s) /\ k + 1 = (q + 1) - 2 /\ (m.more <=> q + 1 <= n + 1)
        BY <1>6, <1>12, <4>1
      <4> QED  BY <3>2, <4>2, <4>3
    <3> QED  BY <3>1, <3>2
  <2>3. LsDue(s, k, q + 1)'
    <3>1. lsPos' = 1 <=> q + 1 <= n + 1
      BY <1>10, <2>2
    <3>2. lsAt'.pc = "hand" /\ lsSize' = 1
      BY <1>10, <1>11, <1>12
    <3> QED  BY <1>9, <2>1, <2>2, <3>1, <3>2 DEF LsDue, n
  <2>4. lsAt'.pc = "hand"
    BY <1>11, <1>12
  <2> QED  BY <1>1, <1>3, <1>8, <1>10, <1>11, <2>1, <2>2, <2>3, <2>4, StreamGoesOn
<1>13. CASE q = n + 3 /\ lsSize = 0 /\ k = Len(s)
  <2>1. m.more = FALSE /\ q + 1 = n + 4 /\ q + 1 \in 1 .. n + 4 /\ q + 1 \in Nat /\ n + 4 \in {n + 2, n + 4}
    BY <1>6, <1>9, <1>13
  <2>2. lsBuf' = <<>> /\ lsAt'.pc = "control" /\ Len(lsBuf') = 0
    BY <1>10, <1>11, <1>13, <2>1
  <2>3. LsDue(s, k, q + 1)'
    BY <1>9, <1>13, <2>1, <2>2 DEF LsDue, n
  <2>4. k + Len(lsBuf') <= Len(s) /\ \A i \in 1 .. Len(lsBuf') : lsBuf'[i] = s[k + i]
    BY <1>5, <2>2
  <2> QED  BY <1>1, <1>3, <1>8, <1>10, <1>11, <2>1, <2>2, <2>3, <2>4, StreamGoesOn
<1> QED  BY <1>7, <1>12, <1>13 DEF n

LEMMA StreamExhausted == ASSUME LsWhole, Exhausted, lsLoop.by = "streams" PROVE LsProgress'
<1>1. lsAt.pc = "hand" /\ lsBuf = <<>> /\ Len(lsBuf) = 0 /\ lsAt.pc # "idle"
  BY DEF Exhausted
<1>2. LsRuns /\ LsOnce /\ LsAnswer /\ ~Piecemeal
  BY <1>1, OnTheStream
<1>3. PICK s, k : LsWalk(s, k) /\ \E q \in Nat : LsDue(s, k, q)
  BY <1>1, OnTheStream
<1>4. PICK q \in Nat : LsDue(s, k, q)
  BY <1>3
<1>5. s \in Seq(LsEntry) /\ k \in 0 .. Len(s)
  BY <1>3 DEF LsWalk
<1>6. UNCHANGED <<lsLoop, lsTable, lsStayed, lsQuiet, lsCut>>
  BY StepsKeepTable DEF LsTableSteps
<1> DEFINE n == Len(Pieces(s))
<1>7. n \in Nat \ {0} /\ (s = <<>> => n = 1) /\ (s # <<>> => n = Len(s))
  BY <1>5, AnsweredIs, PiecesAre
<1>8. q \in 3 .. n + 2 /\ lsSize = 1 /\ (lsPos = 1 <=> q <= n + 1) /\ k + 0 = IF s = <<>> THEN 0 ELSE q - 2
  BY <1>1, <1>4 DEF LsDue
<1>9. /\ lsAt' = [pc |-> IF lsPos = 1 THEN "data" ELSE "control", part |-> lsAt.part]
      /\ lsBuf' = <<>> /\ UNCHANGED <<lsPos, lsSize, lsStream, lsHanded>>
  BY <1>1, CurrentList DEF Exhausted, Reads, NextRead, LsWhole
<1>10. lsAt'.part = lsAt.part /\ lsAt'.pc = (IF lsPos = 1 THEN "data" ELSE "control") /\ lsAt'.pc \in {"control", "data"}
  BY <1>9
<1>11. lsPos = 1 => q \in 2 .. n + 1 /\ k = q - 2
  <2> HAVE lsPos = 1
  <2> HIDE DEF n
  <2>1. q \in 2 .. n + 1 /\ q >= 3
    BY <1>7, <1>8
  <2>2. ~(n = 1)
    BY <1>7, <2>1
  <2>3. s # <<>>
    BY <1>7, <2>2
  <2> QED  BY <1>5, <1>8, <2>1, <2>3
<1>12. lsPos # 1 => q = n + 2 /\ k = Len(s)
  <2> HAVE lsPos # 1
  <2>1. q = n + 2
    BY <1>7, <1>8
  <2>2. CASE s = <<>>
    BY <1>5, <1>8, <2>1, <2>2
  <2>3. CASE s # <<>>
    BY <1>5, <1>7, <1>8, <2>1, <2>3
  <2> QED  BY <2>1, <2>2, <2>3
<1>13. LsDue(s, k, q)'
  <2>1. /\ q \in 1 .. n + 4 /\ Len(lsStream) = n + 5 - q
        /\ \A i \in 1 .. Len(lsStream) : lsStream[i] = Answered(s)[q + i - 1]
    BY <1>4 DEF LsDue
  <2> QED  BY <1>8, <1>9, <1>10, <1>11, <1>12, <2>1 DEF LsDue
<1>14. k + Len(lsBuf') <= Len(s) /\ \A i \in 1 .. Len(lsBuf') : lsBuf'[i] = s[k + i]
  BY <1>5, <1>9
<1> QED  BY <1>1, <1>3, <1>6, <1>9, <1>10, <1>13, <1>14, StreamGoesOn
----------------------------------------------------------------------------
LEMMA InitWhole == LsInit => LsWhole
<1> SUFFICES ASSUME LsInit PROVE LsWhole
  OBVIOUS
<1>1. LsTruth /\ LsShape
  BY InitTruth, InitShape
<1>2. lsHanded = <<>> /\ lsAt.pc = "idle" /\ lsRet = "none"
  BY DEF LsInit
<1>3. LsProgress
  BY <1>2 DEF LsProgress, LsOnce
<1> QED  BY <1>1, <1>3 DEF LsWhole

LEMMA StepWhole ==
    ASSUME StreamsRunOut, ComparesPrevious, RoomForAll, LsWhole, [LsNext]_lsVars PROVE LsWhole'
<1>1. LsTruth' /\ LsShape'
  BY StepTruth, StepShape DEF LsWhole
<1>2. CASE UNCHANGED lsVars
  <2>1. LsTruth /\ LsShape /\ LsProgress
    BY DEF LsWhole
  <2>2. \A s, k, q : LsDue(s, k, q)' <=> LsDue(s, k, q)
    BY <1>2 DEF lsVars, lsRead, LsDue
  <2>3. \A s, k : (LsWalk(s, k)' <=> LsWalk(s, k)) /\ (LsReach(s, k)' <=> LsReach(s, k))
    BY <1>2, <2>2, SameLoop DEF lsVars, lsRead, lsHist, LsWalk, LsReach
  <2>4. (LsBegins' <=> LsBegins) /\ (LsDone' <=> LsDone)
    BY <1>2, SameLoop DEF lsVars, lsHist, LsBegins, LsDone
  <2>5. LsRuns' <=> LsRuns
    BY <1>2, <2>3, <2>4, SameLoop DEF lsVars, lsRead, lsHist, LsRuns
  <2>6. LsProgress'
    BY <1>2, <2>1, <2>4, <2>5, SameLoop DEF lsVars, lsRead, lsHist, LsProgress
  <2> QED  BY <1>1, <2>6 DEF LsWhole
<1>3. CASE LsNext
  <2>1. LsProgress'
    BY <1>3, ChangeWhole, CallWhole, CopiesWhole, LinesWhole, NumberedWhole, ChainedWhole, RefusedWhole, CutShortWhole, AskWhole,
       ControlWhole, PieceWhole, ExhaustedWhole, StreamExhausted, PassOverWhole, HandingWhole DEF LsNext
  <2> QED  BY <1>1, <2>1 DEF LsWhole
<1> QED  BY <1>2, <1>3
----------------------------------------------------------------------------
(* Firewalls. *)

(* The kernel's rules stay as another process finds them where they are    *)
(* deleted by a number that was read before.                               *)
NotContended == Contended \cap {"ipfw", "pktfilter"} = {}

(* What a filter can express comes back as it was. *)
LEMMA WrapHolds == ASSUME NEW n \in 0 .. Top PROVE Wrap(n) = n
BY FirewallAssumption DEF Wrap

LEMMA RuleIs ==
    ASSUME NEW r \in FwRules
    PROVE  /\ r \in Rule
           /\ r = [op |-> r.op, dir |-> r.dir, dev |-> r.dev, proto |-> r.proto, src |-> r.src, dst |-> r.dst,
                   sport |-> r.sport, dport |-> r.dport]
           /\ r.sport = <<r.sport[1], r.sport[2]>> /\ r.sport[1] \in 0 .. Top /\ r.sport[2] \in 0 .. Top
           /\ r.dport = <<r.dport[1], r.dport[2]>> /\ r.dport[1] \in 0 .. Top /\ r.dport[2] \in 0 .. Top
           /\ r.proto = "icmp" => r.sport[2] \in {0, Top} /\ r.dport[2] \in {0, Top}
<1>1. r \in Rule
  BY FirewallAssumption
<1>2. r.proto = "icmp" => r.sport[2] \in {0, Top} /\ r.dport[2] \in {0, Top}
  BY FirewallAssumption
<1>3. r.sport \in (0 .. Top) \X (0 .. Top) /\ r.dport \in (0 .. Top) \X (0 .. Top)
  BY <1>1 DEF Rule
<1>4. r = [op |-> r.op, dir |-> r.dir, dev |-> r.dev, proto |-> r.proto, src |-> r.src, dst |-> r.dst,
           sport |-> r.sport, dport |-> r.dport]
  BY <1>1 DEF Rule
<1> QED  BY <1>1, <1>2, <1>3, <1>4

(* A rule is as it was when all but its ports is kept. *)
LEMMA Reported ==
    ASSUME NEW r \in Rule, NEW p, NEW q
    PROVE  [r EXCEPT !.sport = p, !.dport = q] =
           [op |-> r.op, dir |-> r.dir, dev |-> r.dev, proto |-> r.proto, src |-> r.src, dst |-> r.dst,
            sport |-> p, dport |-> q]
<1> DEFINE f == [r EXCEPT !.sport = p, !.dport = q]
<1>1. f \in [op : {r.op}, dir : {r.dir}, dev : {r.dev}, proto : {r.proto}, src : {r.src}, dst : {r.dst},
             sport : {p}, dport : {q}]
  BY DEF Rule
<1> HIDE DEF f
<1>2. f = [op |-> r.op, dir |-> r.dir, dev |-> r.dev, proto |-> r.proto, src |-> r.src, dst |-> r.dst,
           sport |-> p, dport |-> q]
  BY <1>1
<1> QED  BY <1>2 DEF f

LEMMA PortsBack ==
    ASSUME NEW r \in FwRules, r.src # "none", r.dst # "none"
    PROVE  LET f == [Common(r) EXCEPT !.sport = NoPorts, !.dport = NoPorts] IN
           /\ Common(r) = r
           /\ f.proto = r.proto /\ (Ported(f) <=> Ported(r))
           /\ [f EXCEPT !.sport = r.sport, !.dport = r.dport] = r
           /\ r.dport = NoPorts => [f EXCEPT !.sport = r.sport] = r
           /\ r.sport = NoPorts /\ r.dport = NoPorts => f = r
<1>1. /\ r \in Rule
      /\ r = [op |-> r.op, dir |-> r.dir, dev |-> r.dev, proto |-> r.proto, src |-> r.src, dst |-> r.dst,
              sport |-> r.sport, dport |-> r.dport]
  BY RuleIs
<1>2. Common(r) = r
  BY <1>1 DEF Common, AnyNet
<1> DEFINE f == [r EXCEPT !.sport = NoPorts, !.dport = NoPorts]
<1>3. f = [op |-> r.op, dir |-> r.dir, dev |-> r.dev, proto |-> r.proto, src |-> r.src, dst |-> r.dst,
           sport |-> NoPorts, dport |-> NoPorts]
  BY <1>1, Reported
<1> HIDE DEF f
<1>4. f.proto = r.proto /\ (Ported(f) <=> Ported(r))
  BY <1>3 DEF Ported
<1>5. [f EXCEPT !.sport = r.sport, !.dport = r.dport] = r
  <2>1. f \in Rule
    BY <1>1, <1>3, FirewallAssumption DEF Rule, NoPorts
  <2>2. [f EXCEPT !.sport = r.sport, !.dport = r.dport] =
        [op |-> f.op, dir |-> f.dir, dev |-> f.dev, proto |-> f.proto, src |-> f.src, dst |-> f.dst,
         sport |-> r.sport, dport |-> r.dport]
    BY <2>1, Reported
  <2> QED  BY <1>1, <1>3, <2>2
<1>6. r.dport = NoPorts => [f EXCEPT !.sport = r.sport] = r
  BY <1>1, <1>3
<1>7. r.sport = NoPorts /\ r.dport = NoPorts => f = r
  BY <1>1, <1>3
<1> QED  BY <1>2, <1>4, <1>5, <1>6, <1>7 DEF f

LEMMA IcmpBack ==
    ASSUME NEW r \in FwRules, r.proto = "icmp", Expressible(r)
    PROVE  /\ ~Ported(r)
           /\ r.sport[2] = 0 => r.sport = NoPorts /\ r.dport = NoPorts
           /\ r.dport[2] = 0 => r.dport = NoPorts
           /\ r.sport[2] # 0 => r.sport = <<r.sport[1], Top>>
           /\ r.dport[2] # 0 => r.dport = <<r.dport[1], Top>>
BY RuleIs DEF Expressible, NoPorts, Ported

LEMMA PlainBack ==
    ASSUME NEW r \in FwRules, Expressible(r), r.proto # "icmp", ~Ported(r)
    PROVE  r.proto = "all" /\ r.sport = NoPorts /\ r.dport = NoPorts /\ fwFilter # "pktfilter"
<1>1. r.proto \in {"all", "icmp", "tcp", "udp"}
  BY RuleIs DEF Rule
<1> QED  BY <1>1 DEF Expressible, Ported

LEMMA IpfBack == ASSUME NEW r \in FwRules, Expressible(r), fwFilter = "ipf" PROVE RuleOfIpf(IpfOf(r)) = r
<1> DEFINE f == [Common(r) EXCEPT !.sport = NoPorts, !.dport = NoPorts]
           x == IpfOf(r)
<1>1. r.src # "none" /\ r.dst # "none" /\ r.proto # "icmp"
  BY DEF Expressible
<1>2. /\ f.proto = r.proto /\ (Ported(f) <=> Ported(r)) /\ [f EXCEPT !.sport = r.sport, !.dport = r.dport] = r
      /\ r.sport = NoPorts /\ r.dport = NoPorts => f = r
  BY <1>1, PortsBack
<1> HIDE DEF f
<1>3. x.rule = f /\ (Ported(r) => x.scmp = Cmp(r.sport) /\ x.dcmp = Cmp(r.dport))
  BY DEF IpfOf, f
<1> HIDE DEF x
<1>4. ASSUME NEW p, p = <<p[1], p[2]>> PROVE PortsToRule(Cmp(p)) = p
  BY <1>4 DEF PortsToRule, Cmp
<1>5. PortsToRule(Cmp(r.sport)) = r.sport /\ PortsToRule(Cmp(r.dport)) = r.dport
  BY <1>4, RuleIs
<1>6. CASE Ported(r)
  BY <1>1, <1>2, <1>3, <1>5, <1>6 DEF RuleOfIpf, x
<1>7. CASE ~Ported(r)
  <2>1. f = r
    BY <1>1, <1>2, <1>7, PlainBack
  <2> QED  BY <1>1, <1>2, <1>3, <1>7, <2>1 DEF RuleOfIpf, x
<1> QED  BY <1>6, <1>7

(* Ports are taken from where they were put. *)
LEMMA PointsHold ==
    ASSUME NEW p, p = <<p[1], p[2]>>, p[1] \in 0 .. Top, p[2] \in 0 .. Top, p # NoPorts, NEW pts, NEW at \in Nat,
           \A i \in 1 .. Len(GivenPorts(p)) : pts[at + i] = GivenPorts(p)[i]
    PROVE  Points(pts, at, Len(GivenPorts(p))) = p
<1>1. CASE p[1] # p[2]
  <2> DEFINE g == GivenPorts(p)
  <2>1. Len(g) = 2 /\ g[1] = p[1] /\ g[2] = p[2]
    BY <1>1 DEF GivenPorts
  <2> HIDE DEF g
  <2>2. pts[at + 1] = g[1] /\ pts[at + 2] = g[2]
    BY <2>1 DEF g
  <2>3. Points(pts, at, 2) = <<pts[at + 1], pts[at + 2]>>
    BY DEF Points
  <2> QED  BY <2>1, <2>2, <2>3 DEF g
<1>2. CASE p[1] = p[2]
  <2> DEFINE g == GivenPorts(p)
  <2>1. p[1] > 0
    BY <1>2, FirewallAssumption DEF NoPorts
  <2>2. Len(g) = 1 /\ g[1] = p[1]
    BY <1>2, <2>1 DEF GivenPorts
  <2> HIDE DEF g
  <2>3. pts[at + 1] = g[1]
    BY <2>2 DEF g
  <2>4. Points(pts, at, 1) = <<pts[at + 1], pts[at + 1]>>
    BY DEF Points
  <2> QED  BY <1>2, <2>2, <2>3, <2>4 DEF g
<1> QED  BY <1>1, <1>2

LEMMA IpfwBack == ASSUME NEW r \in FwRules, Expressible(r), fwFilter = "ipfw" PROVE RuleOfIpfw(IpfwOf(r)) = r
<1> DEFINE f == [Common(r) EXCEPT !.sport = NoPorts, !.dport = NoPorts]
           x == IpfwOf(r)
           s == r.sport
           d == r.dport
<1>1. r.src # "none" /\ r.dst # "none" /\ (Ported(r) => s # NoPorts /\ d # NoPorts)
  BY DEF Expressible
<1>2. /\ f.proto = r.proto /\ (Ported(f) <=> Ported(r)) /\ [f EXCEPT !.sport = s, !.dport = d] = r
      /\ d = NoPorts => [f EXCEPT !.sport = s] = r
      /\ s = NoPorts /\ d = NoPorts => f = r
  BY <1>1, PortsBack
<1> HIDE DEF f
<1>3. /\ x.rule = f
      /\ x.pts = IF Ported(r) THEN GivenPorts(s) \o GivenPorts(d) ELSE <<>>
      /\ x.nsrc = IF Ported(r) THEN Len(GivenPorts(s)) ELSE 0
      /\ x.ndst = IF Ported(r) THEN Len(GivenPorts(d)) ELSE 0
      /\ x.types = IF r.proto = "icmp" /\ s[2] # 0 THEN {s[1]} ELSE {}
  BY DEF IpfwOf, f
<1>4. /\ s = <<s[1], s[2]>> /\ s[1] \in 0 .. Top /\ s[2] \in 0 .. Top
      /\ d = <<d[1], d[2]>> /\ d[1] \in 0 .. Top /\ d[2] \in 0 .. Top
  BY RuleIs
<1> HIDE DEF x
<1>5. CASE Ported(r)
  <2> HIDE DEF s, d
  <2>1. s # NoPorts /\ d # NoPorts
    BY <1>1, <1>5
  <2>2. x.pts = GivenPorts(s) \o GivenPorts(d) /\ x.nsrc = Len(GivenPorts(s)) /\ x.ndst = Len(GivenPorts(d))
    BY <1>3, <1>5
  <2>4. GivenPorts(s) \in Seq(0 .. Top) /\ GivenPorts(d) \in Seq(0 .. Top)
    <3>1. <<s[1]>> \in Seq(0 .. Top) /\ <<s[1], s[2]>> \in Seq(0 .. Top) /\ <<>> \in Seq(0 .. Top)
      BY <1>4
    <3>2. <<d[1]>> \in Seq(0 .. Top) /\ <<d[1], d[2]>> \in Seq(0 .. Top)
      BY <1>4
    <3> QED  BY <1>4, <3>1, <3>2 DEF GivenPorts
  <2>6. ASSUME NEW i \in 1 .. Len(GivenPorts(s)) PROVE x.pts[0 + i] = GivenPorts(s)[i]
    <3>1. i \in 1 .. Len(GivenPorts(s)) + Len(GivenPorts(d)) /\ i <= Len(GivenPorts(s)) /\ 0 + i = i
      BY <2>4
    <3> QED  BY <2>2, <2>4, <3>1, ConcatFirst
  <2>7. ASSUME NEW i \in 1 .. Len(GivenPorts(d)) PROVE x.pts[x.nsrc + i] = GivenPorts(d)[i]
    BY <2>2, <2>4, ConcatSecond
  <2>8. x.nsrc \in Nat
    BY <2>2, <2>4
  <2>3. Points(x.pts, 0, x.nsrc) = s /\ Points(x.pts, x.nsrc, x.ndst) = d
    <3>1. Points(x.pts, 0, Len(GivenPorts(s))) = s
      BY <1>4, <2>1, <2>6, PointsHold
    <3>2. Points(x.pts, x.nsrc, Len(GivenPorts(d))) = d
      BY <1>4, <2>1, <2>7, <2>8, PointsHold
    <3> QED  BY <2>2, <3>1, <3>2
  <2>5. Points(x.pts, DstAt(x), x.ndst) = d
    BY <2>3 DEF DstAt
  <2>9. x.rule = f /\ Ported(f) /\ [f EXCEPT !.sport = s, !.dport = d] = r
    BY <1>2, <1>3, <1>5
  <2>11. x.rule.proto # "icmp"
    BY <2>9 DEF Ported
  <2>10. RuleOfIpfw(x) = r
    BY <2>3, <2>5, <2>9, <2>11 DEF RuleOfIpfw
  <2> QED  BY <2>10 DEF x
<1>6. CASE ~Ported(r) /\ r.proto = "icmp" /\ s[2] # 0
  <2>1. s = <<s[1], Top>> /\ d = NoPorts
    BY <1>6, IcmpBack DEF Expressible
  <2>2. x.types = {s[1]}
    BY <1>3, <1>6
  <2>3. (CHOOSE t \in x.types : \A u \in x.types : t <= u) = s[1]
    BY <1>4, <2>2
  <2> QED  BY <1>2, <1>3, <1>6, <2>1, <2>2, <2>3 DEF RuleOfIpfw, x
<1>7. CASE ~Ported(r) /\ ~(r.proto = "icmp" /\ s[2] # 0)
  <2>1. s = NoPorts /\ d = NoPorts
    BY <1>7, IcmpBack, PlainBack
  <2>2. x.types = {}
    BY <1>3, <1>7
  <2> QED  BY <1>2, <1>3, <1>7, <2>1, <2>2 DEF RuleOfIpfw, x
<1> QED  BY <1>5, <1>6, <1>7

LEMMA PrBack == ASSUME NEW r \in FwRules, Expressible(r), fwFilter = "pf" PROVE RuleOfPr(PrOf(r)) = r
<1> DEFINE f == [Common(r) EXCEPT !.sport = NoPorts, !.dport = NoPorts]
           x == PrOf(r)
           s == r.sport
           d == r.dport
<1>1. r.src # "none" /\ r.dst # "none" /\ (r.proto = "icmp" => s[1] < Top /\ d[1] < Top)
  BY DEF Expressible
<1>2. /\ f.proto = r.proto /\ [f EXCEPT !.sport = s, !.dport = d] = r /\ Common(r) = r
      /\ s = NoPorts /\ d = NoPorts => f = r
  BY <1>1, PortsBack
<1> HIDE DEF f
<1>3. /\ x.rule = IF Ported(r) THEN r ELSE f
      /\ x.type = IF r.proto = "icmp" THEN OneMore(s) ELSE 0
      /\ x.code = IF r.proto = "icmp" THEN OneMore(d) ELSE 0
  BY <1>2 DEF PrOf, f
<1>4. /\ s = <<s[1], s[2]>> /\ s[1] \in 0 .. Top /\ s[2] \in 0 .. Top
      /\ d = <<d[1], d[2]>> /\ d[1] \in 0 .. Top /\ d[2] \in 0 .. Top
  BY RuleIs
<1> HIDE DEF x
<1>5. CASE r.proto = "icmp"
  <2>1. /\ s[2] = 0 => s = NoPorts
        /\ d[2] = 0 => d = NoPorts
        /\ s[2] # 0 => s = <<s[1], Top>>
        /\ d[2] # 0 => d = <<d[1], Top>>
    BY <1>5, IcmpBack
  <2> HIDE DEF s, d
  <2>2. Wrap(s[1] + 1) = s[1] + 1 /\ Wrap(d[1] + 1) = d[1] + 1
    BY <1>1, <1>4, <1>5, WrapHolds, FirewallAssumption
  <2>3. OneLess(OneMore(s)) = s
    BY <1>4, <2>1, <2>2 DEF OneLess, OneMore
  <2>4. OneLess(OneMore(d)) = d
    BY <1>4, <2>1, <2>2 DEF OneLess, OneMore
  <2>5. x.rule = f /\ x.type = OneMore(s) /\ x.code = OneMore(d)
    BY <1>3, <1>5 DEF Ported
  <2> QED  BY <1>2, <1>5, <2>3, <2>4, <2>5 DEF RuleOfPr, x
<1>6. CASE Ported(r)
  BY <1>3, <1>6 DEF RuleOfPr, Ported, x
<1>7. CASE r.proto # "icmp" /\ ~Ported(r)
  <2>1. f = r
    BY <1>2, <1>7, PlainBack
  <2> QED  BY <1>3, <1>7, <2>1 DEF RuleOfPr, x
<1> QED  BY <1>5, <1>6, <1>7

LEMMA TextBack == ASSUME NEW r \in FwRules, Expressible(r), fwFilter = "pktfilter" PROVE RuleOfText(TextOf(r)) = r
<1> DEFINE f == [Common(r) EXCEPT !.sport = NoPorts, !.dport = NoPorts]
           x == TextOf(r)
           s == r.sport
           d == r.dport
<1>1. r.src # "none" /\ r.dst # "none" /\ (r.proto = "icmp" => d[2] = 0) /\ r.proto # "all"
  <2>1. r.proto = "all" => ~Ported(r) /\ r.proto # "icmp"
    BY DEF Ported
  <2> QED  BY <2>1, PlainBack DEF Expressible
<1>2. /\ f.proto = r.proto /\ (Ported(f) <=> Ported(r)) /\ [f EXCEPT !.sport = s, !.dport = d] = r
      /\ d = NoPorts => [f EXCEPT !.sport = s] = r
      /\ s = NoPorts /\ d = NoPorts => f = r
  BY <1>1, PortsBack
<1> HIDE DEF f
<1>3. /\ x.rule = f /\ (Ported(r) => x.sport = Spec1(s) /\ x.dport = Spec1(d))
      /\ x.type = IF r.proto = "icmp" /\ s[2] # 0 THEN <<s[1]>> ELSE <<>>
  BY DEF TextOf, f
<1>4. /\ s = <<s[1], s[2]>> /\ s[1] \in 0 .. Top /\ s[2] \in 0 .. Top
      /\ d = <<d[1], d[2]>> /\ d[1] \in 0 .. Top /\ d[2] \in 0 .. Top
  BY RuleIs
<1> HIDE DEF x
<1>5. ASSUME NEW p, p = <<p[1], p[2]>>, p[1] \in Int, p[2] \in Int PROVE PortSpec(Spec1(p)) = p
  <2>1. CASE p[1] = p[2]
    BY <1>5, <2>1 DEF PortSpec, Spec1
  <2>2. CASE p[1] # p[2]
    <3> DEFINE t == <<p[1] - 1, "><", p[2] + 1>>
    <3>1. Spec1(p) = t
      BY <2>2 DEF Spec1
    <3>2. Len(t) = 3 /\ t[1] = p[1] - 1 /\ t[3] = p[2] + 1
      OBVIOUS
    <3> HIDE DEF t
    <3>3. PortSpec(t) = <<t[1] + 1, t[3] - 1>>
      BY <3>2 DEF PortSpec
    <3>4. t[1] + 1 = p[1] /\ t[3] - 1 = p[2]
      BY <1>5, <3>2
    <3> QED  BY <1>5, <3>1, <3>3, <3>4
  <2> QED  BY <2>1, <2>2
<1>6. CASE Ported(r)
  <2> HIDE DEF s, d
  <2>1. PortSpec(Spec1(s)) = s /\ PortSpec(Spec1(d)) = d
    <3>1. s[1] \in Int /\ s[2] \in Int /\ d[1] \in Int /\ d[2] \in Int
      BY <1>4, FirewallAssumption
    <3> QED  BY <1>4, <1>5, <3>1
  <2>2. PortSpec(x.sport) = s /\ PortSpec(x.dport) = d
    BY <1>3, <1>6, <2>1
  <2>3. x.rule = f /\ Ported(f) /\ f.proto # "all" /\ [f EXCEPT !.sport = s, !.dport = d] = r
    BY <1>1, <1>2, <1>3, <1>6
  <2>5. x.type = <<>>
    BY <1>3, <1>6 DEF Ported
  <2>4. RuleOfText(x) = r
    BY <2>2, <2>3, <2>5 DEF RuleOfText
  <2> QED  BY <2>4 DEF x
<1>7. CASE ~Ported(r) /\ r.proto = "icmp"
  <2>1. /\ s[2] = 0 => s = NoPorts /\ d = NoPorts
        /\ s[2] # 0 => s = <<s[1], Top>>
        /\ d = NoPorts
    BY <1>1, <1>7, IcmpBack
  <2>2. CASE s[2] = 0
    BY <1>1, <1>2, <1>3, <1>7, <2>1, <2>2 DEF RuleOfText, x
  <2>3. CASE s[2] # 0
    <3>1. x.type = <<s[1]>> /\ x.type # <<>> /\ x.type[1] = s[1]
      BY <1>3, <1>7, <2>3
    <3>2. [f EXCEPT !.sport = s] = r
      BY <1>2, <2>1
    <3> QED  BY <1>1, <1>2, <1>3, <1>7, <2>1, <2>3, <3>1, <3>2 DEF RuleOfText, x
  <2> QED  BY <2>2, <2>3
<1>8. CASE ~Ported(r) /\ r.proto # "icmp"
  BY <1>8, PlainBack
<1> QED  BY <1>6, <1>7, <1>8

LEMMA RoundTrips == ASSUME fwFilter \in Filters, NEW r \in FwRules, Expressible(r) PROVE Back(Form(r)) = r
<1>1. CASE fwFilter = "ipchains"
  <2>1. Common(r) = r
    BY PortsBack DEF Expressible
  <2> QED  BY <1>1, <2>1 DEF Back, Form, RuleOfFwc, FwcOf
<1>2. CASE fwFilter = "ipf"
  BY <1>2, IpfBack DEF Back, Form
<1>3. CASE fwFilter = "ipfw"
  BY <1>3, IpfwBack DEF Back, Form
<1>4. CASE fwFilter = "pf"
  BY <1>4, PrBack DEF Back, Form
<1>5. CASE fwFilter = "pktfilter"
  BY <1>5, TextBack DEF Back, Form
<1> QED  BY <1>1, <1>2, <1>3, <1>4, <1>5, FirewallAssumption

(* The rules: each one's number is above those of all before it.           *)
FwItems == [num : Nat, form : {Form(r) : r \in FwRules}]
NumberedUp(s) == \A i, j \in 1 .. Len(s) : i < j => s[i].num < s[j].num
Single(s) == \A i, j \in 1 .. Len(s) : s[i].form = s[j].form => i = j
FwList(s) ==
    /\ s \in Seq(FwItems) /\ NumberedUp(s)
    /\ fwFilter = "pf" /\ (\A r \in FwRules : Expressible(r)) => Single(s)
FwShape ==
    /\ fwFilter \in Filters /\ fwLeft \in Nat
    /\ fwAt = [pc |-> fwAt.pc, op |-> fwAt.op, rule |-> fwAt.rule] /\ (fwAt.op # "none" => fwAt.rule \in FwRules)
    /\ fwAt.pc \in {"idle", "start", "delete", "compare", "change"}
    /\ fwAt.pc # "idle" => fwAt.op \in {"add", "delete"}

(* What a call has found out still holds, unless others have interfered. *)
FwNone(rules) == \A i \in rules : Back(fwRules[i].form) # fwAt.rule
FwKnows ==
    /\ fwAt.pc # "idle" /\ fwQuiet /\ fwHeld => Form(fwAt.rule) \in Forms
    /\ fwAt.pc = "delete" =>
          /\ fwAt.op = "delete" /\ fwFilter \in {"ipfw", "pktfilter"}
          /\ \E i \in 1 .. Len(fwRules) : /\ Back(fwRules[i].form) = fwAt.rule
                                          /\ fwLeft = IF fwFilter = "ipfw" THEN fwRules[i].num ELSE i
    /\ fwAt.pc = "compare" => fwFilter = "pf"
          /\ (fwQuiet => fwLeft <= Len(fwRules) /\ FwNone(fwLeft + 1 .. Len(fwRules)))
    /\ fwAt.pc = "change" => fwFilter = "pf"
          /\ (fwQuiet /\ fwAt.op = "add" => FwNone(1 .. Len(fwRules)))

(* What a call to delete answers. *)
FwAnswers(ret, took, quiet) ==
    /\ quiet /\ fwHeld /\ Expressible(fwAt.rule) => ret = 0
    /\ ret = 0 => Len(took) = 1 /\ (took[1] = Form(fwAt.rule) \/ Back(took[1]) = fwAt.rule)
    /\ ret = -1 => took = <<>>
FwEnded == fwAt.pc = "idle" /\ fwAt.op = "delete" => FwAnswers(fwRet, fwTook, fwQuiet)

FwInv == FwShape /\ FwList(fwRules) /\ FwKnows /\ FwEnded

LEMMA FwInitHolds == FwInit => FwInv
<1> SUFFICES ASSUME FwInit PROVE FwInv
  OBVIOUS
<1>1. /\ fwFilter \in Filters /\ fwRules = <<>> /\ fwLeft = 0
      /\ fwAt = [pc |-> "idle", op |-> "none", rule |-> fwAt.rule]
  BY DEF FwInit
<1>2. FwList(<<>>)
  BY DEF FwList, NumberedUp, Single
<1> QED  BY <1>1, <1>2 DEF FwInv, FwShape, FwKnows, FwEnded

(* A list that rules are removed from. *)
LEMMA ShorterList == ASSUME NEW s, FwList(s), NEW i \in 1 .. Len(s) PROVE FwList(RemoveAt(s, i))
<1>1. s \in Seq(FwItems) /\ NumberedUp(s) /\ (fwFilter = "pf" /\ (\A r \in FwRules : Expressible(r)) => Single(s))
  BY DEF FwList
<1> DEFINE t == RemoveAt(s, i)
<1>2. t \in Seq(FwItems) /\ Len(t) = Len(s) - 1 /\ \A j \in 1 .. Len(t) : t[j] = s[IF j < i THEN j ELSE j + 1]
  <2>1. s \in Seq(FwItems)
    BY <1>1
  <2>2. i \in 1 .. Len(s)
    OBVIOUS
  <2>3. IsWithout(RemoveAt(s, i), FwItems, s, i)
    BY ONLY <2>1, <2>2, WithoutHolds
  <2> QED  BY <2>3 DEF IsWithout
<1> HIDE DEF t
<1> DEFINE at == [j \in 1 .. Len(t) |-> IF j < i THEN j ELSE j + 1]
<1>3. ASSUME NEW j \in 1 .. Len(t) PROVE at[j] \in 1 .. Len(s) /\ t[j] = s[at[j]]
  BY <1>1, <1>2
<1>4. ASSUME NEW j \in 1 .. Len(t), NEW k \in 1 .. Len(t), j < k PROVE at[j] < at[k]
  BY <1>1, <1>2, <1>4
<1>5. \A j, k \in 1 .. Len(t) : at[j] = at[k] => j = k
  BY <1>1, <1>2
<1> HIDE DEF at
<1>6. NumberedUp(t)
  BY <1>1, <1>3, <1>4 DEF NumberedUp
<1>7. Single(s) => Single(t)
  <2> SUFFICES ASSUME Single(s), NEW j \in 1 .. Len(t), NEW k \in 1 .. Len(t), t[j].form = t[k].form PROVE j = k
    BY DEF Single
  <2>1. at[j] \in 1 .. Len(s) /\ at[k] \in 1 .. Len(s) /\ s[at[j]].form = s[at[k]].form
    BY <1>3
  <2> QED  BY <1>5, <2>1 DEF Single
<1> QED  BY <1>1, <1>2, <1>6, <1>7 DEF FwList, t

(* A list that rules are added to. *)
LEMMA ItemsHold == ASSUME FwList(fwRules) PROVE \A i \in 1 .. Len(fwRules) : fwRules[i].num \in Nat
<1>1. fwRules \in Seq(FwItems)
  BY DEF FwList
<1>2. \A i \in 1 .. Len(fwRules) : fwRules[i] \in FwItems
  BY <1>1
<1>3. \A x \in FwItems : x.num \in Nat
  BY DEF FwItems
<1> QED  BY <1>2, <1>3

LEMMA HighestHolds ==
    ASSUME FwList(fwRules) PROVE Highest \in Nat /\ \A i \in 1 .. Len(fwRules) : fwRules[i].num <= Highest
<1> DEFINE T == {0} \cup {fwRules[i].num : i \in DOMAIN fwRules}
           N == Len(fwRules)
<1>1. fwRules \in Seq(FwItems) /\ N \in Nat /\ DOMAIN fwRules = 1 .. N
  BY DEF FwList
<1>2. \A i \in 1 .. N : fwRules[i].num \in Nat
  BY ItemsHold
<1>3. \E x \in T : \A y \in T : x >= y
  <2>1. CASE N = 0
    BY <1>1, <2>1
  <2>2. CASE N # 0
    <3>1. N \in 1 .. N
      BY <1>1, <2>2
    <3>2. ASSUME NEW i \in 1 .. N PROVE fwRules[i].num <= fwRules[N].num
      <4>1. i < N => fwRules[i].num < fwRules[N].num
        BY <3>1 DEF FwList, NumberedUp
      <4> QED  BY <1>1, <1>2, <3>1, <4>1
    <3>3. fwRules[N].num \in T
      BY <1>1, <3>1
    <3>4. \A y \in T : fwRules[N].num >= y
      BY <1>1, <1>2, <3>1, <3>2
    <3> QED  BY <3>3, <3>4
  <2> QED  BY <2>1, <2>2
<1>4. Highest \in T /\ \A y \in T : Highest >= y
  BY <1>3 DEF Highest, Max
<1>5. \A y \in T : y \in Nat
  BY <1>1, <1>2
<1> QED  BY <1>1, <1>4, <1>5

LEMMA LongerList ==
    ASSUME FwList(fwRules), NEW r \in FwRules,
           fwFilter = "pf" /\ (\A q \in FwRules : Expressible(q)) => \A i \in 1 .. Len(fwRules) : fwRules[i].form # Form(r)
    PROVE  FwList(Appended(r))
<1> DEFINE new == [num |-> Highest + 1, form |-> Form(r)]
           t == Appended(r)
           N == Len(fwRules)
<1>1. fwRules \in Seq(FwItems) /\ N \in Nat
  BY DEF FwList
<1>2. new \in FwItems /\ new.form = Form(r) /\ \A i \in 1 .. N : fwRules[i].num < new.num
  <2>1. Highest \in Nat /\ \A i \in 1 .. N : fwRules[i].num <= Highest
    BY HighestHolds
  <2>2. \A i \in 1 .. N : fwRules[i].num \in Nat
    BY ItemsHold
  <2> QED  BY <2>1, <2>2 DEF FwItems
<1>3. t = Append(fwRules, new)
  BY DEF Appended
<1> HIDE DEF new, t
<1>4. t \in Seq(FwItems) /\ Len(t) = N + 1 /\ t[N + 1] = new /\ \A i \in 1 .. N : t[i] = fwRules[i]
  BY <1>1, <1>2, <1>3
<1>5. NumberedUp(t)
  <2> SUFFICES ASSUME NEW i \in 1 .. N + 1, NEW j \in 1 .. N + 1, i < j PROVE t[i].num < t[j].num
    BY <1>4 DEF NumberedUp
  <2>1. i \in 1 .. N
    BY <1>1
  <2>2. CASE j = N + 1
    BY <1>2, <1>4, <2>1, <2>2
  <2>3. CASE j # N + 1
    <3>1. j \in 1 .. N
      BY <1>1, <2>3
    <3> QED  BY <1>4, <2>1, <3>1 DEF FwList, NumberedUp
  <2> QED  BY <2>2, <2>3
<1>6. ASSUME fwFilter = "pf", \A q \in FwRules : Expressible(q) PROVE Single(t)
  <2>1. Single(fwRules) /\ \A i \in 1 .. N : fwRules[i].form # new.form
    BY <1>2, <1>6 DEF FwList
  <2> SUFFICES ASSUME NEW i \in 1 .. N + 1, NEW j \in 1 .. N + 1, t[i].form = t[j].form PROVE i = j
    BY <1>4 DEF Single
  <2>2. CASE i \in 1 .. N /\ j \in 1 .. N
    BY <1>4, <2>1, <2>2 DEF Single
  <2>3. CASE i \in 1 .. N /\ j = N + 1
    BY <1>4, <2>1, <2>3
  <2>4. CASE i = N + 1 /\ j \in 1 .. N
    BY <1>4, <2>1, <2>4
  <2>5. CASE i = N + 1 /\ j = N + 1
    BY <2>5
  <2> QED  BY <1>1, <2>2, <2>3, <2>4, <2>5
<1> QED  BY <1>4, <1>5, <1>6 DEF FwList, t

(* The first rule of a form, and the rule of a number. *)
LEMMA PlaceHolds ==
    ASSUME FwList(fwRules), NEW form
    PROVE  /\ Place(form) = 0 => form \notin Forms
           /\ Place(form) # 0 => Place(form) \in 1 .. Len(fwRules) /\ fwRules[Place(form)].form = form
<1> DEFINE T == {i \in 1 .. Len(fwRules) : fwRules[i].form = form}
<1>1. fwRules \in Seq(FwItems)
  BY DEF FwList
<1>2. Place(form) = IF T # {} THEN Min(T) ELSE 0
  BY DEF Place, SelectInSeq
<1>3. T # {} => Min(T) \in T
  <2>1. T \in SUBSET Nat
    BY <1>1
  <2> HIDE DEF T
  <2> QED  BY <2>1, MinHolds
<1>4. form \in Forms => T # {}
  BY <1>1 DEF Forms
<1> QED  BY <1>2, <1>3, <1>4

LEMMA PlaceOfNumHolds ==
    ASSUME FwList(fwRules), NEW k \in 1 .. Len(fwRules) PROVE PlaceOfNum(fwRules[k].num) = k
<1> DEFINE n == fwRules[k].num
           T == {i \in 1 .. Len(fwRules) : fwRules[i].num = n}
<1>1. fwRules \in Seq(FwItems) /\ \A i \in 1 .. Len(fwRules) : fwRules[i].num \in Nat
  BY ItemsHold DEF FwList
<1>2. PlaceOfNum(n) = IF T # {} THEN Min(T) ELSE 0
  BY DEF PlaceOfNum, SelectInSeq
<1>3. k \in T /\ T # {}
  OBVIOUS
<1>4. Min(T) \in T
  <2>1. T \in SUBSET Nat
    BY <1>1
  <2> HIDE DEF T
  <2> QED  BY <1>3, <2>1, MinHolds
<1>5. ASSUME NEW i \in T PROVE i = k
  <2>1. i \in 1 .. Len(fwRules) /\ fwRules[i].num = n
    OBVIOUS
  <2>2. ~(i < k) /\ ~(k < i)
    BY <1>1, <2>1 DEF FwList, NumberedUp
  <2> QED  BY <1>1, <2>1, <2>2
<1> HIDE DEF T
<1> QED  BY <1>2, <1>3, <1>4, <1>5

(* A call that returns, and one that goes on. *)
LEMMA SameFilter ==
    ASSUME fwFilter' = fwFilter
    PROVE  /\ \A s : FwList(s)' <=> FwList(s)
           /\ \A r : Form(r)' = Form(r)
           /\ \A f : Back(f)' = Back(f)
           /\ \A r : Expressible(r)' <=> Expressible(r)
<1>1. \A r : Form(r)' = Form(r)
  BY DEF Form
<1>2. \A f : Back(f)' = Back(f)
  BY DEF Back
<1>3. \A r : Expressible(r)' <=> Expressible(r)
  BY DEF Expressible
<1>4. FwItems' = FwItems
  BY <1>1 DEF FwItems
<1>5. \A s : FwList(s)' <=> FwList(s)
  BY <1>3, <1>4 DEF FwList
<1> QED  BY <1>1, <1>2, <1>3, <1>5

LEMMA FwReturnKeeps ==
    ASSUME FwInv, fwAt.pc # "idle", NEW ret, NEW rules, NEW took, NEW quiet, FwReturn(ret, rules, took, quiet),
           FwList(rules), fwAt.op = "delete" => FwAnswers(ret, took, quiet)
    PROVE  FwInv'
<1>1. /\ fwAt' = [fwAt EXCEPT !.pc = "idle"] /\ fwLeft' = 0 /\ fwRet' = ret /\ fwRules' = rules
      /\ fwTook' = took /\ fwQuiet' = quiet /\ fwFilter' = fwFilter /\ fwHeld' = fwHeld
  BY DEF FwReturn
<1>2. fwAt' = [pc |-> "idle", op |-> fwAt.op, rule |-> fwAt.rule]
  BY <1>1 DEF FwInv, FwShape
<1>3. FwShape'
  BY <1>1, <1>2 DEF FwInv, FwShape
<1>4. FwList(fwRules)'
  BY <1>1, SameFilter
<1>5. FwKnows'
  BY <1>2 DEF FwKnows
<1>6. FwEnded'
  BY <1>1, <1>2, SameFilter DEF FwEnded, FwAnswers
<1> QED  BY <1>3, <1>4, <1>5, <1>6 DEF FwInv

LEMMA FwStepKeeps ==
    ASSUME FwInv, fwAt.pc # "idle", NEW pc, NEW left \in Nat, FwStep(pc, left),
           pc \in {"delete", "compare", "change"},
           pc = "delete" =>
              /\ fwAt.op = "delete" /\ fwFilter \in {"ipfw", "pktfilter"}
              /\ \E i \in 1 .. Len(fwRules) : /\ Back(fwRules[i].form) = fwAt.rule
                                              /\ left = IF fwFilter = "ipfw" THEN fwRules[i].num ELSE i,
           pc = "compare" => fwFilter = "pf" /\ (fwQuiet => left <= Len(fwRules) /\ FwNone(left + 1 .. Len(fwRules))),
           pc = "change" => fwFilter = "pf" /\ (fwQuiet /\ fwAt.op = "add" => FwNone(1 .. Len(fwRules)))
    PROVE  FwInv'
<1>1. /\ fwAt' = [fwAt EXCEPT !.pc = pc] /\ fwLeft' = left
      /\ UNCHANGED <<fwFilter, fwRules, fwRet, fwHeld, fwTook, fwQuiet>>
  BY DEF FwStep, fwHist
<1>2. fwAt' = [pc |-> pc, op |-> fwAt.op, rule |-> fwAt.rule]
  BY <1>1 DEF FwInv, FwShape
<1>3. FwShape'
  BY <1>1, <1>2 DEF FwInv, FwShape
<1>4. FwList(fwRules)'
  BY <1>1, SameFilter DEF FwInv
<1>5. FwKnows'
  <2>1. fwQuiet' /\ fwHeld' => Form(fwAt.rule)' \in Forms'
    BY <1>1, <1>2, SameFilter DEF FwInv, FwKnows, Forms
  <2> QED  BY <1>1, <1>2, <2>1, SameFilter DEF FwKnows, FwNone
<1>6. FwEnded'
  BY <1>2 DEF FwEnded
<1> QED  BY <1>3, <1>4, <1>5, <1>6 DEF FwInv

LEMMA FwFails ==
    ASSUME FwInv, fwAt.pc # "idle", NEW quiet, FwReturn(-1, fwRules, <<>>, quiet),
           fwAt.op = "delete" /\ quiet /\ fwHeld => ~Expressible(fwAt.rule)
    PROVE  FwInv'
<1>1. fwAt.op = "delete" => FwAnswers(-1, <<>>, quiet)
  BY DEF FwAnswers
<1>2. FwList(fwRules)
  BY DEF FwInv
<1> QED  BY <1>1, <1>2, FwReturnKeeps

LEMMA FwRefused == ASSUME FwInv, fwAt.pc # "idle", KernelRefuses PROVE FwInv'
<1>1. FwReturn(-1, fwRules, <<>>, FALSE)
  BY DEF KernelRefuses
<1> QED  BY <1>1, FwFails

LEMMA FwRemoves ==
    ASSUME FwInv, fwAt.pc # "idle", NEW i \in 1 .. Len(fwRules), Removes(i),
           fwRules[i].form = Form(fwAt.rule) \/ Back(fwRules[i].form) = fwAt.rule
    PROVE  FwInv'
<1>1. FwReturn(0, RemoveAt(fwRules, i), <<fwRules[i].form>>, fwQuiet)
  BY DEF Removes
<1>2. FwList(RemoveAt(fwRules, i))
  BY ShorterList DEF FwInv
<1>3. FwAnswers(0, <<fwRules[i].form>>, fwQuiet)
  BY DEF FwAnswers
<1> QED  BY <1>1, <1>2, <1>3, FwReturnKeeps

LEMMA FwAdds ==
    ASSUME FwInv, fwAt.pc # "idle", fwAt.op = "add", AddsIt,
           fwFilter = "pf" => FwNone(1 .. Len(fwRules))
    PROVE  FwInv'
<1>1. FwReturn(0, Appended(fwAt.rule), <<>>, fwQuiet)
  BY DEF AddsIt
<1>2. fwAt.rule \in FwRules /\ fwFilter \in Filters /\ FwList(fwRules)
  BY DEF FwInv, FwShape
<1>3. FwList(Appended(fwAt.rule))
  <2> SUFFICES ASSUME fwFilter = "pf", \A q \in FwRules : Expressible(q), NEW i \in 1 .. Len(fwRules)
               PROVE  fwRules[i].form # Form(fwAt.rule)
    BY <1>2, LongerList
  <2>1. Back(Form(fwAt.rule)) = fwAt.rule
    BY <1>2, RoundTrips
  <2>2. Back(fwRules[i].form) # fwAt.rule
    BY DEF FwNone
  <2> QED  BY <2>1, <2>2
<1> QED  BY <1>1, <1>3, FwReturnKeeps

(* A rule that is held and can be expressed is one that reads as it. *)
LEMMA HeldReads ==
    ASSUME FwInv, fwAt.pc # "idle", fwQuiet, fwHeld, Expressible(fwAt.rule)
    PROVE  /\ Form(fwAt.rule) \in Forms
           /\ \E i \in 1 .. Len(fwRules) : Back(fwRules[i].form) = fwAt.rule
<1>1. fwAt.rule \in FwRules /\ fwFilter \in Filters /\ fwRules \in Seq(FwItems)
  BY DEF FwInv, FwShape, FwList
<1>2. Form(fwAt.rule) \in Forms
  BY DEF FwInv, FwKnows
<1>3. PICK i \in 1 .. Len(fwRules) : fwRules[i].form = Form(fwAt.rule)
  BY <1>1, <1>2 DEF Forms
<1>4. Back(Form(fwAt.rule)) = fwAt.rule
  BY <1>1, RoundTrips
<1> QED  BY <1>2, <1>3, <1>4

LEMMA FwBegins == ASSUME FwInv, NEW op \in {"add", "delete"}, NEW r \in FwRules, FwCall(op, r) PROVE FwInv'
<1>1. /\ fwAt' = [pc |-> "start", op |-> op, rule |-> r] /\ fwLeft' = 0
      /\ fwHeld' = (Form(r) \in Forms) /\ UNCHANGED <<fwFilter, fwRules>>
  BY DEF FwCall
<1>2. FwShape'
  BY <1>1 DEF FwInv, FwShape
<1>3. FwList(fwRules)'
  BY <1>1, SameFilter DEF FwInv
<1>4. FwKnows'
  BY <1>1, SameFilter DEF FwKnows, Forms
<1>5. FwEnded'
  BY <1>1 DEF FwEnded
<1> QED  BY <1>2, <1>3, <1>4, <1>5 DEF FwInv

LEMMA FwDisturbed == ASSUME NotContended, FwInv, OthersChange PROVE FwInv'
<1>1. /\ fwFilter \in Contended /\ fwQuiet' = (fwQuiet /\ fwAt.pc = "idle")
      /\ UNCHANGED <<fwFilter, fwAt, fwLeft, fwRet, fwHeld, fwTook>>
  BY DEF OthersChange
<1>2. fwFilter \notin {"ipfw", "pktfilter"}
  BY <1>1 DEF NotContended
<1>3. FwShape'
  BY <1>1 DEF FwInv, FwShape
<1>4. FwList(fwRules)'
  <2>1. FwList(fwRules')
    <3>1. CASE \E r \in FwRules : Form(r) \notin Forms /\ Len(fwRules) < MaxRules /\ fwRules' = Appended(r)
      <4>1. PICK r \in FwRules : Form(r) \notin Forms /\ fwRules' = Appended(r)
        BY <3>1
      <4>2. FwList(fwRules) /\ fwRules \in Seq(FwItems)
        BY DEF FwInv, FwList
      <4>3. \A i \in 1 .. Len(fwRules) : fwRules[i].form # Form(r)
        BY <4>1, <4>2 DEF Forms
      <4> QED  BY <4>1, <4>2, <4>3, LongerList
    <3>2. CASE \E i \in DOMAIN fwRules : fwRules' = RemoveAt(fwRules, i)
      <4>1. FwList(fwRules) /\ fwRules \in Seq(FwItems)
        BY DEF FwInv, FwList
      <4>2. PICK i \in 1 .. Len(fwRules) : fwRules' = RemoveAt(fwRules, i)
        BY <3>2, <4>1
      <4> QED  BY <4>1, <4>2, ShorterList
    <3> QED  BY <3>1, <3>2 DEF OthersChange
  <2> QED  BY <1>1, <2>1, SameFilter
<1>5. FwKnows'
  BY <1>1, <1>2 DEF FwInv, FwKnows
<1>6. FwEnded'
  BY <1>1, SameFilter DEF FwInv, FwEnded, FwAnswers
<1> QED  BY <1>3, <1>4, <1>5, <1>6 DEF FwInv

LEMMA FwStepHolds == ASSUME NotContended, FwInv, [FwNext]_fwVars PROVE FwInv'
<1>1. CASE UNCHANGED fwVars
  <2>1. UNCHANGED <<fwFilter, fwRules, fwAt, fwLeft, fwRet, fwHeld, fwTook, fwQuiet>>
    BY <1>1 DEF fwVars, fwHist
  <2>2. FwShape' /\ FwList(fwRules)'
    BY <2>1, SameFilter DEF FwInv, FwShape
  <2>3. FwKnows'
    BY <2>1, SameFilter DEF FwInv, FwKnows, FwNone, Forms
  <2>4. FwEnded'
    BY <2>1, SameFilter DEF FwInv, FwEnded, FwAnswers
  <2> QED  BY <2>2, <2>3, <2>4 DEF FwInv
<1>2. ASSUME NEW op \in {"add", "delete"}, NEW r \in FwRules, FwCall(op, r) PROVE FwInv'
  BY <1>2, FwBegins
<1>3. CASE FwAdd
  BY <1>3, FwAdds, FwRefused DEF FwAdd
<1>4. CASE DeleteByForm
  <2> DEFINE i == Place(Form(fwAt.rule))
  <2>1. fwAt.pc = "start" /\ IF i = 0 THEN Fails ELSE Removes(i)
    BY <1>4 DEF DeleteByForm
  <2>2. /\ i = 0 => Form(fwAt.rule) \notin Forms
        /\ i # 0 => i \in 1 .. Len(fwRules) /\ fwRules[i].form = Form(fwAt.rule)
    BY PlaceHolds DEF FwInv
  <2> HIDE DEF i
  <2>3. CASE i = 0
    <3>1. FwReturn(-1, fwRules, <<>>, fwQuiet)
      BY <2>1, <2>3 DEF Fails
    <3> QED  BY <2>1, <2>2, <2>3, <3>1, FwFails, HeldReads
  <2>4. CASE i # 0
    BY <2>1, <2>2, <2>4, FwRemoves
  <2> QED  BY <2>3, <2>4
<1>5. CASE FindNumber
  <2> DEFINE T == {k \in 1 .. Len(fwRules) : Back(fwRules[k].form) = fwAt.rule}
             i == IF T # {} THEN Min(T) ELSE 0
  <2>1. /\ fwAt.pc = "start" /\ fwAt.op = "delete" /\ fwFilter \in {"ipfw", "pktfilter"}
        /\ \/ i = 0 /\ Fails
           \/ i # 0 /\ FwStep("delete", IF fwFilter = "ipfw" THEN fwRules[i].num ELSE i)
           \/ KernelRefuses
    BY <1>5 DEF FindNumber, SelectInSeq
  <2>2. fwRules \in Seq(FwItems) /\ FwList(fwRules)
    BY DEF FwInv, FwList
  <2>3. T \in SUBSET Nat
    BY <2>2
  <2>4. T # {} => i \in T
    <3> HIDE DEF T
    <3> QED  BY <2>3, MinHolds
  <2>5. i \in T \/ (i = 0 /\ T = {})
    BY <2>4
  <2>6. i \in T => i \in 1 .. Len(fwRules) /\ Back(fwRules[i].form) = fwAt.rule
    OBVIOUS
  <2>7. T = {} => ~ \E k \in 1 .. Len(fwRules) : Back(fwRules[k].form) = fwAt.rule
    OBVIOUS
  <2> HIDE DEF i, T
  <2>8. i = 0 <=> T = {}
    BY <2>2, <2>5, <2>6
  <2>9. CASE i = 0 /\ Fails
    <3>1. FwReturn(-1, fwRules, <<>>, fwQuiet)
      BY <2>9 DEF Fails
    <3> QED  BY <2>1, <2>7, <2>8, <2>9, <3>1, FwFails, HeldReads
  <2>10. CASE i # 0 /\ FwStep("delete", IF fwFilter = "ipfw" THEN fwRules[i].num ELSE i)
    <3> DEFINE left == IF fwFilter = "ipfw" THEN fwRules[i].num ELSE i
    <3>1. i \in 1 .. Len(fwRules) /\ Back(fwRules[i].form) = fwAt.rule
      BY <2>5, <2>6, <2>10
    <3>2. left \in Nat
      BY <2>2, <3>1, ItemsHold
    <3>3. \E k \in 1 .. Len(fwRules) : /\ Back(fwRules[k].form) = fwAt.rule
                                       /\ left = IF fwFilter = "ipfw" THEN fwRules[k].num ELSE k
      BY <3>1
    <3> HIDE DEF left
    <3>4. FwStep("delete", left)
      BY <2>10 DEF left
    <3> QED  BY <2>1, <3>2, <3>3, <3>4, FwStepKeeps
  <2> QED  BY <2>1, <2>9, <2>10, FwRefused
<1>6. CASE DeleteByNumber
  <2>1. fwAt.pc = "delete"
    BY <1>6 DEF DeleteByNumber
  <2>2. PICK k \in 1 .. Len(fwRules) : /\ Back(fwRules[k].form) = fwAt.rule
                                       /\ fwLeft = IF fwFilter = "ipfw" THEN fwRules[k].num ELSE k
    BY <2>1 DEF FwInv, FwKnows
  <2> DEFINE i == IF fwFilter = "ipfw" THEN PlaceOfNum(fwLeft) ELSE fwLeft
  <2>3. i = k
    BY <2>2, PlaceOfNumHolds DEF FwInv
  <2>4. k \in DOMAIN fwRules
    <3>1. fwRules \in Seq(FwItems)
      BY DEF FwInv, FwList
    <3> QED  BY <3>1
  <2>5. (i \in DOMAIN fwRules /\ Removes(i)) \/ (i \notin DOMAIN fwRules /\ Fails) \/ KernelRefuses
    BY <1>6 DEF DeleteByNumber
  <2> HIDE DEF i
  <2>6. Removes(k) \/ KernelRefuses
    BY <2>3, <2>4, <2>5
  <2> QED  BY <2>1, <2>2, <2>6, FwRemoves, FwRefused
<1>7. CASE CountRules
  <2>1. fwAt.pc = "start" /\ fwFilter = "pf" /\ (FwStep("compare", Len(fwRules)) \/ KernelRefuses)
    BY <1>7 DEF CountRules
  <2>2. Len(fwRules) \in Nat /\ FwNone(Len(fwRules) + 1 .. Len(fwRules))
    <3>1. fwRules \in Seq(FwItems)
      BY DEF FwInv, FwList
    <3>2. Len(fwRules) \in Nat
      BY <3>1
    <3> QED  BY <3>2 DEF FwNone
  <2> QED  BY <2>1, <2>2, FwStepKeeps, FwRefused
<1>8. CASE CompareRule
  <2>1. /\ fwAt.pc = "compare" /\ fwLeft > 0
        /\ IF ~Equal(fwLeft) THEN FwStep("compare", fwLeft - 1)
           ELSE IF fwAt.op = "add" THEN Fails ELSE FwStep("change", 0)
    BY <1>8 DEF CompareRule
  <2>2. /\ fwLeft \in Nat /\ fwFilter = "pf" /\ (fwQuiet => fwLeft <= Len(fwRules) /\ FwNone(fwLeft + 1 .. Len(fwRules)))
        /\ Len(fwRules) \in Nat
    <3>1. fwRules \in Seq(FwItems)
      BY DEF FwInv, FwList
    <3> QED  BY <2>1, <3>1 DEF FwInv, FwShape, FwKnows
  <2>3. CASE ~Equal(fwLeft)
    <3>1. fwQuiet => fwLeft - 1 <= Len(fwRules) /\ FwNone((fwLeft - 1) + 1 .. Len(fwRules))
      <4> SUFFICES ASSUME fwQuiet PROVE fwLeft - 1 <= Len(fwRules) /\ FwNone((fwLeft - 1) + 1 .. Len(fwRules))
        OBVIOUS
      <4>1. Back(fwRules[fwLeft].form) # fwAt.rule
        BY <2>3 DEF Equal
      <4>2. ASSUME NEW j \in fwLeft .. Len(fwRules) PROVE Back(fwRules[j].form) # fwAt.rule
        <5>1. j = fwLeft \/ j \in fwLeft + 1 .. Len(fwRules)
          BY <2>2
        <5> QED  BY <2>2, <4>1, <5>1 DEF FwNone
      <4>3. (fwLeft - 1) + 1 = fwLeft /\ fwLeft - 1 <= Len(fwRules)
        BY <2>2
      <4> QED  BY <4>2, <4>3 DEF FwNone
    <3>2. fwLeft - 1 \in Nat
      BY <2>1, <2>2
    <3> QED  BY <2>1, <2>2, <2>3, <3>1, <3>2, FwStepKeeps
  <2>4. CASE Equal(fwLeft) /\ fwAt.op = "add"
    <3>1. FwReturn(-1, fwRules, <<>>, fwQuiet)
      BY <2>1, <2>4 DEF Fails
    <3> QED  BY <2>1, <2>4, <3>1, FwFails
  <2>5. CASE Equal(fwLeft) /\ fwAt.op # "add"
    BY <2>1, <2>2, <2>5, FwStepKeeps
  <2> QED  BY <2>3, <2>4, <2>5
<1>9. CASE NoneEqual
  <2>1. /\ fwAt.pc = "compare" /\ fwLeft = 0
        /\ IF fwAt.op = "add" THEN FwStep("change", 0) ELSE Fails
    BY <1>9 DEF NoneEqual
  <2>2. fwFilter = "pf" /\ (fwQuiet => FwNone(1 .. Len(fwRules)))
    BY <2>1 DEF FwInv, FwKnows
  <2>3. CASE fwAt.op = "add"
    BY <2>1, <2>2, <2>3, FwStepKeeps
  <2>4. CASE fwAt.op # "add"
    <3>1. FwReturn(-1, fwRules, <<>>, fwQuiet)
      BY <2>1, <2>4 DEF Fails
    <3>2. fwQuiet /\ fwHeld => ~Expressible(fwAt.rule)
      BY <2>1, <2>2, HeldReads DEF FwNone
    <3> QED  BY <2>1, <3>1, <3>2, FwFails
  <2> QED  BY <2>3, <2>4
<1>10. CASE ChangeRules
  <2>1. fwAt.pc = "change" /\ fwFilter = "pf" /\ (fwQuiet /\ fwAt.op = "add" => FwNone(1 .. Len(fwRules)))
    BY <1>10 DEF ChangeRules, FwInv, FwKnows
  <2>2. CASE ~fwQuiet /\ Fails
    <3>1. FwReturn(-1, fwRules, <<>>, fwQuiet)
      BY <2>2 DEF Fails
    <3> QED  BY <2>1, <2>2, <3>1, FwFails
  <2>3. CASE fwQuiet /\ fwAt.op = "add" /\ AddsIt
    BY <2>1, <2>3, FwAdds
  <2>4. CASE Place(Form(fwAt.rule)) # 0 /\ Removes(Place(Form(fwAt.rule)))
    <3> DEFINE i == Place(Form(fwAt.rule))
    <3>1. i \in 1 .. Len(fwRules) /\ fwRules[i].form = Form(fwAt.rule)
      BY <2>4, PlaceHolds DEF FwInv
    <3>2. Removes(i)
      BY <2>4
    <3> HIDE DEF i
    <3> QED  BY <2>1, <3>1, <3>2, FwRemoves
  <2> QED  BY <1>10, <2>1, <2>2, <2>3, <2>4, FwRefused DEF ChangeRules
<1>11. CASE OthersChange
  BY <1>11, FwDisturbed
<1> QED  BY <1>1, <1>2, <1>3, <1>4, <1>5, <1>6, <1>7, <1>8, <1>9, <1>10, <1>11 DEF FwNext

LEMMA FwInvDeletes == FwInv => FindsItsRule /\ DeletesItsRule /\ NoTwins
<1> SUFFICES ASSUME FwInv PROVE FindsItsRule /\ DeletesItsRule /\ NoTwins
  OBVIOUS
<1>1. fwFilter \in Filters /\ fwRules \in Seq(FwItems) /\ FwList(fwRules)
  BY DEF FwInv, FwShape, FwList
<1>2. ASSUME NEW r \in FwRules, Expressible(r), Form(r) \in Forms
      PROVE  \E i \in DOMAIN fwRules : Back(fwRules[i].form) = r
  <2>1. PICK i \in DOMAIN fwRules : fwRules[i].form = Form(r)
    BY <1>2 DEF Forms
  <2> QED  BY <1>1, <1>2, <2>1, RoundTrips
<1>3. FindsItsRule
  BY <1>2 DEF FindsItsRule, Deleted, FwInv, FwEnded, FwAnswers
<1>4. DeletesItsRule
  BY DEF DeletesItsRule, Deleted, FwInv, FwEnded, FwAnswers
<1>5. NoTwins
  BY <1>1 DEF NoTwins, FwList, Single
<1> QED  BY <1>3, <1>4, <1>5
----------------------------------------------------------------------------
(* ARP and routing tables changed entry by entry.  The shape of the tables *)
(* and of the call, which of them others may have changed, what the call   *)
(* has found so far, and what it answered.                                 *)
EthNames == {Cards[i].name : i \in {j \in DOMAIN Cards : Cards[j].eth}}
TbCard == [name : CardNames, eth : BOOLEAN, addr : 0 .. 7, bits : 0 .. Bits]
TbCardsOK ==
    /\ tbCards \in [DOMAIN Cards -> TbCard]
    /\ \A i \in DOMAIN Cards : tbCards[i].name = Cards[i].name /\ tbCards[i].eth = Cards[i].eth
TbAts == [pc : {"idle", "look", "do"}, table : {"none", "arp", "route"}, op : {"none", "add", "delete", "get"},
          dst : Dests, val : Macs \cup Gateways \cup {0}]
TbShape ==
    /\ tbBuild \in Builds /\ tbRet \in {-1, 0} /\ TbCardsOK
    /\ tbAt \in TbAts /\ (tbAt.table = "arp" /\ tbAt.op = "add" => tbAt.val \in Macs)
TbArpOK(arp) ==
    /\ arp \subseteq [pa : 0 .. 7, dev : CardNames, ha : Macs, com : BOOLEAN]
    /\ \A e, f \in arp : e.pa = f.pa /\ e.dev = f.dev => e = f
    /\ tbBuild = "linux" => \A e \in arp : e.dev \in EthNames
TbRoutesOK(routes) ==
    /\ \A r \in routes : r.net \in TbNets /\ Net(r.net) = r.net /\ r.dev \in CardNames \cup {"none"}
    /\ \A r, s \in routes : r.net = s.net => r = s
(* What a call under way has found, as long as nobody interfered. *)
TbSought ==
    IF tbBuild = "windows" /\ tbAt.op = "get" THEN tbFound = "all" ELSE tbFound # "all" /\ DevOf = Through(Pa)
TbKnows ==
    /\ tbAt.pc = "look" => LooksFirst(tbAt.table, tbAt.op)
    /\ tbAt.pc # "idle" /\ tbQuiet => Unchanged
    /\ tbAt.pc = "do" /\ tbAt.table = "arp" =>
          /\ tbFound \in CardNames \cup {"none", "all"}
          /\ tbBuild = "linux" /\ tbAt.op # "delete" => tbFound \in EthNames
          /\ tbQuiet /\ Disjoint => TbSought
    /\ tbAt.pc = "do" /\ tbAt.table = "route" /\ tbAt.op = "add" => tbFound \in CardNames \cup {"none"}
    /\ tbAt.pc = "do" /\ tbAt.table = "route" /\ tbAt.op = "delete" /\ tbBuild = "windows" /\ tbQuiet =>
          tbFound \in tbRoutes /\ tbFound.net = tbAt.dst
TbInv == TbShape /\ TbArpOK(tbArp) /\ TbRoutesOK(tbRoutes) /\ TbKnows /\ TablesTold

(* Addresses and networks. *)
LEMMA SizeIs == Bits = 3 /\ Size[0 + 1] = 8 /\ Size[1 + 1] = 4 /\ Size[2 + 1] = 2 /\ Size[3 + 1] = 1
BY DEF Size, Bits

LEMMA Finer ==
    ASSUME NEW a \in 0 .. 7, NEW b \in 0 .. 7, NEW m \in 0 .. Bits, NEW n \in 0 .. Bits, m <= n,
           Prefix(a, n) = Prefix(b, n)
    PROVE  Prefix(a, m) = Prefix(b, m)
<1>1. n \in {0, 1, 2, 3} /\ m \in {0, 1, 2, 3}
  BY SizeIs
<1>2. CASE n = 0
  BY <1>1, <1>2
<1>3. CASE n = 3
  <2>1. a = b
    BY <1>3, SizeIs DEF Prefix
  <2> QED  BY <2>1
<1>4. CASE n = 1
  BY <1>1, <1>4, SizeIs DEF Prefix
<1>5. CASE n = 2
  <2>1. a \div 2 = b \div 2
    BY <1>5, SizeIs DEF Prefix
  <2>2. a \div 8 = b \div 8 /\ a \div 4 = b \div 4
    BY <2>1
  <2>3. CASE m = 0
    BY <2>2, <2>3, SizeIs DEF Prefix
  <2>4. CASE m = 1
    BY <2>2, <2>4, SizeIs DEF Prefix
  <2> QED  BY <1>1, <1>5, <2>3, <2>4
<1> QED  BY <1>1, <1>2, <1>3, <1>4, <1>5

LEMMA Normal ==
    ASSUME NEW a \in 0 .. 7, NEW b \in 0 .. 7, NEW m \in 0 .. Bits, NEW n \in 0 .. Bits, m <= n,
           Prefix(a, n) = Prefix(b, n), Prefix(a, n) * Size[n + 1] = a, Prefix(b, m) * Size[m + 1] = b
    PROVE  a = b
<1>1. n \in {0, 1, 2, 3} /\ m \in {0, 1, 2, 3}
  BY SizeIs
<1>2. Prefix(b, n) * Size[n + 1] = b
  <2>1. CASE m = 0
    <3>0. (b \div 8) * 8 = b
      BY <2>1, SizeIs DEF Prefix
    <3>1. b = 0
      BY <3>0
    <3> QED  BY <1>1, <3>1, SizeIs DEF Prefix
  <2>2. CASE m = 1
    <3>0. (b \div 4) * 4 = b
      BY <2>2, SizeIs DEF Prefix
    <3>1. b \in {0, 4}
      BY <3>0
    <3>2. n \in {1, 2, 3}
      BY <1>1, <2>2
    <3> QED  BY <3>1, <3>2, SizeIs DEF Prefix
  <2>3. CASE m = 2
    <3>1. n \in {2, 3}
      BY <1>1, <2>3
    <3>2. CASE n = 3
      BY <3>2, SizeIs DEF Prefix
    <3> QED  BY <2>3, <3>1, <3>2
  <2>4. CASE m = 3
    BY <1>1, <2>4
  <2> QED  BY <1>1, <2>1, <2>2, <2>3, <2>4
<1> QED  BY <1>2

LEMMA NetHolds == ASSUME NEW d \in TbNets PROVE Net(d) \in TbNets /\ Net(Net(d)) = Net(d)
<1>1. d.addr \in 0 .. 7 /\ d.bits \in {0, 1, 2, 3}
  BY SizeIs DEF TbNets
<1> DEFINE p == Prefix(d.addr, d.bits) * Size[d.bits + 1]
<1>2. p \in 0 .. 7 /\ Prefix(p, d.bits) * Size[d.bits + 1] = p
  <2>1. CASE d.bits = 0
    BY <1>1, <2>1, SizeIs DEF Prefix
  <2>2. CASE d.bits = 1
    BY <1>1, <2>2, SizeIs DEF Prefix
  <2>3. CASE d.bits = 2
    BY <1>1, <2>3, SizeIs DEF Prefix
  <2>4. CASE d.bits = 3
    BY <1>1, <2>4, SizeIs DEF Prefix
  <2> QED  BY <1>1, <2>1, <2>2, <2>3, <2>4
<1>3. Net(d) = [addr |-> p, bits |-> d.bits]
  BY DEF Net
<1> HIDE DEF p
<1>4. Net(Net(d)) = Net(d)
  BY <1>2, <1>3 DEF Net
<1> QED  BY <1>1, <1>2, <1>3, <1>4, SizeIs DEF TbNets

LEMMA HostNet == ASSUME NEW d \in TbNets, IsHost(d) PROVE Net(d) = d
<1>1. d.addr \in 0 .. 7 /\ d.bits = 3 /\ d = [addr |-> d.addr, bits |-> d.bits]
  BY SizeIs DEF TbNets, IsHost
<1>2. Prefix(d.addr, d.bits) * Size[d.bits + 1] = d.addr
  BY <1>1, SizeIs DEF Prefix
<1> QED  BY <1>1, <1>2 DEF Net

(* There is a longest: a network has no more than Bits bits. *)
LEMMA LongestCard ==
    ASSUME TbCardsOK, NEW S \in SUBSET DOMAIN Cards, S # {}
    PROVE  Longest(S, LAMBDA i : tbCards[i]) \in S
<1> DEFINE bits(i) == tbCards[i].bits
<1>1. \A i \in S : bits(i) \in {0, 1, 2, 3}
  BY SizeIs DEF TbCardsOK, TbCard
<1> HIDE DEF bits
<1>2. \E x \in S : \A y \in S : bits(x) >= bits(y)
  <2>1. CASE \E x \in S : bits(x) = 3
    BY <1>1, <2>1
  <2>2. CASE ~(\E x \in S : bits(x) = 3) /\ \E x \in S : bits(x) = 2
    BY <1>1, <2>2
  <2>3. CASE ~(\E x \in S : bits(x) = 3) /\ ~(\E x \in S : bits(x) = 2) /\ \E x \in S : bits(x) = 1
    BY <1>1, <2>3
  <2>4. CASE \A x \in S : bits(x) = 0
    BY <1>1, <2>4
  <2> QED  BY <1>1, <2>1, <2>2, <2>3, <2>4
<1>3. \E x \in S : \A y \in S : tbCards[x].bits >= tbCards[y].bits
  BY <1>2 DEF bits
<1>4. Longest(S, LAMBDA i : tbCards[i]) = CHOOSE x \in S : \A y \in S : tbCards[x].bits >= tbCards[y].bits
  BY DEF Longest
<1> QED  BY <1>3, <1>4

LEMMA LongestRoute ==
    ASSUME NEW S, S # {}, \A r \in S : r.net \in TbNets
    PROVE  LET best == Longest(S, LAMBDA r : r.net)
           IN best \in S /\ \A r \in S : best.net.bits >= r.net.bits
<1> DEFINE bits(r) == r.net.bits
           best == Longest(S, LAMBDA r : r.net)
<1>1. \A r \in S : bits(r) \in {0, 1, 2, 3}
  BY SizeIs DEF TbNets
<1>4. best = CHOOSE x \in S : \A y \in S : bits(x) >= bits(y)
  BY DEF Longest
<1> HIDE DEF bits, best
<1>2. \E x \in S : \A y \in S : bits(x) >= bits(y)
  <2>1. CASE \E x \in S : bits(x) = 3
    BY <1>1, <2>1
  <2>2. CASE ~(\E x \in S : bits(x) = 3) /\ \E x \in S : bits(x) = 2
    BY <1>1, <2>2
  <2>3. CASE ~(\E x \in S : bits(x) = 3) /\ ~(\E x \in S : bits(x) = 2) /\ \E x \in S : bits(x) = 1
    BY <1>1, <2>3
  <2>4. CASE \A x \in S : bits(x) = 0
    BY <1>1, <2>4
  <2> QED  BY <1>1, <2>1, <2>2, <2>3, <2>4
<1>3. best \in S /\ \A r \in S : bits(best) >= bits(r)
  BY <1>2, <1>4
<1> QED  BY <1>3 DEF bits, best

LEMMA CardsDomain == DOMAIN Cards = 1 .. Len(Cards) /\ Len(Cards) \in Nat
BY TablesAssumption

LEMMA KDevNamed == ASSUME TbCardsOK, NEW a \in 0 .. 7 PROVE KDev(a) \in CardNames \cup {"none"}
<1> DEFINE on == {i \in DOMAIN tbCards : Covers(tbCards[i], a)}
           k == Longest(on, LAMBDA i : tbCards[i])
<1>1. on \in SUBSET DOMAIN Cards
  BY DEF TbCardsOK
<1>2. CASE on = {}
  BY <1>2 DEF KDev
<1>3. CASE on # {}
  <2>1. k \in DOMAIN Cards
    BY <1>1, <1>3, LongestCard
  <2>2. KDev(a) = tbCards[k].name
    BY <1>3 DEF KDev
  <2> HIDE DEF k
  <2> QED  BY <2>1, <2>2 DEF TbCardsOK, TbCard
<1> QED  BY <1>2, <1>3

LEMMA KDevCovers ==
    ASSUME TbCardsOK, Disjoint, NEW a \in 0 .. 7, NEW i \in DOMAIN Cards, Covers(tbCards[i], a)
    PROVE  KDev(a) = tbCards[i].name
<1> DEFINE on == {j \in DOMAIN tbCards : Covers(tbCards[j], a)}
           k == Longest(on, LAMBDA j : tbCards[j])
<1>1. DOMAIN tbCards = DOMAIN Cards /\ \A j \in DOMAIN Cards : tbCards[j].addr \in 0 .. 7 /\ tbCards[j].bits \in 0 .. Bits
  BY DEF TbCardsOK, TbCard
<1>2. ASSUME NEW j \in on PROVE j = i
  <2>1. SUFFICES ASSUME j # i PROVE FALSE
    OBVIOUS
  <2>2. Prefix(tbCards[j].addr, tbCards[j].bits) = Prefix(a, tbCards[j].bits)
        /\ Prefix(tbCards[i].addr, tbCards[i].bits) = Prefix(a, tbCards[i].bits)
    BY DEF Covers
  <2>3. tbCards[i].addr \in 0 .. 7 /\ tbCards[i].bits \in 0 .. Bits /\ tbCards[j].addr \in 0 .. 7 /\ tbCards[j].bits \in 0 .. Bits
    BY <1>1
  <2>4. CASE tbCards[i].bits <= tbCards[j].bits
    <3>1. Prefix(tbCards[j].addr, tbCards[i].bits) = Prefix(a, tbCards[i].bits)
      BY <2>2, <2>3, <2>4, Finer
    <3>2. Covers(tbCards[i], tbCards[j].addr)
      BY <2>2, <3>1 DEF Covers
    <3> QED  BY <1>1, <2>1, <3>2 DEF Disjoint
  <2>5. CASE tbCards[j].bits <= tbCards[i].bits
    <3>1. Prefix(tbCards[i].addr, tbCards[j].bits) = Prefix(a, tbCards[j].bits)
      BY <2>2, <2>3, <2>5, Finer
    <3>2. Covers(tbCards[j], tbCards[i].addr)
      BY <2>2, <3>1 DEF Covers
    <3> QED  BY <1>1, <2>1, <3>2 DEF Disjoint
  <2> QED  BY <2>3, <2>4, <2>5, SizeIs
<1>3. i \in on /\ on \in SUBSET DOMAIN Cards
  BY <1>1
<1>4. k \in on
  BY <1>3, LongestCard
<1>5. KDev(a) = tbCards[k].name
  BY <1>3 DEF KDev
<1> HIDE DEF on, k
<1> QED  BY <1>2, <1>4, <1>5

(* A network's own best route: its routes' networks have its address. *)
LEMMA BestIs ==
    ASSUME TbRoutesOK(tbRoutes), NEW a \in 0 .. 7, Ways(a) # {}
    PROVE  /\ Best(a) \in tbRoutes
           /\ \A r \in tbRoutes : r.net.addr = a => Best(a).net.addr = a
<1>1. \A r \in tbRoutes : r.net \in TbNets /\ Net(r.net) = r.net
  BY DEF TbRoutesOK
<1>2. Best(a) \in Ways(a) /\ \A r \in Ways(a) : Best(a).net.bits >= r.net.bits
  BY <1>1, LongestRoute DEF Ways, Best
<1>3. Best(a) \in tbRoutes /\ Covers(Best(a).net, a)
  BY <1>2 DEF Ways
<1>4. ASSUME NEW r \in tbRoutes, r.net.addr = a PROVE Best(a).net.addr = a
  <2> DEFINE p == Best(a).net
  <2>1. p.addr \in 0 .. 7 /\ p.bits \in 0 .. Bits /\ r.net.bits \in 0 .. Bits
    BY <1>1, <1>3 DEF TbNets
  <2>2. r \in Ways(a)
    BY <1>4 DEF Ways, Covers
  <2>3. r.net.bits <= p.bits
    BY <1>2, <2>1, <2>2, SizeIs
  <2>4. Prefix(p.addr, p.bits) = Prefix(a, p.bits)
    BY <1>3 DEF Covers
  <2>5. Prefix(p.addr, p.bits) * Size[p.bits + 1] = p.addr
    <3>1. Net(p) = p
      BY <1>1, <1>3
    <3>2. Net(p).addr = Prefix(p.addr, p.bits) * Size[p.bits + 1]
      BY DEF Net
    <3> QED  BY <3>1, <3>2
  <2>6. Prefix(a, r.net.bits) * Size[r.net.bits + 1] = a
    <3>1. Net(r.net) = r.net
      BY <1>1
    <3>2. Net(r.net).addr = Prefix(r.net.addr, r.net.bits) * Size[r.net.bits + 1]
      BY DEF Net
    <3> QED  BY <1>4, <3>1, <3>2
  <2> HIDE DEF p
  <2> QED  BY <2>1, <2>3, <2>4, <2>5, <2>6, Normal DEF p
<1> QED  BY <1>3, <1>4

(* Where an address is reached is an interface, or none. *)
LEMMA ThroughNamed ==
    ASSUME TbCardsOK, TbRoutesOK(tbRoutes), NEW a, tbBuild = "windows" \/ a \in 0 .. 7
    PROVE  Through(a) \in CardNames \cup {"none"}
<1>1. CASE tbBuild # "windows"
  BY <1>1, KDevNamed DEF Through
<1>2. CASE tbBuild = "windows" /\ Ways(a) = {}
  BY <1>2 DEF Through
<1>3. CASE tbBuild = "windows" /\ Ways(a) # {}
  <2>1. \A r \in tbRoutes : r.net \in TbNets /\ r.dev \in CardNames \cup {"none"}
    BY DEF TbRoutesOK
  <2>2. Best(a) \in Ways(a)
    BY <1>3, <2>1, LongestRoute DEF Ways, Best
  <2> QED  BY <1>3, <2>1, <2>2 DEF Through, Ways
<1> QED  BY <1>1, <1>2, <1>3

LEMMA SameCards == ASSUME tbCards' = tbCards PROVE (\A a : KDev(a)' = KDev(a)) /\ (Disjoint' <=> Disjoint)
<1>1. \A a : KDev(a)' = KDev(a)
  BY DEF KDev, Longest
<1>2. Disjoint' <=> Disjoint
  BY DEF Disjoint
<1> QED  BY <1>1, <1>2

LEMMA SameRoutes == ASSUME tbRoutes' = tbRoutes PROVE \A a : Best(a)' = Best(a)
BY DEF Best, Ways, Longest

LEMMA SameThrough ==
    ASSUME tbCards' = tbCards, tbRoutes' = tbRoutes, tbBuild' = tbBuild PROVE \A a : Through(a)' = Through(a)
<1>1. \A a : Ways(a)' = Ways(a)
  BY DEF Ways
<1> QED  BY <1>1, SameCards, SameRoutes DEF Through

LEMMA SameBuild ==
    ASSUME tbBuild' = tbBuild
    PROVE  (\A arp : TbArpOK(arp)' <=> TbArpOK(arp)) /\ (\A routes : TbRoutesOK(routes)' <=> TbRoutesOK(routes))
BY DEF TbArpOK, TbRoutesOK

LEMMA TbInitHolds == TbInit => TbInv
<1> SUFFICES ASSUME TbInit PROVE TbInv
  OBVIOUS
<1>1. /\ tbBuild \in Builds /\ tbCards = Cards /\ tbArp = Known.arp /\ tbRoutes = Known.routes
      /\ tbAt = [pc |-> "idle", table |-> "none", op |-> "none", dst |-> CHOOSE d \in Dests : TRUE, val |-> 0]
      /\ tbRet = 0 /\ tbCalls = 0
  BY DEF TbInit
<1>2. (CHOOSE d \in Dests : TRUE) \in Dests
  BY TablesAssumption
<1>3. TbCardsOK
  <2>1. Cards \in Seq(TbCard)
    BY TablesAssumption DEF TbCard
  <2>2. Cards \in [DOMAIN Cards -> TbCard]
    BY <2>1
  <2> QED  BY <1>1, <2>2 DEF TbCardsOK
<1>4. TbShape
  BY <1>1, <1>2, <1>3 DEF TbShape, TbAts
<1>5. TbArpOK(tbArp)
  <2>1. EthNames \subseteq CardNames
    BY DEF EthNames, CardNames
  <2> QED  BY <1>1, <2>1, KnownAssumption DEF TbArpOK, EthNames
<1>6. TbRoutesOK(tbRoutes)
  BY <1>1, KnownAssumption DEF TbRoutesOK, CardNames
<1>7. TbKnows /\ TablesTold
  BY <1>1 DEF TbKnows, TablesTold
<1> QED  BY <1>4, <1>5, <1>6, <1>7 DEF TbInv

Mine(arp) == {e \in arp : e.pa = Pa /\ e.dev = Through(Pa)}
(* What a call that returns must answer. *)
TbAnswers(ret, got, arp, routes) ==
    /\ ret = -1 => arp = tbArp /\ routes = tbRoutes
    /\ tbAt.table = "arp" =>
          /\ routes = tbRoutes
          /\ tbAt.op = "add" /\ ret = 0 =>
                /\ \E e \in Mine(arp) : e.ha = tbAt.val /\ e.com
                /\ arp \ Mine(arp) = tbArp \ Mine(tbArp)
          /\ tbAt.op = "delete" => Mine(arp) = {}
          /\ tbAt.op = "get" /\ ret = 0 =>
                \E e \in arp : e.pa = Pa /\ e.ha = got /\ (tbBuild # "windows" => e \in Mine(arp))
          /\ tbAt.op = "get" /\ ret = -1 => ~ \E e \in Mine(arp) : e.com
    /\ tbAt.table = "route" =>
          /\ tbAt.op = "add" /\ ret = 0 => routes = tbRoutes \cup {NewRoute}
          /\ tbAt.op = "delete" /\ (\A r \in routes : r.net.addr = Pa => r.net = tbAt.dst) =>
                {r \in routes : r.net = tbAt.dst} = {}
          /\ tbAt.op = "delete" /\ ret = 0 => \E r \in tbRoutes : tbRoutes = routes \cup {r}
          /\ tbAt.op = "get" /\ ret = 0 => routes = tbRoutes /\ got = Best(Target).gw

LEMMA TbReturnKeeps ==
    ASSUME TbInv, tbAt.pc # "idle", NEW ret \in {-1, 0}, NEW got, NEW arp, NEW routes,
           TbReturn(ret, got, arp, routes), TbArpOK(arp), TbRoutesOK(routes),
           tbQuiet' => tbQuiet, tbQuiet' /\ Disjoint => TbAnswers(ret, got, arp, routes)
    PROVE  TbInv'
<1>1. /\ tbAt' = [tbAt EXCEPT !.pc = "idle"] /\ tbRet' = ret /\ tbGot' = got /\ tbArp' = arp /\ tbRoutes' = routes
      /\ UNCHANGED <<tbBuild, tbCards, tbFound, tbOthers, tbCalls, tbBefore>>
  BY DEF TbReturn, tbHist
<1>2. tbAt' = [pc |-> "idle", table |-> tbAt.table, op |-> tbAt.op, dst |-> tbAt.dst, val |-> tbAt.val]
  BY <1>1 DEF TbInv, TbShape, TbAts
<1>3. TbCardsOK'
  BY <1>1 DEF TbInv, TbShape, TbCardsOK
<1>4. TbShape'
  BY <1>1, <1>2, <1>3 DEF TbInv, TbShape, TbAts
<1>5. TbArpOK(tbArp)' /\ TbRoutesOK(tbRoutes)'
  BY <1>1, SameBuild
<1>6. TbKnows'
  BY <1>2 DEF TbKnows
<1>7. TablesTold'
  <2> SUFFICES ASSUME tbQuiet', Disjoint' PROVE TablesTold'
    BY DEF TablesTold
  <2>1. Disjoint /\ Pa' = Pa
    BY <1>1, <1>2, SameCards DEF Pa
  <2>2. TbAnswers(ret, got, arp, routes)
    BY <2>1
  <2>3. tbBefore' = tbBefore /\ tbBefore.arp = tbArp /\ tbBefore.routes = tbRoutes
    BY <1>1 DEF TbInv, TbKnows, Unchanged
  <2>4. Same(tbAt.dst)' = {r \in routes : r.net = tbAt.dst}
    BY <1>1, <1>2 DEF Same
  <2>5. NewRoute' = NewRoute /\ Target' = Target /\ tbAt.table' = tbAt.table /\ tbAt.op' = tbAt.op
        /\ tbAt.val' = tbAt.val /\ tbAt.dst' = tbAt.dst
    BY <1>1, <1>2, <2>1 DEF NewRoute, Target, IsHost
  <2>6. tbAt.table = "arp" =>
          /\ Entries(Pa, Through(Pa))' = Mine(arp)
          /\ {e \in tbBefore.arp' : e.pa # Pa' \/ e.dev # Through(Pa)'} = tbArp \ Mine(tbArp)
    <3> SUFFICES ASSUME tbAt.table = "arp"
                 PROVE  /\ Entries(Pa, Through(Pa))' = Mine(arp)
                        /\ {e \in tbBefore.arp' : e.pa # Pa' \/ e.dev # Through(Pa)'} = tbArp \ Mine(tbArp)
      OBVIOUS
    <3>1. Through(Pa)' = Through(Pa)
      BY <1>1, <2>1, <2>2, SameThrough DEF TbAnswers
    <3> QED  BY <1>1, <2>1, <2>3, <3>1 DEF Entries, Mine
  <2>7. tbAt.table = "route" /\ tbAt.op = "get" /\ ret = 0 => tbGot' = Best(Target)'.gw
    BY <1>1, <2>2, <2>5, SameRoutes DEF TbAnswers
  <2> QED  BY <1>1, <2>1, <2>2, <2>3, <2>4, <2>5, <2>6, <2>7 DEF TablesTold, TbAnswers, Unchanged
<1> QED  BY <1>4, <1>5, <1>6, <1>7 DEF TbInv

LEMMA TbFailsKeeps ==
    ASSUME TbInv, tbAt.pc # "idle", TbFails,
           tbQuiet /\ Disjoint /\ tbAt.table = "arp" =>
              /\ tbAt.op = "delete" => Mine(tbArp) = {}
              /\ tbAt.op = "get" => ~ \E e \in Mine(tbArp) : e.com,
           tbQuiet /\ tbAt.table = "route" /\ tbAt.op = "delete"
              /\ (\A r \in tbRoutes : r.net.addr = Pa => r.net = tbAt.dst) => Same(tbAt.dst) = {}
    PROVE  TbInv'
<1>1. TbReturn(-1, tbGot, tbArp, tbRoutes) /\ tbQuiet' = tbQuiet
  BY DEF TbFails
<1>2. TbArpOK(tbArp) /\ TbRoutesOK(tbRoutes)
  BY DEF TbInv
<1>3. tbQuiet /\ Disjoint => TbAnswers(-1, tbGot, tbArp, tbRoutes)
  BY DEF TbAnswers, Same
<1> QED  BY <1>1, <1>2, <1>3, TbReturnKeeps

LEMMA RefusesKeeps == ASSUME TbInv, Refuses PROVE TbInv'
<1>1. tbAt.pc # "idle" /\ TbReturn(-1, tbGot, tbArp, tbRoutes) /\ tbQuiet' = FALSE
  BY DEF Refuses
<1>2. TbArpOK(tbArp) /\ TbRoutesOK(tbRoutes)
  BY DEF TbInv
<1> QED  BY <1>1, <1>2, TbReturnKeeps

LEMMA TbGoesKeeps ==
    ASSUME TbInv, tbAt.pc = "look", NEW found, TbGoes("do", found),
           tbAt.table = "arp" =>
              /\ found \in CardNames \cup {"none", "all"}
              /\ tbBuild = "linux" /\ tbAt.op # "delete" => found \in EthNames
              /\ Disjoint => IF tbBuild = "windows" /\ tbAt.op = "get" THEN found = "all"
                             ELSE found # "all" /\ (IF found = "none" THEN tbBuild # "windows" ELSE found = Through(Pa)),
           tbAt.table = "route" /\ tbAt.op = "add" => found \in CardNames \cup {"none"},
           tbAt.table = "route" /\ tbAt.op = "delete" /\ tbBuild = "windows" =>
              found \in tbRoutes /\ found.net = tbAt.dst
    PROVE  TbInv'
<1>1. /\ tbAt' = [tbAt EXCEPT !.pc = "do"] /\ tbFound' = found
      /\ UNCHANGED <<tbBuild, tbArp, tbRoutes, tbCards, tbRet, tbGot, tbBefore, tbQuiet, tbCalls>>
  BY DEF TbGoes, tbHist
<1>2. tbAt' = [pc |-> "do", table |-> tbAt.table, op |-> tbAt.op, dst |-> tbAt.dst, val |-> tbAt.val]
  BY <1>1 DEF TbInv, TbShape, TbAts
<1>3. TbCardsOK'
  BY <1>1 DEF TbInv, TbShape, TbCardsOK
<1>4. TbShape'
  BY <1>1, <1>2, <1>3 DEF TbInv, TbShape, TbAts
<1>5. TbArpOK(tbArp)' /\ TbRoutesOK(tbRoutes)'
  BY <1>1, SameBuild DEF TbInv
<1>6. TbKnows'
  <2>1. Pa' = Pa /\ (Disjoint' <=> Disjoint) /\ KDev(Pa)' = KDev(Pa) /\ Through(Pa)' = Through(Pa)
    BY <1>1, <1>2, SameCards, SameThrough DEF Pa
  <2>2. tbAt.table = "arp" /\ Disjoint => TbSought'
    <3> SUFFICES ASSUME tbAt.table = "arp", Disjoint PROVE TbSought'
      OBVIOUS
    <3>1. CASE tbBuild = "windows" /\ tbAt.op = "get"
      BY <1>1, <1>2, <3>1 DEF TbSought
    <3>2. CASE ~(tbBuild = "windows" /\ tbAt.op = "get") /\ found = "none" /\ tbBuild # "windows"
      BY <1>1, <1>2, <2>1, <3>2 DEF TbSought, DevOf, Through
    <3>3. CASE ~(tbBuild = "windows" /\ tbAt.op = "get") /\ found # "none" /\ found # "all" /\ found = Through(Pa)
      BY <1>1, <1>2, <2>1, <3>3 DEF TbSought, DevOf
    <3> QED  BY <3>1, <3>2, <3>3
  <2>3. tbQuiet => Unchanged'
    BY <1>1 DEF TbInv, TbKnows, Unchanged
  <2> QED  BY <1>1, <1>2, <2>1, <2>2, <2>3 DEF TbKnows
<1>7. TablesTold'
  BY <1>2 DEF TablesTold
<1> QED  BY <1>4, <1>5, <1>6, <1>7 DEF TbInv

LEMMA TbCallKeeps ==
    ASSUME TbInv, NEW table \in {"arp", "route"}, NEW op \in {"add", "delete", "get"}, NEW dst \in Dests,
           NEW val \in Macs \cup Gateways \cup {0}, table = "arp" /\ op = "add" => val \in Macs,
           TbCall(table, op, dst, val)
    PROVE  TbInv'
<1> DEFINE pc == IF LooksFirst(table, op) THEN "look" ELSE "do"
<1>1. /\ tbAt' = [pc |-> pc, table |-> table, op |-> op, dst |-> dst, val |-> val]
      /\ tbFound' = "none" /\ tbBefore' = [arp |-> tbArp, routes |-> tbRoutes]
      /\ UNCHANGED <<tbBuild, tbArp, tbRoutes, tbCards, tbRet>>
  BY DEF TbCall
<1>2. pc \in {"look", "do"} /\ (pc = "look" <=> LooksFirst(table, op))
  OBVIOUS
<1> HIDE DEF pc
<1>3. TbCardsOK'
  BY <1>1 DEF TbInv, TbShape, TbCardsOK
<1>4. TbShape'
  BY <1>1, <1>2, <1>3 DEF TbInv, TbShape, TbAts
<1>5. TbArpOK(tbArp)' /\ TbRoutesOK(tbRoutes)'
  BY <1>1, SameBuild DEF TbInv
<1>6. TbKnows'
  <2>1. Unchanged'
    BY <1>1 DEF Unchanged
  <2>2. pc = "do" => tbBuild # "windows" /\ ~(tbBuild = "linux" /\ table = "arp" /\ op # "delete")
    BY <1>2 DEF LooksFirst
  <2>3. pc = "do" => TbSought'
    BY <1>1, <2>2 DEF TbSought, DevOf, Through
  <2>4. pc = "look" => LooksFirst(table, op)'
    BY <1>1, <1>2 DEF LooksFirst
  <2> QED  BY <1>1, <2>1, <2>2, <2>3, <2>4 DEF TbKnows
<1>7. TablesTold'
  BY <1>1, <1>2 DEF TablesTold
<1> QED  BY <1>4, <1>5, <1>6, <1>7 DEF TbInv

LEMMA SetDevKeeps == ASSUME TbInv, SetDev PROVE TbInv'
<1> DEFINE T == {j \in 1 .. Len(tbCards) : OnNet(tbCards[j])}
           i == SelectInSeq(tbCards, OnNet)
<1>1. tbAt.pc = "look" /\ tbBuild = "linux" /\ tbAt.table = "arp" /\ tbAt.op # "delete"
  BY DEF SetDev, TbInv, TbKnows, LooksFirst
<1>2. Len(tbCards) = Len(Cards) /\ TbCardsOK
  <2>1. tbCards \in [1 .. Len(Cards) -> TbCard]
    BY CardsDomain DEF TbInv, TbShape, TbCardsOK
  <2> QED  BY <2>1, CardsDomain DEF TbInv, TbShape
<1>3. i = IF T # {} THEN Min(T) ELSE 0
  BY DEF SelectInSeq
<1>4. T \in SUBSET Nat /\ T \subseteq DOMAIN Cards
  BY <1>2, CardsDomain
<1>5. Pa \in 0 .. 7
  BY TablesAssumption DEF Pa, TbInv, TbShape, TbAts, TbNets
<1>6. IF i = 0 THEN TbFails ELSE TbGoes("do", tbCards[i].name)
  BY DEF SetDev
<1> HIDE DEF i
<1>7. CASE T = {}
  <2>1. TbFails
    BY <1>3, <1>6, <1>7
  <2>2. Mine(tbArp) = {} \/ ~Disjoint
    <3> SUFFICES ASSUME Disjoint, NEW e \in Mine(tbArp) PROVE FALSE
      OBVIOUS
    <3>1. e.dev \in EthNames /\ e.dev = KDev(Pa)
      BY <1>1 DEF TbInv, TbArpOK, Mine, Through
    <3>2. PICK j \in DOMAIN Cards : Cards[j].eth /\ Cards[j].name = KDev(Pa)
      BY <3>1 DEF EthNames
    <3> DEFINE on == {k \in DOMAIN tbCards : Covers(tbCards[k], Pa)}
               k == Longest(on, LAMBDA x : tbCards[x])
    <3>3. on \in SUBSET DOMAIN Cards
      BY <1>2 DEF TbCardsOK
    <3>4. on # {}
      BY <3>2, TablesAssumption DEF KDev, CardNames
    <3>5. k \in on
      BY <1>2, <3>3, <3>4, LongestCard
    <3>6. KDev(Pa) = tbCards[k].name
      BY <3>4 DEF KDev
    <3> HIDE DEF k
    <3>7. Cards[k].name = Cards[j].name /\ k \in DOMAIN Cards
      BY <1>2, <3>2, <3>3, <3>5, <3>6 DEF TbCardsOK
    <3>8. k = j
      BY <3>2, <3>7, TablesAssumption
    <3>9. tbCards[k].eth
      BY <1>2, <3>2, <3>7, <3>8 DEF TbCardsOK
    <3>10. k \in T
      BY <1>2, <3>5, <3>7, <3>9, CardsDomain DEF OnNet
    <3> QED  BY <1>7, <3>10
  <2> QED  BY <1>1, <2>1, <2>2, TbFailsKeeps
<1>8. CASE T # {}
  <2>1. i \in T /\ i \in DOMAIN Cards
    BY <1>3, <1>4, <1>8, MinHolds
  <2>2. i # 0 /\ tbCards[i].eth /\ Covers(tbCards[i], Pa)
    BY <2>1 DEF OnNet
  <2>3. TbGoes("do", tbCards[i].name)
    BY <1>6, <2>2
  <2>4. tbCards[i].name \in EthNames /\ tbCards[i].name \in CardNames /\ tbCards[i].name # "all"
    <3>1. tbCards[i].name = Cards[i].name /\ Cards[i].eth
      BY <1>2, <2>1, <2>2 DEF TbCardsOK
    <3> QED  BY <2>1, <3>1, TablesAssumption DEF EthNames, CardNames
  <2>5. Disjoint => tbCards[i].name = Through(Pa)
    BY <1>1, <1>2, <1>5, <2>1, <2>2, KDevCovers DEF Through
  <2> QED  BY <1>1, <2>3, <2>4, <2>5, TbGoesKeeps
<1> QED  BY <1>7, <1>8

LEMMA BestInterfaceKeeps == ASSUME TbInv, BestInterface PROVE TbInv'
<1>1. tbAt.pc = "look" /\ tbBuild = "windows"
  BY DEF BestInterface
<1>2. TbCardsOK /\ TbRoutesOK(tbRoutes) /\ Pa \in 0 .. 7
  BY TablesAssumption DEF Pa, TbInv, TbShape, TbAts, TbNets
<1>3. Through(Pa) \in CardNames \cup {"none"} /\ "none" \notin CardNames /\ "all" \notin CardNames
         /\ Through(tbAt.val) \in CardNames \cup {"none"}
  BY <1>1, <1>2, ThroughNamed, TablesAssumption
<1>4. CASE tbAt.table = "arp" /\ tbAt.op # "get" /\ IF Through(Pa) = "none" THEN TbFails ELSE TbGoes("do", Through(Pa))
  <2>1. CASE Through(Pa) = "none"
    <3>1. Mine(tbArp) = {}
      BY <1>3, <2>1 DEF Mine, TbInv, TbArpOK
    <3> QED  BY <1>1, <1>4, <2>1, <3>1, TbFailsKeeps
  <2>2. CASE Through(Pa) # "none"
    <3>1. TbGoes("do", Through(Pa)) /\ Through(Pa) \in CardNames /\ Through(Pa) # "all"
      BY <1>3, <1>4, <2>2
    <3>2. tbAt.table = "arp" /\ tbAt.op # "get" /\ tbAt.table # "route" /\ tbBuild # "linux"
      BY <1>1, <1>4
    <3>3. tbAt.table = "arp" =>
            /\ Through(Pa) \in CardNames \cup {"none", "all"}
            /\ tbBuild = "linux" /\ tbAt.op # "delete" => Through(Pa) \in EthNames
            /\ Disjoint => IF tbBuild = "windows" /\ tbAt.op = "get" THEN Through(Pa) = "all"
                           ELSE Through(Pa) # "all" /\ (IF Through(Pa) = "none" THEN tbBuild # "windows" ELSE Through(Pa) = Through(Pa))
      BY <2>2, <3>1, <3>2
    <3> QED  BY <1>1, <3>1, <3>2, <3>3, TbGoesKeeps
  <2> QED  BY <2>1, <2>2
<1>5. CASE tbAt.table = "arp" /\ tbAt.op = "get" /\ TbGoes("do", "all")
  BY <1>1, <1>5, TbGoesKeeps
<1>6. CASE tbAt.table = "route" /\ tbAt.op = "add"
           /\ IF Through(tbAt.val) = "none" THEN TbFails ELSE TbGoes("do", Through(tbAt.val))
  <2>1. CASE TbFails
    BY <1>1, <1>6, <2>1, TbFailsKeeps
  <2>2. CASE TbGoes("do", Through(tbAt.val))
    BY <1>1, <1>3, <1>6, <2>2, TbGoesKeeps
  <2> QED  BY <1>6, <2>1, <2>2
<1>7. CASE tbAt.table = "route" /\ tbAt.op = "delete"
           /\ IF Ways(Pa) = {} \/ Best(Pa).net # tbAt.dst THEN TbFails ELSE TbGoes("do", Best(Pa))
  <2>1. CASE Ways(Pa) = {} \/ Best(Pa).net # tbAt.dst
    <3>1. (\A r \in tbRoutes : r.net.addr = Pa => r.net = tbAt.dst) => Same(tbAt.dst) = {}
      <4> SUFFICES ASSUME \A r \in tbRoutes : r.net.addr = Pa => r.net = tbAt.dst, NEW r \in Same(tbAt.dst)
                   PROVE  FALSE
        OBVIOUS
      <4>1. r \in tbRoutes /\ r.net.addr = Pa
        BY DEF Same, Pa
      <4>2. Ways(Pa) # {}
        BY <4>1 DEF Ways, Covers
      <4>3. Best(Pa) \in tbRoutes /\ Best(Pa).net.addr = Pa
        BY <1>2, <4>1, <4>2, BestIs
      <4> QED  BY <2>1, <4>2, <4>3
    <3> QED  BY <1>1, <1>7, <2>1, <3>1, TbFailsKeeps
  <2>2. CASE ~(Ways(Pa) = {} \/ Best(Pa).net # tbAt.dst)
    <3>1. TbGoes("do", Best(Pa)) /\ Best(Pa) \in tbRoutes /\ Best(Pa).net = tbAt.dst
      BY <1>2, <1>7, <2>2, BestIs
    <3> QED  BY <1>1, <1>7, <3>1, TbGoesKeeps
  <2> QED  BY <2>1, <2>2
<1>8. CASE tbAt.table = "route" /\ tbAt.op = "get" /\ TbGoes("do", "best")
  BY <1>1, <1>8, TbGoesKeeps
<1> QED  BY <1>4, <1>5, <1>6, <1>7, <1>8 DEF BestInterface

(* Where an entry goes, or is looked for. *)
LEMMA DevHolds ==
    ASSUME TbInv, tbAt.pc = "do", tbAt.table = "arp"
    PROVE  /\ DevOf \in CardNames \cup {"none"}
           /\ tbBuild = "linux" /\ tbAt.op # "delete" => DevOf \in EthNames
           /\ tbQuiet /\ Disjoint /\ ~(tbBuild = "windows" /\ tbAt.op = "get") => DevOf = Through(Pa)
<1>1. KDev(Pa) \in CardNames \cup {"none"}
  <2>1. TbCardsOK /\ Pa \in 0 .. 7
    BY TablesAssumption DEF Pa, TbInv, TbShape, TbAts, TbNets
  <2> QED  BY <2>1, KDevNamed
<1>2. /\ tbFound \in CardNames \cup {"none", "all"}
      /\ tbBuild = "linux" /\ tbAt.op # "delete" => tbFound \in EthNames
      /\ tbQuiet /\ Disjoint => TbSought
  BY DEF TbInv, TbKnows
<1>3. DevOf \in CardNames \cup {"none"}
  BY <1>1, <1>2 DEF DevOf
<1>4. EthNames \cap {"none", "all"} = {}
  BY TablesAssumption DEF EthNames, CardNames
<1>5. tbBuild = "linux" /\ tbAt.op # "delete" => DevOf \in EthNames
  BY <1>2, <1>4 DEF DevOf
<1> QED  BY <1>2, <1>3, <1>5 DEF TbSought

LEMMA ArpAddKeeps == ASSUME TbInv, ArpAdd PROVE TbInv'
<1> DEFINE new == [pa |-> Pa, dev |-> DevOf, ha |-> tbAt.val, com |-> TRUE]
           arp == (tbArp \ Entries(Pa, DevOf)) \cup {new}
<1>1. tbAt.pc = "do" /\ tbAt.table = "arp" /\ tbAt.op = "add"
  BY DEF ArpAdd, Doing
<1>2. CASE DevOf = "none"
  <2>1. TbFails
    BY <1>2 DEF ArpAdd
  <2> QED  BY <1>1, <2>1, TbFailsKeeps
<1>3. CASE DevOf # "none"
  <2>1. \/ TbReturn(0, tbGot, arp, tbRoutes) /\ tbQuiet' = tbQuiet
        \/ TbReturn(-1, tbGot, arp, tbRoutes) /\ tbQuiet' = FALSE
    BY <1>3 DEF ArpAdd
  <2>2. Pa \in 0 .. 7 /\ tbAt.val \in Macs /\ TbArpOK(tbArp) /\ TbRoutesOK(tbRoutes)
    BY <1>1, TablesAssumption DEF Pa, TbInv, TbShape, TbAts, TbNets
  <2>3. DevOf \in CardNames /\ (tbBuild = "linux" => DevOf \in EthNames)
    BY <1>1, <1>3, DevHolds
  <2>4. new \in [pa : 0 .. 7, dev : CardNames, ha : Macs, com : BOOLEAN] /\ new.pa = Pa /\ new.dev = DevOf
        /\ new.ha = tbAt.val /\ new.com
    BY <2>2, <2>3
  <2>5. \A e \in arp : e = new \/ (e \in tbArp /\ ~(e.pa = Pa /\ e.dev = DevOf))
    BY DEF Entries
  <2> HIDE DEF new
  <2>6. TbArpOK(arp)
    <3>1. arp \subseteq [pa : 0 .. 7, dev : CardNames, ha : Macs, com : BOOLEAN]
      BY <2>2, <2>4, <2>5 DEF TbArpOK
    <3>2. \A e, f \in arp : e.pa = f.pa /\ e.dev = f.dev => e = f
      BY <2>2, <2>4, <2>5 DEF TbArpOK
    <3>3. tbBuild = "linux" => \A e \in arp : e.dev \in EthNames
      BY <2>2, <2>3, <2>4, <2>5 DEF TbArpOK
    <3> QED  BY <3>1, <3>2, <3>3 DEF TbArpOK
  <2>7. tbQuiet /\ Disjoint => TbAnswers(0, tbGot, arp, tbRoutes)
    <3> SUFFICES ASSUME tbQuiet, Disjoint PROVE TbAnswers(0, tbGot, arp, tbRoutes)
      OBVIOUS
    <3>1. DevOf = Through(Pa)
      BY <1>1, DevHolds
    <3>2. Entries(Pa, DevOf) = Mine(tbArp)
      BY <3>1 DEF Entries, Mine
    <3>3. new \in Mine(arp)
      BY <2>4, <3>1 DEF Mine
    <3>4. arp \ Mine(arp) = tbArp \ Mine(tbArp)
      BY <2>4, <3>1, <3>2 DEF Mine
    <3> HIDE DEF arp
    <3> QED  BY <1>1, <2>4, <3>3, <3>4 DEF TbAnswers
  <2> HIDE DEF arp
  <2>8. CASE TbReturn(0, tbGot, arp, tbRoutes) /\ tbQuiet' = tbQuiet
    BY <1>1, <2>2, <2>6, <2>7, <2>8, TbReturnKeeps
  <2>9. CASE TbReturn(-1, tbGot, arp, tbRoutes) /\ tbQuiet' = FALSE
    BY <1>1, <2>2, <2>6, <2>9, TbReturnKeeps
  <2> QED  BY <2>1, <2>8, <2>9
<1> QED  BY <1>2, <1>3

LEMMA ArpDeleteKeeps == ASSUME TbInv, ArpDelete PROVE TbInv'
<1> DEFINE arp == tbArp \ Entries(Pa, DevOf)
<1>1. tbAt.pc = "do" /\ tbAt.table = "arp" /\ tbAt.op = "delete"
  BY DEF ArpDelete, Doing
<1>2. tbQuiet /\ Disjoint => Entries(Pa, DevOf) = Mine(tbArp)
  BY <1>1, DevHolds DEF Entries, Mine
<1>3. CASE Entries(Pa, DevOf) = {}
  <2>1. TbFails
    BY <1>3 DEF ArpDelete
  <2> QED  BY <1>1, <1>2, <1>3, <2>1, TbFailsKeeps
<1>4. CASE Entries(Pa, DevOf) # {}
  <2>1. TbReturn(0, tbGot, arp, tbRoutes) /\ tbQuiet' = tbQuiet
    BY <1>4 DEF ArpDelete
  <2>2. TbArpOK(arp) /\ TbRoutesOK(tbRoutes)
    BY DEF TbInv, TbArpOK
  <2>3. tbQuiet /\ Disjoint => Mine(arp) = {}
    BY <1>2 DEF Mine
  <2> HIDE DEF arp
  <2>4. tbQuiet /\ Disjoint => TbAnswers(0, tbGot, arp, tbRoutes)
    BY <1>1, <2>3 DEF TbAnswers
  <2> QED  BY <1>1, <2>1, <2>2, <2>4, TbReturnKeeps
<1> QED  BY <1>3, <1>4

LEMMA ArpGetKeeps == ASSUME TbInv, ArpGet PROVE TbInv'
<1> DEFINE S == IF tbFound = "all" THEN {e \in tbArp : e.pa = Pa} ELSE {e \in Entries(Pa, DevOf) : e.com}
<1>1. tbAt.pc = "do" /\ tbAt.table = "arp" /\ tbAt.op = "get" /\ Answers(S)
  BY DEF ArpGet, Doing
<1>2. TbArpOK(tbArp) /\ TbRoutesOK(tbRoutes)
  BY DEF TbInv
<1>3. tbQuiet /\ Disjoint =>
        /\ \A e \in S : e \in tbArp /\ e.pa = Pa /\ (tbBuild # "windows" => e \in Mine(tbArp))
        /\ \A e \in Mine(tbArp) : e.com => e \in S
  <2> SUFFICES ASSUME tbQuiet, Disjoint PROVE /\ \A e \in S : e \in tbArp /\ e.pa = Pa /\ (tbBuild # "windows" => e \in Mine(tbArp))
                                              /\ \A e \in Mine(tbArp) : e.com => e \in S
    OBVIOUS
  <2>1. TbSought
    BY <1>1 DEF TbInv, TbKnows
  <2>2. CASE tbBuild = "windows"
    <3>1. S = {e \in tbArp : e.pa = Pa}
      BY <1>1, <2>1, <2>2 DEF TbSought
    <3> QED  BY <2>2, <3>1 DEF Mine
  <2>3. CASE tbBuild # "windows"
    <3>1. S = {e \in Mine(tbArp) : e.com}
      BY <2>1, <2>3 DEF TbSought, Entries, Mine
    <3> QED  BY <3>1 DEF Mine
  <2> QED  BY <2>2, <2>3
<1> HIDE DEF S
<1>4. CASE S = {}
  <2>1. TbFails
    BY <1>1, <1>4 DEF Answers
  <2> QED  BY <1>1, <1>3, <1>4, <2>1, TbFailsKeeps
<1>5. CASE S # {}
  <2>1. PICK e \in S : TbReturn(0, e.ha, tbArp, tbRoutes) /\ tbQuiet' = tbQuiet
    BY <1>1, <1>5 DEF Answers
  <2>2. tbQuiet /\ Disjoint => TbAnswers(0, e.ha, tbArp, tbRoutes)
    BY <1>1, <1>3 DEF TbAnswers
  <2> QED  BY <1>1, <1>2, <2>1, <2>2, TbReturnKeeps
<1> QED  BY <1>4, <1>5

LEMMA NewRouteHolds ==
    ASSUME TbInv
    PROVE  /\ NewRoute.net = Net(tbAt.dst) /\ NewRoute.net \in TbNets /\ Net(NewRoute.net) = NewRoute.net
           /\ NewRoute.dev = tbFound
<1>1. tbAt.dst \in TbNets
  BY TablesAssumption DEF TbInv, TbShape, TbAts
<1>2. NewRoute.net = Net(tbAt.dst) /\ NewRoute.dev = tbFound
  BY <1>1, HostNet DEF NewRoute
<1> QED  BY <1>1, <1>2, NetHolds

LEMMA RouteAddKeeps == ASSUME TbInv, TbRouteAdd PROVE TbInv'
<1>1. tbAt.pc = "do" /\ tbAt.table = "route" /\ tbAt.op = "add"
  BY DEF TbRouteAdd, Doing
<1>2. TbArpOK(tbArp) /\ TbRoutesOK(tbRoutes)
  BY DEF TbInv
<1>3. CASE Same(NewRoute.net) # {}
  <2>1. TbFails
    BY <1>3 DEF TbRouteAdd
  <2> QED  BY <1>1, <2>1, TbFailsKeeps
<1>4. CASE Same(NewRoute.net) = {}
  <2>1. TbReturn(0, tbGot, tbArp, tbRoutes \cup {NewRoute}) /\ tbQuiet' = tbQuiet
    BY <1>4 DEF TbRouteAdd
  <2>2. TbRoutesOK(tbRoutes \cup {NewRoute})
    <3>1. tbFound \in CardNames \cup {"none"}
      BY <1>1 DEF TbInv, TbKnows
    <3> QED  BY <1>2, <1>4, <3>1, NewRouteHolds DEF TbRoutesOK, Same
  <2>3. TbAnswers(0, tbGot, tbArp, tbRoutes \cup {NewRoute})
    BY <1>1 DEF TbAnswers
  <2> QED  BY <1>1, <1>2, <2>1, <2>2, <2>3, TbReturnKeeps
<1> QED  BY <1>3, <1>4

LEMMA RouteDeleteKeeps == ASSUME TbInv, TbRouteDelete PROVE TbInv'
<1> DEFINE gone == IF tbBuild = "windows" THEN {tbFound} \cap tbRoutes ELSE Same(NewRoute.net)
<1>1. tbAt.pc = "do" /\ tbAt.table = "route" /\ tbAt.op = "delete"
  BY DEF TbRouteDelete, Doing
<1>2. TbArpOK(tbArp) /\ TbRoutesOK(tbRoutes)
  BY DEF TbInv
<1>3. IF gone = {} THEN TbFails ELSE TbReturn(0, tbGot, tbArp, tbRoutes \ gone) /\ tbQuiet' = tbQuiet
  BY DEF TbRouteDelete
<1>4. \A r, s \in gone : r \in tbRoutes /\ r = s
  BY <1>2 DEF TbRoutesOK, Same
<1>5. tbQuiet => \A r \in tbRoutes : r.net = tbAt.dst => r \in gone
  <2> SUFFICES ASSUME tbQuiet, NEW r \in tbRoutes, r.net = tbAt.dst PROVE r \in gone
    OBVIOUS
  <2>1. CASE tbBuild = "windows"
    <3>1. tbFound \in tbRoutes /\ tbFound.net = tbAt.dst
      BY <1>1, <2>1 DEF TbInv, TbKnows
    <3> QED  BY <1>2, <2>1, <3>1 DEF TbRoutesOK
  <2>2. CASE tbBuild # "windows"
    <3>1. NewRoute.net = r.net
      BY <1>2, NewRouteHolds DEF TbRoutesOK
    <3> QED  BY <2>2, <3>1 DEF Same
  <2> QED  BY <2>1, <2>2
<1> HIDE DEF gone
<1>6. CASE gone = {}
  <2>1. TbFails /\ (tbQuiet => Same(tbAt.dst) = {})
    BY <1>3, <1>5, <1>6 DEF Same
  <2> QED  BY <1>1, <2>1, TbFailsKeeps
<1>7. CASE gone # {}
  <2>1. TbReturn(0, tbGot, tbArp, tbRoutes \ gone) /\ tbQuiet' = tbQuiet
    BY <1>3, <1>7
  <2>2. TbRoutesOK(tbRoutes \ gone)
    BY <1>2 DEF TbRoutesOK
  <2>3. PICK r \in gone : tbRoutes = (tbRoutes \ gone) \cup {r}
    BY <1>4, <1>7
  <2>4. tbQuiet => TbAnswers(0, tbGot, tbArp, tbRoutes \ gone)
    BY <1>1, <1>4, <1>5, <2>3 DEF TbAnswers
  <2> QED  BY <1>1, <1>2, <2>1, <2>2, <2>4, TbReturnKeeps
<1> QED  BY <1>6, <1>7

LEMMA RouteGetKeeps == ASSUME TbInv, TbRouteGet PROVE TbInv'
<1>1. tbAt.pc = "do" /\ tbAt.table = "route" /\ tbAt.op = "get"
  BY DEF TbRouteGet, Doing
<1>2. TbArpOK(tbArp) /\ TbRoutesOK(tbRoutes)
  BY DEF TbInv
<1>3. CASE TbFails
  BY <1>1, <1>3, TbFailsKeeps
<1>4. CASE TbReturn(0, Best(Target).gw, tbArp, tbRoutes) /\ tbQuiet' = tbQuiet
  <2>1. TbAnswers(0, Best(Target).gw, tbArp, tbRoutes)
    BY <1>1 DEF TbAnswers
  <2> QED  BY <1>1, <1>2, <1>4, <2>1, TbReturnKeeps
<1> QED  BY <1>3, <1>4 DEF TbRouteGet

LEMMA TbDisturbed == ASSUME TbInv, OthersChangeTables PROVE TbInv'
<1>1. tbQuiet' = FALSE /\ UNCHANGED <<tbBuild, tbAt, tbFound, tbRet>>
  BY DEF OthersChangeTables
<1>2. TbCardsOK'
  <2>1. CASE tbCards' = tbCards
    BY <2>1 DEF TbInv, TbShape, TbCardsOK
  <2>2. CASE \E i \in DOMAIN tbCards, a \in 0 .. 7 : tbCards' = [tbCards EXCEPT ![i].addr = a]
    <3>1. PICK i \in DOMAIN tbCards, a \in 0 .. 7 : tbCards' = [tbCards EXCEPT ![i].addr = a]
      BY <2>2
    <3>2. i \in DOMAIN Cards /\ tbCards[i] \in TbCard /\ tbCards \in [DOMAIN Cards -> TbCard]
      BY DEF TbInv, TbShape, TbCardsOK
    <3> DEFINE c == [tbCards[i] EXCEPT !.addr = a]
    <3>3. c \in TbCard /\ c.name = tbCards[i].name /\ c.eth = tbCards[i].eth
      BY <3>2 DEF TbCard
    <3>4. tbCards' = [tbCards EXCEPT ![i] = c]
      BY <3>1
    <3> HIDE DEF c
    <3> QED  BY <3>2, <3>3, <3>4 DEF TbInv, TbShape, TbCardsOK
  <2> QED  BY <2>1, <2>2 DEF OthersChangeTables
<1>3. TbArpOK(tbArp')
  <2>1. CASE tbArp' = tbArp
    BY <2>1 DEF TbInv
  <2>2. CASE \E e \in tbArp : tbArp' = (tbArp \ {e}) \cup {[e EXCEPT !.com = FALSE]}
    <3>1. PICK e \in tbArp : tbArp' = (tbArp \ {e}) \cup {[e EXCEPT !.com = FALSE]}
      BY <2>2
    <3> DEFINE f == [e EXCEPT !.com = FALSE]
    <3>2. f \in [pa : 0 .. 7, dev : CardNames, ha : Macs, com : BOOLEAN] /\ f.pa = e.pa /\ f.dev = e.dev
      BY DEF TbInv, TbArpOK
    <3>3. tbArp' = (tbArp \ {e}) \cup {f}
      BY <3>1
    <3> HIDE DEF f
    <3> QED  BY <3>2, <3>3 DEF TbInv, TbArpOK
  <2> QED  BY <2>1, <2>2 DEF OthersChangeTables
<1>4. TbRoutesOK(tbRoutes')
  <2>1. tbRoutes' \subseteq tbRoutes
    BY DEF OthersChangeTables
  <2> QED  BY <2>1 DEF TbInv, TbRoutesOK
<1>5. TbArpOK(tbArp)' /\ TbRoutesOK(tbRoutes)'
  BY <1>1, <1>3, <1>4, SameBuild
<1>6. TbShape'
  BY <1>1, <1>2 DEF TbInv, TbShape
<1>7. TbKnows'
  BY <1>1 DEF TbInv, TbKnows, LooksFirst
<1>8. TablesTold'
  BY <1>1 DEF TablesTold
<1> QED  BY <1>5, <1>6, <1>7, <1>8 DEF TbInv

LEMMA TbStepHolds == ASSUME TbInv, [TbNext]_tbVars PROVE TbInv'
<1>1. CASE UNCHANGED tbVars
  <2>1. UNCHANGED <<tbBuild, tbArp, tbRoutes, tbCards, tbAt, tbFound, tbRet, tbGot, tbCalls, tbBefore, tbQuiet>>
    BY <1>1 DEF tbVars, tbHist
  <2>2. TbShape'
    BY <2>1 DEF TbInv, TbShape, TbCardsOK
  <2>3. TbArpOK(tbArp)' /\ TbRoutesOK(tbRoutes)'
    BY <2>1, SameBuild DEF TbInv
  <2>4. Pa' = Pa /\ (\A a : KDev(a)' = KDev(a)) /\ (Disjoint' <=> Disjoint) /\ (\A a : Best(a)' = Best(a))
        /\ (\A a : Through(a)' = Through(a))
    BY <2>1, SameCards, SameRoutes, SameThrough DEF Pa
  <2>5. Unchanged' <=> Unchanged
    BY <2>1 DEF Unchanged
  <2>6. TbKnows'
    BY <2>1, <2>4, <2>5 DEF TbInv, TbKnows, TbSought, DevOf, LooksFirst
  <2>7. NewRoute' = NewRoute /\ Target' = Target /\ Entries(Pa, Through(Pa))' = Entries(Pa, Through(Pa)) /\ Same(tbAt.dst)' = Same(tbAt.dst)
    BY <2>1, <2>4 DEF NewRoute, IsHost, Target, Entries, Same
  <2>8. Best(Target)' = Best(Target) /\ Through(Pa)' = Through(Pa)
    BY <2>1, <2>4, <2>7
  <2>9. TablesTold'
    BY <2>1, <2>4, <2>5, <2>7, <2>8 DEF TbInv, TablesTold
  <2> QED  BY <2>2, <2>3, <2>6, <2>9 DEF TbInv
<1>2. ASSUME NEW d \in Dests, NEW m \in Macs, TbCall("arp", "add", d, m) PROVE TbInv'
  BY <1>2, TbCallKeeps
<1>3. ASSUME NEW d \in Dests, NEW op \in {"delete", "get"}, TbCall("arp", op, d, 0) PROVE TbInv'
  BY <1>3, TbCallKeeps
<1>4. ASSUME NEW d \in Dests, NEW g \in Gateways, TbCall("route", "add", d, g) PROVE TbInv'
  BY <1>4, TbCallKeeps
<1>5. ASSUME NEW d \in Dests, NEW op \in {"delete", "get"}, TbCall("route", op, d, 0) PROVE TbInv'
  BY <1>5, TbCallKeeps
<1>6. CASE SetDev \/ BestInterface \/ Refuses
  BY <1>6, SetDevKeeps, BestInterfaceKeeps, RefusesKeeps
<1>7. CASE ArpAdd \/ ArpDelete \/ ArpGet
  BY <1>7, ArpAddKeeps, ArpDeleteKeeps, ArpGetKeeps
<1>8. CASE TbRouteAdd \/ TbRouteDelete \/ TbRouteGet
  BY <1>8, RouteAddKeeps, RouteDeleteKeeps, RouteGetKeeps
<1>9. CASE OthersChangeTables
  BY <1>9, TbDisturbed
<1> QED  BY <1>1, <1>2, <1>3, <1>4, <1>5, <1>6, <1>7, <1>8, <1>9 DEF TbNext

LEMMA TbInvTells == TbInv => TablesTold
BY DEF TbInv
=============================================================================
