-------------------------------- MODULE Rand --------------------------------
(***************************************************************************)
(* The generator of rand.c, on several handles, and rand_shuffle.  The     *)
(* state has RnSize entries in place of 256, and so many values a byte.    *)
(***************************************************************************)
EXTENDS Integers, Sequences, SequencesExt

CONSTANTS
    RnHandles,   \* handles
    RnSize,      \* entries of a state
    RnSeeds,     \* seeds, sequences of bytes
    RnCounts,    \* sizes of the arrays to be shuffled, numbers of bytes to be got
    MaxRnCalls   \* bound: calls

Byte == 0 .. RnSize - 1
ASSUME RandAssumption ==
    /\ RnSize \in Nat \ {0, 1} /\ MaxRnCalls \in Nat /\ RnCounts \subseteq Nat
    /\ RnSeeds \subseteq Seq(Byte) \ {<<>>}

VARIABLES
    rnGen,       \* the handles: [i, j, s]
    rnSince,     \* history: what was done with each since rand_set
    rnArray,     \* the array that was shuffled last
    rnCalls
rnVars == <<rnGen, rnSince, rnArray, rnCalls>>

(* rand_init, rand_addrandom and rand_getbyte; sums are of bytes.          *)
RandInit == [i |-> 0, j |-> 0, s |-> [b \in Byte |-> b]]
Plus(m, n) == (m + n) % RnSize
Swapped(s, i, j) == [s EXCEPT ![i] = s[j], ![j] = s[i]]
Stirs(g, x) ==
    LET i == Plus(g.i, 1)
        j == Plus(g.j, g.s[i] + x)
    IN [i |-> i, j |-> j, s |-> Swapped(g.s, i, j)]
RandAddrandom(g, buf) ==
    LET stirred[n \in 0 .. RnSize] ==
            IF n = 0 THEN [g EXCEPT !.i = Plus(@, RnSize - 1)]
            ELSE Stirs(stirred[n - 1], buf[((n - 1) % Len(buf)) + 1])
    IN [stirred[RnSize] EXCEPT !.j = stirred[RnSize].i]
RandGetbyte(g) == Stirs(g, 0)
OutOf(g) == g.s[Plus(g.s[g.i], g.s[g.j])]

(* The generator after some bytes, the bytes, and the number four make.    *)
Draws(g, n) == LET drawn[k \in 0 .. n] == IF k = 0 THEN g ELSE RandGetbyte(drawn[k - 1]) IN drawn[n]
Bytes(g, n) == [k \in 1 .. n |-> OutOf(Draws(g, k))]
Number(b) == RnSize * (RnSize * (RnSize * b[1] + b[2]) + b[3]) + b[4]

(* rand_shuffle exchanges every member with one that it draws; it never    *)
(* draws the last.                                                         *)
Partner(g, n) == (Number(Bytes(g, 4)) % (n - 1)) + 1
Shuffled(g, n) ==
    LET a[i \in 0 .. n] ==
            IF i = 0 THEN [k \in 1 .. n |-> k] ELSE Swapped(a[i - 1], i, Partner(Draws(g, 4 * (i - 1)), n))
    IN a[n]
----------------------------------------------------------------------------
Seeded(seed) == RandAddrandom(RandAddrandom(RandInit, seed), Reverse(seed))
RnInit ==
    /\ \E seeds \in [RnHandles -> RnSeeds] : rnGen = [h \in RnHandles |-> Seeded(seeds[h])]
    /\ rnSince = [h \in RnHandles |-> <<<<"open", h>>>>] /\ rnArray = <<>> /\ rnCalls = 0
RnCall(h, gen, what) ==
    /\ rnCalls < MaxRnCalls /\ rnCalls' = rnCalls + 1
    /\ rnGen' = [rnGen EXCEPT ![h] = gen]
    /\ rnSince' = [rnSince EXCEPT ![h] = IF what[1] = "set" THEN <<what>> ELSE Append(@, what)]
(* rand_set starts from nothing, and stirs twice; rand_add goes on.        *)
GoesOn(g, seed) == RandAddrandom(RandAddrandom(g, seed), seed)    \* mutant: no rand_init
SetGen(g, seed) == RandAddrandom(RandAddrandom(RandInit, seed), seed)
RandSet(h, seed) == RnCall(h, SetGen(rnGen[h], seed), <<"set", seed>>) /\ rnArray' = rnArray
RandAdd(h, buf) == RnCall(h, RandAddrandom(rnGen[h], buf), <<"add", buf>>) /\ rnArray' = rnArray
(* rand_get, and rand_uint8, rand_uint16 and rand_uint32. *)
RandGet(h, n) == RnCall(h, Draws(rnGen[h], n), <<"get", n>>) /\ rnArray' = rnArray
RandShuffle(h, n) ==
    IF n < 2 THEN RnCall(h, rnGen[h], <<"get", 0>>) /\ rnArray' = [k \in 1 .. n |-> k]
    ELSE /\ RnCall(h, Draws(rnGen[h], 4 * n), <<"shuffle", n>>)
         /\ rnArray' = Shuffled(rnGen[h], n)

RnNext == \E h \in RnHandles :
    \/ \E seed \in RnSeeds : RandSet(h, seed) \/ RandAdd(h, seed)
    \/ \E n \in RnCounts : RandGet(h, n) \/ RandShuffle(h, n)
----------------------------------------------------------------------------
RnTypeOK == \A h \in RnHandles : rnGen[h].i \in Byte /\ rnGen[h].j \in Byte

(* rand_set starts from a known seed value (dnet.3:697): two handles that  *)
(* were given the same seed and were used alike since go on alike,         *)
(* whatever was done with either before.  However it is stirred and drawn  *)
(* from, a state keeps every byte once; a shuffled array keeps every       *)
(* member once.                                                            *)
RandRepeats ==
    /\ \A g, h \in RnHandles : rnSince[g] = rnSince[h] => rnGen[g] = rnGen[h]
    /\ \A h \in RnHandles : ToSet([b \in 1 .. RnSize |-> rnGen[h].s[b - 1]]) = Byte
    /\ ToSet(rnArray) = DOMAIN rnArray
=============================================================================
