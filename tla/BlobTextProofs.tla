--------------------------- MODULE BlobTextProofs ---------------------------
(***************************************************************************)
(* Proofs that a careful client's blob is the text with a position that    *)
(* BlobAbs describes, whatever the allocator does, and that the bytes of a *)
(* fixed blob stay where they are, whatever the client does.               *)
(***************************************************************************)
EXTENDS BlobProofs, SequenceTheorems

-----------------------------------------------------------------------------
(* Texts. *)

LEMMA BytesText ==
    ASSUME NEW n \in Nat, NEW cap \in Nat, n <= cap, NEW mem \in [0..(cap - 1) -> Cell],
           \A i \in 0..(n - 1) : mem[i] # Junk
    PROVE  /\ Bytes(mem, 0, n) \in Seq(Byte) /\ Len(Bytes(mem, 0, n)) = n
           /\ \A i \in 1..n : Bytes(mem, 0, n)[i] = mem[i - 1]
<1>1. \A i \in 1..n : i - 1 \in 0..(n - 1) /\ i - 1 \in 0..(cap - 1) /\ 0 + i - 1 = i - 1
  OBVIOUS
<1>2. \A i \in 1..n : mem[i - 1] \in Byte
  BY <1>1 DEF Cell
<1>3. Bytes(mem, 0, n) = [i \in 1..n |-> mem[i - 1]]
  BY <1>1 DEF Bytes
<1> QED  BY <1>2, <1>3

LEMMA TextType ==
    ASSUME BlobOK
    PROVE  Text \in Seq(Byte) /\ Len(Text) = end /\ \A i \in 1..end : Text[i] = base[i - 1]
<1>1. /\ end \in Nat /\ base \in [0..(Capacity - 1) -> Cell] /\ end <= Capacity /\ Capacity \in Nat
      /\ \A i \in 0..(end - 1) : base[i] # Junk
  BY AllocAssumption DEF BlobOK, Capacity
<1> HIDE DEF Capacity
<1> QED  BY <1>1, BytesText DEF Text

LEMMA NewTextType ==
    ASSUME BlobOK'
    PROVE  Text' \in Seq(Byte) /\ Len(Text') = end' /\ \A i \in 1..end' : Text'[i] = base'[i - 1]
<1>1. end' \in Nat /\ Capacity' \in Nat
  BY AllocAssumption DEF BlobOK, Capacity
<1> HIDE DEF Capacity
<1>2. base' \in [0..(Capacity' - 1) -> Cell] /\ end' <= Capacity' /\ \A i \in 0..(end' - 1) : base'[i] # Junk
  BY DEF BlobOK
<1> QED  BY <1>1, <1>2, BytesText DEF Text

(* What stands where when buf takes the place of t's bytes p+1..q.         *)
Spliced(r, t, buf, p, q) ==
    /\ r \in Seq(Byte)
    /\ Len(r) = p + Len(buf) + (IF q < Len(t) THEN Len(t) - q ELSE 0)
    /\ \A i \in 1..Len(r) :
          r[i] = IF i <= p THEN t[i]
                 ELSE IF i <= p + Len(buf) THEN buf[i - p] ELSE t[i - p - Len(buf) + q]

LEMMA Splice ==
    ASSUME NEW t \in Seq(Byte), NEW buf \in Seq(Byte), NEW p \in 0..Len(t), NEW q \in Nat, p <= q
    PROVE  Spliced(SubSeq(t, 1, p) \o buf \o SubSeq(t, q + 1, Len(t)), t, buf, p, q)
<1> DEFINE a == SubSeq(t, 1, p)
           c == SubSeq(t, q + 1, Len(t))
           ab == a \o buf
           n == IF q < Len(t) THEN Len(t) - q ELSE 0
<1>1. a \in Seq(Byte) /\ Len(a) = p /\ \A i \in 1..p : a[i] = t[i]
  OBVIOUS
<1>0. n \in Nat
  OBVIOUS
<1>2. c \in Seq(Byte) /\ Len(c) = n /\ \A i \in 1..n : c[i] = t[q + i]
  <2>1. \A i \in (q + 1)..Len(t) : t[i] \in Byte
    OBVIOUS
  <2>2. /\ c \in Seq(Byte) /\ Len(c) = (IF q + 1 <= Len(t) THEN Len(t) - (q + 1) + 1 ELSE 0)
        /\ \A i \in 1..(Len(t) - (q + 1) + 1) : c[i] = t[(q + 1) + i - 1]
    BY <2>1, SubSeqProperties
  <2>3. \A i \in 1..n : i \in 1..(Len(t) - (q + 1) + 1) /\ (q + 1) + i - 1 = q + i
    OBVIOUS
  <2> QED  BY <2>2, <2>3
<1> HIDE DEF a, c, n
<1> DEFINE m == p + Len(buf)
<1>3. /\ ab \in Seq(Byte) /\ Len(ab) = m /\ m \in Nat /\ p <= m
      /\ \A i \in 1..m : ab[i] = IF i <= p THEN a[i] ELSE buf[i - p]
  <2>1. /\ ab \in Seq(Byte) /\ Len(ab) = Len(a) + Len(buf)
        /\ \A i \in 1..(Len(a) + Len(buf)) : ab[i] = IF i <= Len(a) THEN a[i] ELSE buf[i - Len(a)]
    BY <1>1, ConcatProperties
  <2>2. Len(a) = p /\ p \in Nat /\ Len(buf) \in Nat
    BY <1>1
  <2> QED  BY <2>1, <2>2
<1> HIDE DEF ab
<1>4. m = p + Len(buf) /\ Len(buf) \in Nat /\ p \in Nat
  OBVIOUS
<1> HIDE DEF m
<1> DEFINE r == ab \o c
<1>5. /\ r \in Seq(Byte) /\ Len(r) = m + n
      /\ \A i \in 1..(m + n) : r[i] = IF i <= m THEN ab[i] ELSE c[i - m]
  <2>1. /\ ab \o c \in Seq(Byte) /\ Len(ab \o c) = Len(ab) + Len(c)
        /\ \A i \in 1..(Len(ab) + Len(c)) : (ab \o c)[i] = IF i <= Len(ab) THEN ab[i] ELSE c[i - Len(ab)]
    BY <1>2, <1>3, ConcatProperties
  <2> QED  BY <1>2, <1>3, <2>1
<1>6. r = SubSeq(t, 1, p) \o buf \o SubSeq(t, q + 1, Len(t))
  BY DEF ab, a, c
<1> HIDE DEF r
<1>7. ASSUME NEW i \in 1..(m + n)
      PROVE  r[i] = IF i <= p THEN t[i] ELSE IF i <= m THEN buf[i - p] ELSE t[i - m + q]
  <2>1. CASE i <= p
    <3>1. i \in 1..p /\ i \in 1..m /\ i <= m
      BY <1>3, <1>4, <2>1
    <3> QED  BY <1>1, <1>3, <1>5, <2>1, <3>1
  <2>2. CASE p < i /\ i <= m
    <3>1. i \in 1..m /\ ~(i <= p)
      BY <1>3, <1>4, <2>2
    <3> QED  BY <1>3, <1>5, <1>6, <2>2, <3>1
  <2>3. CASE m < i
    <3>1. i - m \in 1..n /\ q + (i - m) = i - m + q /\ ~(i <= m) /\ ~(i <= p)
      BY <1>0, <1>3, <1>4, <2>3
    <3>2. r[i] = c[i - m]
      BY <1>5, <1>6, <3>1
    <3> QED  BY <1>2, <3>1, <3>2
  <2>4. i <= p \/ (p < i /\ i <= m) \/ m < i
    BY <1>0, <1>3, <1>4
  <2> QED  BY <2>1, <2>2, <2>3, <2>4
<1>8. \A i \in 1..(m + n) : i - m + q = i - p - Len(buf) + q
  BY <1>0, <1>4
<1> QED  BY <1>4, <1>5, <1>6, <1>7, <1>8 DEF n, Spliced, r

LEMMA Piece ==
    ASSUME NEW r \in Seq(Byte), NEW p \in Nat, NEW buf \in Seq(Byte), p + Len(buf) <= Len(r),
           \A i \in 1..Len(buf) : r[p + i] = buf[i]
    PROVE  SubSeq(r, p + 1, p + Len(buf)) = buf
<1> DEFINE n == Len(buf)
           c == SubSeq(r, p + 1, p + n)
<1>1. n \in Nat /\ Len(r) \in Nat
  OBVIOUS
<1>2. c \in Seq(Byte) /\ Len(c) = n /\ \A i \in 1..n : c[i] = r[p + i]
  OBVIOUS
<1> HIDE DEF c
<1>3. c = buf
  BY <1>1, <1>2, SeqEqual
<1> QED  BY <1>3 DEF c

(* When the bytes say that buf took the place of q - off bytes under the   *)
(* cursor, so does the text.                                               *)
LEMMA TextAfter ==
    ASSUME BlobOK, BlobOK', NEW buf \in Seq(Byte), NEW q \in Nat, off <= q,
           end' = off + Len(buf) + (IF q < end THEN end - q ELSE 0),
           \A i \in 0..(end' - 1) :
               base'[i] = IF i < off THEN base[i]
                          ELSE IF i < off + Len(buf) THEN buf[i - off + 1]
                          ELSE base[i - off - Len(buf) + q]
    PROVE  Text' = SubSeq(Text, 1, off) \o buf \o SubSeq(Text, q + 1, Len(Text))
<1>1. off \in Nat /\ end \in Nat /\ off <= end /\ end' \in Nat /\ Len(buf) \in Nat
      /\ end' = off + Len(buf) + (IF q < end THEN end - q ELSE 0)
  BY DEF BlobOK
<1>2. Text \in Seq(Byte) /\ Len(Text) = end /\ \A i \in 1..end : Text[i] = base[i - 1]
  BY TextType
<1>3. Text' \in Seq(Byte) /\ Len(Text') = end' /\ \A i \in 1..end' : Text'[i] = base'[i - 1]
  BY NewTextType
<1> DEFINE r == SubSeq(Text, 1, off) \o buf \o SubSeq(Text, q + 1, Len(Text))
<1>4. Spliced(r, Text, buf, off, q)
  <2>1. off \in 0..Len(Text) /\ Text \in Seq(Byte)
    BY <1>1, <1>2
  <2> QED  BY <2>1, Splice
<1> HIDE DEF r
<1>5. /\ r \in Seq(Byte) /\ Len(r) = end'
      /\ \A i \in 1..Len(r) :
            r[i] = IF i <= off THEN Text[i]
                   ELSE IF i <= off + Len(buf) THEN buf[i - off] ELSE Text[i - off - Len(buf) + q]
  BY <1>1, <1>2, <1>4 DEF Spliced
<1>6. ASSUME NEW i \in 1..end' PROVE Text'[i] = r[i]
  <2>1. Text'[i] = base'[i - 1] /\ i - 1 \in 0..(end' - 1) /\ i \in 1..Len(r)
    BY <1>1, <1>3, <1>5
  <2>2. CASE i <= off
    <3>1. i - 1 < off /\ i \in 1..end
      BY <1>1, <2>2
    <3> QED  BY <1>2, <1>5, <2>1, <2>2, <3>1
  <2>3. CASE off < i /\ i <= off + Len(buf)
    <3>1. (i - 1) - off + 1 = i - off /\ ~(i - 1 < off) /\ i - 1 < off + Len(buf)
      BY <1>1, <2>3
    <3> QED  BY <1>1, <1>5, <2>1, <2>3, <3>1
  <2>4. CASE off + Len(buf) < i
    <3> DEFINE j == i - off - Len(buf) + q
    <3>1. j \in 1..end /\ j - 1 = (i - 1) - off - Len(buf) + q /\ ~(i - 1 < off) /\ ~(i - 1 < off + Len(buf))
      BY <1>1, <2>4
    <3>2. base'[i - 1] = base[j - 1]
      BY <2>1, <3>1
    <3> QED  BY <1>1, <1>2, <1>5, <2>1, <2>4, <3>1, <3>2
  <2> QED  BY <1>1, <2>2, <2>3, <2>4
<1>7. Text' = r
  BY <1>3, <1>5, <1>6, SeqEqual
<1> QED  BY <1>7 DEF r

LEMMA SameText == ASSUME BlobOK, UNCHANGED <<base, end>> PROVE Text' = Text
BY DEF Text, Bytes

LEMMA EmptyText == ASSUME BlobOK', end' = 0 PROVE Text' = <<>>
BY NewTextType

(* A piece of the text is what the bytes hold there.                       *)
LEMMA TextPiece ==
    ASSUME BlobOK, NEW k \in Nat, off + k <= end
    PROVE  SubSeq(Text, off + 1, off + k) = Bytes(base, off, k)
<1>1. off \in Nat /\ end \in Nat
  BY DEF BlobOK
<1>2. Text \in Seq(Byte) /\ Len(Text) = end /\ \A i \in 1..end : Text[i] = base[i - 1]
  BY TextType
<1>3. \A i \in 1..k : off + i \in 1..end /\ (off + i) - 1 = off + i - 1
  BY <1>1
<1>4. SubSeq(Text, off + 1, off + k) = [i \in 1..k |-> Text[off + i]]
  BY <1>1, <1>2
<1>5. \A i \in 1..k : Text[off + i] = base[off + i - 1]
  BY <1>2, <1>3
<1> QED  BY <1>4, <1>5 DEF Bytes

LEMMA Below == ASSUME NEW m \in Nat, NEW n \in Nat, m <= n PROVE \A i \in 0..(m - 1) : i \in 0..(n - 1)
OBVIOUS

(* A write that reaches the end of the data, in the memory blob_reserve    *)
(* gave for it.                                                            *)
LEMMA GrownText ==
    ASSUME BlobOK, BlobOK', bl_size \in ChunkSizes, NEW buf \in Seq(Byte), Len(buf) > 0,
           NEW grow \in Nat, off + Len(buf) = end + grow, ReserveSucceeds(grow),
           base' = Put(BaseAfter(grow), off, buf), size' = SizeAfter(grow), end' = end + grow
    PROVE  /\ Text' = SubSeq(Text, 1, off) \o buf \o SubSeq(Text, off + Len(buf) + 1, Len(Text))
           /\ size > 0 /\ size' > 0
<1> DEFINE q == off + Len(buf)
<1>1. off \in Nat /\ end \in Nat /\ off <= end /\ Len(buf) \in Nat /\ end' = q /\ q \in Nat /\ off <= q /\ end <= q
  BY DEF BlobOK
<1>2. \A i \in 0..(end' - 1) : i \in DOMAIN base'
  <2>1. end' \in Nat /\ Capacity' \in Nat
    BY AllocAssumption DEF BlobOK, Capacity
  <2> HIDE DEF Capacity
  <2>2. DOMAIN base' = 0..(Capacity' - 1) /\ end' <= Capacity'
    BY DEF BlobOK
  <2>3. \A i \in 0..(end' - 1) : i \in 0..(Capacity' - 1)
    BY <2>1, <2>2, Below
  <2> QED  BY <2>2, <2>3
<1>3. /\ DOMAIN base' = DOMAIN BaseAfter(grow)
      /\ \A i \in DOMAIN base' :
            base'[i] = IF off <= i /\ i < off + Len(buf) THEN buf[i - off + 1] ELSE BaseAfter(grow)[i]
  BY DEF Put
<1>4. \A i \in 0..(end - 1) : i \in DOMAIN base
  <2>1. end \in Nat /\ Capacity \in Nat
    BY AllocAssumption DEF BlobOK, Capacity
  <2> HIDE DEF Capacity
  <2>2. DOMAIN base = 0..(Capacity - 1) /\ end <= Capacity
    BY DEF BlobOK
  <2> QED  BY <2>1, <2>2
<1>5. \A i \in 0..(end - 1) : i \in DOMAIN base' => BaseAfter(grow)[i] = base[i]
  BY <1>3, <1>4 DEF BaseAfter, Realloc
<1>6. ASSUME NEW i \in 0..(end' - 1)
      PROVE  base'[i] = IF i < off THEN base[i]
                        ELSE IF i < off + Len(buf) THEN buf[i - off + 1]
                        ELSE base[i - off - Len(buf) + q]
  <2>1. CASE i < off
    <3>1. i \in 0..(end - 1) /\ ~(off <= i)
      BY <1>1, <2>1
    <3> QED  BY <1>2, <1>3, <1>5, <2>1, <3>1
  <2>2. CASE ~(i < off)
    <3>1. off <= i /\ i < off + Len(buf)
      BY <1>1, <2>2
    <3> QED  BY <1>2, <1>3, <2>2, <3>1
  <2> QED  BY <2>1, <2>2
<1>7. end' = off + Len(buf) + (IF q < end THEN end - q ELSE 0)
  <2>1. ~(q < end) /\ end' = off + Len(buf) + 0
    BY <1>1
  <2> QED  BY <2>1
<1> HIDE DEF q
<1>8. Text' = SubSeq(Text, 1, off) \o buf \o SubSeq(Text, q + 1, Len(Text))
  BY <1>1, <1>6, <1>7, TextAfter
<1>9. size > 0 /\ size' > 0
  <2>1. size \in Nat /\ end + grow \in Nat /\ end + grow > 0
    BY <1>1, AllocAssumption DEF BlobOK
  <2>2. size > 0
    BY <1>1, <2>1 DEF ReserveSucceeds, Room
  <2>3. NewSize(end + grow) >= end + grow /\ NewSize(end + grow) \in Nat
    BY <2>1, NewSizeRoom
  <2> QED  BY <2>1, <2>2, <2>3 DEF SizeAfter
<1> QED  BY <1>8, <1>9 DEF q

(* blob_write replaces what is under the cursor.                           *)
LEMMA WrittenText ==
    ASSUME BlobOK, BlobOK', bl_size \in ChunkSizes, NEW buf \in Seq(Byte), WriteSucceeds(buf)
    PROVE  /\ Text' = SubSeq(Text, 1, off) \o buf \o SubSeq(Text, off + Len(buf) + 1, Len(Text))
           /\ off' = off + Len(buf) /\ (size' > 0 <=> size > 0)
           /\ off + Len(buf) <= end \/ size > 0
<1> DEFINE grow == off + Len(buf) - end
<1>1. off \in Nat /\ end \in Nat /\ off <= end /\ Len(buf) \in Nat /\ size \in Nat /\ size' \in Nat /\ end' \in Nat
      /\ end' <= Capacity'
  BY AllocAssumption DEF BlobOK
<1>2. off' = off + Len(buf)
  BY DEF WriteSucceeds
<1>3. CASE grow <= 0 /\ base' = Put(base, off, buf) /\ UNCHANGED <<end, size>>
  <2> DEFINE q == off + Len(buf)
  <2>1. q \in Nat /\ off <= q /\ q <= end /\ end' = off + Len(buf) + (IF q < end THEN end - q ELSE 0)
    <3>1. q \in Nat /\ off <= q /\ q <= end /\ end' = off + Len(buf) + (end - q)
      BY <1>1, <1>3
    <3>2. (IF q < end THEN end - q ELSE 0) = end - q
      BY <1>1, <3>1
    <3> QED  BY <3>1, <3>2
  <2>2. \A i \in 0..(end - 1) : i \in DOMAIN base
    <3>1. Capacity \in Nat
      BY AllocAssumption DEF BlobOK, Capacity
    <3> HIDE DEF Capacity
    <3> QED  BY <1>1, <3>1 DEF BlobOK
  <2>3. \A i \in DOMAIN base :
           base'[i] = IF off <= i /\ i < off + Len(buf) THEN buf[i - off + 1] ELSE base[i]
    BY <1>3 DEF Put
  <2>4. ASSUME NEW i \in 0..(end' - 1)
        PROVE  base'[i] = IF i < off THEN base[i]
                          ELSE IF i < off + Len(buf) THEN buf[i - off + 1]
                          ELSE base[i - off - Len(buf) + q]
    <3>1. i \in DOMAIN base /\ i - off - Len(buf) + q = i
      BY <1>1, <1>3, <2>2
    <3> QED  BY <1>1, <2>3, <3>1
  <2> HIDE DEF q
  <2>5. Text' = SubSeq(Text, 1, off) \o buf \o SubSeq(Text, q + 1, Len(Text))
    BY <2>1, <2>4, TextAfter
  <2> QED  BY <1>1, <1>2, <1>3, <2>5 DEF q
<1>4. CASE grow > 0
  <2>1. /\ ReserveSucceeds(grow) /\ base' = Put(BaseAfter(grow), off, buf)
        /\ size' = SizeAfter(grow) /\ end' = end + grow /\ grow \in Nat
    BY <1>1, <1>4 DEF WriteSucceeds
  <2>2. off + Len(buf) = end + grow /\ Len(buf) > 0
    BY <1>1, <1>4
  <2> HIDE DEF grow
  <2> QED  BY <1>2, <2>1, <2>2, GrownText
<1> QED  BY <1>3, <1>4 DEF WriteSucceeds
-----------------------------------------------------------------------------
(* Every call of a careful client is a call on the text.                   *)
AbsStep == [Abs!Next]_<<Abs!abs, last, got>>

(* A call that leaves the blob alone and says so.                          *)
LEMMA RefusesText ==
    ASSUME BlobOK, UNCHANGED <<live, blob>>,
           \/ Returns("new", -1) \/ Returns("register", 0) \/ Returns("seek", -1)
           \/ last'.op \in {"index", "rindex", "pack", "unpack"}
           \/ Returns("insert", -1)
    PROVE  AbsStep
<1>1. UNCHANGED Abs!abs
  BY SameText DEF Abs!abs, blob
<1>2. Abs!Refuse
  BY <1>1 DEF Abs!Refuse, Abs!Answers, Returns
<1> QED  BY <1>2 DEF AbsStep, Abs!Next

LEMMA NewText == ASSUME IInv, IInv', New PROVE AbsStep
<1>1. CASE UNCHANGED <<live, blob>> /\ Returns("new", -1)
  BY <1>1, RefusesText DEF IInv
<1>2. CASE live' = TRUE /\ off' = 0 /\ end' = 0 /\ size' = bl_size /\ Returns("new", 0)
  <2>1. (size' > 0) = TRUE
    BY <1>2, AllocAssumption DEF IInv, CallsOK
  <2>2. Text' = <<>>
    BY <1>2, EmptyText DEF IInv
  <2>3. Abs!Appear
    BY <1>2, <2>1, <2>2 DEF New, Abs!Appear, Abs!Answers, Returns
  <2> QED  BY <2>3 DEF AbsStep, Abs!Next
<1> QED  BY <1>1, <1>2 DEF New

LEMMA WrapText == ASSUME IInv, IInv', NEW buf \in Buffers, Wrap(buf) PROVE AbsStep
<1>1. buf \in Seq(Byte)
  BY CallAssumption
<1>2. Text' = buf
  <2>1. Text' \in Seq(Byte) /\ Len(Text') = Len(buf) /\ \A i \in 1..Len(buf) : Text'[i] = base'[i - 1]
    BY NewTextType DEF IInv, Wrap
  <2>2. \A i \in 1..Len(buf) : base'[i - 1] = buf[i]
    <3>1. \A i \in 1..Len(buf) : i - 1 \in 0..(Len(buf) - 1) /\ (i - 1) + 1 = i
      BY <1>1
    <3> QED  BY <3>1 DEF Wrap
  <2> QED  BY <1>1, <2>1, <2>2, SeqEqual
<1>3. (size' > 0) = FALSE
  BY DEF Wrap
<1>4. Abs!Appear
  BY <1>2, <1>3 DEF Wrap, Abs!Appear, Abs!Answers, Returns
<1> QED  BY <1>4 DEF AbsStep, Abs!Next

LEMMA FreeText == ASSUME IInv, IInv', Free PROVE AbsStep
<1>1. Text' = <<>>
  BY EmptyText DEF IInv, Free
<1>2. (size' > 0) = FALSE
  BY DEF Free
<1>3. Abs!Vanish
  BY <1>1, <1>2 DEF Free, Ready, Abs!Vanish, Abs!Answers, Returns
<1> QED  BY <1>3 DEF AbsStep, Abs!Next

(* blob_write fails only where the text ends. *)
LEMMA WriteText == ASSUME IInv, IInv', NEW buf \in Buffers, Write(buf) PROVE AbsStep
<1>1. buf \in Seq(Byte) /\ BlobOK /\ BlobOK' /\ bl_size \in ChunkSizes /\ Len(Text) = end
  BY CallAssumption, TextType DEF IInv, CallsOK
<1>2. CASE WriteSucceeds(buf) /\ Returns("write", Len(buf))
  <2>1. /\ Text' = SubSeq(Text, 1, off) \o buf \o SubSeq(Text, off + Len(buf) + 1, Len(Text))
        /\ off' = off + Len(buf) /\ (size' > 0 <=> size > 0)
        /\ off + Len(buf) <= end \/ size > 0
    BY <1>1, <1>2, WrittenText
  <2>2. Abs!Overwrite(buf)
    BY <1>1, <2>1 DEF Abs!Overwrite, Abs!Before, Abs!From, Abs!InText, Write, Keeps
  <2> QED  BY <1>2, <2>2 DEF AbsStep, Abs!Next, Abs!Answers, Returns
<1>3. CASE WriteFails(buf) /\ Returns("write", -1)
  <2>1. UNCHANGED Abs!abs
    BY <1>1, <1>3, SameText DEF WriteFails, Abs!abs, blob, Write, Keeps
  <2>2. ~Abs!InText(Len(buf))
    BY <1>1, <1>3 DEF WriteFails, Abs!InText, BlobOK
  <2>3. Abs!Refuse
    BY <1>3, <2>1, <2>2 DEF Abs!Refuse, Abs!Answers, Returns
  <2> QED  BY <2>3 DEF AbsStep, Abs!Next
<1> QED  BY <1>2, <1>3 DEF Write

LEMMA ReadText == ASSUME IInv, IInv', NEW buf \in Buffers, Read(Len(buf)) PROVE AbsStep
<1> DEFINE n == Len(buf)
           k == ReadCount(n)
<1>1. n \in Nat /\ BlobOK /\ Len(Text) = end /\ off \in Nat /\ end \in Nat /\ off <= end
  BY CallAssumption, TextType DEF IInv, BlobOK
<1>2. k \in Nat /\ off + k <= end /\ ~ReadFaults(n)
  BY <1>1, ReadCountInside
<1>3. k = IF off + n <= Len(Text) THEN n ELSE Len(Text) - off
  BY <1>1 DEF ReadCount, Min2, Left
<1>4. /\ off' = off + k /\ UNCHANGED <<live, base, end, size>>
      /\ got' = <<Bytes(base, off, k)>> /\ Returns("read", k)
  BY <1>2 DEF Read, Reads, Keeps
<1>5. Text' = Text /\ Bytes(base, off, k) = SubSeq(Text, off + 1, off + k)
  BY <1>1, <1>2, <1>4, SameText, TextPiece
<1> HIDE DEF k
<1>6. Abs!Read(n)
  BY <1>3, <1>4, <1>5 DEF Abs!Read, Abs!InText, Abs!Answers, Returns
<1> QED  BY <1>6 DEF AbsStep, Abs!Next

LEMMA SeekText ==
    ASSUME IInv, NEW whence \in {"SET", "CUR", "END"}, NEW m \in Int, Seek(whence, m)
    PROVE  AbsStep
<1> DEFINE to == m + (CASE whence = "SET" -> 0 [] whence = "CUR" -> off [] whence = "END" -> end)
<1>1. BlobOK /\ Text' = Text /\ Len(Text) = end /\ to \in Int /\ end \in Nat /\ off \in Nat
  BY SameText, TextType DEF IInv, BlobOK, Seek
<1>2. CASE CanSeek(to) /\ off' = to /\ Returns("seek", to)
  <2> HIDE DEF to
  <2>1. to \in 0..Len(Text)
    BY <1>1, <1>2 DEF CanSeek
  <2>2. Abs!Seek(to)
    BY <1>1, <1>2, <2>1 DEF Abs!Seek, Abs!Answers, Returns, Seek, Keeps
  <2> QED  BY <2>1, <2>2 DEF AbsStep, Abs!Next
<1>3. CASE UNCHANGED off /\ Returns("seek", -1)
  BY <1>1, <1>3, RefusesText DEF Seek, Keeps, blob
<1> QED  BY <1>2, <1>3 DEF Seek

LEMMA SearchText == ASSUME IInv, NEW buf, Index(buf) \/ Rindex(buf) PROVE AbsStep
<1>1. BlobOK /\ UNCHANGED <<live, blob>>
  BY DEF IInv, Index, Rindex, Keeps
<1>2. last'.op \in {"index", "rindex"}
  BY DEF Index, Rindex, Returns
<1> QED  BY <1>1, <1>2, RefusesText

LEMMA RegisterText == ASSUME IInv, NEW n, RegisterAlloc(n) PROVE AbsStep
BY RefusesText DEF IInv, RegisterAlloc

(* blob_insert, with room to spare, makes the text longer by the buffer;   *)
(* on a fixed blob it fails.                                               *)
LEMMA InsertText == ASSUME IInv, IInv', NEW buf \in Buffers, CarefulInsert(buf) PROVE AbsStep
<1>0. buf \in Seq(Byte) /\ BlobOK /\ BlobOK' /\ Len(Text) = end
  BY CallAssumption, TextType DEF IInv
<1>1. Len(buf) \in Nat /\ off \in Nat /\ end \in Nat /\ off <= end /\ size \in Nat
  BY <1>0, AllocAssumption DEF BlobOK
<1>2. CASE size = 0
  <2>1. UNCHANGED <<live, blob>> /\ Returns("insert", -1)
    BY <1>0, <1>1, <1>2 DEF CarefulInsert, Insert, Keeps
  <2> QED  BY <1>0, <1>1, <2>1, RefusesText
<1>3. CASE size # 0
  <2>1. end + 2 * Len(buf) <= size /\ Insert(buf)
    BY <1>3 DEF CarefulInsert
  <2>2. /\ size' = size /\ end' = end + Len(buf) /\ off' = off + Len(buf) /\ fault' = "none"
        /\ \A i \in 0..(end' - 1) :
              base'[i] = IF i < off THEN base[i]
                         ELSE IF i < off + Len(buf) THEN buf[i - off + 1] ELSE base[i - Len(buf)]
    BY <1>0, <1>1, <1>3, <2>1, InsertedBytes
  <2>3. Returns("insert", Len(buf)) /\ live' = live
    <3>1. ~ReserveFails(Len(buf)) /\ ~InsertFaults(Len(buf))
      BY <1>0, <1>1, <2>1 DEF ReserveFails, Room, InsertFaults, SizeAfter
    <3> QED  BY <1>3, <2>1, <3>1 DEF Insert, Keeps
  <2>4. PICK q \in Nat : q = off
    BY <1>1
  <2>5. end' = off + Len(buf) + (IF q < end THEN end - q ELSE 0)
    <3>1. (IF q < end THEN end - q ELSE 0) = end - off
      BY <1>1, <2>4
    <3> QED  BY <1>1, <2>2, <3>1
  <2>6. \A i \in 0..(end' - 1) :
           base'[i] = IF i < off THEN base[i]
                      ELSE IF i < off + Len(buf) THEN buf[i - off + 1] ELSE base[i - off - Len(buf) + q]
    <3>1. \A i \in 0..(end' - 1) : i - off - Len(buf) + q = i - Len(buf)
      BY <1>1, <2>4
    <3> QED  BY <2>2, <3>1
  <2>7. off <= q
    BY <1>1, <2>4
  <2>8. Text' = SubSeq(Text, 1, off) \o buf \o SubSeq(Text, q + 1, Len(Text))
    BY <1>0, <2>5, <2>6, <2>7, TextAfter
  <2>9. (size > 0) = TRUE /\ (size' > 0) = TRUE /\ off + 0 = q
    BY <1>1, <1>3, <2>2, <2>4
  <2>10. Abs!Insert(buf)
    BY <2>2, <2>3, <2>9, <2>8 DEF Abs!Insert, Abs!Before, Abs!From, Abs!Answers, Returns
  <2> QED  BY <2>10 DEF AbsStep, Abs!Next
<1> QED  BY <1>2, <1>3

LEMMA DeletedText ==
    ASSUME BlobOK, BlobOK', NEW n \in Nat, off + n <= end, size # 0,
           base' = Move(base, off, off + n, end - (off + n)), end' = end - n
    PROVE  Text' = SubSeq(Text, 1, off) \o SubSeq(Text, off + n + 1, Len(Text))
<1> DEFINE q == off + n
           none == SubSeq(Text, 1, 0)
<1>1. /\ off \in Nat /\ end \in Nat /\ q \in Nat /\ off <= q /\ q <= end
      /\ Text \in Seq(Byte) /\ Len(Text) = end
  BY TextType DEF BlobOK
<1>2. none \in Seq(Byte) /\ Len(none) = 0
  BY <1>1
<1>3. end' = off + Len(none) + (IF q < end THEN end - q ELSE 0)
  <2>1. (IF q < end THEN end - q ELSE 0) = end - q
    BY <1>1
  <2> QED  BY <1>1, <1>2, <2>1
<1>4. \A i \in 0..(end - 1) : i \in DOMAIN base
  <2>1. end \in Nat /\ Capacity \in Nat
    BY AllocAssumption DEF BlobOK, Capacity
  <2> HIDE DEF Capacity
  <2>2. DOMAIN base = 0..(Capacity - 1) /\ end <= Capacity
    BY DEF BlobOK
  <2> QED  BY <2>1, <2>2
<1>5. ASSUME NEW i \in 0..(end' - 1)
      PROVE  base'[i] = IF i < off THEN base[i]
                        ELSE IF i < off + Len(none) THEN none[i - off + 1]
                        ELSE base[i - off - Len(none) + q]
  <2>1. i \in DOMAIN base
    BY <1>1, <1>4
  <2>2. base'[i] = IF off <= i /\ i < off + (end - q) THEN base[i - off + q] ELSE base[i]
    BY <2>1 DEF Move
  <2>3. CASE i < off
    BY <1>1, <2>2, <2>3
  <2>4. CASE ~(i < off)
    <3>1. off <= i /\ i < off + (end - q) /\ ~(i < off + Len(none)) /\ i - off - Len(none) + q = i - off + q
      BY <1>1, <1>2, <2>4
    <3> QED  BY <2>2, <2>4, <3>1
  <2> QED  BY <2>3, <2>4
<1> HIDE DEF q, none
<1>6. Text' = SubSeq(Text, 1, off) \o none \o SubSeq(Text, q + 1, Len(Text))
  BY <1>1, <1>2, <1>3, <1>5, TextAfter
<1>7. none = <<>>
  BY <1>2
<1>8. SubSeq(Text, 1, off) \in Seq(Byte)
  BY <1>1
<1>9. SubSeq(Text, 1, off) \o <<>> = SubSeq(Text, 1, off)
  BY <1>8, ConcatEmptySeq
<1> QED  BY <1>6, <1>7, <1>9 DEF q

LEMMA DeleteText == ASSUME IInv, IInv', NEW buf \in Buffers, Delete(Len(buf)) PROVE AbsStep
<1> DEFINE n == Len(buf)
<1>0. buf \in Seq(Byte) /\ BlobOK /\ BlobOK' /\ Len(Text) = end
  BY CallAssumption, TextType DEF IInv
<1>1. n \in Nat /\ size \in Nat /\ off \in Nat /\ end \in Nat /\ off <= end
  BY <1>0, AllocAssumption DEF BlobOK
<1>2. CASE CanDelete(n)
  <2>1. /\ off + n <= end /\ size # 0 /\ base' = Move(base, off, off + n, end - (off + n)) /\ end' = end - n
        /\ off' = off /\ size' = size /\ got' = <<Bytes(base, off, n)>> /\ Returns("delete", n) /\ live' = live
    BY <1>2 DEF Delete, CanDelete, BytesAfter, Keeps
  <2>2. Text' = SubSeq(Text, 1, off) \o SubSeq(Text, off + n + 1, Len(Text))
    BY <1>0, <1>1, <2>1, DeletedText
  <2>3. Bytes(base, off, n) = SubSeq(Text, off + 1, off + n)
    BY <1>0, <1>1, <2>1, TextPiece
  <2>4. (size > 0) = TRUE /\ (size' > 0) = TRUE
    BY <1>0, <1>1, <2>1
  <2>5. Abs!Delete(n)
    BY <1>0, <1>1, <2>1, <2>2, <2>3, <2>4 DEF Abs!Delete, Abs!InText, Abs!Before, Abs!From, Abs!Answers, Returns
  <2> QED  BY <2>5 DEF AbsStep, Abs!Next
<1>3. CASE ~CanDelete(n)
  <2>1. UNCHANGED Abs!abs /\ Returns("delete", -1)
    BY <1>0, <1>1, <1>3, SameText DEF Delete, Abs!abs, blob, Keeps
  <2>2. ~Abs!InText(Len(buf)) \/ ~(size > 0)
    BY <1>0, <1>1, <1>3 DEF CanDelete, Abs!InText
  <2>3. Abs!Refuse
    BY <2>1, <2>2 DEF Abs!Refuse, Abs!Answers, Returns
  <2> QED  BY <2>3 DEF AbsStep, Abs!Next
<1> QED  BY <1>2, <1>3

(* The steps of a format: a directive is packed over the text or read out  *)
(* of it.                                                                  *)
LEMMA StartText ==
    ASSUME IInv, NEW op \in {"pack", "unpack"}, NEW f, StartFormat(op, f)
    PROVE  AbsStep
<1>1. last'.op \in {"pack", "unpack"}
  BY DEF StartFormat, Returns
<1> QED  BY <1>1, RefusesText DEF IInv, StartFormat

LEMMA AbandonText ==
    ASSUME IInv, NEW op \in {"pack", "unpack"}, UNCHANGED blob, Abandon(op)
    PROVE  AbsStep
<1>1. last'.op \in {"pack", "unpack"}
  BY DEF Abandon, Returns
<1> QED  BY <1>1, RefusesText DEF IInv, Abandon

LEMMA FinishText == ASSUME IInv, FinishFormat PROVE AbsStep
<1>1. UNCHANGED <<live, blob, last, got>> /\ Text' = Text
  BY SameText DEF IInv, FinishFormat, blob
<1> QED  BY <1>1 DEF AbsStep, Abs!abs, blob

LEMMA PackedText ==
    ASSUME IInv, IInv', NEW buf \in Seq(Byte), last.op = "pack", off' = off + Len(buf),
           Text' = SubSeq(Text, 1, off) \o buf \o SubSeq(Text, off + Len(buf) + 1, Len(Text)),
           size' > 0 <=> size > 0, off + Len(buf) <= end \/ size > 0, UNCHANGED <<live, last, got>>
    PROVE  AbsStep
<1> DEFINE n == Len(buf)
           q == off + n
           r == SubSeq(Text, 1, off) \o buf \o SubSeq(Text, q + 1, Len(Text))
<1>1. Text \in Seq(Byte) /\ Len(Text) = end /\ off \in Nat /\ off \in 0..Len(Text) /\ n \in Nat /\ q \in Nat /\ off <= q
  BY TextType DEF IInv, BlobOK
<1> HIDE DEF q
<1>2. Spliced(r, Text, buf, off, q)
  BY <1>1, Splice
<1>3. r = Text'
  BY DEF q
<1> HIDE DEF r
<1>4. off + n <= Len(r) /\ Len(r) \in Nat /\ \A i \in 1..n : off + i \in 1..Len(r) /\ ~(off + i <= off) /\ off + i <= off + Len(buf) /\ (off + i) - off = i
  <2>1. Len(r) = off + n + (IF q < Len(Text) THEN Len(Text) - q ELSE 0)
    BY <1>2 DEF Spliced
  <2>2. Len(r) \in Nat /\ Len(r) >= off + n
    <3>1. CASE q < Len(Text)
      BY <1>1, <2>1, <3>1
    <3>2. CASE ~(q < Len(Text))
      BY <1>1, <2>1, <3>2
    <3> QED  BY <3>1, <3>2
  <2> QED  BY <1>1, <2>2
<1>5. \A i \in 1..n : r[off + i] = buf[i]
  BY <1>2, <1>4 DEF Spliced
<1>6. SubSeq(r, off + 1, off + n) = buf
  BY <1>1, <1>2, <1>4, <1>5, Piece DEF Spliced
<1>7. Abs!InText(n) \/ size > 0
  BY <1>1 DEF Abs!InText
<1>8. Abs!Overwrite(buf)
  BY <1>7 DEF Abs!Overwrite, Abs!Before, Abs!From
<1>9. Abs!PackDirective
  <2>1. off' >= off /\ off' = off + n
    BY <1>1
  <2>2. SubSeq(Text', off + 1, off') = buf
    BY <1>3, <1>6, <2>1
  <2> QED  BY <1>8, <2>1, <2>2 DEF Abs!PackDirective
<1> QED  BY <1>9 DEF AbsStep, Abs!Next

LEMMA PackLiteralText == ASSUME IInv, IInv', PackLiteral PROVE AbsStep
<1> DEFINE grow == off + 1 - end
           buf == This.arg
<1>1. buf \in Seq(Byte) /\ Len(buf) = 1 /\ last.op = "pack"
  BY ThisType DEF PackLiteral, IInv, Directive, Width, Unfinished, Interpreting
<1>2. BlobOK /\ BlobOK' /\ bl_size \in ChunkSizes
  BY DEF IInv, CallsOK
<1>3. off \in Nat /\ end \in Nat /\ off <= end
  BY <1>2 DEF BlobOK
<1>4. CASE off + 1 < end /\ base' = Put(base, off, buf) /\ off' = off + 1 /\ UNCHANGED <<end, size>> /\ Continue
  <2>1. WriteSucceeds(buf)
    BY <1>1, <1>3, <1>4 DEF WriteSucceeds
  <2>2. UNCHANGED <<live, last, got>>
    BY <1>4 DEF PackLiteral, Continue
  <2> HIDE DEF buf
  <2> QED  BY <1>1, <1>2, <2>1, <2>2, WrittenText, PackedText
<1>5. CASE /\ off + 1 >= end /\ ReserveSucceeds(grow) /\ base' = Put(BaseAfter(grow), off, buf)
           /\ size' = SizeAfter(grow) /\ off' = off + 1 /\ end' = end + grow /\ Continue
  <2>1. grow \in Nat /\ off + Len(buf) = end + grow /\ Len(buf) > 0 /\ off' = off + Len(buf)
    BY <1>1, <1>3, <1>5
  <2>2. UNCHANGED <<live, last, got>>
    BY <1>5 DEF PackLiteral, Continue
  <2> HIDE DEF buf, grow
  <2>3. /\ Text' = SubSeq(Text, 1, off) \o buf \o SubSeq(Text, off + Len(buf) + 1, Len(Text))
        /\ size > 0 /\ size' > 0
    BY <1>1, <1>2, <1>5, <2>1, GrownText
  <2> QED  BY <1>1, <2>1, <2>2, <2>3, PackedText
<1>6. CASE UNCHANGED blob /\ Abandon("pack")
  BY <1>6, AbandonText
<1> QED  BY <1>4, <1>5, <1>6 DEF PackLiteral

LEMMA PackConversionText == ASSUME IInv, IInv', PackConversion PROVE AbsStep
<1>1. Converted(This) \in Seq(Byte) /\ last.op = "pack"
  BY ThisType, ConvertedType DEF PackConversion, IInv, Unfinished, Interpreting
<1>2. CASE WriteSucceeds(Converted(This)) /\ Continue
  <2>1. UNCHANGED <<live, last, got>> /\ BlobOK /\ BlobOK' /\ bl_size \in ChunkSizes
    BY <1>2 DEF PackConversion, Continue, IInv, CallsOK
  <2> QED  BY <1>1, <1>2, <2>1, WrittenText, PackedText
<1>3. CASE WriteFails(Converted(This)) /\ Abandon("pack")
  BY <1>3, AbandonText DEF WriteFails
<1> QED  BY <1>2, <1>3 DEF PackConversion

(* What a directive reads is a piece of the text, in either byte order.    *)
LEMMA UnpackedText ==
    ASSUME IInv, last.op = "unpack", off' \in off..end, UNCHANGED <<live, base, end, size>>,
           \/ got' = got
           \/ got' = Append(got, SubSeq(Text, off + 1, off'))
           \/ got' = Append(got, Reversed(SubSeq(Text, off + 1, off'))),
           Continue \/ Abandon("unpack")
    PROVE  AbsStep
<1>1. Text' = Text /\ Len(Text) = end
  BY SameText, TextType DEF IInv
<1>2. last' = last \/ Abs!Answers("unpack", -1)
  BY DEF Continue, Abandon, Returns, Abs!Answers
<1>3. Abs!UnpackDirective
  BY <1>1, <1>2 DEF Abs!UnpackDirective, Reversed
<1> QED  BY <1>3 DEF AbsStep, Abs!Next

LEMMA UnpackLiteralText == ASSUME IInv, off < end, UnpackLiteral PROVE AbsStep
<1>1. off \in Nat /\ end \in Nat /\ off < Capacity /\ Capacity \in Nat
  BY AllocAssumption DEF IInv, BlobOK, Capacity
<1>2. off' = off + 1 /\ UNCHANGED <<base, end, size, got>> /\ (Continue \/ Abandon("unpack"))
  <2> HIDE DEF Capacity
  <2> QED  BY <1>1 DEF UnpackLiteral
<1>3. last.op = "unpack" /\ live' = live /\ off' \in off..end
  BY <1>1, <1>2 DEF UnpackLiteral, Unfinished, Interpreting, Continue, Abandon
<1> QED  BY <1>2, <1>3, UnpackedText

LEMMA UnpackConversionText == ASSUME IInv, UnpackConversion PROVE AbsStep
<1> DEFINE w == Width(This)
           k == ReadCount(w)
<1>1. w \in Nat
  BY ThisType DEF UnpackConversion, IInv, Directive, Width
<1>2. k \in Nat /\ off + k <= end /\ ~ReadFaults(w) /\ off \in Nat /\ end \in Nat
  BY <1>1, ReadCountInside DEF IInv, BlobOK
<1>3. /\ off' = off + k /\ UNCHANGED <<base, end, size>> /\ (Continue \/ Abandon("unpack"))
      /\ got' = Append(got, NetworkOrder(This.spec, Bytes(base, off, k))) \/ got' = got
  BY <1>2 DEF UnpackConversion, Reads
<1>4. Bytes(base, off, k) = SubSeq(Text, off + 1, off + k)
  BY <1>2, TextPiece DEF IInv
<1>5. last.op = "unpack" /\ live' = live
  BY <1>3 DEF UnpackConversion, Unfinished, Interpreting, Continue, Abandon
<1> HIDE DEF k
<1>6. off' \in off..end
  BY <1>2, <1>3
<1> QED  BY <1>3, <1>4, <1>5, <1>6, UnpackedText DEF NetworkOrder

(* The NUL that ends a string is one of the bytes read.                    *)
LEMMA UnpackStringText ==
    ASSUME IInv, Unfinished("unpack"), StringThere(This), UnpackString
    PROVE  AbsStep
<1>1. PICK i \in Nat :
         /\ off + i + 1 <= end /\ off' = off + i + 1 /\ MayBeNul(i)
         /\ got' = Append(got, Append(Bytes(base, off, i), Nul))
         /\ UNCHANGED <<base, end, size>> /\ Continue
  BY StringFound
<1>2. BlobOK /\ off \in Nat /\ end \in Nat
  BY DEF IInv, BlobOK
<1>3. base[off + i] = Nul
  <2>1. off + i \in 0..(end - 1)
    BY <1>1, <1>2
  <2> QED  BY <1>1, <1>2, <2>1 DEF MayBeNul, BlobOK
<1>4. Append(Bytes(base, off, i), Nul) = Bytes(base, off, i + 1)
  <2>1. Bytes(base, off, i) \in Item /\ Bytes(base, off, i + 1) \in Item
    BY <1>1, <1>2, BytesType
  <2>2. Bytes(base, off, i) \in Seq(Cell) /\ Bytes(base, off, i + 1) \in Seq(Cell) /\ Nul \in Cell
    BY <2>1, ByteAssumption DEF Item, Cell
  <2>3. Len(Bytes(base, off, i)) = i /\ Len(Bytes(base, off, i + 1)) = i + 1
    BY <2>2 DEF Bytes
  <2>4. \A j \in 1..i : Bytes(base, off, i)[j] = base[off + j - 1]
    BY DEF Bytes
  <2>5. \A j \in 1..(i + 1) : Bytes(base, off, i + 1)[j] = base[off + j - 1]
    BY DEF Bytes
  <2> DEFINE short == Bytes(base, off, i)
             long == Bytes(base, off, i + 1)
  <2> HIDE DEF short, long
  <2>6. /\ Append(short, Nul) \in Seq(Cell) /\ Len(Append(short, Nul)) = i + 1
        /\ \A j \in 1..i : Append(short, Nul)[j] = short[j]
        /\ Append(short, Nul)[i + 1] = Nul
    BY <2>2, <2>3 DEF short
  <2>7. ASSUME NEW j \in 1..(i + 1) PROVE Append(short, Nul)[j] = long[j]
    <3>1. CASE j = i + 1
      <4>1. off + j - 1 = off + i
        BY <1>2, <3>1
      <4> QED  BY <1>3, <2>5, <2>6, <3>1, <4>1 DEF long
    <3>2. CASE j # i + 1
      <4>1. j \in 1..i
        BY <3>2
      <4> QED  BY <2>4, <2>5, <2>6, <4>1 DEF short, long
    <3> QED  BY <3>1, <3>2
  <2>8. Append(short, Nul) = long
    BY <2>2, <2>3, <2>6, <2>7, SeqEqual DEF long
  <2> QED  BY <2>8 DEF short, long
<1>5. Bytes(base, off, i + 1) = SubSeq(Text, off + 1, off')
  <2>1. off' = off + (i + 1) /\ off + (i + 1) <= end /\ i + 1 \in Nat
    BY <1>1, <1>2
  <2> QED  BY <1>2, <2>1, TextPiece
<1>6. last.op = "unpack" /\ live' = live /\ off' \in off..end
  BY <1>1, <1>2 DEF Unfinished, Interpreting, Continue
<1> QED  BY <1>1, <1>4, <1>5, <1>6, UnpackedText

LEMMA TextStep == IInv /\ IInv' /\ [CarefulNext]_vars => AbsStep
<1> SUFFICES ASSUME IInv, IInv', [CarefulNext]_vars PROVE AbsStep
  OBVIOUS
<1>1. CASE New
  BY <1>1, NewText
<1>2. CASE Free
  BY <1>2, FreeText
<1>3. CASE \E n \in ChunkSizes : RegisterAlloc(n)
  BY <1>3, RegisterText
<1>4. ASSUME NEW buf \in Buffers,
             \/ Wrap(buf) \/ Write(buf) \/ Index(buf) \/ Rindex(buf)
             \/ Read(Len(buf)) \/ Delete(Len(buf)) \/ CarefulInsert(buf)
      PROVE  AbsStep
  BY <1>4, WrapText, WriteText, SearchText, ReadText, DeleteText, InsertText
<1>5. CASE \E whence \in {"SET", "CUR", "END"}, n \in Offsets : Seek(whence, n)
  <2>1. Offsets \subseteq Int
    BY AllocAssumption DEF Offsets
  <2> QED  BY <1>5, <2>1, SeekText
<1>6. CASE \E f \in Formats : StartFormat("pack", f) \/ StartFormat("unpack", f)
  BY <1>6, StartText
<1>7. CASE FormatStep
  BY <1>7, AbandonText, PackLiteralText, PackConversionText, FinishText DEF FormatStep, RefuseDirective
<1>8. CASE CarefulUnpack
  BY <1>8, UnpackLiteralText, UnpackConversionText, UnpackStringText DEF CarefulUnpack
<1>9. CASE UNCHANGED vars
  <2>1. UNCHANGED Abs!abs
    BY <1>9, SameText DEF IInv, vars, blob, Abs!abs
  <2> QED  BY <1>9, <2>1 DEF vars, AbsStep
<1> QED
  BY <1>1, <1>2, <1>3, <1>4, <1>5, <1>6, <1>7, <1>8, <1>9 DEF CarefulNext, PlainCall

(* What a careful client sees is a text with a position in it: every call  *)
(* but a format, and every directive of a format, does its whole effect on *)
(* the text and says so, or says that it failed and leaves text and        *)
(* position alone (a format that fails keeps what the directives before    *)
(* did, blob.c:172); the allocation never shows.                           *)
THEOREM CarefulImplementsText == CarefulSpec => ImplementsText
<1>1. Init => Abs!Init
  <2> SUFFICES ASSUME Init PROVE Abs!Init
    OBVIOUS
  <2>1. Text = <<>>
    BY InitIInv, TextType DEF Init, IInv
  <2>2. (size > 0) = FALSE
    BY DEF Init
  <2> QED  BY <2>1, <2>2 DEF Init, Abs!Init
<1>2. IInv /\ IInv' /\ [CarefulNext]_vars => [Abs!Next]_<<Abs!abs, last, got>>
  BY TextStep DEF AbsStep
<1> QED  BY <1>1, <1>2, CarefulInv, PTL DEF CarefulSpec, ImplementsText, Abs!Spec
-----------------------------------------------------------------------------
(* Any client.  No call touches the place or the number of a fixed blob's  *)
(* bytes: whatever brought the cursor where it is, only a growable blob    *)
(* passes blob_reserve, blob_insert and blob_delete.                       *)
Sane ==
    /\ off \in Nat /\ end \in Nat /\ bl_size \in ChunkSizes
    /\ fmt \in Seq(Directive) /\ next \in Nat

Fixed == size = 0 => size' = 0 /\ end' = end /\ DOMAIN base' = DOMAIN base

LEMMA ThisSane == ASSUME Sane, NEW op, Unfinished(op) PROVE This \in Directive
BY DEF Sane, Unfinished, Interpreting, Directives, This

LEMMA WriteSane ==
    ASSUME Sane, NEW buf \in Seq(Byte), WriteSucceeds(buf)
    PROVE  off' \in Nat /\ end' \in Nat /\ Fixed
<1> DEFINE grow == off + Len(buf) - end
<1>1. off \in Nat /\ end \in Nat /\ Len(buf) \in Nat /\ off' = off + Len(buf)
  BY DEF Sane, WriteSucceeds
<1>2. CASE grow <= 0 /\ base' = Put(base, off, buf) /\ UNCHANGED <<end, size>>
  BY <1>1, <1>2 DEF Fixed, Put
<1>3. CASE grow > 0 /\ ReserveSucceeds(grow) /\ end' = end + grow
  BY <1>1, <1>3 DEF Fixed, ReserveSucceeds, Room
<1> QED  BY <1>2, <1>3 DEF WriteSucceeds

LEMMA ReadSane ==
    ASSUME Sane, NEW n \in Nat, ~ReadFaults(n), Reads(n)
    PROVE  off' \in Nat /\ end' \in Nat /\ Fixed
BY DEF Sane, ReadFaults, Reads, ReadCount, Min2, Left, Fixed

(* The calls that are one step. *)
LEMMA CallSane ==
    ASSUME Sane, NEW buf \in Buffers,
           Write(buf) \/ Index(buf) \/ Rindex(buf) \/ Read(Len(buf)) \/ Delete(Len(buf)) \/ Insert(buf)
    PROVE  off' \in Nat /\ end' \in Nat /\ Fixed
<1>1. buf \in Seq(Byte) /\ Len(buf) \in Nat /\ off \in Nat /\ end \in Nat
  BY CallAssumption DEF Sane
<1>2. CASE Write(buf)
  BY <1>1, <1>2, WriteSane DEF Write, WriteFails, Fixed, blob
<1>3. CASE Index(buf) \/ Rindex(buf)
  BY <1>1, <1>3 DEF Index, Rindex, Fixed, blob
<1>4. CASE Read(Len(buf))
  BY <1>1, <1>4, ReadSane DEF Read, Faults, Fixed, blob
<1>5. CASE Delete(Len(buf))
  BY <1>1, <1>5 DEF Delete, CanDelete, Fixed, blob
<1>6. CASE Insert(buf)
  BY <1>1, <1>6 DEF Insert, Faults, Fixed, blob
<1> QED  BY <1>2, <1>3, <1>4, <1>5, <1>6

LEMMA SeekSane ==
    ASSUME Sane, NEW whence \in {"SET", "CUR", "END"}, NEW m \in Int, Seek(whence, m)
    PROVE  off' \in Nat /\ end' \in Nat /\ Fixed
<1>1. m + (CASE whence = "SET" -> 0 [] whence = "CUR" -> off [] whence = "END" -> end) \in Int
  BY DEF Sane
<1> QED  BY <1>1 DEF Sane, Seek, CanSeek, Fixed

LEMMA PackSane ==
    ASSUME Sane, PackLiteral \/ PackConversion
    PROVE  off' \in Nat /\ end' \in Nat /\ Fixed
<1>1. off \in Nat /\ end \in Nat /\ This \in Directive
  BY ThisSane DEF Sane, PackLiteral, PackConversion
<1>2. CASE PackLiteral
  <2> DEFINE grow == off + 1 - end
  <2>1. CASE off' = off + 1 /\ UNCHANGED <<end, size>> /\ base' = Put(base, off, This.arg)
    BY <1>1, <2>1 DEF Fixed, Put
  <2>2. CASE off + 1 >= end /\ ReserveSucceeds(grow) /\ off' = off + 1 /\ end' = end + grow
    BY <1>1, <2>2 DEF Fixed, ReserveSucceeds, Room
  <2>3. CASE UNCHANGED blob
    BY <1>1, <2>3 DEF Fixed, blob
  <2> QED  BY <1>2, <2>1, <2>2, <2>3 DEF PackLiteral
<1>3. CASE PackConversion
  <2>1. Converted(This) \in Seq(Byte)
    BY <1>1, <1>3, ConvertedType DEF PackConversion
  <2> QED  BY <1>1, <1>3, <2>1, WriteSane DEF PackConversion, WriteFails, Fixed, blob
<1> QED  BY <1>2, <1>3

LEMMA UnpackSane ==
    ASSUME Sane, UnpackStep
    PROVE  off' \in Nat /\ end' \in Nat /\ Fixed
<1>1. off \in Nat /\ end \in Nat /\ This \in Directive
  BY ThisSane DEF Sane, UnpackStep, UnpackLiteral, UnpackConversion, UnpackString
<1>2. CASE UnpackLiteral
  BY <1>1, <1>2 DEF UnpackLiteral, Faults, Fixed, blob
<1>3. CASE UnpackConversion
  <2>1. Width(This) \in Nat
    BY <1>1 DEF Directive, Width
  <2> QED  BY <1>1, <1>3, <2>1, ReadSane DEF UnpackConversion, Faults, Fixed, blob
<1>4. CASE UnpackString
  <2>1. This.ulen \in Nat
    BY <1>1 DEF Directive
  <2> QED  BY <1>1, <1>4, <2>1 DEF UnpackString, Faults, Fixed, blob
<1> QED  BY <1>2, <1>3, <1>4 DEF UnpackStep

(* What a call does to the chunk and to the format keeps both in range.    *)
InRange == bl_size' \in ChunkSizes /\ fmt' \in Seq(Directive) /\ next' \in Nat

LEMMA FormatSane ==
    ASSUME Sane, NEW op, Keeps \/ Continue \/ Abandon(op) \/ Faults(op)
    PROVE  InRange
<1>1. <<>> \in Seq(Directive)
  OBVIOUS
<1>2. CASE Keeps
  BY <1>1, <1>2 DEF Sane, Keeps, NoFormat, InRange
<1>3. CASE Continue
  BY <1>3 DEF Sane, Continue, InRange
<1>4. CASE Abandon(op)
  BY <1>4 DEF Sane, Abandon, InRange
<1>5. CASE Faults(op)
  BY <1>5 DEF Sane, Faults, format, InRange
<1> QED  BY <1>2, <1>3, <1>4, <1>5

LEMMA NextSane ==
    ASSUME Sane, [Next]_vars
    PROVE  Sane' /\ (live /\ live' => Fixed)
<1>1. CASE New \/ Free \/ (\E n \in ChunkSizes : RegisterAlloc(n)) \/ (\E buf \in Buffers : Wrap(buf))
  <2>1. bl_size \in Nat /\ \A buf \in Buffers : Len(buf) \in Nat
    BY AllocAssumption, CallAssumption DEF Sane
  <2>2. <<>> \in Seq(Directive)
    OBVIOUS
  <2>3. Sane'
    <3>1. CASE New
      BY <2>1, <2>2, <3>1 DEF Sane, New, NoFormat, blob
    <3>2. CASE Free
      BY <2>2, <3>2 DEF Sane, Free, NoFormat
    <3>3. CASE \E n \in ChunkSizes : RegisterAlloc(n)
      BY <2>2, <3>3 DEF Sane, RegisterAlloc, NoFormat, blob
    <3>4. CASE \E buf \in Buffers : Wrap(buf)
      BY <2>1, <2>2, <3>4 DEF Sane, Wrap, NoFormat
    <3> QED  BY <1>1, <3>1, <3>2, <3>3, <3>4
  <2>4. live /\ live' => Fixed
    BY <1>1 DEF New, Free, RegisterAlloc, Wrap, Fixed, blob, Ready, Idle
  <2> QED  BY <2>3, <2>4
<1>2. ASSUME NEW buf \in Buffers,
             Write(buf) \/ Index(buf) \/ Rindex(buf) \/ Read(Len(buf)) \/ Delete(Len(buf)) \/ Insert(buf)
      PROVE  Sane' /\ Fixed
  <2>1. off' \in Nat /\ end' \in Nat /\ Fixed
    BY <1>2, CallSane
  <2>2. Keeps \/ \E kind : Faults(kind)
    BY <1>2 DEF Write, Index, Rindex, Read, Delete, Insert
  <2> QED  BY <2>1, <2>2, FormatSane DEF Sane, InRange
<1>3. CASE \E whence \in {"SET", "CUR", "END"}, n \in Offsets : Seek(whence, n)
  <2>1. Offsets \subseteq Int
    BY AllocAssumption DEF Offsets
  <2>2. off' \in Nat /\ end' \in Nat /\ Fixed
    BY <1>3, <2>1, SeekSane
  <2> QED  BY <1>3, <2>2, FormatSane DEF Seek, Sane, InRange
<1>4. CASE (\E f \in Formats : StartFormat("pack", f) \/ StartFormat("unpack", f)) \/ FinishFormat
  BY <1>4, CallAssumption DEF StartFormat, FinishFormat, Sane, Fixed, blob
<1>5. CASE RefuseDirective("pack") \/ RefuseDirective("unpack")
  <2>1. UNCHANGED blob /\ \E op : Abandon(op)
    BY <1>5 DEF RefuseDirective
  <2> QED  BY <2>1, FormatSane DEF Sane, Fixed, blob, InRange
<1>6. CASE PackLiteral \/ PackConversion \/ UnpackStep
  <2>1. off' \in Nat /\ end' \in Nat /\ Fixed
    BY <1>6, PackSane, UnpackSane
  <2>2. (\E op : Continue \/ Abandon(op)) \/ \E kind : Faults(kind)
    BY <1>6 DEF PackLiteral, PackConversion, UnpackStep, UnpackLiteral, UnpackConversion, UnpackString
  <2> QED  BY <2>1, <2>2, FormatSane DEF Sane, InRange
<1>7. CASE UNCHANGED vars
  BY <1>7 DEF vars, blob, format, Sane, Fixed
<1> QED  BY <1>1, <1>2, <1>3, <1>4, <1>5, <1>6, <1>7 DEF Next, PlainCall, FormatStep

(* The bytes of a fixed blob stay where the client put them and keep their *)
(* number, whatever is called on it, careful or not.                       *)
THEOREM FixedBytesStay == Spec => FixedStays
<1>1. Init => Sane
  BY DEF Init, Sane
<1>2. Sane /\ [Next]_vars => Sane'
  BY NextSane
<1>3. Sane /\ [Next]_vars =>
         [live /\ live' /\ size = 0 => size' = 0 /\ end' = end /\ DOMAIN base' = DOMAIN base]_vars
  BY NextSane DEF Fixed
<1> QED  BY <1>1, <1>2, <1>3, PTL DEF Spec, FixedStays

(* What holds of any client holds of a careful one.                        *)
THEOREM CarefulIsAny == CarefulSpec => Spec
<1>1. [CarefulNext]_vars => [Next]_vars
  BY DEF CarefulNext, Next, CarefulInsert, CarefulUnpack, UnpackStep
<1> QED  BY <1>1, PTL DEF CarefulSpec, Spec
=============================================================================
