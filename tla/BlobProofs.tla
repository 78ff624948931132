----------------------------- MODULE BlobProofs -----------------------------
(* Proofs about Blob, for every allocator, chunk size, buffer and format.  *)
EXTENDS Blob, TLAPS

Cell == Byte \cup {Junk}

(* What must hold of the four fields for any call to keep them so.         *)
BlobOK ==
    /\ off \in Nat /\ end \in Nat /\ size \in 0..MaxAlloc
    /\ base \in [0..(Capacity - 1) -> Cell]
    /\ off <= end /\ end <= Capacity
    /\ \A i \in 0..(end - 1) : base[i] # Junk

CallsOK ==
    /\ live \in BOOLEAN
    /\ bl_size \in ChunkSizes
    /\ fmt \in Seq(Directive) /\ next \in Nat /\ start \in Nat
    /\ got \in Seq(Item)
    /\ packed \in [at : Int, fmt : Seq(Directive)]
    /\ last \in [op : Calls, ret : Int]
    /\ fault = "none"

IInv == BlobOK /\ CallsOK

(* The bytes a directive writes are bytes. *)
LEMMA ConvertedType ==
    ASSUME NEW d \in Directive, ~Refused(d, d.plen, TRUE)
    PROVE  Converted(d) \in Seq(Byte)
<1>1. CASE d.spec = "b"
  BY <1>1 DEF Directive, Converted
<1>2. CASE d.spec = "s" /\ d.plen > 0
  BY <1>2, ByteAssumption DEF Directive, Converted
<1>3. CASE d.spec \in {"D", "H"}
  BY <1>3 DEF Directive, Converted, NetworkOrder, Reversed
<1>4. CASE d.spec \notin {"b", "D", "H"} /\ ~(d.spec = "s" /\ d.plen > 0)
  BY <1>4 DEF Directive, Converted, NetworkOrder
<1>5. QED  BY <1>1, <1>2, <1>3, <1>4

(* What realloc and memcpy do to memory.                                   *)
LEMMA ReallocType ==
    ASSUME NEW k \in Nat, NEW n \in Nat, k <= n, NEW mem \in [0..(k - 1) -> Cell]
    PROVE  /\ Realloc(mem, n) \in [0..(n - 1) -> Cell]
           /\ \A i \in 0..(k - 1) : Realloc(mem, n)[i] = mem[i]
<1>1. DOMAIN mem = 0..(k - 1)
  OBVIOUS
<1>2. \A i \in 0..(n - 1) : (IF i \in DOMAIN mem THEN mem[i] ELSE Junk) \in Cell
  BY <1>1 DEF Cell
<1>3. \A i \in 0..(k - 1) : i \in 0..(n - 1)
  OBVIOUS
<1>4. QED  BY <1>1, <1>2, <1>3 DEF Realloc

LEMMA PutType ==
    ASSUME NEW n \in Nat, NEW mem \in [0..(n - 1) -> Cell],
           NEW at \in Nat, NEW buf \in Seq(Byte)
    PROVE  /\ Put(mem, at, buf) \in [0..(n - 1) -> Cell]
           /\ \A i \in 0..(n - 1) : Put(mem, at, buf)[i] =
                 IF at <= i /\ i < at + Len(buf) THEN buf[i - at + 1] ELSE mem[i]
<1>1. \A i \in 0..(n - 1) :
         (IF at <= i /\ i < at + Len(buf) THEN buf[i - at + 1] ELSE mem[i]) \in Cell
  BY DEF Cell
<1>2. QED  BY <1>1 DEF Put

(* Rounding up to the allocation chunk never loses room.                   *)
LEMMA NewSizeRoom ==
    ASSUME NEW need \in Nat, bl_size \in ChunkSizes
    PROVE  NewSize(need) \in Nat /\ NewSize(need) >= need
<1>1. bl_size \in Nat /\ bl_size > 0
  BY AllocAssumption
<1>2. need % bl_size \in 0..(bl_size - 1)
  BY <1>1
<1>3. QED  BY <1>1, <1>2 DEF NewSize

(* Writing over the last bytes and past them, after blob_reserve made room *)
(* for what is past them, keeps the fields in order and leaves no gap.     *)
LEMMA GrowKeeps ==
    ASSUME BlobOK, bl_size \in ChunkSizes, NEW buf \in Seq(Byte), Len(buf) > 0,
           NEW grow \in Nat, grow = off + Len(buf) - end,
           ReserveSucceeds(grow),
           base' = Put(BaseAfter(grow), off, buf),
           size' = SizeAfter(grow), end' = end + grow, off' = off + Len(buf)
    PROVE  BlobOK'
<1> DEFINE n == Len(buf)
<1>1. n \in Nat /\ n > 0 /\ MaxAlloc \in Nat
  BY AllocAssumption
<1>2. \A i \in 1..n : buf[i] \in Byte /\ buf[i] # Junk
  BY ByteAssumption
<1>3. /\ grow >= 0 /\ grow = off + n - end /\ ReserveSucceeds(grow)
      /\ base' = Put(BaseAfter(grow), off, buf)
      /\ size' = SizeAfter(grow) /\ end' = end + grow /\ off' = off + n
  OBVIOUS
<1>4. /\ size' \in 0..MaxAlloc /\ end' <= size' /\ size <= size' /\ size' > 0
  <2> DEFINE need == end + grow
  <2>1. need \in Nat /\ need > 0 /\ off \in Nat /\ end \in Nat /\ size \in 0..MaxAlloc
    BY <1>1, <1>3 DEF BlobOK
  <2>2. NewSize(need) \in Nat /\ NewSize(need) >= need
    BY <2>1, NewSizeRoom
  <2>3. QED
    BY <1>1, <1>3, <2>1, <2>2 DEF ReserveSucceeds, SizeAfter, Room
<1>5. BaseAfter(grow) \in [0..(size' - 1) -> Cell]
      /\ \A i \in 0..(end - 1) : BaseAfter(grow)[i] = base[i]
  <2>1. CASE Room(grow)
    BY <1>1, <1>3, <1>4, <2>1 DEF BlobOK, BaseAfter, SizeAfter, Capacity, Cell
  <2>2. CASE ~Room(grow)
    <3>1. BaseAfter(grow) = Realloc(base, size')
      BY <1>3, <2>2 DEF BaseAfter
    <3>2. size > 0
      BY <1>1, <1>3, <2>2 DEF ReserveSucceeds, BlobOK
    <3>3. /\ base \in [0..(size - 1) -> Cell]
          /\ end <= size /\ size \in Nat /\ size' \in Nat /\ size <= size'
      BY <1>1, <1>4, <3>2 DEF BlobOK, Capacity
    <3>4. QED
      <4>1. end \in Nat
        BY DEF BlobOK
      <4>2. /\ Realloc(base, size') \in [0..(size' - 1) -> Cell]
            /\ \A i \in 0..(size - 1) : Realloc(base, size')[i] = base[i]
        BY <3>3, ReallocType
      <4>3. \A i \in 0..(end - 1) : i \in 0..(size - 1)
        BY <3>3, <4>1
      <4>4. QED  BY <3>1, <4>2, <4>3
  <2>3. QED  BY <2>1, <2>2
<1>6. base' \in [0..(size' - 1) -> Cell]
      /\ \A i \in 0..(size' - 1) : base'[i] =
            IF off <= i /\ i < off + n THEN buf[i - off + 1] ELSE BaseAfter(grow)[i]
  <2>1. size' \in Nat /\ off \in Nat
    BY <1>1, <1>4 DEF BlobOK
  <2> DEFINE m == BaseAfter(grow)
             k == size'
  <2>2. m \in [0..(k - 1) -> Cell] /\ k \in Nat
    BY <1>5, <2>1
  <2> HIDE DEF m, k
  <2>3. /\ Put(m, off, buf) \in [0..(k - 1) -> Cell]
        /\ \A i \in 0..(k - 1) : Put(m, off, buf)[i] =
              IF off <= i /\ i < off + Len(buf) THEN buf[i - off + 1] ELSE m[i]
    BY <2>1, <2>2, PutType
  <2>4. QED  BY <1>3, <2>3 DEF m, k
<1>7. \A i \in 0..(end' - 1) : base'[i] # Junk
  <2> SUFFICES ASSUME NEW i \in 0..(end' - 1) PROVE base'[i] # Junk
    OBVIOUS
  <2>1. /\ off \in Nat /\ end \in Nat /\ size' \in Nat /\ i \in Nat
        /\ off <= end /\ end' = off + n /\ i < size' /\ i < off + n
    BY <1>1, <1>3, <1>4 DEF BlobOK
  <2>2. CASE off <= i
    <3>1. i - off + 1 \in 1..n
      BY <1>1, <2>1, <2>2
    <3>2. i \in 0..(size' - 1) /\ off <= i /\ i < off + n
      BY <2>1, <2>2
    <3>3. base'[i] = buf[i - off + 1]
      BY <1>6, <3>2
    <3>4. QED  BY <1>2, <3>1, <3>3
  <2>3. CASE ~(off <= i)
    <3>1. i \in 0..(end - 1) /\ base'[i] = BaseAfter(grow)[i]
      BY <1>6, <2>1, <2>3
    <3>2. QED  BY <1>5, <3>1 DEF BlobOK
  <2>4. QED  BY <2>2, <2>3
<1>8. QED  BY <1>1, <1>3, <1>4, <1>6, <1>7 DEF BlobOK, Capacity

(* So does blob_write, when it succeeds. *)
LEMMA WriteKeeps ==
    ASSUME BlobOK, bl_size \in ChunkSizes, NEW buf \in Seq(Byte),
           WriteSucceeds(buf)
    PROVE  BlobOK'
<1> DEFINE grow == off + Len(buf) - end
<1>1. off \in Nat /\ end \in Nat /\ off <= end /\ Len(buf) \in Nat /\ MaxAlloc \in Nat
  BY AllocAssumption DEF BlobOK
<1>2. \A i \in 1..Len(buf) : buf[i] \in Byte /\ buf[i] # Junk
  BY ByteAssumption
<1>3. CASE grow <= 0 /\ base' = Put(base, off, buf) /\ UNCHANGED <<end, size>>
  BY <1>1, <1>2, <1>3 DEF BlobOK, WriteSucceeds, Put, Capacity, Cell
<1>4. CASE grow > 0
  BY <1>1, <1>4, GrowKeeps DEF WriteSucceeds
<1>5. QED  BY <1>3, <1>4 DEF WriteSucceeds

(* And blob_delete, which closes the gap it makes. *)
LEMMA DeleteKeeps ==
    ASSUME BlobOK, NEW n \in Nat, off + n <= end, size # 0,
           base' = Move(base, off, off + n, end - (off + n)),
           end' = end - n, UNCHANGED <<off, size>>
    PROVE  BlobOK'
<1> DEFINE len == end - (off + n)
<1>1. /\ off \in Nat /\ end \in Nat /\ size \in Nat /\ size > 0 /\ len \in Nat
      /\ base \in [0..(size - 1) -> Cell] /\ end <= size /\ off + n + len = end
      /\ off + n \in Nat /\ off + n + len <= size
  BY AllocAssumption DEF BlobOK, Capacity
<1>2. /\ base' \in [0..(size - 1) -> Cell]
      /\ \A i \in 0..(size - 1) : base'[i] =
            IF off <= i /\ i < off + len THEN base[i - off + (off + n)] ELSE base[i]
  <2> DEFINE src == off + n
  <2>1. /\ size \in Nat /\ base \in [0..(size - 1) -> Cell] /\ off \in Nat
        /\ src \in Nat /\ len \in Nat /\ src + len <= size
    BY <1>1
  <2> HIDE DEF len, src
  <2>2. /\ Move(base, off, src, len) \in [0..(size - 1) -> Cell]
        /\ \A i \in 0..(size - 1) : Move(base, off, src, len)[i] =
              IF off <= i /\ i < off + len THEN base[i - off + src] ELSE base[i]
    <3>1. \A i \in 0..(size - 1) :
             (IF off <= i /\ i < off + len THEN base[i - off + src] ELSE base[i]) \in Cell
      BY <2>1
    <3>2. QED  BY <2>1, <3>1 DEF Move
  <2>3. QED  BY <2>2 DEF len, src
<1>3. \A i \in 0..(end' - 1) : base'[i] # Junk
  <2> SUFFICES ASSUME NEW i \in 0..(end' - 1) PROVE base'[i] # Junk
    OBVIOUS
  <2>1. i \in Nat /\ i < end - n /\ i \in 0..(size - 1) /\ i \in 0..(end - 1)
    BY <1>1
  <2>2. CASE off <= i
    <3>1. base'[i] = base[i - off + (off + n)]
      BY <1>1, <1>2, <2>1, <2>2
    <3>2. i - off + (off + n) \in 0..(end - 1)
      BY <1>1, <2>1
    <3>3. QED  BY <3>1, <3>2 DEF BlobOK
  <2>3. CASE ~(off <= i)
    BY <1>1, <1>2, <2>1, <2>3 DEF BlobOK
  <2>4. QED  BY <2>2, <2>3
<1>4. QED  BY <1>1, <1>2, <1>3 DEF BlobOK, Capacity

(* blob_insert, given twice the room it needs, puts the buffer under the   *)
(* cursor and moves what was there behind it.                              *)
LEMMA InsertedBytes ==
    ASSUME BlobOK, NEW buf \in Seq(Byte), size # 0,
           end + 2 * Len(buf) <= size, Insert(buf)
    PROVE  /\ base' \in [0..(size - 1) -> Cell] /\ fault' = "none"
           /\ size' = size /\ end' = end + Len(buf) /\ off' = off + Len(buf)
           /\ \A i \in 0..(end' - 1) :
                 base'[i] = IF i < off THEN base[i]
                            ELSE IF i < off + Len(buf) THEN buf[i - off + 1] ELSE base[i - Len(buf)]
<1> DEFINE n == Len(buf)
           len == end + n - off
           moved == Move(base, off + n, off, len)
<1>1. /\ off \in Nat /\ end \in Nat /\ size \in Nat /\ size > 0 /\ len \in Nat /\ n \in Nat
      /\ base \in [0..(size - 1) -> Cell] /\ off <= end /\ end <= size
      /\ off + n \in Nat /\ off + len <= size
  BY AllocAssumption DEF BlobOK, Capacity
<1>2. Room(n) /\ SizeAfter(n) = size /\ BaseAfter(n) = base /\ ~InsertFaults(n)
  BY <1>1 DEF Room, SizeAfter, BaseAfter, InsertFaults
<1>3. Max2(end + n - off, 0) = len
  BY <1>1 DEF Max2
<1>4. /\ base' = Put(moved, off, buf) /\ size' = size
      /\ end' = end + n /\ off' = off + n /\ fault' = "none"
  BY <1>2, <1>3 DEF Insert, ReserveFails, Keeps, Ready, Idle
<1>5. /\ moved \in [0..(size - 1) -> Cell]
      /\ \A i \in 0..(size - 1) : moved[i] =
            IF off + n <= i /\ i < off + n + len THEN base[i - (off + n) + off] ELSE base[i]
  <2> DEFINE dst == off + n
  <2>1. /\ size \in Nat /\ base \in [0..(size - 1) -> Cell] /\ off \in Nat
        /\ dst \in Nat /\ len \in Nat /\ off + len <= size
    BY <1>1
  <2> HIDE DEF dst, len
  <2>2. /\ Move(base, dst, off, len) \in [0..(size - 1) -> Cell]
        /\ \A i \in 0..(size - 1) : Move(base, dst, off, len)[i] =
              IF dst <= i /\ i < dst + len THEN base[i - dst + off] ELSE base[i]
    <3>1. \A i \in 0..(size - 1) :
             (IF dst <= i /\ i < dst + len THEN base[i - dst + off] ELSE base[i]) \in Cell
      BY <2>1
    <3>2. QED  BY <2>1, <3>1 DEF Move
  <2>3. QED  BY <2>2 DEF dst
<1>6. /\ base' \in [0..(size - 1) -> Cell]
      /\ \A i \in 0..(size - 1) : base'[i] =
            IF off <= i /\ i < off + n THEN buf[i - off + 1] ELSE moved[i]
  <2> HIDE DEF moved, n
  <2>1. /\ Put(moved, off, buf) \in [0..(size - 1) -> Cell]
        /\ \A i \in 0..(size - 1) : Put(moved, off, buf)[i] =
              IF off <= i /\ i < off + Len(buf) THEN buf[i - off + 1] ELSE moved[i]
    BY <1>1, <1>5, PutType
  <2>2. QED  BY <1>4, <2>1 DEF n
<1>7. ASSUME NEW i \in 0..(end' - 1)
      PROVE  base'[i] = IF i < off THEN base[i] ELSE IF i < off + n THEN buf[i - off + 1] ELSE base[i - n]
  <2> HIDE DEF moved
  <2>1. i \in Nat /\ i < end + n /\ i \in 0..(size - 1)
    BY <1>1, <1>4
  <2>2. CASE off <= i /\ i < off + n
    <3>1. base'[i] = buf[i - off + 1]
      BY <1>6, <2>1, <2>2
    <3> QED  BY <1>1, <2>1, <2>2, <3>1
  <2>3. CASE i < off
    BY <1>1, <1>5, <1>6, <2>1, <2>3
  <2>4. CASE off + n <= i
    <3>1. ~(off <= i /\ i < off + n) /\ ~(i < off) /\ ~(i < off + n) /\ i < off + n + len
          /\ i - (off + n) + off = i - n
      BY <1>1, <2>1, <2>4
    <3>2. base'[i] = moved[i]
      BY <1>6, <2>1, <3>1
    <3>3. moved[i] = base[i - (off + n) + off]
      BY <1>5, <2>1, <2>4, <3>1
    <3> QED  BY <3>1, <3>2, <3>3
  <2> QED  BY <1>1, <2>1, <2>2, <2>3, <2>4
<1> QED  BY <1>4, <1>6, <1>7

(* So it keeps the fields in order. *)
LEMMA InsertKeeps ==
    ASSUME BlobOK, NEW buf \in Seq(Byte), size # 0,
           end + 2 * Len(buf) <= size, Insert(buf)
    PROVE  BlobOK' /\ fault' = "none"
<1>1. /\ off \in Nat /\ end \in Nat /\ size \in Nat /\ size > 0 /\ Len(buf) \in Nat
      /\ off <= end /\ end <= size
  BY AllocAssumption DEF BlobOK, Capacity
<1>2. /\ base' \in [0..(size - 1) -> Cell] /\ fault' = "none"
      /\ size' = size /\ end' = end + Len(buf) /\ off' = off + Len(buf)
      /\ \A i \in 0..(end' - 1) :
            base'[i] = IF i < off THEN base[i]
                       ELSE IF i < off + Len(buf) THEN buf[i - off + 1] ELSE base[i - Len(buf)]
  BY InsertedBytes
<1>3. ASSUME NEW i \in 0..(end' - 1) PROVE base'[i] # Junk
  <2>1. CASE i < off
    <3>1. i \in 0..(end - 1)
      BY <1>1, <2>1
    <3> QED  BY <1>2, <2>1, <3>1 DEF BlobOK
  <2>2. CASE ~(i < off) /\ i < off + Len(buf)
    <3>1. i - off + 1 \in 1..Len(buf)
      BY <1>1, <2>2
    <3>2. base'[i] = buf[i - off + 1]
      BY <1>2, <2>2
    <3> QED  BY <3>1, <3>2, ByteAssumption
  <2>3. CASE ~(i < off) /\ ~(i < off + Len(buf))
    <3>1. i - Len(buf) \in 0..(end - 1) /\ base'[i] = base[i - Len(buf)]
      BY <1>1, <1>2, <2>3
    <3> QED  BY <3>1 DEF BlobOK
  <2> QED  BY <2>1, <2>2, <2>3
<1> QED  BY <1>1, <1>2, <1>3 DEF BlobOK, Capacity

(* What a read delivers is an item, in either byte order.                  *)
LEMMA BytesType ==
    ASSUME BlobOK, NEW k \in Nat, off + k <= end
    PROVE  Bytes(base, off, k) \in Item
<1>1. /\ off \in Nat /\ end \in Nat /\ MaxAlloc \in Nat
      /\ base \in [0..(Capacity - 1) -> Cell] /\ end <= Capacity /\ Capacity \in Nat
  BY AllocAssumption DEF BlobOK, Capacity
<1>2. \A i \in 1..k : off + i - 1 \in 0..(Capacity - 1)
  BY <1>1
<1>3. \A i \in 1..k : base[off + i - 1] \in Cell
  <2> HIDE DEF Capacity
  <2>1. QED  BY <1>1, <1>2
<1>4. QED  BY <1>3 DEF Bytes, Item, Cell

LEMMA NetworkOrderType ==
    ASSUME NEW item \in Item, NEW spec PROVE NetworkOrder(spec, item) \in Item
BY DEF NetworkOrder, Reversed, Item

LEMMA AppendType ==
    ASSUME got \in Seq(Item), NEW item \in Item
    PROVE  Append(got, item) \in Seq(Item) /\ <<item>> \in Seq(Item) /\ <<>> \in Seq(Item)
OBVIOUS

(* The number of bytes a read takes never leads past end.                  *)
LEMMA ReadCountInside ==
    ASSUME BlobOK, NEW n \in Nat
    PROVE  ReadCount(n) \in Nat /\ off + ReadCount(n) <= end /\ ~ReadFaults(n)
BY DEF BlobOK, ReadCount, ReadFaults, Min2, Left

LEMMA ReadKeeps ==
    ASSUME BlobOK, NEW k \in Nat, off + k <= end, off' = off + k,
           UNCHANGED <<base, end, size>>
    PROVE  BlobOK'
BY DEF BlobOK, Capacity

LEMMA EmptyTypes ==
    /\ <<>> \in Seq(Item) /\ <<>> \in Seq(Directive)
    /\ NotPacked \in [at : Int, fmt : Seq(Directive)]
BY DEF NotPacked

(* The directive under interpretation is a directive. *)
LEMMA ThisType ==
    ASSUME CallsOK, NEW op, Unfinished(op) PROVE This \in Directive
BY DEF CallsOK, Unfinished, Interpreting, Directives, This

-----------------------------------------------------------------------------
LEMMA InitIInv == Init => IInv
<1> SUFFICES ASSUME Init PROVE IInv
  OBVIOUS
<1>1. BlobOK
  BY AllocAssumption DEF Init, BlobOK, Capacity, Cell
<1>2. CallsOK
  <2>1. live \in BOOLEAN
    BY DEF Init
  <2>2. last \in [op : Calls, ret : Int]
    BY DEF Init, Calls
  <2>3. QED  BY <2>1, <2>2, EmptyTypes DEF Init, CallsOK
<1>3. QED  BY <1>1, <1>2 DEF IInv

(* The calls that are one step, insert excepted. *)
LEMMA NewStep == ASSUME IInv, New PROVE IInv'
<1>1. BlobOK'
  <2>1. CASE UNCHANGED <<live, blob>>
    BY <2>1 DEF IInv, BlobOK, blob, Capacity
  <2>2. CASE /\ live' = TRUE /\ off' = 0 /\ end' = 0 /\ size' = bl_size
             /\ base' = [i \in 0..(bl_size - 1) |-> Junk]
    BY <2>2, AllocAssumption DEF IInv, CallsOK, BlobOK, Capacity, Cell
  <2>3. QED  BY <2>1, <2>2 DEF New
<1>2. CallsOK'
  <2>1. live' \in BOOLEAN
    BY DEF New, IInv, CallsOK
  <2>2. last' \in [op : Calls, ret : Int]
    BY DEF New, Returns, Calls
  <2>3. QED
    BY <2>1, <2>2, EmptyTypes DEF New, IInv, CallsOK, NoFormat, Idle
<1>3. QED  BY <1>1, <1>2 DEF IInv

LEMMA WrapStep == ASSUME IInv, NEW buf \in Buffers, Wrap(buf) PROVE IInv'
<1>1. buf \in Seq(Byte) /\ MaxAlloc \in Nat
  BY CallAssumption, AllocAssumption
<1>2. BlobOK'
  <2>1. /\ off' = 0 /\ end' = Len(buf) /\ size' = 0
        /\ base' = [i \in 0..(Len(buf) - 1) |-> buf[i + 1]]
    BY DEF Wrap
  <2>2. \A i \in 0..(Len(buf) - 1) : buf[i + 1] \in Byte /\ buf[i + 1] # Junk
    BY <1>1, ByteAssumption
  <2>3. QED  BY <1>1, <2>1, <2>2 DEF BlobOK, Capacity, Cell
<1>3. CallsOK'
  BY DEF Wrap, IInv, CallsOK, NoFormat, Returns, Calls, Idle
<1>4. QED  BY <1>2, <1>3 DEF IInv

LEMMA FreeStep == ASSUME IInv, Free PROVE IInv'
<1>1. BlobOK'
  BY AllocAssumption DEF Free, BlobOK, Capacity, Cell
<1>2. CallsOK'
  <2>1. live' \in BOOLEAN
    BY DEF Free
  <2>2. last' \in [op : Calls, ret : Int]
    BY DEF Free, Returns, Calls
  <2>3. QED
    BY <2>1, <2>2, EmptyTypes DEF Free, IInv, CallsOK, NoFormat, Ready, Idle
<1>3. QED  BY <1>1, <1>2 DEF IInv

LEMMA RegisterStep == ASSUME IInv, NEW n \in ChunkSizes, RegisterAlloc(n) PROVE IInv'
<1>1. BlobOK'
  BY DEF RegisterAlloc, IInv, BlobOK, blob, Capacity
<1>2. CallsOK'
  BY DEF RegisterAlloc, IInv, CallsOK, NoFormat, Returns, Calls, Idle
<1>3. QED  BY <1>1, <1>2 DEF IInv

LEMMA WriteStep == ASSUME IInv, NEW buf \in Buffers, Write(buf) PROVE IInv'
<1>1. buf \in Seq(Byte)
  BY CallAssumption
<1>2. BlobOK'
  <2>1. CASE WriteSucceeds(buf)
    BY <1>1, <2>1, WriteKeeps DEF IInv, CallsOK
  <2>2. CASE WriteFails(buf)
    BY <2>2 DEF WriteFails, IInv, BlobOK, blob, Capacity
  <2>3. QED  BY <2>1, <2>2 DEF Write
<1>3. CallsOK'
  BY <1>1 DEF Write, IInv, CallsOK, Keeps, NoFormat, Returns, Calls, Ready, Idle, NotPacked
<1>4. QED  BY <1>2, <1>3 DEF IInv

LEMMA ReadStep == ASSUME IInv, NEW n \in Nat, Read(n) PROVE IInv'
<1>1. ReadCount(n) \in Nat /\ off + ReadCount(n) <= end /\ ~ReadFaults(n)
  BY ReadCountInside DEF IInv
<1>2. BlobOK'
  BY <1>1, ReadKeeps DEF Read, Reads, IInv
<1>3. Bytes(base, off, ReadCount(n)) \in Item
  BY <1>1, BytesType DEF IInv
<1>4. CallsOK'
  <2>1. last' = [op |-> "read", ret |-> ReadCount(n)] /\ got' = <<Bytes(base, off, ReadCount(n))>>
    BY <1>1 DEF Read, Returns
  <2>2. Keeps /\ UNCHANGED packed
    BY <1>1 DEF Read
  <2>3. last' \in [op : Calls, ret : Int]
    BY <1>1, <2>1 DEF Calls
  <2>4. got' \in Seq(Item)
    BY <1>3, <2>1
  <2>5. QED
    BY <2>2, <2>3, <2>4, EmptyTypes DEF IInv, CallsOK, Keeps, NoFormat
<1>5. QED  BY <1>2, <1>4 DEF IInv

LEMMA InsertStep == ASSUME IInv, NEW buf \in Buffers, CarefulInsert(buf) PROVE IInv'
<1>1. buf \in Seq(Byte)
  BY CallAssumption
<1>2. BlobOK' /\ fault' = "none"
  <2>1. CASE size = 0
    BY <2>1 DEF CarefulInsert, Insert, IInv, CallsOK, BlobOK, blob, Capacity, Keeps, Ready, Idle
  <2>2. CASE size # 0
    BY <1>1, <2>2, InsertKeeps DEF CarefulInsert, IInv
  <2>3. QED  BY <2>1, <2>2
<1>3. CallsOK'
  <2>1. CASE UNCHANGED <<live, bl_size, format, got, packed, last>>
    BY <1>2, <2>1 DEF IInv, CallsOK, format
  <2>2. CASE /\ \E ret \in Int : Returns("insert", ret)
             /\ packed' = NotPacked /\ got' = <<>> /\ Keeps
    <3>1. last' \in [op : Calls, ret : Int]
      BY <2>2 DEF Returns, Calls
    <3>2. QED
      BY <1>2, <2>2, <3>1, EmptyTypes DEF IInv, CallsOK, Keeps, NoFormat
  <2>3. QED
    BY <1>1, <2>1, <2>2 DEF CarefulInsert, Insert, Faults
<1>4. QED  BY <1>2, <1>3 DEF IInv

LEMMA DeleteStep == ASSUME IInv, NEW n \in Nat, Delete(n) PROVE IInv'
<1>1. BlobOK'
  <2>1. CASE off + n <= end /\ size # 0
    BY <2>1, DeleteKeeps DEF Delete, CanDelete, BytesAfter, IInv, BlobOK
  <2>2. CASE ~(off + n <= end /\ size # 0)
    BY <2>2 DEF Delete, CanDelete, BytesAfter, IInv, BlobOK, blob, Capacity
  <2>3. QED  BY <2>1, <2>2
<1>2. got' \in Seq(Item)
  <2>1. CASE off + n <= end /\ got' = <<Bytes(base, off, n)>>
    <3>1. Bytes(base, off, n) \in Item
      BY <2>1, BytesType DEF IInv
    <3>2. QED  BY <2>1, <3>1
  <2>2. CASE got' = <<>>
    BY <2>2
  <2>3. QED  BY <2>1, <2>2 DEF Delete, CanDelete
<1>3. CallsOK'
  BY <1>2 DEF Delete, CanDelete, IInv, CallsOK, Keeps, NoFormat, Returns, Calls, Ready, Idle, NotPacked
<1>4. QED  BY <1>1, <1>3 DEF IInv

(* The calls that leave the bytes alone. *)
LEMMA QuietStep ==
    ASSUME IInv, Keeps, UNCHANGED packed, UNCHANGED <<base, end, size>>,
           off' \in 0..end, got' \in Seq(Item), last' \in [op : Calls, ret : Int]
    PROVE  IInv'
<1>1. BlobOK'
  BY DEF IInv, BlobOK, Capacity
<1>2. CallsOK'
  BY EmptyTypes DEF IInv, CallsOK, Keeps, NoFormat
<1>3. QED  BY <1>1, <1>2 DEF IInv

LEMMA SeekStep ==
    ASSUME IInv, NEW whence \in {"SET", "CUR", "END"}, NEW n \in Int, Seek(whence, n)
    PROVE  IInv'
<1>1. off \in 0..end /\ end \in Nat
  BY DEF IInv, BlobOK
<1>2. off' \in 0..end
  BY <1>1 DEF Seek, CanSeek
<1>3. last' \in [op : Calls, ret : Int]
  BY <1>1 DEF Seek, CanSeek, Returns, Calls
<1>4. QED  BY <1>2, <1>3, EmptyTypes, QuietStep DEF Seek, CanSeek

LEMMA SearchStep ==
    ASSUME IInv, NEW buf \in Buffers, Index(buf) \/ Rindex(buf)
    PROVE  IInv'
<1>1. off \in 0..end /\ end \in Nat
  BY DEF IInv, BlobOK
<1>2. <<buf>> \in Seq(Item)
  <2>1. buf \in Seq(Byte)
    BY CallAssumption
  <2>2. buf \in Item
    BY <2>1 DEF Item
  <2>3. QED  BY <2>2
<1>3. last' \in [op : Calls, ret : Int]
  <2>1. \A i \in Int : Returns("index", i) \/ Returns("rindex", i) => last' \in [op : Calls, ret : Int]
    BY DEF Returns, Calls
  <2>2. \E i \in Int : Returns("index", i) \/ Returns("rindex", i)
    BY <1>1 DEF Index, Rindex
  <2>3. QED  BY <2>1, <2>2
<1>4. off' \in 0..end /\ UNCHANGED <<base, end, size>> /\ UNCHANGED packed /\ Keeps /\ got' = <<buf>>
  BY <1>1 DEF Index, Rindex, blob
<1>5. QED  BY <1>2, <1>3, <1>4, QuietStep

-----------------------------------------------------------------------------
(* The steps of a format. *)
LEMMA StartStep ==
    ASSUME IInv, NEW op \in {"pack", "unpack"}, NEW f \in Formats, StartFormat(op, f)
    PROVE  IInv'
<1>1. BlobOK'
  BY DEF StartFormat, IInv, BlobOK, blob, Capacity
<1>2. CallsOK'
  <2>1. last' \in [op : Calls, ret : Int]
    BY DEF StartFormat, Returns, Calls
  <2>2. f \in Seq(Directive) /\ start' \in Nat
    BY CallAssumption DEF StartFormat, IInv, BlobOK
  <2>3. packed' \in [at : Int, fmt : Seq(Directive)]
    BY EmptyTypes DEF StartFormat, IInv, CallsOK
  <2>4. QED
    BY <2>1, <2>2, <2>3, EmptyTypes DEF StartFormat, IInv, CallsOK
<1>3. QED  BY <1>1, <1>2 DEF IInv

LEMMA FinishStep == ASSUME IInv, FinishFormat PROVE IInv'
<1>1. BlobOK'
  BY DEF FinishFormat, IInv, BlobOK, blob, Capacity
<1>2. CallsOK'
  <2>1. packed' \in [at : Int, fmt : Seq(Directive)]
    BY DEF FinishFormat, IInv, CallsOK
  <2>2. QED
    BY <2>1 DEF FinishFormat, IInv, CallsOK
<1>3. QED  BY <1>1, <1>2 DEF IInv

(* A directive either goes on to the next or ends the call with -1.        *)
LEMMA DirectiveStep ==
    ASSUME IInv, NEW op \in {"pack", "unpack"}, Continue \/ Abandon(op),
           got' \in Seq(Item), BlobOK'
    PROVE  IInv'
<1>1. last' \in [op : Calls, ret : Int]
  BY DEF Continue, Abandon, Returns, Calls, IInv, CallsOK
<1>2. next' \in Nat
  BY DEF Continue, Abandon, IInv, CallsOK
<1>3. CallsOK'
  BY <1>1, <1>2 DEF Continue, Abandon, IInv, CallsOK
<1>4. QED  BY <1>3 DEF IInv

LEMMA RefuseStep ==
    ASSUME IInv, NEW op \in {"pack", "unpack"}, RefuseDirective(op) PROVE IInv'
<1>1. BlobOK'
  BY DEF RefuseDirective, IInv, BlobOK, blob, Capacity
<1>2. got' \in Seq(Item)
  BY DEF RefuseDirective, IInv, CallsOK
<1>3. QED  BY <1>1, <1>2, DirectiveStep DEF RefuseDirective

LEMMA PackLiteralStep == ASSUME IInv, PackLiteral PROVE IInv'
<1> DEFINE grow == off + 1 - end
<1>1. /\ This.spec = "literal" /\ This \in Directive
  BY ThisType DEF PackLiteral, IInv
<1>2. This.arg \in Seq(Byte) /\ Len(This.arg) = 1
  BY <1>1 DEF Directive, Width
<1>3. off \in Nat /\ end \in Nat /\ off <= end /\ bl_size \in ChunkSizes /\ BlobOK
  BY DEF IInv, BlobOK, CallsOK
<1>4. BlobOK'
  <2>1. CASE off + 1 < end /\ base' = Put(base, off, This.arg) /\ off' = off + 1
             /\ UNCHANGED <<end, size>>
    <3>1. WriteSucceeds(This.arg)
      BY <1>2, <1>3, <2>1 DEF WriteSucceeds
    <3>2. QED  BY <1>2, <1>3, <3>1, WriteKeeps
  <2>2. CASE /\ off + 1 >= end /\ ReserveSucceeds(grow)
             /\ base' = Put(BaseAfter(grow), off, This.arg)
             /\ size' = SizeAfter(grow) /\ off' = off + 1 /\ end' = end + grow
    <3> DEFINE buf == This.arg
    <3>1. /\ buf \in Seq(Byte) /\ Len(buf) > 0 /\ grow \in Nat
          /\ grow = off + Len(buf) - end /\ off' = off + Len(buf)
      BY <1>2, <1>3, <2>2
    <3>2. base' = Put(BaseAfter(grow), off, buf)
      BY <2>2
    <3> HIDE DEF buf, grow
    <3>3. QED  BY <1>3, <2>2, <3>1, <3>2, GrowKeeps
  <2>3. CASE UNCHANGED blob
    BY <2>3, <1>3 DEF BlobOK, blob, Capacity
  <2>4. QED  BY <2>1, <2>2, <2>3 DEF PackLiteral
<1>5. got' \in Seq(Item)
  BY DEF PackLiteral, IInv, CallsOK
<1>6. QED  BY <1>4, <1>5, DirectiveStep DEF PackLiteral

LEMMA PackConversionStep == ASSUME IInv, PackConversion PROVE IInv'
<1>1. Converted(This) \in Seq(Byte)
  BY ThisType, ConvertedType DEF PackConversion, IInv
<1>2. BlobOK'
  <2>1. CASE WriteSucceeds(Converted(This))
    BY <1>1, <2>1, WriteKeeps DEF IInv, CallsOK
  <2>2. CASE WriteFails(Converted(This))
    BY <2>2 DEF WriteFails, IInv, BlobOK, blob, Capacity
  <2>3. QED  BY <2>1, <2>2 DEF PackConversion
<1>3. got' \in Seq(Item)
  BY DEF PackConversion, IInv, CallsOK
<1>4. QED  BY <1>2, <1>3, DirectiveStep DEF PackConversion

LEMMA UnpackLiteralStep ==
    ASSUME IInv, off < end, UnpackLiteral PROVE IInv'
<1>1. off \in Nat /\ end \in Nat /\ off < Capacity /\ Capacity \in Nat
  BY AllocAssumption DEF IInv, BlobOK, Capacity
<1>2. off' = off + 1 /\ UNCHANGED <<base, end, size, got>> /\ (Continue \/ Abandon("unpack"))
  <2> HIDE DEF Capacity
  <2>1. QED  BY <1>1 DEF UnpackLiteral
<1>3. BlobOK'
  BY <1>1, <1>2, ReadKeeps DEF IInv
<1>4. got' \in Seq(Item)
  BY <1>2 DEF IInv, CallsOK
<1>5. QED  BY <1>2, <1>3, <1>4, DirectiveStep

LEMMA UnpackConversionStep == ASSUME IInv, UnpackConversion PROVE IInv'
<1> DEFINE w == Width(This)
<1>1. w \in Nat
  BY ThisType DEF UnpackConversion, IInv, Directive, Width
<1>2. ReadCount(w) \in Nat /\ off + ReadCount(w) <= end /\ ~ReadFaults(w)
  BY <1>1, ReadCountInside DEF IInv
<1>3. Reads(w) /\ (Continue \/ Abandon("unpack"))
      /\ (got' = Append(got, NetworkOrder(This.spec, Bytes(base, off, ReadCount(w)))) \/ got' = got)
  BY <1>2 DEF UnpackConversion
<1>4. BlobOK'
  BY <1>2, <1>3, ReadKeeps DEF Reads, IInv
<1>5. NetworkOrder(This.spec, Bytes(base, off, ReadCount(w))) \in Item
  BY <1>2, BytesType, NetworkOrderType DEF IInv
<1>6. got' \in Seq(Item)
  BY <1>3, <1>5, AppendType DEF IInv, CallsOK
<1>7. QED  BY <1>3, <1>4, <1>6, DirectiveStep

(* A NUL below end stops the scan of %s before end.                        *)
LEMMA StringFound ==
    ASSUME IInv, Unfinished("unpack"), StringThere(This), UnpackString
    PROVE  \E i \in Nat :
              /\ off + i + 1 <= end /\ off' = off + i + 1 /\ MayBeNul(i)
              /\ got' = Append(got, Append(Bytes(base, off, i), Nul))
              /\ UNCHANGED <<base, end, size>> /\ Continue
<1> DEFINE n == This.ulen
<1>1. n \in Nat
  BY ThisType DEF IInv, Directive
<1>2. /\ off \in Nat /\ end \in Nat /\ end <= Capacity /\ Capacity \in Nat /\ BlobOK
      /\ base \in [0..(Capacity - 1) -> Cell]
  BY AllocAssumption DEF IInv, BlobOK, Capacity
<1>3. PICK z \in 0..(n - 1) : off + z < end /\ base[off + z] = Nul
  BY DEF StringThere
<1>4. \A i \in Nat : NoNulBefore(i) => i <= z
  BY <1>1, <1>3 DEF NoNulBefore
<1>5. PICK i \in 0..(n - 1) :
         /\ NoNulBefore(i) /\ off' = off + i + 1 /\ MayBeNul(i)
         /\ got' = Append(got, Append(Bytes(base, off, i), Nul))
         /\ UNCHANGED <<base, end, size>> /\ Continue
  <2>1. ~NoNulBefore(n)
    BY <1>1, <1>3, <1>4
  <2>2. \A i \in 0..(n - 1) : ~(NoNulBefore(i) /\ off + i >= Capacity)
    <3> HIDE DEF Capacity
    <3>1. QED  BY <1>1, <1>2, <1>3, <1>4
  <2>3. QED  BY <2>1, <2>2 DEF UnpackString
<1>6. i \in Nat /\ i <= z /\ off + i + 1 <= end
  BY <1>1, <1>2, <1>3, <1>4, <1>5
<1> QED  BY <1>5, <1>6

LEMMA UnpackStringStep ==
    ASSUME IInv, Unfinished("unpack"), StringThere(This), UnpackString
    PROVE  IInv'
<1>1. off \in Nat /\ end \in Nat /\ BlobOK
  BY DEF IInv, BlobOK
<1>2. PICK i \in Nat :
         /\ off + i + 1 <= end /\ off' = off + i + 1 /\ MayBeNul(i)
         /\ got' = Append(got, Append(Bytes(base, off, i), Nul))
         /\ UNCHANGED <<base, end, size>> /\ Continue
  BY StringFound
<1>3. off + i <= end
  BY <1>1, <1>2
<1>4. BlobOK'
  <2>1. i + 1 \in Nat /\ off + (i + 1) <= end /\ off' = off + (i + 1)
    BY <1>1, <1>2, <1>3
  <2> QED  BY <1>1, <1>2, <2>1, ReadKeeps
<1>5. got' \in Seq(Item)
  <2>1. Bytes(base, off, i) \in Item
    BY <1>1, <1>3, BytesType
  <2>2. Append(Bytes(base, off, i), Nul) \in Item
    BY <2>1, ByteAssumption DEF Item
  <2> QED  BY <1>2, <2>2, AppendType DEF IInv, CallsOK
<1> QED  BY <1>2, <1>4, <1>5, DirectiveStep

-----------------------------------------------------------------------------
LEMMA StutterStep == ASSUME IInv, UNCHANGED vars PROVE IInv'
<1>1. BlobOK'
  BY DEF IInv, BlobOK, vars, blob, Capacity
<1>2. CallsOK'
  BY DEF IInv, CallsOK, vars, format
<1>3. QED  BY <1>1, <1>2 DEF IInv

LEMMA NextIInv == IInv /\ [CarefulNext]_vars => IInv'
<1> SUFFICES ASSUME IInv, [CarefulNext]_vars PROVE IInv'
  OBVIOUS
<1>1. CASE New
  BY <1>1, NewStep
<1>2. CASE Free
  BY <1>2, FreeStep
<1>3. CASE \E n \in ChunkSizes : RegisterAlloc(n)
  BY <1>3, RegisterStep
<1>4. ASSUME NEW buf \in Buffers,
             \/ Wrap(buf) \/ Write(buf) \/ Index(buf) \/ Rindex(buf)
             \/ Read(Len(buf)) \/ Delete(Len(buf)) \/ CarefulInsert(buf)
      PROVE  IInv'
  <2>1. Len(buf) \in Nat
    BY CallAssumption
  <2>2. QED
    BY <1>4, <2>1, WrapStep, WriteStep, SearchStep, ReadStep, DeleteStep, InsertStep
<1>5. CASE \E whence \in {"SET", "CUR", "END"}, n \in Offsets : Seek(whence, n)
  <2>1. Offsets \subseteq Int
    BY AllocAssumption DEF Offsets
  <2>2. QED  BY <1>5, <2>1, SeekStep
<1>6. CASE \E f \in Formats : StartFormat("pack", f) \/ StartFormat("unpack", f)
  BY <1>6, StartStep
<1>7. CASE FormatStep
  BY <1>7, RefuseStep, PackLiteralStep, PackConversionStep, FinishStep DEF FormatStep
<1>8. CASE CarefulUnpack
  BY <1>8, UnpackLiteralStep, UnpackConversionStep, UnpackStringStep DEF CarefulUnpack
<1>9. CASE UNCHANGED vars
  BY <1>9, StutterStep
<1>10. QED
  BY <1>1, <1>2, <1>3, <1>4, <1>5, <1>6, <1>7, <1>8, <1>9 DEF CarefulNext, PlainCall

(* The invariant of a careful client, for every allocator, chunk size, set *)
(* of buffers and set of formats.                                          *)
THEOREM CarefulInv == CarefulSpec => []IInv
BY InitIInv, NextIInv, PTL DEF CarefulSpec

(* The fields keep their types and the allocation is what size says it is. *)
THEOREM CarefulTypes == CarefulSpec => []TypeOK
<1>1. IInv => TypeOK
  BY DEF IInv, BlobOK, CallsOK, TypeOK, Cell
<1> QED  BY <1>1, CarefulInv, PTL

(* A careful client's cursor stays inside the data, and the data inside    *)
(* the allocation.                                                         *)
THEOREM CarefulCursorInside == CarefulSpec => []CursorInside
<1>1. IInv => CursorInside
  BY DEF IInv, BlobOK, CursorInside
<1> QED  BY <1>1, CarefulInv, PTL

(* It sees no byte of memory that was never written: what blob_reserve     *)
(* raises end over, its callers fill.                                      *)
THEOREM CarefulSeesNoJunk == CarefulSpec => []NoJunkBelowEnd
<1>1. IInv => NoJunkBelowEnd
  BY DEF IInv, BlobOK, NoJunkBelowEnd
<1> QED  BY <1>1, CarefulInv, PTL

(* It never makes blob.c leave an allocation.                              *)
THEOREM CarefulSafe == CarefulSpec => []NeverFaults
<1>1. IInv => NeverFaults
  BY DEF IInv, CallsOK, NeverFaults
<1> QED  BY <1>1, CarefulInv, PTL
=============================================================================
