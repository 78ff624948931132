-------------------------------- MODULE Blob --------------------------------
(***************************************************************************)
(* The binary buffer of src/blob.c: a growable array `base' of `size'      *)
(* allocated bytes, of which the first `end' hold data, with a cursor      *)
(* `off'.  size = 0 marks a fixed blob, whose bytes belong to the caller   *)
(* and which can never grow.  One client drives one blob; blob_pack and    *)
(* blob_unpack interpret a format, here a sequence of directives, one      *)
(* directive a step, and may fail after some directives took effect.       *)
(*                                                                         *)
(* C gives no meaning to an access outside the allocation.  The model      *)
(* stops there: `fault' names the access - memcpy in blob_read, the moves  *)
(* of blob_insert, the byte a literal or a %s is compared with, or the     *)
(* caller's own string - and no further step is taken.                     *)
(***************************************************************************)
EXTENDS Integers, Sequences

CONSTANTS
    Byte,         \* the byte values; an abstraction of 0..255
    Nul,          \* the byte that ends a C string
    Junk,         \* content of memory nobody has written
    MaxAlloc,     \* the largest allocation the allocator grants
    ChunkSizes,   \* the values blob_register_alloc gives to bl_size
    Buffers,      \* the caller's buffers: sequences of bytes
    Formats       \* the format strings, parsed into directives

Specs == {"literal", "D", "H", "b", "c", "d", "h", "s", "?"}

(* A directive: its specifier, the length given to it when packing and     *)
(* when unpacking, and the bytes of its argument in host order.  An        *)
(* argument has the width its conversion takes, and a buffer or a string   *)
(* is at least as long as the length given for it.                         *)
Width(d) == CASE d.spec \in {"D", "d"} -> 4
              [] d.spec \in {"H", "h"} -> 2
              [] d.spec = "b" -> d.ulen
              [] OTHER -> 1

Directive ==
    {d \in [spec : Specs, plen : Nat, ulen : Nat, arg : Seq(Byte)] :
        /\ d.spec \in {"literal", "D", "H", "c", "d", "h"} => Len(d.arg) = Width(d)
        /\ d.spec \in {"b", "s"} => d.plen <= Len(d.arg)}

ASSUME ByteAssumption == Nul \in Byte /\ Junk \notin Byte
ASSUME AllocAssumption ==
    MaxAlloc \in Nat /\ ChunkSizes \subseteq 1..MaxAlloc /\ ChunkSizes # {}
ASSUME CallAssumption ==
    Buffers \subseteq Seq(Byte) /\ Formats \subseteq Seq(Directive)

VARIABLES
    live,     \* whether the client holds a blob
    base, off, end, size,      \* the fields of struct blob
    bl_size,  \* the allocation chunk, a global of blob.c
    fmt,      \* the format being, or last, interpreted
    next,     \* the directive of fmt interpreted next; 0 between calls
    start,    \* the cursor when fmt was started
    got,      \* what the last call delivered to the caller, one item each
    packed,   \* history: where a format was packed and is still in place
    last,     \* the last call: its name and what it returned
    fault     \* "none", or the access that left its object

blob   == <<base, off, end, size>>
format == <<fmt, next, start>>
vars   == <<live, blob, bl_size, format, got, packed, last, fault>>

Calls == {"new", "wrap", "free", "register", "read", "write", "insert",
          "delete", "seek", "index", "rindex", "pack", "unpack"}
NotPacked == [at |-> -1, fmt |-> <<>>]
Capacity == IF size > 0 THEN size ELSE end
Left == end - off                                  \* blob_left()

Min2(m, n) == IF m < n THEN m ELSE n
Max2(m, n) == IF m > n THEN m ELSE n

-----------------------------------------------------------------------------
(* Copying into memory. *)

Put(mem, at, buf) ==
    [i \in DOMAIN mem |-> IF at <= i /\ i < at + Len(buf)
                          THEN buf[i - at + 1] ELSE mem[i]]

Move(mem, dst, src, n) ==
    [i \in DOMAIN mem |-> IF dst <= i /\ i < dst + n
                          THEN mem[i - dst + src] ELSE mem[i]]

Bytes(mem, at, n) == [i \in 1..n |-> mem[at + i - 1]]

Realloc(mem, n) ==
    [i \in 0..(n - 1) |-> IF i \in DOMAIN mem THEN mem[i] ELSE Junk]

-----------------------------------------------------------------------------
(* blob_reserve(b, len): room for len more bytes after end.                *)

Room(len) == end + len <= size

NewSize(need) == IF need > bl_size
                 THEN need - (need % bl_size) + bl_size
                 ELSE need

SizeAfter(len) == IF Room(len) THEN size ELSE NewSize(end + len)
ForgetsRealloc(len) == base                       \* mutant: no b->base = p
BaseAfter(len) == IF Room(len) THEN base ELSE Realloc(base, SizeAfter(len))

ReserveSucceeds(len) ==
    Room(len) \/ (size # 0 /\ NewSize(end + len) <= MaxAlloc)
ReserveFails(len) == ~Room(len)       \* a fixed blob, or realloc gave NULL

-----------------------------------------------------------------------------
(* What every call does to the bookkeeping variables.                      *)

Returns(op, ret) == last' = [op |-> op, ret |-> ret]
Idle == fault = "none" /\ next = 0
Ready == Idle /\ live
NoFormat == fmt' = <<>> /\ next' = 0 /\ start' = 0
Keeps == UNCHANGED <<live, bl_size, fault>> /\ NoFormat
FaultKinds == {"read", "insert", "literal", "string", "argument"}
Faults(kind) ==
    /\ fault' = kind
    /\ UNCHANGED <<live, blob, bl_size, format, got, packed, last>>

-----------------------------------------------------------------------------
(* Life cycle. *)

Init ==
    /\ live = FALSE
    /\ base = <<>> /\ off = 0 /\ end = 0 /\ size = 0
    /\ bl_size \in ChunkSizes
    /\ fmt = <<>> /\ next = 0 /\ start = 0
    /\ got = <<>> /\ packed = NotPacked
    /\ last = [op |-> "free", ret |-> 0]
    /\ fault = "none"

New ==
    /\ Idle /\ ~live
    /\ \/ /\ live' = TRUE /\ off' = 0 /\ end' = 0 /\ size' = bl_size
          /\ base' = [i \in 0..(bl_size - 1) |-> Junk]
          /\ Returns("new", 0)
       \/ /\ UNCHANGED <<live, blob>>              \* either malloc failed
          /\ Returns("new", -1)
    /\ got' = <<>>
    /\ NoFormat /\ UNCHANGED <<bl_size, packed, fault>>

(* The caller fills in a struct blob around a buffer of its own. *)
Wrap(buf) ==
    /\ Idle /\ ~live
    /\ live' = TRUE /\ off' = 0 /\ end' = Len(buf) /\ size' = 0
    /\ base' = [i \in 0..(Len(buf) - 1) |-> buf[i + 1]]
    /\ Returns("wrap", 0)
    /\ got' = <<>>
    /\ NoFormat /\ UNCHANGED <<bl_size, packed, fault>>

Free ==
    /\ Ready
    /\ live' = FALSE
    /\ base' = <<>> /\ off' = 0 /\ end' = 0 /\ size' = 0
    /\ packed' = NotPacked /\ got' = <<>>
    /\ Returns("free", 0)
    /\ NoFormat /\ UNCHANGED <<bl_size, fault>>

RegisterAlloc(n) ==
    /\ Idle
    /\ bl_size' = n
    /\ got' = <<>>
    /\ Returns("register", 0)
    /\ NoFormat /\ UNCHANGED <<live, blob, packed, fault>>

-----------------------------------------------------------------------------
(* blob_write and blob_read, as calls of their own and as the bodies of    *)
(* the conversions.                                                        *)

WriteSucceeds(buf) ==
    LET grow == off + Len(buf) - end IN
    /\ \/ /\ grow <= 0
          /\ base' = Put(base, off, buf)
          /\ UNCHANGED <<end, size>>
       \/ /\ grow > 0 /\ ReserveSucceeds(grow)
          /\ base' = Put(BaseAfter(grow), off, buf)
          /\ size' = SizeAfter(grow)
          /\ end' = end + grow
    /\ off' = off + Len(buf)

WriteFails(buf) ==
    LET grow == off + Len(buf) - end IN
    /\ grow > 0 /\ ReserveFails(grow)
    /\ UNCHANGED blob

Write(buf) ==
    /\ Ready
    /\ \/ WriteSucceeds(buf) /\ Returns("write", Len(buf))
       \/ WriteFails(buf) /\ Returns("write", -1)
    /\ packed' = NotPacked /\ got' = <<>>
    /\ Keeps

LeavesOne(n) == Min2(Left - 1, n)                 \* mutant: end is inclusive
ReadCount(n) == Min2(Left, n)
ReadFaults(n) == ReadCount(n) < 0        \* memcpy of a negative length
Reads(n) == off' = off + ReadCount(n) /\ UNCHANGED <<base, end, size>>

Read(n) ==
    /\ Ready
    /\ \/ /\ ~ReadFaults(n)
          /\ Reads(n)
          /\ got' = <<Bytes(base, off, ReadCount(n))>>
          /\ Returns("read", ReadCount(n))
          /\ UNCHANGED packed /\ Keeps
       \/ ReadFaults(n) /\ Faults("read")

-----------------------------------------------------------------------------
(* blob_insert: end is raised by blob_reserve before the tail is moved, so *)
(* the move takes the len bytes beyond the old end along with the tail.    *)

InsertFaults(n) ==
    \/ off + n > SizeAfter(n)
    \/ end + n > off /\ end + n + n > SizeAfter(n)

Insert(buf) ==
    LET n == Len(buf)
        moved == Move(BaseAfter(n), off + n, off, Max2(end + n - off, 0))
    IN
    /\ Ready
    /\ \/ /\ ReserveSucceeds(n) /\ size # 0 /\ ~InsertFaults(n)
          /\ base' = Put(moved, off, buf)
          /\ size' = SizeAfter(n) /\ end' = end + n /\ off' = off + n
          /\ Returns("insert", n)
          /\ packed' = NotPacked /\ got' = <<>> /\ Keeps
       \/ /\ ReserveFails(n) \/ size = 0
          /\ UNCHANGED blob
          /\ Returns("insert", -1)
          /\ packed' = NotPacked /\ got' = <<>> /\ Keeps
       \/ ReserveSucceeds(n) /\ size # 0 /\ InsertFaults(n) /\ Faults("insert")

DeletesFromAny(n) == off + n <= end             \* mutant: no test of b->size
FewerBytesAfter(n) == end - (off + n) - 1               \* mutant: off by one
BytesAfter(n) == end - (off + n)
CanDelete(n) == off + n <= end /\ size # 0

Delete(n) ==
    /\ Ready
    /\ \/ /\ CanDelete(n)
          /\ base' = Move(base, off, off + n, BytesAfter(n))
          /\ end' = end - n
          /\ UNCHANGED <<off, size>>
          /\ got' = <<Bytes(base, off, n)>>
          /\ Returns("delete", n)
       \/ /\ ~CanDelete(n)
          /\ UNCHANGED blob
          /\ got' = <<>>
          /\ Returns("delete", -1)
    /\ packed' = NotPacked
    /\ Keeps

-----------------------------------------------------------------------------
(* blob_seek, blob_index and blob_rindex. *)

SeeksForward(to) == to >= 0                       \* mutant: no upper bound
CanSeek(to) == 0 <= to /\ to <= end

Seek(whence, n) ==
    LET to == n + (CASE whence = "SET" -> 0
                     [] whence = "CUR" -> off
                     [] whence = "END" -> end)
    IN
    /\ Ready
    /\ \/ /\ CanSeek(to)
          /\ off' = to
          /\ Returns("seek", to)
       \/ /\ ~CanSeek(to)
          /\ UNCHANGED off
          /\ Returns("seek", -1)
    /\ got' = <<>>
    /\ UNCHANGED <<base, end, size, packed>> /\ Keeps

Occurs(buf, at) ==
    at + Len(buf) <= end /\ \A i \in 1..Len(buf) : base[at + i - 1] = buf[i]

Index(buf) ==
    LET from == {i \in off..end : Occurs(buf, i)} IN
    /\ Ready
    /\ \/ \E i \in from : (\A j \in from : i <= j) /\ Returns("index", i)
       \/ from = {} /\ Returns("index", -1)
    /\ got' = <<buf>>
    /\ UNCHANGED <<blob, packed>> /\ Keeps

Rindex(buf) ==
    LET from == {i \in 0..end : Occurs(buf, i)} IN
    /\ Ready
    /\ \/ \E i \in from : (\A j \in from : i >= j) /\ Returns("rindex", i)
       \/ from = {} /\ Returns("rindex", -1)
    /\ got' = <<buf>>
    /\ UNCHANGED <<blob, packed>> /\ Keeps

-----------------------------------------------------------------------------
(* blob_pack and blob_unpack: blob_fmt walks the format one directive a    *)
(* time and returns -1 at the first that fails, whatever came before it.   *)

Reversed(seq) == [i \in 1..Len(seq) |-> seq[Len(seq) + 1 - i]]
NetworkOrder(spec, bytes) ==      \* htonl, ntohl... of a little-endian host
    IF spec \in {"D", "H"} THEN Reversed(bytes) ELSE bytes

(* A length is refused by the integers and required by %b and, unpacking,  *)
(* by %s; "?" is a character with no conversion.                           *)
Refused(d, len, packing) ==
    \/ d.spec = "?"
    \/ d.spec \in {"D", "H", "c", "d", "h"} /\ len # 0
    \/ d.spec = "b" /\ len = 0
    \/ d.spec = "s" /\ len = 0 /\ ~packing

(* The bytes a conversion writes; %s with a length writes that many bytes, *)
(* the last of them replaced by a NUL.                                     *)
WritesHostOrder(d) == d.arg                       \* mutant: no htonl
Converted(d) ==
    CASE d.spec = "b" -> SubSeq(d.arg, 1, d.plen)
      [] d.spec = "s" /\ d.plen > 0 -> [SubSeq(d.arg, 1, d.plen) EXCEPT ![d.plen] = Nul]
      [] OTHER -> NetworkOrder(d.spec, d.arg)

StartFormat(op, f) ==
    /\ Ready
    /\ fmt' = f /\ next' = 1 /\ start' = off
    /\ got' = <<>>
    /\ Returns(op, 0)
    /\ packed' = IF op = "pack" THEN NotPacked ELSE packed
    /\ UNCHANGED <<live, blob, bl_size, fault>>

Interpreting(op) == fault = "none" /\ next > 0 /\ last.op = op
Directives == next <= Len(fmt)
Unfinished(op) == Interpreting(op) /\ Directives
This == fmt[next]

FinishFormat ==
    /\ fault = "none" /\ next > 0 /\ ~Directives
    /\ next' = 0
    /\ packed' = IF last.op = "pack" THEN [at |-> start, fmt |-> fmt] ELSE packed
    /\ UNCHANGED <<live, blob, bl_size, fmt, start, got, last, fault>>

Continue == next' = next + 1 /\ UNCHANGED <<last, packed, live, bl_size, fmt, start, fault>>
Abandon(op) ==
    /\ next' = 0 /\ Returns(op, -1)
    /\ UNCHANGED <<packed, live, bl_size, fmt, start, fault>>

RefuseDirective(op) ==
    /\ Unfinished(op)
    /\ Refused(This, IF op = "pack" THEN This.plen ELSE This.ulen, op = "pack")
    /\ UNCHANGED <<blob, got>>
    /\ Abandon(op)

(* An ordinary character takes blob_reserve even when it lands on the last *)
(* byte, which a fixed blob refuses.                                       *)
PackLiteral ==
    LET grow == off + 1 - end IN
    /\ Unfinished("pack") /\ This.spec = "literal"
    /\ \/ /\ off + 1 < end
          /\ base' = Put(base, off, This.arg)
          /\ off' = off + 1 /\ UNCHANGED <<end, size>>
          /\ Continue
       \/ /\ off + 1 >= end /\ ReserveSucceeds(grow)
          /\ base' = Put(BaseAfter(grow), off, This.arg)
          /\ size' = SizeAfter(grow)
          /\ off' = off + 1 /\ end' = end + grow
          /\ Continue
       \/ /\ off + 1 >= end /\ ReserveFails(grow)
          /\ UNCHANGED blob
          /\ Abandon("pack")
    /\ UNCHANGED got

PackConversion ==
    /\ Unfinished("pack") /\ This.spec # "literal"
    /\ ~Refused(This, This.plen, TRUE)
    /\ \/ WriteSucceeds(Converted(This)) /\ Continue
       \/ WriteFails(Converted(This)) /\ Abandon("pack")
    /\ UNCHANGED got

(* The byte under the cursor is compared without a look at end, and the    *)
(* cursor moves whether or not it matches.                                 *)
UnpackLiteral ==
    /\ Unfinished("unpack") /\ This.spec = "literal"
    /\ \/ /\ off < Capacity
          /\ off' = off + 1 /\ UNCHANGED <<base, end, size, got>>
          /\ \/ base[off] \in {This.arg[1], Junk} /\ Continue
             \/ base[off] # This.arg[1] /\ Abandon("unpack")
       \/ off >= Capacity /\ Faults("literal")

(* %D and %H insist on every byte; %c, %d, %h and %b take what is there.   *)
UnpackConversion ==
    LET n == ReadCount(Width(This)) IN
    /\ Unfinished("unpack") /\ This.spec \notin {"literal", "s"}
    /\ ~Refused(This, This.ulen, FALSE)
    /\ \/ /\ ~ReadFaults(Width(This)) /\ Reads(Width(This))
          /\ \/ /\ This.spec \notin {"D", "H"} \/ n = Width(This)
                /\ got' = Append(got, NetworkOrder(This.spec, Bytes(base, off, n)))
                /\ Continue
             \/ /\ This.spec \in {"D", "H"} /\ n # Width(This)
                /\ got' = got
                /\ Abandon("unpack")
       \/ ReadFaults(Width(This)) /\ Faults("read")

(* %s scans the longer, not the shorter, of what is left and the length    *)
(* the caller gave, for a NUL.                                             *)
Scan(d) == Max2(Left, d.ulen)
MayBeNul(i) == base[off + i] \in {Nul, Junk}
NoNulBefore(n) == \A i \in 0..(n - 1) : off + i < Capacity /\ base[off + i] # Nul

UnpackString ==
    LET n == This.ulen IN
    /\ Unfinished("unpack") /\ This.spec = "s" /\ ~Refused(This, n, FALSE)
    /\ \/ \E i \in 0..(n - 1) :
             /\ NoNulBefore(i) /\ off + i < Capacity /\ MayBeNul(i)
             /\ off' = off + i + 1
             /\ got' = Append(got, Append(Bytes(base, off, i), Nul))
             /\ UNCHANGED <<base, end, size>> /\ Continue
       \/ /\ NoNulBefore(n) /\ Scan(This) = n
          /\ UNCHANGED <<blob, got>> /\ Abandon("unpack")
       \/ /\ NoNulBefore(n) /\ Scan(This) > n           \* writes past p[n-1]
          /\ Faults("argument")
       \/ \E i \in 0..(n - 1) :                         \* reads past base
             NoNulBefore(i) /\ off + i >= Capacity /\ Faults("string")

-----------------------------------------------------------------------------
Offsets == -MaxAlloc..MaxAlloc

UnpackStep == UnpackLiteral \/ UnpackConversion \/ UnpackString
FormatStep ==
    \/ RefuseDirective("pack") \/ RefuseDirective("unpack")
    \/ PackLiteral \/ PackConversion
    \/ FinishFormat

PlainCall ==
    \/ New \/ Free
    \/ \E n \in ChunkSizes : RegisterAlloc(n)
    \/ \E buf \in Buffers :
          Wrap(buf) \/ Write(buf) \/ Index(buf) \/ Rindex(buf)
          \/ Read(Len(buf)) \/ Delete(Len(buf))
    \/ \E whence \in {"SET", "CUR", "END"}, n \in Offsets : Seek(whence, n)
    \/ \E f \in Formats : StartFormat("pack", f) \/ StartFormat("unpack", f)
    \/ FormatStep

Next == PlainCall \/ UnpackStep \/ \E buf \in Buffers : Insert(buf)

Spec == Init /\ [][Next]_vars

-----------------------------------------------------------------------------
(* The same blob in the hands of a client that asks of it only what the    *)
(* code can do: it inserts where twice the inserted length is spare, and   *)
(* unpacks a character, or a string, that is there.                        *)

CarefulInsert(buf) ==
    (size = 0 \/ end + 2 * Len(buf) <= size) /\ Insert(buf)
StringThere(d) ==
    \E i \in 0..(d.ulen - 1) : off + i < end /\ base[off + i] = Nul
CarefulUnpack ==
    \/ off < end /\ UnpackLiteral
    \/ UnpackConversion
    \/ Unfinished("unpack") /\ StringThere(This) /\ UnpackString

CarefulNext ==
    PlainCall \/ CarefulUnpack \/ \E buf \in Buffers : CarefulInsert(buf)

CarefulSpec == Init /\ [][CarefulNext]_vars

-----------------------------------------------------------------------------
(* Properties. *)

Item == Seq(Byte \cup {Junk})

(* The variables hold values of their types; the allocation is exactly     *)
(* what size, or for a fixed blob end, says it is.                         *)
TypeOK ==
    /\ live \in BOOLEAN
    /\ off \in Nat /\ end \in Nat /\ size \in 0..MaxAlloc
    /\ base \in [0..(Capacity - 1) -> Byte \cup {Junk}]
    /\ bl_size \in ChunkSizes
    /\ fmt \in Seq(Directive) /\ next \in Nat /\ start \in Nat
    /\ got \in Seq(Item)
    /\ packed \in [at : Int, fmt : Seq(Directive)]
    /\ last \in [op : Calls, ret : Int]
    /\ fault \in FaultKinds \cup {"none"}

(* blob.h: off is an offset into the data, end the end of the data, size   *)
(* the size of the allocation.  A careful client never sees the cursor     *)
(* beyond the data, nor data beyond the allocation.                        *)
CursorInside == off <= end /\ end <= Capacity

(* No byte below end is memory nobody wrote: blob_reserve raises end over  *)
(* fresh memory before its callers fill it, and they fill all of it.       *)
NoJunkBelowEnd == \A i \in 0..(end - 1) : base[i] # Junk

(* Whatever the client does, short of a fault neither the cursor nor the   *)
(* end leaves the allocation: a cursor carried past end by blob_unpack     *)
(* stops at the last allocated byte, and blob_write grows from there.      *)
StaysAllocated == off <= Capacity /\ end <= Capacity

(* A careful client never makes blob.c leave an allocation.                *)
NeverFaults == fault = "none"

(* What blob_unpack delivers from the place where blob_pack left the same  *)
(* format, with no write, insert or delete between, is what was packed:    *)
(* every item, in its own byte order, and the call returns 0.              *)
Delivered(d) == IF d.spec = "s" \/ d.spec = "literal" THEN Converted(d) ELSE d.arg
Conversions(f) == SelectSeq(f, LAMBDA d : d.spec # "literal")
RoundTrip ==
    next = 0 /\ last.op = "unpack" /\ packed = [at |-> start, fmt |-> fmt] =>
        /\ last.ret = 0
        /\ Len(got) = Len(Conversions(fmt))
        /\ \A i \in 1..Len(got) : got[i] = Delivered(Conversions(fmt)[i])

(* The bytes of a fixed blob stay where the client put them and keep their *)
(* number, whatever is called on it.                                       *)
FixedStays ==
    [][live /\ live' /\ size = 0 =>
         /\ size' = 0 /\ end' = end /\ DOMAIN base' = DOMAIN base]_vars

(* blob.h: size is the size of the allocation.  blob_insert keeps inside.  *)
InsertStaysInside == fault # "insert"

(* dnet.3: the maximum length of a %s must be given when unpacking; the    *)
(* caller's string is not written beyond it.                               *)
StringWithinMaximum == fault # "argument"

(* dnet.3: blob_unpack returns 0 on success and -1 on failure; when it     *)
(* says success every item has all its bytes.                              *)
SuccessIsComplete ==
    next = 0 /\ last = [op |-> "unpack", ret |-> 0] =>
        \A i \in 1..Len(got) :
            LET d == Conversions(fmt)[i]
            IN  d.spec # "s" => Len(got[i]) = Width(d)

(* dnet.3: blob_index returns the offset of the first occurrence in the    *)
(* blob, as blob_rindex returns that of the last.                          *)
IndexFindsFirst ==
    last.op = "index" /\ got[1] # <<>> =>
        \A i \in 0..end : Occurs(got[1], i) => last.ret \in 0..i

(* A careful client sees a text and a position, as BlobAbs says.           *)
Text == Bytes(base, 0, end)
Abs == INSTANCE BlobAbs WITH growable <- size > 0, text <- Text, pos <- off
ImplementsText == Abs!Spec
=============================================================================
