------------------------------ MODULE BlobAbs ------------------------------
(***************************************************************************)
(* What a blob promises its client: a text of bytes with a position in it. *)
(* A call either does its whole effect on the text and reports it, or      *)
(* reports -1 and leaves the text and the position alone; the memory that  *)
(* holds the text is nobody's concern.  blob_pack and blob_unpack are the  *)
(* exception: each directive is a call of this kind, not the whole format. *)
(***************************************************************************)
EXTENDS Integers, Sequences

CONSTANTS Byte, Buffers

VARIABLES
    live,       \* whether there is a blob
    growable,   \* FALSE when the bytes belong to the client
    text, pos,  \* its bytes, and how many of them precede the cursor
    last, got   \* what the last call answered

abs == <<live, growable, text, pos>>

Before == SubSeq(text, 1, pos)
From(n) == SubSeq(text, pos + n + 1, Len(text))
InText(n) == pos + n <= Len(text)
Answers(op, ret) == last' = [op |-> op, ret |-> ret]

Init ==
    /\ live = FALSE /\ growable = FALSE /\ text = <<>> /\ pos = 0
    /\ last = [op |-> "free", ret |-> 0] /\ got = <<>>

Appear ==
    /\ ~live /\ live' = TRUE /\ pos' = 0
    /\ \/ growable' = TRUE /\ text' = <<>> /\ Answers("new", 0)
       \/ growable' = FALSE /\ text' \in Buffers /\ Answers("wrap", 0)

Vanish ==
    /\ live /\ live' = FALSE
    /\ growable' = FALSE /\ text' = <<>> /\ pos' = 0
    /\ Answers("free", 0)

(* Replace what is under the cursor; only a growable text gets longer.     *)
Overwrite(buf) ==
    /\ InText(Len(buf)) \/ growable
    /\ text' = Before \o buf \o From(Len(buf))
    /\ pos' = pos + Len(buf)
    /\ UNCHANGED <<live, growable>>

Insert(buf) ==
    /\ growable
    /\ text' = Before \o buf \o From(0)
    /\ pos' = pos + Len(buf)
    /\ Answers("insert", Len(buf))
    /\ UNCHANGED <<live, growable>>

Delete(n) ==
    /\ growable /\ InText(n)
    /\ text' = Before \o From(n)
    /\ got' = <<SubSeq(text, pos + 1, pos + n)>>
    /\ Answers("delete", n)
    /\ UNCHANGED <<live, growable, pos>>

(* A read is short when the text ends early, and only then.                *)
Read(n) ==
    LET k == IF InText(n) THEN n ELSE Len(text) - pos IN
    /\ pos' = pos + k
    /\ got' = <<SubSeq(text, pos + 1, pos + k)>>
    /\ Answers("read", k)
    /\ UNCHANGED <<live, growable, text>>

Seek(to) ==
    /\ to \in 0..Len(text)
    /\ pos' = to
    /\ Answers("seek", to)
    /\ UNCHANGED <<live, growable, text>>

(* A directive of a format: packed over the text, or read out of it.       *)
PackDirective ==
    /\ last.op = "pack"
    /\ pos' >= pos /\ Overwrite(SubSeq(text', pos + 1, pos'))
    /\ UNCHANGED <<last, got>>

UnpackDirective ==
    /\ last.op = "unpack"
    /\ pos' \in pos..Len(text)
    /\ UNCHANGED <<live, growable, text>>
    /\ \/ got' = got
       \/ LET bytes == SubSeq(text, pos + 1, pos') IN
          got' \in {Append(got, bytes),
                    Append(got, [i \in 1..Len(bytes) |-> bytes[Len(bytes) + 1 - i]])}
    /\ last' = last \/ Answers("unpack", -1)

(* A write within the text cannot fail, a delete within a growable text    *)
(* cannot fail, an allocation always can.                                  *)
Refuse ==
    /\ UNCHANGED abs
    /\ \/ Answers("new", -1) \/ Answers("register", 0) \/ Answers("seek", -1)
       \/ last'.op \in {"index", "rindex", "pack", "unpack"}
       \/ Answers("write", -1) /\ \E buf \in Buffers : ~InText(Len(buf))
       \/ Answers("insert", -1)
       \/ Answers("delete", -1) /\ \E buf \in Buffers : ~InText(Len(buf)) \/ ~growable

Next ==
    \/ Appear \/ Vanish \/ Refuse \/ PackDirective \/ UnpackDirective
    \/ \E buf \in Buffers :
          \/ Overwrite(buf) /\ Answers("write", Len(buf))
          \/ Insert(buf) \/ Delete(Len(buf)) \/ Read(Len(buf))
    \/ \E to \in 0..Len(text) : Seek(to)

Spec == Init /\ [][Next]_<<abs, last, got>>
=============================================================================
