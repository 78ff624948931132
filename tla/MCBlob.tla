------------------------------- MODULE MCBlob -------------------------------
(* Small instances of Blob for TLC. *)
EXTENDS Blob, SequencesExt

x == "x"
MCByte == {"0", x}
MCBuffers == {<<>>, <<x>>, <<"0", x>>, <<x, x>>}
Dir(spec, plen, ulen, arg) == [spec |-> spec, plen |-> plen, ulen |-> ulen, arg |-> arg]

(* A character and a 16-bit integer; a host-order integer and a byte       *)
(* string; a string and a character; a 32-bit integer.                     *)
MCFormats ==
    { <<Dir("literal", 0, 0, <<x>>), Dir("H", 0, 0, <<"0", x>>)>>,
      <<Dir("h", 0, 0, <<"0", x>>), Dir("b", 1, 1, <<x>>)>>,
      <<Dir("s", 0, 2, <<x, "0">>), Dir("c", 0, 0, <<x>>)>>,
      <<Dir("D", 0, 0, <<"0", x, x, x>>)>>,
      <<Dir("literal", 0, 0, <<"0">>), Dir("?", 0, 0, <<>>)>> }
=============================================================================
