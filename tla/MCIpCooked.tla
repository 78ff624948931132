----------------------------- MODULE MCIpCooked -----------------------------
(* Small instances of IpCooked for TLC. *)
EXTENDS IpCooked

CONSTANTS e0, e1, ppp, near, far, router

(* near is attached to e0, router to e1, far to neither.                   *)
Interfaces == <<e0, ppp, e1>>
Attached == [h \in Host |-> CASE h = near -> e0 [] h = router -> e1 [] OTHER -> None]
Tables == [h \in Host |-> CASE h = near -> {e0, router}
                            [] h = far -> {None, router}
                            [] OTHER -> {None}]
WholeWords == [i \in {e0, ppp, e1} |-> CASE i = e0 -> 36 [] i = e1 -> 28 [] OTHER -> 0]
OddWords == [i \in {e0, ppp, e1} |-> IF i = ppp THEN 0 ELSE 32]
=============================================================================
