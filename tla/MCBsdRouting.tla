---------------------------- MODULE MCBsdRouting ----------------------------
(* Small instances of BsdRouting for TLC. *)
EXTENDS BsdRouting, TLC

CONSTANTS h1, h2

Handles == Permutations({h1, h2})

TwoArp == [h \in Handle |-> "arp"]
ArpAndRoute == [h \in Handle |-> IF h = h1 THEN "arp" ELSE "route"]
OwnPids == [h \in Handle |-> h]            \* one process for each handle
OnePid == [h \in Handle |-> "process"]     \* one process for all
=============================================================================
