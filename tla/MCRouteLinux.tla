---------------------------- MODULE MCRouteLinux ----------------------------
(* Small instances of RouteLinux for TLC. *)
EXTENDS RouteLinux, TLC

(* No property tells one handle or one gateway from another.               *)
Alike == Permutations(Handle) \cup Permutations(Gw)
=============================================================================
