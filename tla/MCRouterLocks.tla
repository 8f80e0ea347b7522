---------------------------- MODULE MCRouterLocks ----------------------------
(* RouterLocks with two goroutines. *)
EXTENDS RouterLocks

CONSTANTS g1, g2
=============================================================================
