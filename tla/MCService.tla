------------------------------- MODULE MCService -------------------------------
(* Service with more requests than the ring buffer has slots. *)
EXTENDS Service

CONSTANTS r1, r2, r3
=============================================================================
