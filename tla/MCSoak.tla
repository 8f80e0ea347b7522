-------------------------------- MODULE MCSoak --------------------------------
(* Soak with a few workers. *)
EXTENDS Soak

CONSTANTS w1, w2, w3
=============================================================================
