--------------------------- MODULE MCAccountCache ---------------------------
(* Instances of AccountCache for TLC. *)
EXTENDS AccountCache
=============================================================================
