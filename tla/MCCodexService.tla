--------------------------- MODULE MCCodexService ---------------------------
(* Instances of CodexService for TLC. *)
EXTENDS CodexService
=============================================================================
