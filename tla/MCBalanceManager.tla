-------------------------- MODULE MCBalanceManager --------------------------
(* Instances of BalanceManager for TLC. *)
EXTENDS BalanceManager
=============================================================================
