----------------------------- MODULE MCChatTurn -----------------------------
(* Instances of ChatTurn for TLC. *)
EXTENDS ChatTurn, TLC

Symmetry == Permutations(Convs) \cup Permutations(Requests)
=============================================================================
