------------------------------ MODULE SlotPool ------------------------------
(***************************************************************************)
(* What Service.runSlots of internal/codex/service.go promises: a run that *)
(* asks for a slot gets one or gives up, no more than Slots runs hold one, *)
(* and each of them gives it back.                                         *)
(***************************************************************************)
EXTENDS Integers, FiniteSets

CONSTANTS Runs, Slots

VARIABLES waiting, holding

poolVars == <<waiting, holding>>

Init == waiting = {} /\ holding = {}

Ask(r) ==
    /\ r \notin waiting \cup holding
    /\ waiting' = waiting \cup {r}
    /\ UNCHANGED holding

Take(r) ==
    /\ r \in waiting
    /\ Cardinality(holding) < Slots
    /\ waiting' = waiting \ {r}
    /\ holding' = holding \cup {r}

GiveUp(r) ==
    /\ r \in waiting
    /\ waiting' = waiting \ {r}
    /\ UNCHANGED holding

Give(r) ==
    /\ r \in holding
    /\ holding' = holding \ {r}
    /\ UNCHANGED waiting

Next == \E r \in Runs : Ask(r) \/ Take(r) \/ GiveUp(r) \/ Give(r)

Safety == Init /\ [][Next]_poolVars

Spec == Safety /\ \A r \in Runs : WF_poolVars(Take(r) \/ GiveUp(r) \/ Give(r))
=============================================================================
