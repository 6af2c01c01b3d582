------------------------------ MODULE RunLedger ------------------------------
(***************************************************************************)
(* What the run history promises its reader, whatever happens to the       *)
(* process that writes it: at most one open run per task, and every open   *)
(* run is closed in the end.                                               *)
(***************************************************************************)
CONSTANTS Tasks, RunIds, NoTask

VARIABLE open  \* the task of each open run, NoTask for the ids not in use

Init == open = [r \in RunIds |-> NoTask]

\* A run opens only for a task that has no open run.
Open(r, t) ==
    /\ open[r] = NoTask
    /\ \A q \in RunIds : open[q] # t
    /\ open' = [open EXCEPT ![r] = t]

\* A run ends, a profile takes its runs with it, a new process closes what the
\* previous one left open.
Close(S) == open' = [r \in RunIds |-> IF r \in S THEN NoTask ELSE open[r]]

Next ==
    \/ \E r \in RunIds, t \in Tasks : Open(r, t)
    \/ \E S \in SUBSET RunIds : Close(S)

Closes == \A r \in RunIds : (open[r] # NoTask) ~> (open[r] = NoTask)

Safety == Init /\ [][Next]_open

Spec == Safety /\ Closes
=============================================================================
