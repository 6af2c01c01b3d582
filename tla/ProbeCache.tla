----------------------------- MODULE ProbeCache -----------------------------
(***************************************************************************)
(* A value that is costly to find out, shared by all requests: codexStatus *)
(* of internal/httpapi/dashboard.go, one run of `codex --version` per time *)
(* window.  loadAccount of account.go has the same promise and a longer    *)
(* way of keeping it (module AccountCache).                                *)
(***************************************************************************)
CONSTANTS Requests, Nobody

VARIABLES
    fresh,  \* there is an outcome younger than the time window
    mutex,  \* the request that probes, with the mutex held
    wait    \* requests at the mutex

probeVars == <<fresh, mutex, wait>>

Init ==
    /\ fresh = FALSE
    /\ mutex = Nobody
    /\ wait = {}

Ask(q) ==
    /\ q \notin wait
    /\ mutex # q
    /\ wait' = wait \cup {q}
    /\ UNCHANGED <<fresh, mutex>>

\* The cached outcome is fresh.
Hit(q) ==
    /\ q \in wait
    /\ mutex = Nobody
    /\ fresh
    /\ wait' = wait \ {q}
    /\ UNCHANGED <<fresh, mutex>>

Miss(q) ==
    /\ q \in wait
    /\ mutex = Nobody
    /\ ~fresh
    /\ mutex' = q
    /\ wait' = wait \ {q}
    /\ UNCHANGED fresh

\* The outcome is cached, a failure too, even if it was this one client that left.
Probed(q) ==
    /\ mutex = q
    /\ fresh' = TRUE
    /\ mutex' = Nobody
    /\ UNCHANGED wait

Expire ==
    /\ fresh
    /\ fresh' = FALSE
    /\ UNCHANGED <<mutex, wait>>

Next == Expire \/ \E q \in Requests : Ask(q) \/ Hit(q) \/ Miss(q) \/ Probed(q)

Spec == Init /\ [][Next]_probeVars
=============================================================================
