---------------------------- MODULE MCUsageCache ----------------------------
(* Instances of UsageCache for TLC: the exact pattern "sol" and the glob "s*", both
   defaults.  The seeded glob has priority 10, so has a row that the operator has put
   "last", all others 100: priorities decide between the two, or the wildcard. *)
EXTENDS UsageCache

MCDefaults == <<"sol", "s*">>
MCMatches(p, m) == p = "s*" \/ m = "sol"
MCPriority(p, price) ==
    IF price = "last" \/ (price = "seed" /\ p = "s*") THEN 10 ELSE 100
MCWildcards(p) == IF p = "sol" THEN 0 ELSE 1
MCLength(p) == IF p = "sol" THEN 3 ELSE 2
MCNameBefore(p, q) == p = "s*" /\ q = "sol"
=============================================================================
