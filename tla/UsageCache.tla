----------------------------- MODULE UsageCache -----------------------------
(***************************************************************************)
(* The local usage report and the price table under it: loadUsage and the  *)
(* price requests of internal/httpapi/usage.go, EnsureSeed, RestoreDefaults *)
(* and Match of internal/usage/usage.go, the statements of                 *)
(* internal/store/price.go.                                                *)
(*                                                                         *)
(* A row is known by its pattern, which is unique.  Its price is that of   *)
(* the default table ("seed") or one of the operator's.  The report is     *)
(* abstracted to the row that prices each model; session files are         *)
(* external and fixed.  A row is read back in the step that writes it.     *)
(***************************************************************************)
EXTENDS Integers, Sequences, SequencesExt

CONSTANTS
    Requests,               \* concurrent HTTP requests
    Models,                 \* model names in the session files
    Patterns,               \* patterns of price rows
    Own,                    \* amounts and priorities that the operator gives a row
    Defaults,               \* DefaultPrices: a sequence of patterns
    Matches(_, _),          \* Matches(p, m): filepath.Match(pattern, model)
    Priority(_, _),         \* Priority(p, price)
    Wildcards(_),           \* number of * and ? in a pattern
    Length(_),
    NameBefore(_, _),       \* the order of the patterns as texts
    Nobody

\* In place of the row that a restore has looked up: it found none, or the row is gone.
Missing == "missing"
Gone == "gone"

ASSUME UsageAssumption ==
    /\ IsFiniteSet(Patterns)
    /\ {Missing, Gone} \cap Patterns = {}
    /\ {"none", "seed"} \cap Own = {}
    /\ Defaults \in Seq(Patterns)
    /\ Nobody \notin Requests
    /\ \A p \in Patterns : /\ \A price \in Own \cup {"seed"} : Priority(p, price) \in Int
                           /\ Wildcards(p) \in Nat /\ Length(p) \in Nat
    /\ \A p, q \in Patterns : /\ ~NameBefore(p, p)
                              /\ p # q => (NameBefore(p, q) <=> ~NameBefore(q, p))
    /\ \A p, q, r \in Patterns : NameBefore(p, q) /\ NameBefore(q, r) => NameBefore(p, r)

VARIABLES
    table,      \* model_prices: price of each pattern, or none
    cached,     \* Server.usageCached, NoReport when usageCachedAt is zero
    mutex,      \* holder of Server.usageMu
    act,        \* what each request is at
    failed,     \* a statement has failed: at most one does
    unseen      \* history: the patterns changed since the prices of the report were read,
                \* by each restore so far and, under Nobody, by requests that are answered
                \* and have not dropped the report

vars == <<table, cached, mutex, act, failed, unseen>>

Prices == {"none", "seed"} \cup Own
Unpriced == [pattern |-> "", price |-> "none"]
Row == [pattern : Patterns, price : {"seed"} \cup Own]
NoReport == [m \in {} |-> Unpriced]

Wants == {"report", "rescan", "prices"}
Idle == [pc |-> "idle"]
\* row: the pattern that the row restore has looked up has now, Missing or Gone.
Act == [pc : {"count"}, want : Wants]
       \cup [pc : {"insert"}, want : Wants, i : DOMAIN Defaults]
       \cup [pc : {"lock"}, want : Wants \ {"prices"}]
       \cup [pc : {"scan"}, report : [Models -> Row \cup {Unpriced}]]
       \cup [pc : {"lookup"}, i : DOMAIN Defaults]
       \cup [pc : {"write"}, i : DOMAIN Defaults, row : Patterns \cup {Missing, Gone}]
       \cup [pc : {"invalidate"}]

-----------------------------------------------------------------------------
(* Prices of models *)

Present(t) == {p \in Patterns : t[p] # "none"}
RowOf(t, p) == [pattern |-> p, price |-> t[p]]
Prio(r) == Priority(r.pattern, r.price)

\* ORDER BY priority DESC, pattern ASC
ListedBefore(r, s) ==
    \/ Prio(r) > Prio(s)
    \/ Prio(r) = Prio(s) /\ NameBefore(r.pattern, s.pattern)

ListModelPrices(t) ==
    LET rows == {RowOf(t, p) : p \in Present(t)}
        before(r) == {s \in rows : ListedBefore(s, r)}
    IN [i \in 1..Cardinality(rows) |-> CHOOSE r \in rows : Cardinality(before(r)) = i - 1]

\* Mutant: more wildcards win.
BeatsReversed(r, best) ==
    \/ best = Unpriced
    \/ Prio(r) > Prio(best)
    \/ Prio(r) = Prio(best) /\ Wildcards(r.pattern) > Wildcards(best.pattern)

Beats(r, best) ==
    \/ best = Unpriced
    \/ Prio(r) > Prio(best)
    \/ /\ Prio(r) = Prio(best)
       /\ \/ Wildcards(r.pattern) < Wildcards(best.pattern)
          \/ /\ Wildcards(r.pattern) = Wildcards(best.pattern)
             /\ Length(r.pattern) > Length(best.pattern)

\* The row that prices a model: one pass over the list.
Match(m, rows) ==
    FoldLeft(LAMBDA best, r : IF Matches(r.pattern, m) /\ Beats(r, best) THEN r ELSE best,
             Unpriced, rows)

Summarize(t) == LET list == ListModelPrices(t) IN [m \in Models |-> Match(m, list)]

-----------------------------------------------------------------------------
Become(q, a) == act' = [act EXCEPT ![q] = a]
Fault == ~failed /\ failed' = TRUE
NoFault == UNCHANGED failed
NoneUnseen == [x \in Requests \cup {Nobody} |-> {}]
Unseen(x, ps) == unseen' = [unseen EXCEPT ![x] = @ \cup ps]
Empty == \A p \in Patterns : table[p] = "none"

\* After EnsureSeed: the usage request goes on, whatever became of it; the list of
\* prices is answered, or refused if the seeding failed.
AfterSeed(q) ==
    Become(q, IF act[q].want = "prices" THEN Idle
              ELSE [pc |-> "lock", want |-> act[q].want])

\* GET /usage, with or without refresh=1, and GET /usage/prices.
Get(q) ==
    /\ act[q] = Idle
    /\ \E want \in Wants : Become(q, [pc |-> "count", want |-> want])
    /\ UNCHANGED <<table, cached, mutex, failed, unseen>>

\* InsertModelPricesIfEmpty: the count ...
CountModelPrices(q) ==
    /\ act[q].pc = "count"
    /\ \/ /\ Empty /\ Defaults # <<>> /\ NoFault
          /\ Become(q, [pc |-> "insert", want |-> act[q].want, i |-> 1])
       \/ ~Empty /\ NoFault /\ AfterSeed(q)
       \/ Fault /\ AfterSeed(q)
    /\ UNCHANGED <<table, cached, mutex, unseen>>

\* ... and one INSERT after the other.  The first that fails, on a pattern that exists
\* by now (UNIQUE) or for any other reason, ends it; so does a row that cannot be read
\* back.  Nobody drops the report for the new rows.
SeedInsert(q) ==
    LET i == act[q].i
        p == Defaults[i]
    IN
    /\ act[q].pc = "insert"
    /\ \/ /\ table[p] = "none"
          /\ table' = [table EXCEPT ![p] = "seed"]
          /\ Unseen(Nobody, {p})
          /\ \/ Fault /\ AfterSeed(q)
             \/ i = Len(Defaults) /\ NoFault /\ AfterSeed(q)
             \/ i < Len(Defaults) /\ NoFault /\ Become(q, [act[q] EXCEPT !.i = i + 1])
       \/ table[p] # "none" /\ NoFault /\ AfterSeed(q) /\ UNCHANGED <<table, unseen>>
       \/ Fault /\ AfterSeed(q) /\ UNCHANGED <<table, unseen>>
    /\ UNCHANGED <<cached, mutex>>

-----------------------------------------------------------------------------
(* The report *)

\* usageMu: the cached report is returned, or the session files are scanned and the
\* prices read with the mutex held; if that read fails, the models go unpriced and no row
\* has been seen.  (Nobody sees the mutex between the lock and the read.)
Lock(q) ==
    /\ act[q].pc = "lock"
    /\ mutex = Nobody
    /\ IF act[q].want = "report" /\ cached # NoReport
       THEN Become(q, Idle) /\ UNCHANGED <<mutex, failed, unseen>>
       ELSE /\ mutex' = q
            /\ \/ /\ Become(q, [pc |-> "scan", report |-> Summarize(table)]) /\ NoFault
                  /\ unseen' = NoneUnseen
               \/ /\ Become(q, [pc |-> "scan", report |-> [m \in Models |-> Unpriced]]) /\ Fault
                  /\ unseen' = [NoneUnseen EXCEPT ![Nobody] = Patterns]
    /\ UNCHANGED <<table, cached>>

\* Mutant: the mutex is not released.
KeepMutex == UNCHANGED mutex

Unlock == mutex' = Nobody

\* The new report is cached, the report of a failed read too.
Rescan(q) ==
    /\ act[q].pc = "scan"
    /\ cached' = act[q].report
    /\ Unlock
    /\ Become(q, Idle)
    /\ UNCHANGED <<table, failed, unseen>>

-----------------------------------------------------------------------------
(* Changes of the price table *)

\* The handler goes on to invalidateUsage; if reading the row back fails, it does not.
Changed(q, ps, b) ==
    \/ act' = [b EXCEPT ![q] = [pc |-> "invalidate"]] /\ NoFault /\ UNCHANGED unseen
    \/ act' = b /\ Fault /\ Unseen(Nobody, ps)

\* A pattern that exists is refused (UNIQUE).
CreatePrice(q, p, price) ==
    /\ act[q] = Idle
    /\ table[p] = "none"
    /\ table' = [table EXCEPT ![p] = price]
    /\ Changed(q, {p}, act)
    /\ UNCHANGED <<cached, mutex>>

\* Requests that have looked the row up know it by its id: they follow it.
Follow(p, to, b) ==
    [r \in Requests |-> IF b[r].pc = "write" /\ b[r].row = p /\ p # Missing
                        THEN [b[r] EXCEPT !.row = to]
                        ELSE b[r]]

\* A row gets a new price and possibly another pattern.
UpdatePrice(q, p, to, price) ==
    /\ act[q] = Idle
    /\ table[p] # "none"
    /\ to = p \/ table[to] = "none"
    /\ table' = [table EXCEPT ![p] = "none", ![to] = price]
    /\ Changed(q, {p, to}, Follow(p, to, act))
    /\ UNCHANGED <<cached, mutex>>

DeletePrice(q, p) ==
    /\ act[q] = Idle
    /\ table[p] # "none"
    /\ table' = [table EXCEPT ![p] = "none"]
    /\ act' = [Follow(p, Gone, act) EXCEPT ![q] = [pc |-> "invalidate"]]
    /\ UNCHANGED <<cached, mutex, failed, unseen>>

\* Mutant: the report is dropped without waiting for the scan that may be writing one.
InvalidateAnyway == TRUE

CanInvalidate == mutex = Nobody

InvalidateUsage(q) ==
    /\ act[q].pc = "invalidate"
    /\ CanInvalidate
    /\ cached' = NoReport
    /\ unseen' = NoneUnseen
    /\ Become(q, Idle)
    /\ UNCHANGED <<table, mutex, failed>>

\* POST restore: for each default, a look-up of its row ...
RestorePrices(q) ==
    /\ act[q] = Idle
    /\ Defaults # <<>>
    /\ Become(q, [pc |-> "lookup", i |-> 1])
    /\ UNCHANGED <<table, cached, mutex, failed, unseen>>

\* The handler returns at the first error, without invalidation.
GiveUp(q, ps, b) ==
    /\ act' = [b EXCEPT ![q] = Idle]
    /\ unseen' = [unseen EXCEPT ![Nobody] = @ \cup unseen[q] \cup ps, ![q] = {}]

RestoreLookup(q) ==
    LET p == Defaults[act[q].i] IN
    /\ act[q].pc = "lookup"
    /\ \/ /\ Become(q, [pc |-> "write", i |-> act[q].i,
                        row |-> IF table[p] = "none" THEN Missing ELSE p])
          /\ NoFault /\ UNCHANGED unseen
       \/ Fault /\ GiveUp(q, {}, act)
    /\ UNCHANGED <<table, cached, mutex>>

\* ... and its INSERT or UPDATE, which is refused if the pattern has come or the row has
\* gone in between, and may fail, or the read of the row after it.
RestoreWrite(q) ==
    LET i == act[q].i
        p == Defaults[i]
        row == act[q].row
        \* the row it writes must be free of, or be, the pattern's
        fits == row # Gone /\ (row = p \/ table[p] = "none")
        written == {p, row} \cap Patterns
        moved == Follow(row, p, act)
    IN
    /\ act[q].pc = "write"
    /\ \/ /\ fits
          /\ table' = [t \in Patterns |-> IF t = p THEN "seed"
                                          ELSE IF t = row THEN "none" ELSE table[t]]
          /\ \/ /\ i < Len(Defaults) /\ NoFault
                /\ act' = [moved EXCEPT ![q] = [pc |-> "lookup", i |-> i + 1]]
                /\ Unseen(q, written)
             \/ /\ i = Len(Defaults) /\ NoFault
                /\ act' = [moved EXCEPT ![q] = [pc |-> "invalidate"]]
                /\ unseen' = [unseen EXCEPT ![q] = {}]
             \/ Fault /\ GiveUp(q, written, moved)
       \/ ~fits /\ NoFault /\ GiveUp(q, {}, act) /\ UNCHANGED table
       \/ Fault /\ GiveUp(q, {}, act) /\ UNCHANGED table
    /\ UNCHANGED <<cached, mutex>>

-----------------------------------------------------------------------------
Init ==
    /\ table = [p \in Patterns |-> "none"]
    /\ cached = NoReport
    /\ mutex = Nobody
    /\ act = [q \in Requests |-> Idle]
    /\ failed = FALSE
    /\ unseen = NoneUnseen

Handler(q) ==
    \/ CountModelPrices(q) \/ SeedInsert(q) \/ Lock(q) \/ Rescan(q)
    \/ InvalidateUsage(q) \/ RestoreLookup(q) \/ RestoreWrite(q)

Next ==
    \E q \in Requests :
        \/ Get(q) \/ RestorePrices(q) \/ Handler(q)
        \/ \E p \in Patterns, price \in Own : CreatePrice(q, p, price)
        \/ \E p, to \in Patterns, price \in Own : UpdatePrice(q, p, to, price)
        \/ \E p \in Patterns : DeletePrice(q, p)

Spec == Init /\ [][Next]_vars

\* Handlers go on, and a Go mutex is handed on to whoever waits for it (starvation mode).
Fairness ==
    \A q \in Requests : WF_vars(Handler(q)) /\ SF_vars(Lock(q) \/ InvalidateUsage(q))

FairSpec == Spec /\ Fairness

-----------------------------------------------------------------------------
TypeOK ==
    /\ table \in [Patterns -> Prices]
    /\ cached \in [Models -> Row \cup {Unpriced}] \cup {NoReport}
    /\ mutex \in Requests \cup {Nobody}
    /\ act \in [Requests -> Act \cup {Idle}]
    /\ failed \in BOOLEAN
    /\ unseen \in [Requests \cup {Nobody} -> SUBSET Patterns]
    /\ \A q \in Requests : act[q].pc = "scan" <=> mutex = q

\* Which of two rows that match a model should price it: the one of the higher priority,
\* then of fewer wildcards, the longer one, the first by name.
Better(r, s) ==
    \/ Prio(r) > Prio(s)
    \/ /\ Prio(r) = Prio(s)
       /\ \/ Wildcards(r.pattern) < Wildcards(s.pattern)
          \/ /\ Wildcards(r.pattern) = Wildcards(s.pattern)
             /\ \/ Length(r.pattern) > Length(s.pattern)
                \/ /\ Length(r.pattern) = Length(s.pattern)
                   /\ NameBefore(r.pattern, s.pattern)

Winner(rows) ==
    IF rows = {} THEN Unpriced
    ELSE CHOOSE r \in rows : \A s \in rows \ {r} : Better(r, s)

Best(m, t) == Winner({RowOf(t, p) : p \in {s \in Present(t) : Matches(s, m)}})

Report(t) == [m \in Models |-> Best(m, t)]

Pending(q) == act[q].pc \in {"invalidate", "lookup", "write"}

\* The table at the time of the report: as it is now, but for some patterns.
AsOf(rep, ps) ==
    \E t \in [Patterns -> Prices] : /\ \A p \in Patterns \ ps : t[p] = table[p]
                                   /\ rep = Report(t)

\* When all that change prices have been answered, the cached report prices every model as
\* the table does, and so does the report of a scan in progress, whose caching no edit
\* waits for.  It may miss, pattern by pattern, exactly what has been changed since its
\* prices were read by a seeding, by a restore that gave up half-way and by a change that
\* could not be read back: the code drops no report for these.  After a failed read of
\* the prices it prices nothing.
EditsReachReport ==
    (\A q \in Requests : ~Pending(q)) =>
        /\ mutex = Nobody /\ cached # NoReport => AsOf(cached, unseen[Nobody])
        /\ \A q \in Requests : act[q].pc = "scan" => AsOf(act[q].report, unseen[Nobody])

\* Whoever asks for the report, changes a price or restores the defaults is answered,
\* though all of them wait for one mutex that a scan holds from beginning to end.
EveryoneAnswered == \A q \in Requests : act[q] # Idle ~> act[q] = Idle
=============================================================================
