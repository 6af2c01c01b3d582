----------------------------- MODULE UsageProofs -----------------------------
(***************************************************************************)
(* Proofs about UsageCache: its type invariant, and that changes of the    *)
(* price table reach the report.                                           *)
(***************************************************************************)
EXTENDS PriceProofs

-----------------------------------------------------------------------------
(* The invariants *)

\* The report of a table, but for some patterns.
UpTo(rep, t, ps) ==
    \E u \in [Patterns -> Prices] : /\ \A p \in Patterns \ ps : u[p] = t[p]
                                   /\ rep = Report(u)

\* Everything that has changed since the prices were read and that no request at
\* invalidateUsage answers for.
Marked == UNION {unseen[x] : x \in Requests \cup {Nobody}}

Quiet == \A q \in Requests : act[q].pc # "invalidate"

\* Only a restore in progress has changes of its own.
RestoresOnly == \A q \in Requests : act[q].pc \notin {"lookup", "write"} => unseen[q] = {}

\* What EditsReachReport needs: during a restore, too, the report that the mutex protects
\* misses nothing but what is marked, or someone is going to drop it.
ReportInv ==
    /\ RestoresOnly
    /\ Quiet => /\ mutex = Nobody /\ cached # NoReport => UpTo(cached, table, Marked)
                /\ \A q \in Requests :
                      act[q].pc = "scan" => UpTo(act[q].report, table, Marked)

-----------------------------------------------------------------------------
(* Operators *)

\* What a request is at, by its pc.
LEMMA ActFields ==
    ASSUME NEW a \in Act \cup {Idle}
    PROVE  /\ a.pc \in {"idle", "count", "insert", "lock", "scan", "lookup", "write", "invalidate"}
           /\ a.pc = "idle" => a = Idle
           /\ a.pc \in {"count", "insert"} => a.want \in Wants
           /\ a.pc \in {"insert", "lookup", "write"} => a.i \in DOMAIN Defaults
           /\ a.pc = "lock" => a.want \in Wants \ {"prices"}
           /\ a.pc = "scan" => a.report \in [Models -> Row \cup {Unpriced}]
           /\ a.pc = "write" => a.row \in Patterns \cup {Missing, Gone}
BY DEF Act, Idle

LEMMA ActMakes ==
    /\ Idle \in Act \cup {Idle} /\ Idle.pc = "idle"
    /\ \A w \in Wants : [pc |-> "count", want |-> w] \in Act
    /\ \A w \in Wants \ {"prices"} : [pc |-> "lock", want |-> w] \in Act
    /\ \A w \in Wants, i \in DOMAIN Defaults : [pc |-> "insert", want |-> w, i |-> i] \in Act
    /\ \A r \in [Models -> Row \cup {Unpriced}] : [pc |-> "scan", report |-> r] \in Act
    /\ \A i \in DOMAIN Defaults : [pc |-> "lookup", i |-> i] \in Act
    /\ \A i \in DOMAIN Defaults, p \in Patterns \cup {Missing, Gone} :
          [pc |-> "write", i |-> i, row |-> p] \in Act
    /\ [pc |-> "invalidate"] \in Act
BY DEF Act, Idle

LEMMA DefaultsNext ==
    ASSUME NEW i \in DOMAIN Defaults
    PROVE  /\ Defaults[i] \in Patterns
           /\ i # Len(Defaults) => i + 1 \in DOMAIN Defaults
           /\ 1 \in DOMAIN Defaults
<1>1. Defaults \in Seq(Patterns)
  BY UsageAssumption
<1>2. Len(Defaults) \in Nat /\ DOMAIN Defaults = 1..Len(Defaults)
  BY <1>1
<1>3. i \in 1..Len(Defaults)
  BY <1>2
<1>4. i # Len(Defaults) => i + 1 \in 1..Len(Defaults)
  BY <1>2, <1>3
<1>5. 1 \in 1..Len(Defaults)
  BY <1>2, <1>3
<1> QED
  BY <1>1, <1>2, <1>4, <1>5

LEMMA DefaultsFirst ==
    ASSUME Defaults # <<>>
    PROVE  1 \in DOMAIN Defaults
<1>1. Defaults \in Seq(Patterns)
  BY UsageAssumption
<1>2. Len(Defaults) \in Nat /\ Len(Defaults) # 0 /\ DOMAIN Defaults = 1..Len(Defaults)
  BY <1>1
<1> QED
  BY <1>2

LEMMA ReportType ==
    ASSUME NEW t \in [Patterns -> Prices]
    PROVE  Report(t) \in [Models -> Row \cup {Unpriced}]
<1>1. \A m : Best(m, t) \in Row \cup {Unpriced}
  BY BestIsBest
<1> QED
  BY <1>1 DEF Report

\* To follow a row changes nothing but the row.
LEMMA FollowKeeps ==
    ASSUME NEW b \in [Requests -> Act \cup {Idle}], NEW p, NEW to \in Patterns \cup {Gone}
    PROVE  /\ Follow(p, to, b) \in [Requests -> Act \cup {Idle}]
           /\ \A r \in Requests : /\ Follow(p, to, b)[r].pc = b[r].pc
                                  /\ b[r].pc # "write" => Follow(p, to, b)[r] = b[r]
<1>1. ASSUME NEW r \in Requests, b[r].pc = "write"
      PROVE  /\ [b[r] EXCEPT !.row = to] \in Act
             /\ [b[r] EXCEPT !.row = to].pc = b[r].pc
  <2>1. b[r] \in [pc : {"write"}, i : DOMAIN Defaults, row : Patterns \cup {Missing, Gone}]
    BY <1>1 DEF Act, Idle
  <2> QED
    BY <2>1 DEF Act
<1>2. \A r \in Requests : b[r] \in Act \cup {Idle}
  OBVIOUS
<1> QED
  BY <1>1, <1>2 DEF Follow

Unseens == [Requests \cup {Nobody} -> SUBSET Patterns]

LEMMA NoneUnseenIs ==
    NoneUnseen \in Unseens /\ \A x \in Requests \cup {Nobody} : NoneUnseen[x] = {}
BY DEF NoneUnseen, Unseens

\* What becomes of the history when patterns are marked ...
LEMMA Marking ==
    ASSUME unseen \in Unseens, NEW ps \in SUBSET Patterns, NEW x \in Requests \cup {Nobody},
           Unseen(x, ps)
    PROVE  /\ unseen' \in Unseens /\ Marked' = Marked \cup ps
           /\ \A r \in Requests : r # x => unseen'[r] = unseen[r]
<1> DEFINE All == Requests \cup {Nobody}
<1>1. unseen'[x] = unseen[x] \cup ps /\ \A r \in All : r # x => unseen'[r] = unseen[r]
  BY DEF Unseen, Unseens
<1>2. unseen' \in Unseens
  BY DEF Unseen, Unseens
<1>3. ASSUME NEW p PROVE p \in Marked' <=> p \in Marked \cup ps
  <2>1. CASE p \in ps
    <3>1. p \in unseen'[x]
      BY <1>1, <2>1
    <3> QED
      BY <2>1, <3>1 DEF Marked
  <2>2. CASE p \notin ps
    <3>1. \A r \in All : p \in unseen'[r] <=> p \in unseen[r]
      BY <1>1, <2>2
    <3> QED
      BY <2>2, <3>1 DEF Marked
  <2> QED
    BY <2>1, <2>2
<1> QED
  BY <1>1, <1>2, <1>3

\* ... and when a request gives up.
LEMMA GivingUp ==
    ASSUME unseen \in Unseens, NEW ps \in SUBSET Patterns, NEW q \in Requests, NEW b,
           GiveUp(q, ps, b)
    PROVE  /\ unseen' \in Unseens /\ Marked' = Marked \cup ps /\ unseen'[q] = {}
           /\ \A r \in Requests \ {q} : unseen'[r] = unseen[r]
<1> DEFINE All == Requests \cup {Nobody}
<1>0. Nobody # q /\ Nobody \notin Requests
  BY UsageAssumption
<1>1. /\ unseen'[q] = {} /\ unseen'[Nobody] = unseen[Nobody] \cup unseen[q] \cup ps
      /\ \A r \in All \ {q, Nobody} : unseen'[r] = unseen[r]
  BY <1>0 DEF GiveUp, Unseens
<1>2. unseen' \in Unseens
  BY DEF GiveUp, Unseens
<1>3. ASSUME NEW p PROVE p \in Marked' <=> p \in Marked \cup ps
  <2>1. CASE p \in unseen[Nobody] \cup unseen[q] \cup ps
    <3>1. p \in unseen'[Nobody]
      BY <1>1, <2>1
    <3> QED
      BY <2>1, <3>1 DEF Marked
  <2>2. CASE p \notin unseen[Nobody] \cup unseen[q] \cup ps
    <3>1. \A r \in All : p \in unseen'[r] <=> p \in unseen[r]
      BY <1>1, <2>2
    <3> QED
      BY <2>2, <3>1 DEF Marked
  <2> QED
    BY <2>1, <2>2
<1> QED
  BY <1>0, <1>1, <1>2, <1>3

-----------------------------------------------------------------------------
(* Types *)

\* Most steps move one request between two places outside the scan.
LEMMA MoveTypes ==
    ASSUME TypeOK, NEW q \in Requests, act[q].pc # "scan",
           NEW a \in Act \cup {Idle}, a.pc # "scan",
           NEW b \in [Requests -> Act \cup {Idle}], act' = [b EXCEPT ![q] = a],
           \A r \in Requests : b[r].pc = act[r].pc,
           table' \in [Patterns -> Prices], UNCHANGED mutex, failed' \in BOOLEAN,
           cached' \in [Models -> Row \cup {Unpriced}] \cup {NoReport}, unseen' \in Unseens
    PROVE  TypeOK'
<1>1. act' \in [Requests -> Act \cup {Idle}]
  OBVIOUS
<1>2. \A r \in Requests : act'[r].pc = "scan" <=> act[r].pc = "scan"
  OBVIOUS
<1> QED
  BY <1>1, <1>2 DEF TypeOK, Unseens

\* The same, of a step that leaves the table and the cache alone.
LEMMA BecomeTypes ==
    ASSUME TypeOK, NEW q \in Requests, act[q].pc # "scan",
           NEW a \in Act \cup {Idle}, a.pc # "scan", Become(q, a),
           UNCHANGED <<table, cached, mutex>>, NoFault \/ Fault, unseen' \in Unseens
    PROVE  TypeOK'
<1>1. /\ act \in [Requests -> Act \cup {Idle}] /\ act' = [act EXCEPT ![q] = a]
      /\ table' \in [Patterns -> Prices] /\ UNCHANGED mutex /\ failed' \in BOOLEAN
      /\ cached' \in [Models -> Row \cup {Unpriced}] \cup {NoReport}
  BY DEF TypeOK, Become, NoFault, Fault
<1> QED
  BY <1>1, MoveTypes

\* Where a request goes from the seeding.
LEMMA AfterSeedGoes ==
    ASSUME TypeOK, NEW q \in Requests, act[q].pc \in {"count", "insert"}
    PROVE  LET a == IF act[q].want = "prices" THEN Idle
                    ELSE [pc |-> "lock", want |-> act[q].want]
           IN  a \in Act \cup {Idle} /\ a.pc \in {"idle", "lock"} /\ (AfterSeed(q) <=> Become(q, a))
<1>1. act[q].want \in Wants
  BY ActFields DEF TypeOK
<1> QED
  BY <1>1, ActMakes DEF AfterSeed

LEMMA TypeInit == Init => TypeOK
<1> SUFFICES ASSUME Init PROVE TypeOK
  OBVIOUS
<1>1. table \in [Patterns -> Prices]
  BY DEF Init, Prices
<1>2. act \in [Requests -> Act \cup {Idle}] /\ \A q \in Requests : act[q].pc = "idle"
  BY ActMakes DEF Init
<1>3. \A q \in Requests : mutex # q
  BY UsageAssumption DEF Init
<1>4. unseen \in Unseens
  BY DEF Init, NoneUnseen, Unseens
<1> QED
  BY <1>1, <1>2, <1>3, <1>4 DEF Init, TypeOK, Unseens

LEMMA SeedTypes ==
    ASSUME TypeOK, NEW q \in Requests, Get(q) \/ CountModelPrices(q) \/ SeedInsert(q)
    PROVE  TypeOK'
<1>0. /\ act[q] \in Act \cup {Idle} /\ table \in [Patterns -> Prices]
      /\ unseen \in Unseens
  BY DEF TypeOK, Unseens
<1>1. CASE Get(q)
  <2>1. PICK want \in Wants : Become(q, [pc |-> "count", want |-> want])
    BY <1>1 DEF Get
  <2>2. act[q].pc = "idle" /\ UNCHANGED <<table, cached, mutex, unseen>> /\ NoFault
    BY <1>1, ActMakes DEF Get, NoFault
  <2>3. [pc |-> "count", want |-> want] \in Act
    BY ActMakes
  <2> QED
    BY <1>0, <2>1, <2>2, <2>3, BecomeTypes
<1>2. CASE CountModelPrices(q)
  <2>1. /\ act[q].pc = "count" /\ UNCHANGED <<table, cached, mutex>> /\ (NoFault \/ Fault)
        /\ unseen' \in Unseens
    BY <1>0, <1>2 DEF CountModelPrices
  <2>2. CASE Defaults # <<>> /\ Become(q, [pc |-> "insert", want |-> act[q].want, i |-> 1])
    <3>1. [pc |-> "insert", want |-> act[q].want, i |-> 1] \in Act
      BY <1>0, <2>1, <2>2, ActFields, ActMakes, DefaultsFirst
    <3> QED
      BY <2>1, <2>2, <3>1, BecomeTypes
  <2>3. CASE AfterSeed(q)
    BY <2>1, <2>3, AfterSeedGoes, BecomeTypes
  <2> QED
    BY <1>2, <2>2, <2>3 DEF CountModelPrices
<1>3. CASE SeedInsert(q)
  <2> DEFINE i == act[q].i
             p == Defaults[i]
  <2>1. act[q].pc = "insert" /\ UNCHANGED <<cached, mutex>> /\ (NoFault \/ Fault)
    BY <1>3 DEF SeedInsert
  <2>0. unseen' \in Unseens
    <3>1. {p} \in SUBSET Patterns
      BY <1>0, <2>1, ActFields, DefaultsNext
    <3> QED
      BY <1>0, <1>3, <3>1, Marking DEF SeedInsert
  <2>2. i \in DOMAIN Defaults /\ p \in Patterns /\ act[q].want \in Wants
    BY <1>0, <2>1, ActFields, DefaultsNext
  <2>3. table' \in [Patterns -> Prices]
    BY <1>0, <1>3, <2>2 DEF SeedInsert, Prices
  <2>4. PICK a \in Act \cup {Idle} : a.pc # "scan" /\ Become(q, a)
    <3>1. CASE AfterSeed(q)
      BY <2>1, <3>1, AfterSeedGoes
    <3>2. CASE i # Len(Defaults) /\ Become(q, [act[q] EXCEPT !.i = i + 1])
      <4>1. act[q] \in [pc : {"insert"}, want : Wants, i : DOMAIN Defaults]
        BY <1>0, <2>1 DEF Act, Idle
      <4>2. [act[q] EXCEPT !.i = i + 1] = [pc |-> "insert", want |-> act[q].want, i |-> i + 1]
        BY <4>1
      <4> QED
        BY <2>2, <3>2, <4>2, ActMakes, DefaultsNext
    <3> QED
      BY <1>3, <3>1, <3>2 DEF SeedInsert
  <2>5. /\ act \in [Requests -> Act \cup {Idle}] /\ act' = [act EXCEPT ![q] = a]
        /\ UNCHANGED mutex /\ failed' \in BOOLEAN
        /\ cached' \in [Models -> Row \cup {Unpriced}] \cup {NoReport}
    BY <2>1, <2>4 DEF TypeOK, Become, NoFault, Fault
  <2> QED
    BY <2>0, <2>1, <2>3, <2>4, <2>5, MoveTypes
<1> QED
  BY <1>1, <1>2, <1>3

LEMMA ReportTypes ==
    ASSUME TypeOK, NEW q \in Requests, Lock(q) \/ Rescan(q) \/ InvalidateUsage(q)
    PROVE  TypeOK'
<1>0. /\ act[q] \in Act \cup {Idle} /\ table \in [Patterns -> Prices]
      /\ act \in [Requests -> Act \cup {Idle}]
      /\ unseen \in Unseens /\ NoneUnseen \in Unseens
  BY NoneUnseenIs DEF TypeOK, Unseens
<1>1. CASE Lock(q)
  <2>1. act[q].pc = "lock" /\ mutex = Nobody /\ UNCHANGED <<table, cached>>
    BY <1>1 DEF Lock
  <2>2. CASE Become(q, Idle) /\ UNCHANGED <<mutex, failed, unseen>>
    BY <1>0, <2>1, <2>2, ActMakes, BecomeTypes DEF NoFault
  <2>3. ASSUME NEW r \in [Models -> Row \cup {Unpriced}], mutex' = q, NoFault \/ Fault,
               unseen' \in Unseens,
               Become(q, [pc |-> "scan", report |-> r])
        PROVE  TypeOK'
    <3>1. act' = [act EXCEPT ![q] = [pc |-> "scan", report |-> r]]
      BY <2>3 DEF Become
    <3>2. act' \in [Requests -> Act \cup {Idle}]
      BY <1>0, <3>1, ActMakes
    <3>3. \A s \in Requests : act[s].pc # "scan"
      BY <2>1, UsageAssumption DEF TypeOK
    <3>4. \A s \in Requests : act'[s].pc = "scan" <=> s = q
      BY <1>0, <3>1, <3>3
    <3>5. failed' \in BOOLEAN
      BY <2>3 DEF TypeOK, NoFault, Fault
    <3> QED
      BY <2>1, <2>3, <3>2, <3>4, <3>5 DEF TypeOK, Unseens
  <2>4. /\ Summarize(table) \in [Models -> Row \cup {Unpriced}]
        /\ [m \in Models |-> Unpriced] \in [Models -> Row \cup {Unpriced}]
    BY <1>0, SummarizeIsReport, ReportType
  <2>5. [NoneUnseen EXCEPT ![Nobody] = Patterns] \in Unseens
    BY <1>0 DEF Unseens
  <2> QED
    BY <1>0, <1>1, <2>2, <2>3, <2>4, <2>5 DEF Lock
<1>2. CASE Rescan(q)
  <2>1. act[q].pc = "scan" /\ act' = [act EXCEPT ![q] = Idle] /\ mutex' = Nobody
    BY <1>2 DEF Rescan, Become, Unlock
  <2>2. \A s \in Requests : act[s].pc = "scan" <=> s = q
    BY <2>1 DEF TypeOK
  <2>3. \A s \in Requests : act'[s].pc # "scan"
    BY <1>0, <2>1, <2>2, ActMakes
  <2>4. act' \in [Requests -> Act \cup {Idle}]
    BY <1>0, <2>1, ActMakes
  <2>5. cached' \in [Models -> Row \cup {Unpriced}]
    BY <1>0, <1>2, <2>1, ActFields DEF Rescan
  <2>6. \A s \in Requests : mutex' # s
    BY <2>1, UsageAssumption
  <2> QED
    BY <1>2, <2>1, <2>3, <2>4, <2>5, <2>6 DEF TypeOK, Rescan
<1>3. CASE InvalidateUsage(q)
  <2>1. /\ act[q].pc # "scan" /\ act' = [act EXCEPT ![q] = Idle] /\ UNCHANGED mutex
        /\ table' \in [Patterns -> Prices] /\ failed' \in BOOLEAN /\ cached' = NoReport
        /\ unseen' \in Unseens
    BY <1>0, <1>3 DEF InvalidateUsage, Become, TypeOK
  <2> QED
    BY <1>0, <2>1, ActMakes, MoveTypes
<1> QED
  BY <1>1, <1>2, <1>3

LEMMA EditTypes ==
    ASSUME TypeOK, NEW q \in Requests, NEW p \in Patterns, NEW to \in Patterns, NEW price \in Own,
           CreatePrice(q, p, price) \/ UpdatePrice(q, p, to, price)
    PROVE  TypeOK'
<1> DEFINE A == [Requests -> Act \cup {Idle}]
<1>0. /\ act \in A /\ table \in [Patterns -> Prices] /\ unseen \in Unseens
      /\ act[q] = Idle /\ act[q].pc # "scan" /\ UNCHANGED <<cached, mutex>>
      /\ cached' \in [Models -> Row \cup {Unpriced}] \cup {NoReport}
  BY ActMakes DEF TypeOK, Unseens, CreatePrice, UpdatePrice
<1>1. table' \in [Patterns -> Prices]
  BY <1>0 DEF CreatePrice, UpdatePrice, Prices
<1>2. failed' \in BOOLEAN
  BY DEF TypeOK, CreatePrice, UpdatePrice, Changed, NoFault, Fault
<1>3. /\ \A r \in Requests : act[r].pc = act[r].pc
      /\ Follow(p, to, act) \in A /\ Follow(p, to, act)[q] = act[q]
      /\ \A r \in Requests : Follow(p, to, act)[r].pc = act[r].pc
  BY <1>0, FollowKeeps, ActMakes
<1>4. /\ [pc |-> "invalidate"] \in Act \cup {Idle} /\ [pc |-> "invalidate"].pc # "scan"
      /\ Idle \in Act \cup {Idle} /\ Idle.pc # "scan"
  BY ActMakes
<1>5. unseen' \in Unseens
  <2>1. {p} \in SUBSET Patterns /\ {p, to} \in SUBSET Patterns
    OBVIOUS
  <2>2. \A ps \in SUBSET Patterns : Unseen(Nobody, ps) => unseen' \in Unseens
    BY <1>0, Marking
  <2> QED
    BY <1>0, <2>1, <2>2 DEF CreatePrice, UpdatePrice, Changed
<1>6. PICK b \in A, a \in Act \cup {Idle} :
         /\ \A r \in Requests : b[r].pc = act[r].pc
         /\ a.pc # "scan" /\ act' = [b EXCEPT ![q] = a]
  <2>1. ASSUME NEW b \in A, NEW ps, b[q] = Idle, Changed(q, ps, b)
        PROVE  \E a \in Act \cup {Idle} : a.pc # "scan" /\ act' = [b EXCEPT ![q] = a]
    <3>1. b = [b EXCEPT ![q] = Idle]
      BY <2>1
    <3> QED
      BY <1>4, <2>1, <3>1 DEF Changed
  <2>2. CASE CreatePrice(q, p, price)
    BY <1>0, <1>3, <2>1, <2>2 DEF CreatePrice
  <2>3. CASE UpdatePrice(q, p, to, price)
    BY <1>0, <1>3, <2>1, <2>3 DEF UpdatePrice
  <2> QED
    BY <2>2, <2>3
<1> QED
  BY <1>0, <1>1, <1>2, <1>5, <1>6, MoveTypes

LEMMA DeleteTypes ==
    ASSUME TypeOK, NEW q \in Requests, NEW p \in Patterns, DeletePrice(q, p)
    PROVE  TypeOK'
<1> DEFINE A == [Requests -> Act \cup {Idle}]
           b == Follow(p, Gone, act)
           a == [pc |-> "invalidate"]
<1>0. /\ act \in A /\ table \in [Patterns -> Prices] /\ unseen' \in Unseens
      /\ act[q].pc # "scan" /\ UNCHANGED <<cached, mutex, failed>>
      /\ failed \in BOOLEAN /\ cached \in [Models -> Row \cup {Unpriced}] \cup {NoReport}
  BY ActMakes DEF TypeOK, Unseens, DeletePrice
<1>1. table' \in [Patterns -> Prices]
  BY <1>0 DEF DeletePrice, Prices
<1>2. b \in A /\ \A r \in Requests : b[r].pc = act[r].pc
  BY <1>0, FollowKeeps
<1>3. a \in Act \cup {Idle} /\ a.pc # "scan" /\ act' = [b EXCEPT ![q] = a]
  BY ActMakes DEF DeletePrice
<1> HIDE DEF b, a
<1> QED
  BY <1>0, <1>1, <1>2, <1>3, MoveTypes

LEMMA RestoreTypes ==
    ASSUME TypeOK, NEW q \in Requests, RestorePrices(q) \/ RestoreLookup(q) \/ RestoreWrite(q)
    PROVE  TypeOK'
<1> DEFINE A == [Requests -> Act \cup {Idle}]
           i == act[q].i
           p == Defaults[i]
<1>0. /\ act \in A /\ act[q] \in Act \cup {Idle} /\ table \in [Patterns -> Prices]
      /\ cached \in [Models -> Row \cup {Unpriced}] \cup {NoReport}
      /\ failed \in BOOLEAN /\ unseen \in Unseens
  BY DEF TypeOK, Unseens
<1>1. CASE RestorePrices(q)
  <2>1. /\ act[q].pc # "scan" /\ Become(q, [pc |-> "lookup", i |-> 1])
        /\ [pc |-> "lookup", i |-> 1] \in Act /\ NoFault
    BY <1>1, ActMakes, DefaultsFirst DEF RestorePrices, NoFault
  <2>2. UNCHANGED <<table, cached, mutex, unseen>>
    BY <1>1 DEF RestorePrices
  <2> QED
    BY <1>0, <2>1, <2>2, BecomeTypes
<1>2. CASE RestoreLookup(q)
  <2>1. act[q].pc = "lookup" /\ UNCHANGED <<table, cached, mutex>>
    BY <1>2 DEF RestoreLookup
  <2>2. i \in DOMAIN Defaults /\ p \in Patterns
    BY <1>0, <2>1, ActFields, DefaultsNext
  <2> DEFINE row == IF table[p] = "none" THEN Missing ELSE p
  <2>3. CASE Become(q, [pc |-> "write", i |-> i, row |-> row]) /\ NoFault /\ UNCHANGED unseen
    <3>1. [pc |-> "write", i |-> i, row |-> row] \in Act
      BY <2>2, ActMakes
    <3> QED
      BY <1>0, <2>1, <2>3, <3>1, BecomeTypes
  <2>4. CASE Fault /\ GiveUp(q, {}, act)
    <3>1. unseen' \in Unseens
      BY <1>0, <2>4, GivingUp
    <3> QED
      BY <2>1, <2>4, <3>1, ActMakes, BecomeTypes DEF GiveUp, Become
  <2> QED
    BY <1>2, <2>3, <2>4 DEF RestoreLookup
<1>3. CASE RestoreWrite(q)
  <2> DEFINE row == act[q].row
             moved == Follow(row, p, act)
             written == {p, row} \cap Patterns
             new == [t \in Patterns |-> IF t = p THEN "seed"
                                        ELSE IF t = row THEN "none" ELSE table[t]]
  <2>1. act[q].pc = "write" /\ UNCHANGED <<cached, mutex>>
    BY <1>3 DEF RestoreWrite
  <2>2. i \in DOMAIN Defaults /\ p \in Patterns
    BY <1>0, <2>1, ActFields, DefaultsNext
  <2>3. written \in SUBSET Patterns /\ {} \in SUBSET Patterns
    OBVIOUS
  <2>4. new \in [Patterns -> Prices]
    BY <1>0 DEF Prices
  <2>5. moved \in A /\ \A r \in Requests : moved[r].pc = act[r].pc
    BY <1>0, <2>2, FollowKeeps
  <2>6. PICK b \in {act, moved}, a \in {Idle, [pc |-> "lookup", i |-> i + 1], [pc |-> "invalidate"]} :
           /\ act' = [b EXCEPT ![q] = a] /\ table' \in {table, new} /\ (NoFault \/ Fault)
           /\ a.pc = "lookup" => i # Len(Defaults)
           /\ \/ Unseen(q, written) \/ unseen' = [unseen EXCEPT ![q] = {}]
              \/ GiveUp(q, written, moved) \/ GiveUp(q, {}, act)
    <3> HIDE DEF moved, written, new
    <3>1. CASE /\ table' = new /\ i < Len(Defaults) /\ NoFault /\ Unseen(q, written)
               /\ act' = [moved EXCEPT ![q] = [pc |-> "lookup", i |-> i + 1]]
      <4>1. i # Len(Defaults)
        <5>1. Len(Defaults) \in Nat
          BY UsageAssumption
        <5> QED
          BY <3>1, <5>1
      <4> QED
        BY <3>1, <4>1
    <3>2. CASE /\ table' = new /\ NoFault /\ unseen' = [unseen EXCEPT ![q] = {}]
               /\ act' = [moved EXCEPT ![q] = [pc |-> "invalidate"]]
      BY <3>2
    <3>3. CASE table' = new /\ Fault /\ GiveUp(q, written, moved)
      BY <3>3, ActMakes DEF GiveUp
    <3>4. CASE table' = table /\ (NoFault \/ Fault) /\ GiveUp(q, {}, act)
      BY <3>4, ActMakes DEF GiveUp
    <3> QED
      BY <1>3, <3>1, <3>2, <3>3, <3>4 DEF RestoreWrite, moved, written, new
  <2>7. unseen' \in Unseens
    <3>1. [unseen EXCEPT ![q] = {}] \in Unseens
      BY <1>0 DEF Unseens
    <3> HIDE DEF written, moved
    <3> QED
      BY <1>0, <2>3, <2>6, <3>1, Marking, GivingUp
  <2>8. a \in Act \cup {Idle} /\ a.pc # "scan"
    BY <2>2, <2>6, ActMakes, DefaultsNext
  <2>9. failed' \in BOOLEAN
    BY <1>0, <2>6 DEF NoFault, Fault
  <2> HIDE DEF moved, written, new
  <2> QED
    BY <1>0, <2>1, <2>4, <2>5, <2>6, <2>7, <2>8, <2>9, MoveTypes
<1> QED
  BY <1>1, <1>2, <1>3

LEMMA TypeStep == TypeOK /\ [Next]_vars => TypeOK'
<1> SUFFICES ASSUME TypeOK, [Next]_vars PROVE TypeOK'
  OBVIOUS
<1>1. CASE UNCHANGED vars
  BY <1>1 DEF vars, TypeOK
<1>2. CASE Next
  <2>1. PICK q \in Requests :
           \/ Get(q) \/ RestorePrices(q) \/ Handler(q)
           \/ \E p \in Patterns, price \in Own : CreatePrice(q, p, price)
           \/ \E p, to \in Patterns, price \in Own : UpdatePrice(q, p, to, price)
           \/ \E p \in Patterns : DeletePrice(q, p)
    BY <1>2 DEF Next
  <2>2. CASE Get(q) \/ CountModelPrices(q) \/ SeedInsert(q)
    BY <2>2, SeedTypes
  <2>3. CASE Lock(q) \/ Rescan(q) \/ InvalidateUsage(q)
    BY <2>3, ReportTypes
  <2>4. CASE RestorePrices(q) \/ RestoreLookup(q) \/ RestoreWrite(q)
    BY <2>4, RestoreTypes
  <2>5. CASE \E p \in Patterns, price \in Own : CreatePrice(q, p, price)
    BY <2>5, EditTypes
  <2>6. CASE \E p, to \in Patterns, price \in Own : UpdatePrice(q, p, to, price)
    BY <2>6, EditTypes
  <2>7. CASE \E p \in Patterns : DeletePrice(q, p)
    BY <2>7, DeleteTypes
  <2> QED
    BY <2>1, <2>2, <2>3, <2>4, <2>5, <2>6, <2>7 DEF Handler
<1> QED
  BY <1>1, <1>2

\* Types: among them, a scan is in progress exactly at the request that holds the mutex.
THEOREM UsageTypes == Spec => []TypeOK
<1>1. Init => TypeOK
  BY TypeInit
<1>2. TypeOK /\ [Next]_vars => TypeOK'
  BY TypeStep
<1> QED
  BY <1>1, <1>2, PTL DEF Spec

-----------------------------------------------------------------------------
(* The report *)

\* A report of a table is that of the table up to nothing.
LEMMA ReportNow ==
    ASSUME NEW t \in [Patterns -> Prices], NEW ps
    PROVE  UpTo(Report(t), t, ps)
BY DEF UpTo

\* It stays so while the table changes at marked patterns only.
LEMMA ReportThen ==
    ASSUME NEW t, NEW u, NEW ps, NEW qs, ps \subseteq qs,
           \A p \in Patterns \ qs : u[p] = t[p], NEW rep, UpTo(rep, t, ps)
    PROVE  UpTo(rep, u, qs)
<1>1. PICK w \in [Patterns -> Prices] :
         (\A p \in Patterns \ ps : w[p] = t[p]) /\ rep = Report(w)
  BY DEF UpTo
<1>2. \A p \in Patterns \ qs : w[p] = u[p]
  BY <1>1
<1> QED
  BY <1>1, <1>2 DEF UpTo

\* A step after which somebody is about to drop the report.
LEMMA Loud ==
    ASSUME RestoresOnly', NEW q \in Requests, act'[q].pc = "invalidate"
    PROVE  ReportInv'
BY DEF ReportInv, Quiet

\* A step that starts no scan, leaves the report alone and marks what it changes.
LEMMA ReportKept ==
    ASSUME ReportInv, RestoresOnly', Quiet' => Quiet, UNCHANGED <<cached, mutex>>,
           Marked \subseteq Marked', \A p \in Patterns \ Marked' : table'[p] = table[p],
           \A r \in Requests : act'[r].pc = "scan" => act'[r] = act[r]
    PROVE  ReportInv'
<1> SUFFICES ASSUME Quiet' PROVE ReportInv'
  BY DEF ReportInv
<1>1. /\ mutex = Nobody /\ cached # NoReport => UpTo(cached, table, Marked)
      /\ \A r \in Requests : act[r].pc = "scan" => UpTo(act[r].report, table, Marked)
  BY DEF ReportInv
<1>2. \A rep : UpTo(rep, table, Marked) => UpTo(rep, table', Marked')
  BY ReportThen
<1>3. /\ mutex' = Nobody /\ cached' # NoReport => UpTo(cached', table', Marked')
      /\ \A r \in Requests : act'[r].pc = "scan" => UpTo(act'[r].report, table', Marked')
  BY <1>1, <1>2
<1> QED
  BY <1>3 DEF ReportInv

\* Who is in a restore and has marks of its own, after a step of one request.
LEMMA RestoresKept ==
    ASSUME RestoresOnly, NEW q \in Requests,
           \A r \in Requests \ {q} : act'[r].pc = act[r].pc /\ unseen'[r] = unseen[r],
           act'[q].pc \notin {"lookup", "write"} => unseen'[q] = {}
    PROVE  RestoresOnly'
BY DEF RestoresOnly

\* A request moves on, neither to nor from a scan or the invalidation, and marks some
\* patterns at most: those it changes.
LEMMA MoveKeeps ==
    ASSUME ReportInv, NEW q \in Requests, NEW ps \in SUBSET Patterns,
           \A r \in Requests \ {q} : act'[r].pc = act[r].pc,
           \A r \in Requests \ {q} : unseen'[r] = unseen[r],
           \A r \in Requests \ {q} : act[r].pc # "write" => act'[r] = act[r],
           act'[q].pc # "scan", act[q].pc # "invalidate", UNCHANGED <<cached, mutex>>,
           Marked' = Marked \cup ps, \A p \in Patterns \ ps : table'[p] = table[p],
           act'[q].pc \notin {"lookup", "write"} => unseen'[q] = {}
    PROVE  ReportInv'
<1>1. RestoresOnly'
  BY DEF ReportInv, RestoresOnly
<1>2. Quiet' => Quiet
  BY DEF Quiet
<1>3. \A r \in Requests : act'[r].pc = "scan" => act'[r] = act[r]
  OBVIOUS
<1> QED
  BY <1>1, <1>2, <1>3, ReportKept

\* The others, when one request moves on and those that have looked up a row follow it.
LEMMA OthersStay ==
    ASSUME NEW q \in Requests, NEW b, NEW a, b \in [Requests -> Act \cup {Idle}],
           \A r \in Requests : b[r].pc = act[r].pc /\ (act[r].pc # "write" => b[r] = act[r]),
           act' = [b EXCEPT ![q] = a]
    PROVE  /\ act'[q] = a
           /\ \A r \in Requests \ {q} : /\ act'[r].pc = act[r].pc
                                        /\ act[r].pc # "write" => act'[r] = act[r]
OBVIOUS

\* The same, of a step that changes no price.
LEMMA BecomeKeeps ==
    ASSUME TypeOK, ReportInv, NEW q \in Requests, NEW a, Become(q, a), a.pc # "scan",
           act[q].pc # "invalidate", UNCHANGED <<table, cached, mutex, unseen>>,
           act[q].pc \in {"lookup", "write"} => a.pc \in {"lookup", "write"}
    PROVE  ReportInv'
<1>1. act'[q] = a /\ \A r \in Requests \ {q} : act'[r] = act[r]
  BY DEF TypeOK, Become
<1>2. act'[q].pc \notin {"lookup", "write"} => unseen'[q] = {}
  BY <1>1 DEF ReportInv, RestoresOnly
<1>3. Marked' = Marked \cup {}
  BY DEF Marked
<1>4. {} \in SUBSET Patterns /\ \A p \in Patterns \ {} : table'[p] = table[p]
  OBVIOUS
<1> QED
  BY <1>1, <1>2, <1>3, <1>4, MoveKeeps

LEMMA SeedKeeps ==
    ASSUME TypeOK, ReportInv, NEW q \in Requests,
           Get(q) \/ CountModelPrices(q) \/ SeedInsert(q)
    PROVE  ReportInv'
<1>0. /\ act \in [Requests -> Act \cup {Idle}] /\ act[q] \in Act \cup {Idle}
      /\ table \in [Patterns -> Prices] /\ unseen \in Unseens
  BY DEF TypeOK, Unseens
<1>1. CASE Get(q)
  <2>1. act[q].pc = "idle" /\ UNCHANGED <<table, cached, mutex, unseen>>
    BY <1>1, ActMakes DEF Get
  <2>2. PICK want \in Wants : Become(q, [pc |-> "count", want |-> want])
    BY <1>1 DEF Get
  <2> QED
    BY <2>1, <2>2, BecomeKeeps
<1>2. CASE CountModelPrices(q)
  <2>1. act[q].pc = "count" /\ UNCHANGED <<table, cached, mutex, unseen>>
    BY <1>2 DEF CountModelPrices
  <2>2. PICK a : Become(q, a) /\ a.pc # "scan"
    <3>1. CASE Become(q, [pc |-> "insert", want |-> act[q].want, i |-> 1])
      BY <3>1
    <3>2. CASE AfterSeed(q)
      BY <2>1, <3>2, AfterSeedGoes
    <3> QED
      BY <1>2, <3>1, <3>2 DEF CountModelPrices
  <2> QED
    BY <2>1, <2>2, BecomeKeeps
<1>3. CASE SeedInsert(q)
  <2> DEFINE i == act[q].i
             p == Defaults[i]
  <2>1. act[q].pc = "insert" /\ UNCHANGED <<cached, mutex>>
    BY <1>3 DEF SeedInsert
  <2>2. p \in Patterns
    BY <1>0, <2>1, ActFields, DefaultsNext
  <2>3. PICK a : Become(q, a) /\ a.pc \in {"idle", "lock", "insert"}
    <3>1. CASE AfterSeed(q)
      BY <2>1, <3>1, AfterSeedGoes
    <3>2. CASE Become(q, [act[q] EXCEPT !.i = i + 1])
      <4>1. [act[q] EXCEPT !.i = i + 1].pc = "insert"
        <5>1. act[q] \in [pc : {"insert"}, want : Wants, i : DOMAIN Defaults]
          BY <1>0, <2>1 DEF Act, Idle
        <5> QED
          BY <5>1
      <4> QED
        BY <3>2, <4>1
    <3> QED
      BY <1>3, <3>1, <3>2 DEF SeedInsert
  <2>4. CASE UNCHANGED <<table, unseen>>
    BY <2>1, <2>3, <2>4, BecomeKeeps
  <2>5. CASE table' = [table EXCEPT ![p] = "seed"] /\ Unseen(Nobody, {p})
    <3>1. {p} \in SUBSET Patterns /\ \A s \in Patterns \ {p} : table'[s] = table[s]
      BY <1>0, <2>2, <2>5
    <3>2. Marked' = Marked \cup {p} /\ \A r \in Requests : unseen'[r] = unseen[r]
      <4>1. Nobody \in Requests \cup {Nobody} /\ \A r \in Requests : r # Nobody
        BY UsageAssumption
      <4> HIDE DEF p
      <4>2. Marked' = Marked \cup {p} /\ \A r \in Requests : r # Nobody => unseen'[r] = unseen[r]
        BY <1>0, <2>5, <3>1, <4>1, Marking
      <4> QED
        BY <4>1, <4>2
    <3>3. unseen'[q] = {}
      BY <2>1, <3>2 DEF ReportInv, RestoresOnly
    <3>4. act'[q] = a /\ \A r \in Requests \ {q} : act'[r] = act[r]
      BY <1>0, <2>3 DEF Become
    <3> HIDE DEF p
    <3> QED
      BY <2>1, <2>3, <3>1, <3>2, <3>3, <3>4, MoveKeeps
  <2> QED
    BY <1>3, <2>4, <2>5 DEF SeedInsert
<1> QED
  BY <1>1, <1>2, <1>3

LEMMA ScanKeeps ==
    ASSUME TypeOK, ReportInv, NEW q \in Requests, Lock(q) \/ Rescan(q) \/ InvalidateUsage(q)
    PROVE  ReportInv'
<1>0. /\ act \in [Requests -> Act \cup {Idle}] /\ table \in [Patterns -> Prices]
      /\ UNCHANGED table /\ unseen \in Unseens
      /\ \A r \in Requests : NoneUnseen[r] = {}
  BY NoneUnseenIs DEF TypeOK, Unseens, Lock, Rescan, InvalidateUsage
<1>1. CASE Lock(q)
  <2>1. /\ act[q].pc = "lock" /\ mutex = Nobody /\ UNCHANGED <<table, cached>>
    BY <1>1 DEF Lock
  <2>2. CASE Become(q, Idle) /\ UNCHANGED <<mutex, failed, unseen>>
    BY <2>1, <2>2, ActMakes, BecomeKeeps
  <2>3. ASSUME NEW rep, mutex' = q, Become(q, [pc |-> "scan", report |-> rep]),
               \A r \in Requests : unseen'[r] = {}, UpTo(rep, table, Marked')
        PROVE  ReportInv'
    <3>1. act'[q].report = rep /\ \A r \in Requests \ {q} : act'[r] = act[r]
      BY <1>0, <2>3 DEF Become
    <3>2. \A r \in Requests : act[r].pc # "scan"
      BY <2>1, UsageAssumption DEF TypeOK
    <3>3. RestoresOnly'
      BY <2>3 DEF RestoresOnly
    <3>4. \A r \in Requests : act'[r].pc = "scan" => UpTo(act'[r].report, table', Marked')
      BY <2>1, <2>3, <3>1, <3>2
    <3>5. mutex' # Nobody
      BY <2>3, UsageAssumption
    <3> QED
      BY <3>3, <3>4, <3>5 DEF ReportInv
  <2>4. CASE Become(q, [pc |-> "scan", report |-> Summarize(table)]) /\ mutex' = q
             /\ unseen' = NoneUnseen
    <3>1. UpTo(Summarize(table), table, Marked')
      BY <1>0, SummarizeIsReport, ReportNow
    <3> QED
      BY <1>0, <2>3, <2>4, <3>1
  <2>5. CASE Become(q, [pc |-> "scan", report |-> [m \in Models |-> Unpriced]]) /\ mutex' = q
             /\ unseen' = [NoneUnseen EXCEPT ![Nobody] = Patterns]
    <3> DEFINE none == [p \in Patterns |-> "none"]
    <3>1. Report(none) = [m \in Models |-> Unpriced]
      <4>1. Present(none) = {}
        BY DEF Present
      <4>2. \A m : {RowOf(none, p) : p \in {s \in Present(none) : Matches(s, m)}} = {}
        BY <4>1
      <4>3. \A m : Best(m, none) = Unpriced
        BY <4>2 DEF Best, Winner
      <4> QED
        BY <4>3 DEF Report
    <3>2. none \in [Patterns -> Prices]
      BY DEF Prices
    <3>3. unseen'[Nobody] = Patterns /\ \A r \in Requests : unseen'[r] = {}
      BY <1>0, <2>5, UsageAssumption DEF NoneUnseen
    <3>4. Patterns \subseteq Marked'
      BY <3>3 DEF Marked
    <3>5. UpTo([m \in Models |-> Unpriced], table, Marked')
      <4> HIDE DEF none
      <4> QED
        BY <3>1, <3>2, <3>4 DEF UpTo
    <3> QED
      BY <2>3, <2>5, <3>3, <3>5
  <2> QED
    BY <1>1, <2>2, <2>4, <2>5 DEF Lock
<1>2. CASE Rescan(q)
  <2>1. /\ act[q].pc = "scan" /\ cached' = act[q].report /\ unseen' = unseen
        /\ act'[q] = Idle
        /\ \A r \in Requests \ {q} : act'[r] = act[r]
    BY <1>0, <1>2 DEF Rescan, Become
  <2>2. RestoresOnly'
    BY <2>1, RestoresKept DEF ReportInv, RestoresOnly
  <2> SUFFICES ASSUME Quiet' PROVE ReportInv'
    BY <2>2 DEF ReportInv
  <2>3. Quiet
    BY <2>1 DEF Quiet
  <2>4. \A r \in Requests : act[r].pc = "scan" => UpTo(act[r].report, table, Marked)
    BY <2>3 DEF ReportInv
  <2>5. Marked' = Marked
    BY <2>1 DEF Marked
  <2>6. /\ UpTo(cached', table', Marked')
        /\ \A r \in Requests : act'[r].pc = "scan" => UpTo(act'[r].report, table', Marked')
    BY <1>0, <2>1, <2>4, <2>5, ActMakes
  <2> QED
    BY <2>2, <2>6 DEF ReportInv
<1>3. CASE InvalidateUsage(q)
  <2>1. /\ cached' = NoReport /\ act' = [act EXCEPT ![q] = Idle] /\ mutex = Nobody
        /\ unseen' = NoneUnseen
    BY <1>3 DEF InvalidateUsage, CanInvalidate, Become
  <2>2. \A r \in Requests : act[r].pc # "scan"
    BY <2>1, UsageAssumption DEF TypeOK
  <2>3. \A r \in Requests : act'[r].pc # "scan"
    BY <1>0, <2>1, <2>2, ActMakes
  <2>4. RestoresOnly'
    BY <1>0, <2>1 DEF RestoresOnly
  <2> QED
    BY <2>1, <2>3, <2>4 DEF ReportInv
<1> QED
  BY <1>1, <1>2, <1>3

\* Whoever changes the table is going to drop the report next, or has marked the patterns.
LEMMA ChangeKeeps ==
    ASSUME TypeOK, ReportInv, NEW q \in Requests, act[q] = Idle, NEW b, NEW ps \in SUBSET Patterns,
           b \in [Requests -> Act \cup {Idle}], b[q] = Idle,
           \A r \in Requests : b[r].pc = act[r].pc /\ (act[r].pc # "write" => b[r] = act[r]),
           Changed(q, ps, b), UNCHANGED <<cached, mutex>>,
           \A p \in Patterns \ ps : table'[p] = table[p]
    PROVE  ReportInv'
<1>0. unseen \in Unseens /\ act[q].pc = "idle" /\ unseen[q] = {}
  BY ActMakes DEF TypeOK, Unseens, ReportInv, RestoresOnly
<1>1. CASE act' = [b EXCEPT ![q] = [pc |-> "invalidate"]] /\ UNCHANGED unseen
  <2>1. act'[q].pc = "invalidate" /\ \A r \in Requests \ {q} : act'[r].pc = act[r].pc
    BY <1>1
  <2>2. RestoresOnly'
    BY <1>0, <1>1, <2>1, RestoresKept DEF ReportInv
  <2> QED
    BY <2>1, <2>2, Loud
<1>2. CASE act' = b /\ Unseen(Nobody, ps)
  <2>1. Marked' = Marked \cup ps /\ \A r \in Requests : unseen'[r] = unseen[r]
    <3>1. \A r \in Requests : r # Nobody
      BY UsageAssumption
    <3> QED
      BY <1>0, <1>2, <3>1, Marking
  <2>2. act' = b
    BY <1>2
  <2>3. act'[q].pc = "idle" /\ unseen'[q] = {}
    BY <1>0, <2>1, <2>2, ActMakes
  <2> QED
    BY <1>0, <2>1, <2>2, <2>3, MoveKeeps
<1> QED
  BY <1>1, <1>2 DEF Changed

LEMMA EditKeeps ==
    ASSUME TypeOK, ReportInv, NEW q \in Requests, NEW p \in Patterns, NEW to \in Patterns,
           NEW price,
           CreatePrice(q, p, price) \/ DeletePrice(q, p) \/ UpdatePrice(q, p, to, price)
    PROVE  ReportInv'
<1>0. /\ act \in [Requests -> Act \cup {Idle}] /\ act[q] = Idle /\ act[q].pc = "idle"
      /\ table \in [Patterns -> Prices] /\ UNCHANGED <<cached, mutex>>
  BY ActMakes DEF TypeOK, CreatePrice, DeletePrice, UpdatePrice
<1>1. \A r \in Requests : act[r].pc = act[r].pc /\ (act[r].pc # "write" => act[r] = act[r])
  OBVIOUS
<1>2. CASE CreatePrice(q, p, price)
  <2>1. {p} \in SUBSET Patterns /\ \A s \in Patterns \ {p} : table'[s] = table[s]
    BY <1>0, <1>2 DEF CreatePrice
  <2>2. Changed(q, {p}, act)
    BY <1>2 DEF CreatePrice
  <2> QED
    BY <1>0, <1>1, <2>1, <2>2, ChangeKeeps
<1>3. CASE UpdatePrice(q, p, to, price)
  <2> DEFINE b == Follow(p, to, act)
  <2>1. {p, to} \in SUBSET Patterns /\ \A s \in Patterns \ {p, to} : table'[s] = table[s]
    BY <1>0, <1>3 DEF UpdatePrice
  <2>2. Changed(q, {p, to}, b)
    BY <1>3 DEF UpdatePrice
  <2>3. /\ b \in [Requests -> Act \cup {Idle}] /\ b[q] = Idle
        /\ \A r \in Requests : b[r].pc = act[r].pc /\ (act[r].pc # "write" => b[r] = act[r])
    BY <1>0, FollowKeeps
  <2> HIDE DEF b
  <2> QED
    BY <1>0, <2>1, <2>2, <2>3, ChangeKeeps
<1>4. CASE DeletePrice(q, p)
  <2> DEFINE b == Follow(p, Gone, act)
  <2>1. b \in [Requests -> Act \cup {Idle}] /\ \A r \in Requests : b[r].pc = act[r].pc
    BY <1>0, FollowKeeps
  <2>2. act' = [b EXCEPT ![q] = [pc |-> "invalidate"]] /\ UNCHANGED unseen
    BY <1>4 DEF DeletePrice
  <2> HIDE DEF b
  <2>3. act'[q].pc = "invalidate" /\ \A r \in Requests \ {q} : act'[r].pc = act[r].pc
    BY <2>1, <2>2
  <2>4. unseen'[q] = {}
    BY <1>0, <2>2 DEF ReportInv, RestoresOnly
  <2>5. RestoresOnly'
    BY <2>2, <2>3, <2>4, RestoresKept DEF ReportInv
  <2> QED
    BY <2>3, <2>5, Loud
<1> QED
  BY <1>2, <1>3, <1>4

LEMMA RestoreKeeps ==
    ASSUME TypeOK, ReportInv, NEW q \in Requests,
           RestorePrices(q) \/ RestoreLookup(q) \/ RestoreWrite(q)
    PROVE  ReportInv'
<1> DEFINE A == [Requests -> Act \cup {Idle}]
           i == act[q].i
           p == Defaults[i]
<1>0. /\ act \in A /\ act[q] \in Act \cup {Idle} /\ table \in [Patterns -> Prices]
      /\ unseen \in Unseens
  BY DEF TypeOK, Unseens
<1>1. \A r \in Requests : act[r].pc = act[r].pc /\ (act[r].pc # "write" => act[r] = act[r])
  OBVIOUS
<1>2. ASSUME GiveUp(q, {}, act), act[q].pc \in {"lookup", "write"}, UNCHANGED <<table, cached, mutex>>
      PROVE  ReportInv'
  <2>1. /\ Marked' = Marked \cup {} /\ unseen'[q] = {}
        /\ \A r \in Requests \ {q} : unseen'[r] = unseen[r]
    BY <1>0, <1>2, GivingUp
  <2>2. act'[q].pc = "idle" /\ \A r \in Requests \ {q} : act'[r] = act[r]
    BY <1>0, <1>2, ActMakes DEF GiveUp
  <2>3. {} \in SUBSET Patterns /\ \A s \in Patterns \ {} : table'[s] = table[s]
    BY <1>2
  <2> QED
    BY <1>2, <2>1, <2>2, <2>3, MoveKeeps
<1>3. CASE RestorePrices(q)
  <2>1. Become(q, [pc |-> "lookup", i |-> 1]) /\ act[q].pc = "idle"
        /\ UNCHANGED <<table, cached, mutex, unseen>>
    BY <1>3, ActMakes DEF RestorePrices
  <2> QED
    BY <2>1, BecomeKeeps
<1>4. CASE RestoreLookup(q)
  <2>1. act[q].pc = "lookup" /\ UNCHANGED <<table, cached, mutex>>
    BY <1>4 DEF RestoreLookup
  <2>2. CASE UNCHANGED unseen /\ \E row : Become(q, [pc |-> "write", i |-> i, row |-> row])
    BY <2>1, <2>2, BecomeKeeps
  <2>3. CASE GiveUp(q, {}, act)
    BY <1>2, <2>1, <2>3
  <2> QED
    BY <1>4, <2>2, <2>3 DEF RestoreLookup
<1>5. CASE RestoreWrite(q)
  <2> DEFINE row == act[q].row
             moved == Follow(row, p, act)
             written == {p, row} \cap Patterns
             new == [t \in Patterns |-> IF t = p THEN "seed"
                                        ELSE IF t = row THEN "none" ELSE table[t]]
  <2>1. act[q].pc = "write" /\ UNCHANGED <<cached, mutex>>
    BY <1>5 DEF RestoreWrite
  <2>2. p \in Patterns
    BY <1>0, <2>1, ActFields, DefaultsNext
  <2>3. written \in SUBSET Patterns /\ \A s \in Patterns \ written : new[s] = table[s]
    BY <2>2
  <2>4. /\ moved \in A
        /\ \A r \in Requests : moved[r].pc = act[r].pc /\ (act[r].pc # "write" => moved[r] = act[r])
    BY <1>0, <2>2, FollowKeeps
  <2> HIDE DEF written, moved, new
  <2>5. CASE /\ table' = new /\ Unseen(q, written)
             /\ act' = [moved EXCEPT ![q] = [pc |-> "lookup", i |-> i + 1]]
    <3> DEFINE a == [pc |-> "lookup", i |-> i + 1]
    <3>1. Marked' = Marked \cup written /\ \A r \in Requests \ {q} : unseen'[r] = unseen[r]
      <4>1. q \in Requests \cup {Nobody}
        OBVIOUS
      <4> QED
        BY <1>0, <2>3, <2>5, <4>1, Marking
    <3>2. \A s \in Patterns \ written : table'[s] = table[s]
      BY <2>3, <2>5
    <3>3. a.pc = "lookup" /\ act' = [moved EXCEPT ![q] = a]
      BY <2>5
    <3> HIDE DEF a
    <3>4. /\ act'[q].pc = "lookup"
          /\ \A r \in Requests \ {q} : /\ act'[r].pc = act[r].pc
                                       /\ act[r].pc # "write" => act'[r] = act[r]
      BY <2>4, <3>3, OthersStay
    <3> QED
      BY <2>1, <2>3, <3>1, <3>2, <3>4, MoveKeeps
  <2>6. CASE /\ unseen' = [unseen EXCEPT ![q] = {}]
             /\ act' = [moved EXCEPT ![q] = [pc |-> "invalidate"]]
    <3>1. act'[q].pc = "invalidate" /\ \A r \in Requests \ {q} : act'[r].pc = act[r].pc
      BY <2>4, <2>6
    <3>2. unseen'[q] = {} /\ \A r \in Requests \ {q} : unseen'[r] = unseen[r]
      BY <1>0, <2>6 DEF Unseens
    <3>3. RestoresOnly'
      BY <3>1, <3>2, RestoresKept DEF ReportInv
    <3> QED
      BY <3>1, <3>3, Loud
  <2>7. CASE table' = new /\ GiveUp(q, written, moved)
    <3>1. /\ Marked' = Marked \cup written /\ unseen'[q] = {}
          /\ \A r \in Requests \ {q} : unseen'[r] = unseen[r]
      BY <1>0, <2>3, <2>7, GivingUp
    <3>2. act' = [moved EXCEPT ![q] = Idle]
      BY <2>7 DEF GiveUp
    <3>3. \A s \in Patterns \ written : table'[s] = table[s]
      BY <2>3, <2>7
    <3>4. /\ act'[q].pc = "idle"
          /\ \A r \in Requests \ {q} : /\ act'[r].pc = act[r].pc
                                       /\ act[r].pc # "write" => act'[r] = act[r]
      BY <2>4, <3>2, OthersStay, ActMakes
    <3> QED
      BY <2>1, <2>3, <3>1, <3>3, <3>4, MoveKeeps
  <2>8. CASE GiveUp(q, {}, act) /\ UNCHANGED table
    BY <1>2, <2>1, <2>8
  <2> QED
    BY <1>5, <2>5, <2>6, <2>7, <2>8 DEF RestoreWrite, moved, written, new
<1> QED
  BY <1>3, <1>4, <1>5

LEMMA ReportStep == TypeOK /\ ReportInv /\ [Next]_vars => ReportInv'
<1> SUFFICES ASSUME TypeOK, ReportInv, [Next]_vars PROVE ReportInv'
  OBVIOUS
<1>1. CASE UNCHANGED vars
  BY <1>1 DEF vars, ReportInv, RestoresOnly, Quiet, Marked
<1>2. CASE Next
  <2>1. PICK q \in Requests :
           \/ Get(q) \/ RestorePrices(q) \/ Handler(q)
           \/ \E p \in Patterns, price \in Own : CreatePrice(q, p, price)
           \/ \E p, to \in Patterns, price \in Own : UpdatePrice(q, p, to, price)
           \/ \E p \in Patterns : DeletePrice(q, p)
    BY <1>2 DEF Next
  <2>2. CASE Get(q) \/ CountModelPrices(q) \/ SeedInsert(q)
    BY <2>2, SeedKeeps
  <2>3. CASE Lock(q) \/ Rescan(q) \/ InvalidateUsage(q)
    BY <2>3, ScanKeeps
  <2>4. CASE RestorePrices(q) \/ RestoreLookup(q) \/ RestoreWrite(q)
    BY <2>4, RestoreKeeps
  <2>5. CASE \/ \E p \in Patterns, price \in Own : CreatePrice(q, p, price)
             \/ \E p, to \in Patterns, price \in Own : UpdatePrice(q, p, to, price)
             \/ \E p \in Patterns : DeletePrice(q, p)
    BY <2>5, EditKeeps
  <2> QED
    BY <2>1, <2>2, <2>3, <2>4, <2>5 DEF Handler
<1> QED
  BY <1>1, <1>2

LEMMA ReportImplies == ReportInv => EditsReachReport
<1> SUFFICES ASSUME ReportInv, \A q \in Requests : ~Pending(q)
             PROVE  /\ mutex = Nobody /\ cached # NoReport => AsOf(cached, unseen[Nobody])
                    /\ \A q \in Requests :
                          act[q].pc = "scan" => AsOf(act[q].report, unseen[Nobody])
  BY DEF EditsReachReport
<1>1. Quiet /\ \A q \in Requests : unseen[q] = {}
  BY DEF Quiet, Pending, ReportInv, RestoresOnly
<1>2. Marked = unseen[Nobody]
  BY <1>1 DEF Marked
<1> QED
  BY <1>1, <1>2 DEF ReportInv, UpTo, AsOf

\* When all that change prices have been answered, the cached report and that of a scan in
\* progress price the models by the table as it is, whatever ran meanwhile, but for the
\* patterns that were changed, since the prices were read, by a seeding, a restore that gave
\* up half-way or a change that could not be read back; and but for a failed read of them.
THEOREM EditsReach == Spec => []EditsReachReport
<1>1. Init => TypeOK /\ ReportInv
  <2> SUFFICES ASSUME Init PROVE TypeOK /\ ReportInv
    OBVIOUS
  <2>1. \A q \in Requests : act[q].pc = "idle" /\ unseen[q] = {}
    BY ActMakes DEF Init, NoneUnseen
  <2>2. cached = NoReport
    BY DEF Init
  <2> QED
    BY <2>1, <2>2, TypeInit DEF ReportInv, RestoresOnly
<1>2. TypeOK /\ ReportInv /\ [Next]_vars => (TypeOK /\ ReportInv)'
  BY TypeStep, ReportStep
<1>3. TypeOK /\ ReportInv => EditsReachReport
  BY ReportImplies
<1> QED
  BY <1>1, <1>2, <1>3, PTL DEF Spec
=============================================================================
