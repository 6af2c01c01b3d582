---------------------------- MODULE BalanceProofs ----------------------------
(***************************************************************************)
(* What holds of the provider balances for any number of configurations,   *)
(* requests, edits and failing reads, and any capacity of the channel.     *)
(***************************************************************************)
EXTENDS BalanceManager, TLAPS

-----------------------------------------------------------------------------
(* The inductive invariant *)

\* A version counts edits.
Versions == \A id \in Ids : Live(id) => rows[id].version <= edits

\* What a refresh has read belongs to the version it has read: the row may have moved on,
\* never back.
FetchOfVersion ==
    \A w \in Workers : act[w].pc = "fetch" =>
        LET row == rows[act[w].id] IN
        /\ row # NoRow
        /\ row.state = "live" =>
              /\ act[w].version <= row.version
              /\ act[w].version = row.version => act[w].key = row.key

\* A polling goroutine does nothing but refresh the row it is named by.
OwnPlace == \A id \in Ids : act[id] = Idle \/ (Refreshing(id) /\ act[id].id = id)

BInv ==
    TypeOK /\ Versions /\ FetchOfVersion /\ OwnPlace /\ ResultOfKey /\ InFlightExact /\ NoLostSchedule

-----------------------------------------------------------------------------
(* Types *)

LEMMA ActTypes ==
    /\ Idle.pc = "idle"
    /\ \A id \in Ids, p \in Providers : Edit(id, p) \in Act
    /\ \A id \in Ids, b \in BOOLEAN : Notify(id, b) \in Act
    /\ \A id \in Ids : Refresh(id) \in Act
BY DEF Idle, Edit, Notify, Refresh, Act

\* What a worker is at determines the fields there are.
LEMMA ActFields ==
    ASSUME TypeOK, NEW w \in Workers
    PROVE  /\ act[w].pc = "edit" => act[w].id \in Ids /\ act[w].provider \in Providers
           /\ act[w].pc = "notify" => act[w].id \in Ids /\ act[w].immediate \in BOOLEAN
           /\ Refreshing(w) => act[w] \in [pc : {"read", "fetch", "finish"}, id : Ids,
                                           key : {None} \cup Keys, version : {None} \cup Keys]
           /\ act[w].pc # "idle" => act[w] \in Act
BY DEF TypeOK, Act, Idle, Refreshing

LEMMA RowFields ==
    ASSUME TypeOK, NEW id \in Ids
    PROVE  Live(id) => rows[id] \in Row
BY DEF TypeOK, Live, NoRow, Gone, Row

LEMMA Becoming ==
    ASSUME TypeOK, NEW w \in Workers, NEW a \in Act \cup {Idle}, Become(w, a)
    PROVE  /\ act' \in [Workers -> Act \cup {Idle}]
           /\ act'[w] = a
           /\ \A v \in Workers : v # w => act'[v] = act[v]
BY DEF TypeOK, Become

LEMMA Faults ==
    ASSUME TypeOK, Fault \/ NoFault
    PROVE  faults' \in 0..MaxFaults /\ (faults' = 0 => NoFault)
BY BalanceAssumption DEF TypeOK, Fault, NoFault

LEMMA NewRows ==
    ASSUME NEW p \in Providers, NEW k \in Keys
    PROVE  NewRow(p, k) \in Row /\ NewRow(p, k) # NoRow
BY BalanceAssumption DEF NewRow, Row, Keys, None, NoRow

LEMMA TypeInit == Init => TypeOK
<1> SUFFICES ASSUME Init PROVE TypeOK
  OBVIOUS
<1> USE BalanceAssumption DEF Init
<1>1. edits \in 0..MaxEdits /\ faults \in 0..MaxFaults
  OBVIOUS
<1>2. wake \in Seq(Update) /\ Len(wake) <= WakeCap
  OBVIOUS
<1>3. rows \in [Ids -> Row \cup {NoRow, Gone}] /\ act \in [Workers -> Act \cup {Idle}]
  OBVIOUS
<1>4. next \in [Ids -> {"none", "soon", "later", "due"}]
  BY DEF NoneDue
<1> QED
  BY <1>1, <1>2, <1>3, <1>4 DEF TypeOK

LEMMA TypeRequest ==
    ASSUME TypeOK, Versions, NEW c \in Clients,
           \/ \E id \in Ids : \/ \E p \in Providers : CreateBalance(c, id, p)
                              \/ ReadBalance(c, id) \/ RefreshNow(c, id)
           \/ UpdateBalance(c) \/ UpdateRefused(c) \/ ScheduleUpdate(c)
    PROVE  TypeOK'
<1> USE BalanceAssumption, ActTypes DEF loopVars
<1>0. c \in Workers /\ edits \in Nat /\ MaxEdits \in Nat
  BY DEF Workers, TypeOK
<1>1. ASSUME NEW id \in Ids, NEW p \in Providers, CreateBalance(c, id, p)
      PROVE  TypeOK'
  <2>1. edits' \in 0..MaxEdits /\ edits' \in Keys /\ faults' \in 0..MaxFaults
    <3>1. faults' \in 0..MaxFaults
      BY <1>1, Faults DEF CreateBalance
    <3> QED
      BY <1>0, <1>1, <3>1 DEF CreateBalance, Keys
  <2>2. act' \in [Workers -> Act \cup {Idle}]
    BY <1>0, <1>1, Becoming DEF CreateBalance, TypeOK
  <2>3. rows' \in [Ids -> Row \cup {NoRow, Gone}]
    BY <1>1, <2>1, NewRows DEF CreateBalance, TypeOK
  <2> QED
    BY <1>1, <2>1, <2>2, <2>3 DEF CreateBalance, TypeOK
<1>2. ASSUME NEW id \in Ids, ReadBalance(c, id)
      PROVE  TypeOK'
  <2>1. rows[id].provider \in Providers
    BY <1>2, RowFields DEF ReadBalance, Row
  <2>2. act' \in [Workers -> Act \cup {Idle}]
    BY <1>0, <1>2, <2>1, Becoming DEF ReadBalance
  <2> QED
    BY <1>2, <2>2 DEF ReadBalance, TypeOK
<1>3. ASSUME NEW id \in Ids, RefreshNow(c, id)
      PROVE  TypeOK'
  <2>1. act' \in [Workers -> Act \cup {Idle}] /\ inFlight' \in SUBSET Ids
    BY <1>0, <1>3, Becoming DEF RefreshNow, Begin, TypeOK
  <2> QED
    BY <1>3, <2>1 DEF RefreshNow, TypeOK
<1>4. CASE UpdateBalance(c)
  <2> DEFINE id == act[c].id
  <2>1. id \in Ids /\ edits' \in 0..MaxEdits /\ edits' \in Keys /\ edits < MaxEdits
    BY <1>0, <1>4, ActFields DEF UpdateBalance, Keys, TypeOK
  <2>2. PICK p \in Providers, replace \in BOOLEAN :
            /\ rows' = IF ~Live(id) THEN rows
                       ELSE [rows EXCEPT ![id] = IF replace THEN ReplaceKey(@, p, edits')
                                                 ELSE [@ EXCEPT !.provider = p]]
            /\ \/ Become(c, Notify(id, replace)) /\ NoFault
               \/ Leave(c) /\ NoFault
               \/ Leave(c) /\ Fault
    BY <1>4 DEF UpdateBalance
  <2>3. act' \in [Workers -> Act \cup {Idle}] /\ faults' \in 0..MaxFaults
    BY <1>0, <2>1, <2>2, Becoming, Faults DEF Leave
  <2>4. Live(id) => ReplaceKey(rows[id], p, edits') \in Row /\ [rows[id] EXCEPT !.provider = p] \in Row
    <3> SUFFICES ASSUME Live(id)
                 PROVE  ReplaceKey(rows[id], p, edits') \in Row /\ [rows[id] EXCEPT !.provider = p] \in Row
      OBVIOUS
    <3>1. rows[id] \in Row /\ rows[id].version + 1 \in Keys
      BY <1>0, <2>1, RowFields DEF Row, Keys, Versions
    <3>2. ReplaceKey(rows[id], p, edits') = [NewRow(p, edits') EXCEPT !.version = rows[id].version + 1]
      BY DEF ReplaceKey
    <3> QED
      BY <2>1, <3>1, <3>2, NewRows DEF Row
  <2>5. rows' \in [Ids -> Row \cup {NoRow, Gone}]
    BY <2>1, <2>2, <2>4 DEF TypeOK
  <2> QED
    BY <1>4, <2>1, <2>3, <2>5 DEF UpdateBalance, TypeOK
<1>5. CASE UpdateRefused(c)
  <2>1. act' \in [Workers -> Act \cup {Idle}]
    BY <1>0, <1>5, Becoming DEF UpdateRefused, Leave
  <2> QED
    BY <1>5, <2>1 DEF UpdateRefused, TypeOK
<1>6. CASE ScheduleUpdate(c)
  <2>1. act' \in [Workers -> Act \cup {Idle}]
    BY <1>0, <1>6, Becoming DEF ScheduleUpdate, Leave
  <2>2. [id |-> act[c].id, immediate |-> act[c].immediate] \in Update
    BY <1>0, <1>6, ActFields DEF ScheduleUpdate, Update
  <2>3. wake' \in Seq(Update) /\ Len(wake') <= WakeCap
    <3>1. wake \in Seq(Update) /\ Len(wake) < WakeCap
      BY <1>6 DEF ScheduleUpdate, HasRoom, TypeOK
    <3> QED
      BY <1>6, <2>2, <3>1 DEF ScheduleUpdate
  <2> QED
    BY <1>6, <2>1, <2>3 DEF ScheduleUpdate, TypeOK
<1> QED
  BY <1>1, <1>2, <1>3, <1>4, <1>5, <1>6

LEMMA TypeWork ==
    ASSUME TypeOK, NEW w \in Workers, Work(w)
    PROVE  TypeOK'
<1> USE DEF loopVars
<1>1. CASE RefreshRead(w)
  <2>1. act[w].id \in Ids /\ act[w] \in [pc : {"read", "fetch", "finish"}, id : Ids,
                                         key : {None} \cup Keys, version : {None} \cup Keys]
    BY <1>1, ActFields DEF RefreshRead, Refreshing
  <2>2. [act[w] EXCEPT !.pc = "finish"] \in Act
    BY <2>1 DEF Act
  <2>3. Live(act[w].id) =>
            [act[w] EXCEPT !.pc = "fetch", !.key = rows[act[w].id].key,
                           !.version = rows[act[w].id].version] \in Act
    BY <2>1, RowFields DEF Act, Row
  <2>4. act' \in [Workers -> Act \cup {Idle}] /\ faults' \in 0..MaxFaults
    BY <1>1, <2>2, <2>3, Becoming, Faults DEF RefreshRead
  <2> QED
    BY <1>1, <2>4 DEF RefreshRead, TypeOK
<1>2. CASE RefreshSave(w)
  <2> DEFINE id == act[w].id
             k == act[w].key
  <2>1. id \in Ids /\ k \in {None} \cup Keys
        /\ act[w] \in [pc : {"read", "fetch", "finish"}, id : Ids,
                       key : {None} \cup Keys, version : {None} \cup Keys]
    BY <1>2, ActFields DEF RefreshSave, Refreshing
  <2>2. [act[w] EXCEPT !.pc = "finish"] \in Act
    BY <2>1 DEF Act
  <2>3. act' \in [Workers -> Act \cup {Idle}] /\ faults' \in 0..MaxFaults
    BY <1>2, <2>2, Becoming, Faults DEF RefreshSave
  <2>4. Live(id) => /\ [rows[id] EXCEPT !.balance = k, !.error = None] \in Row
                    /\ [rows[id] EXCEPT !.error = k] \in Row
    <3>1. \A r \in Row : /\ [r EXCEPT !.balance = k, !.error = None] \in Row
                         /\ [r EXCEPT !.error = k] \in Row
      BY <2>1 DEF Row
    <3> QED
      BY <2>1, <3>1, RowFields
  <2>5. rows' \in [Ids -> Row \cup {NoRow, Gone}]
    <3>1. CASE UNCHANGED rows
      BY <3>1 DEF TypeOK
    <3>2. CASE /\ Live(id)
               /\ \/ rows' = [rows EXCEPT ![id].balance = k, ![id].error = None]
                  \/ rows' = [rows EXCEPT ![id].error = k]
      BY <2>1, <2>4, <3>2 DEF TypeOK
    <3> QED
      BY <1>2, <3>1, <3>2 DEF RefreshSave, SameCredential
  <2> QED
    BY <1>2, <2>3, <2>5 DEF RefreshSave, TypeOK
<1>3. CASE Finish(w)
  <2>1. act' \in [Workers -> Act \cup {Idle}] /\ inFlight' \in SUBSET Ids
    BY <1>3, Becoming DEF Finish, Leave, TypeOK
  <2> QED
    BY <1>3, <2>1 DEF Finish, TypeOK
<1> QED
  BY <1>1, <1>2, <1>3 DEF Work

LEMMA TypeRest ==
    ASSUME TypeOK, \/ \E id \in Ids : DeleteBalance(id) \/ Elapse(id)
                   \/ Loop \/ Boot \/ Signal \/ ProcessEnds \/ UNCHANGED vars
    PROVE  TypeOK'
<1> USE BalanceAssumption, ActTypes DEF loopVars
<1>1. ASSUME NEW id \in Ids, DeleteBalance(id)
      PROVE  TypeOK'
  BY <1>1 DEF DeleteBalance, TypeOK
<1>2. ASSUME NEW id \in Ids, Elapse(id)
      PROVE  TypeOK'
  BY <1>2 DEF Elapse, TypeOK
<1>3. CASE TakeUpdate
  <2>1. wake \in Seq(Update) /\ wake # <<>> /\ Len(wake) <= WakeCap
    BY <1>3 DEF TakeUpdate, TypeOK
  <2>2. Head(wake) \in Update /\ wake' \in Seq(Update) /\ Len(wake') <= WakeCap
    BY <1>3, <2>1 DEF TakeUpdate
  <2>3. faults' \in 0..MaxFaults
    BY <1>3, Faults DEF TakeUpdate
  <2>4. next' \in [Ids -> {"none", "soon", "later", "due"}]
    BY <1>3, <2>2 DEF TakeUpdate, Deadline, Update, TypeOK
  <2> QED
    BY <1>3, <2>2, <2>3, <2>4 DEF TakeUpdate, TypeOK
<1>4. CASE TimerFires
  BY <1>4 DEF TimerFires, TypeOK
<1>5. CASE LoopStops
  BY <1>5 DEF LoopStops, TypeOK
<1>6. ASSUME NEW id \in Ids, Poll(id)
      PROVE  TypeOK'
  <2>1. id \in Workers /\ todo' \in SUBSET Ids /\ loop' \in {"select", "fire"}
    BY <1>6 DEF Poll, Workers, TypeOK
  <2>2. faults' \in 0..MaxFaults
    BY <1>6, Faults DEF Poll
  <2>3. act' \in [Workers -> Act \cup {Idle}] /\ inFlight' \in SUBSET Ids
    BY <1>6, <2>1, Becoming DEF Poll, Begin, TypeOK
  <2>4. next' \in [Ids -> {"none", "soon", "later", "due"}]
    BY <1>6 DEF Poll, Busy, TypeOK
  <2> QED
    BY <1>6, <2>1, <2>2, <2>3, <2>4 DEF Poll, TypeOK
<1>7. CASE Boot
  <2>1. faults' \in 0..MaxFaults
    BY <1>7, Faults DEF Boot
  <2>2. next' \in [Ids -> {"none", "soon", "later", "due"}]
    BY <1>7 DEF Boot, AllDue, NoneDue
  <2> QED
    BY <1>7, <2>1, <2>2 DEF Boot, TypeOK
<1>8. CASE Signal
  BY <1>8 DEF Signal, TypeOK
<1>9. CASE ProcessEnds
  <2>1. wake' \in Seq(Update) /\ Len(wake') <= WakeCap
    BY <1>9 DEF ProcessEnds
  <2>2. next' \in [Ids -> {"none", "soon", "later", "due"}] /\ act' \in [Workers -> Act \cup {Idle}]
    BY <1>9 DEF ProcessEnds, NoneDue
  <2> QED
    BY <1>9, <2>1, <2>2 DEF ProcessEnds, TypeOK
<1>10. CASE UNCHANGED vars
  BY <1>10 DEF vars, TypeOK
<1> QED
  BY <1>1, <1>2, <1>3, <1>4, <1>5, <1>6, <1>7, <1>8, <1>9, <1>10 DEF Loop

LEMMA TypeStep == TypeOK /\ Versions /\ [Next]_vars => TypeOK'
BY TypeRequest, TypeWork, TypeRest DEF Next

-----------------------------------------------------------------------------
(* Keys, versions and results *)

\* Steps that leave the rows alone and start no fetch.
LEMMA RowsKept ==
    ASSUME Versions, FetchOfVersion, ResultOfKey, UNCHANGED <<rows, edits>>,
           \A w \in Workers : act'[w].pc = "fetch" => act'[w] = act[w]
    PROVE  (Versions /\ FetchOfVersion /\ ResultOfKey)'
BY DEF Versions, FetchOfVersion, ResultOfKey, Live

LEMMA RowsRequest ==
    ASSUME TypeOK, Versions, FetchOfVersion, ResultOfKey, NEW c \in Clients,
           \/ \E id \in Ids : \/ \E p \in Providers : CreateBalance(c, id, p)
                              \/ ReadBalance(c, id) \/ RefreshNow(c, id)
           \/ UpdateBalance(c) \/ UpdateRefused(c) \/ ScheduleUpdate(c)
    PROVE  (Versions /\ FetchOfVersion /\ ResultOfKey)'
<1>0. c \in Workers /\ edits \in Nat /\ act \in [Workers -> Act \cup {Idle}]
      /\ rows \in [Ids -> Row \cup {NoRow, Gone}]
  BY BalanceAssumption DEF Workers, TypeOK
<1>1. ASSUME NEW id \in Ids, NEW p \in Providers, CreateBalance(c, id, p)
      PROVE  (Versions /\ FetchOfVersion /\ ResultOfKey)'
  <2>1. /\ edits' = edits + 1
        /\ rows' = [rows EXCEPT ![id] = NewRow(p, edits')]
        /\ rows[id] = NoRow
    BY <1>1 DEF CreateBalance
  <2>2. \A w \in Workers : act'[w].pc = "fetch" => act'[w] = act[w]
    BY <1>0, <1>1 DEF CreateBalance, Become, Notify
  <2>3. Versions'
    <3>1. rows'[id] = NewRow(p, edits') /\ \A j \in Ids : j # id => rows'[j] = rows[j]
      BY <1>0, <2>1
    <3>2. \A j \in Ids : Live(j) => rows[j].version \in Nat
      BY RowFields DEF Row, Keys
    <3> QED
      BY <1>0, <2>1, <3>1, <3>2 DEF Versions, Live, NewRow
  <2>4. FetchOfVersion'
    <3>1. \A w \in Workers : act[w].pc = "fetch" => act[w].id # id /\ act[w].id \in Ids
      BY <2>1, ActFields DEF FetchOfVersion, Refreshing
    <3> QED
      BY <1>0, <2>1, <2>2, <3>1 DEF FetchOfVersion
  <2>5. ResultOfKey'
    BY <1>0, <2>1 DEF ResultOfKey, Live, NewRow
  <2> QED
    BY <2>3, <2>4, <2>5
<1>2. ASSUME NEW id \in Ids, ReadBalance(c, id) \/ RefreshNow(c, id)
      PROVE  (Versions /\ FetchOfVersion /\ ResultOfKey)'
  <2>1. \A w \in Workers : act'[w].pc = "fetch" => act'[w] = act[w]
    BY <1>0, <1>2 DEF ReadBalance, RefreshNow, Become, Edit, Refresh
  <2> QED
    BY <1>2, <2>1, RowsKept DEF ReadBalance, RefreshNow
<1>3. CASE UpdateBalance(c)
  <2> DEFINE id == act[c].id
  <2>1. id \in Ids /\ edits' = edits + 1
    BY <1>0, <1>3, ActFields DEF UpdateBalance
  <2>2. \A w \in Workers : act'[w].pc = "fetch" => act'[w] = act[w]
    BY <1>0, <1>3 DEF UpdateBalance, Become, Leave, Notify, Idle
  <2>3. CASE UNCHANGED rows
    BY <1>0, <2>1, <2>2, <2>3, RowFields DEF Versions, FetchOfVersion, ResultOfKey, Live, Row, Keys
  <2>4. ASSUME Live(id), NEW p \in Providers, NEW r,
               r \in {ReplaceKey(rows[id], p, edits'), [rows[id] EXCEPT !.provider = p]},
               rows' = [rows EXCEPT ![id] = r]
        PROVE  (Versions /\ FetchOfVersion /\ ResultOfKey)'
    <3>1. rows[id] \in Row /\ rows[id].version \in Nat /\ rows[id].version <= edits
      BY <2>1, <2>4, RowFields DEF Row, Keys, Versions
    <3>2. /\ r # NoRow /\ r.state = "live"
          /\ \/ r.version = rows[id].version + 1 /\ r.balance = None /\ r.error = None
             \/ /\ r.version = rows[id].version /\ r.key = rows[id].key
                /\ r.balance = rows[id].balance /\ r.error = rows[id].error
      BY <2>4, <3>1 DEF ReplaceKey, NewRow, Row, NoRow
    <3>3. Versions'
      BY <1>0, <2>1, <2>4, <3>1, <3>2, RowFields DEF Versions, Live, Row, Keys
    <3>4. FetchOfVersion'
      <4> SUFFICES ASSUME NEW w \in Workers, act'[w].pc = "fetch"
                   PROVE  LET row == rows'[act'[w].id] IN
                          /\ row # NoRow
                          /\ row.state = "live" =>
                                /\ act'[w].version <= row.version
                                /\ act'[w].version = row.version => act'[w].key = row.key
        BY DEF FetchOfVersion
      <4>1. act'[w] = act[w] /\ act[w].pc = "fetch" /\ act[w].id \in Ids
            /\ act[w].version \in Nat
        BY <2>2, ActFields DEF Refreshing, None, Keys
      <4>2. CASE act[w].id # id
        BY <1>0, <2>4, <4>1, <4>2 DEF FetchOfVersion
      <4>3. CASE act[w].id = id
        <5>1. rows'[act'[w].id] = r
          BY <1>0, <2>1, <2>4, <4>1, <4>3
        <5>2. /\ act[w].version <= rows[id].version
              /\ act[w].version = rows[id].version => act[w].key = rows[id].key
          BY <2>4, <4>1, <4>3 DEF FetchOfVersion, Live
        <5> QED
          BY <3>1, <3>2, <4>1, <5>1, <5>2
      <4> QED
        BY <4>2, <4>3
    <3>5. ResultOfKey'
      BY <1>0, <2>1, <2>4, <3>2 DEF ResultOfKey, Live
    <3> QED
      BY <3>3, <3>4, <3>5
  <2> QED
    BY <1>3, <2>3, <2>4 DEF UpdateBalance
<1>4. CASE UpdateRefused(c) \/ ScheduleUpdate(c)
  <2>1. \A w \in Workers : act'[w].pc = "fetch" => act'[w] = act[w]
    BY <1>0, <1>4 DEF UpdateRefused, ScheduleUpdate, Leave, Become, Idle
  <2> QED
    BY <1>4, <2>1, RowsKept DEF UpdateRefused, ScheduleUpdate
<1> QED
  BY <1>1, <1>2, <1>3, <1>4

LEMMA RowsWork ==
    ASSUME TypeOK, Versions, FetchOfVersion, ResultOfKey, NEW w \in Workers, Work(w)
    PROVE  (Versions /\ FetchOfVersion /\ ResultOfKey)'
<1>0. act \in [Workers -> Act \cup {Idle}] /\ rows \in [Ids -> Row \cup {NoRow, Gone}]
  BY DEF TypeOK
<1>1. CASE RefreshRead(w)
  <2> DEFINE id == act[w].id
  <2>1. UNCHANGED <<rows, edits>> /\ id \in Ids
    BY <1>1, ActFields DEF RefreshRead, Refreshing
  <2>2. /\ \A v \in Workers : v # w => act'[v] = act[v]
        /\ act'[w].pc = "fetch" =>
              /\ Live(id)
              /\ act'[w].id = id /\ act'[w].key = rows[id].key /\ act'[w].version = rows[id].version
    <3>1. act[w] \in [pc : {"read", "fetch", "finish"}, id : Ids,
                      key : {None} \cup Keys, version : {None} \cup Keys]
      BY <1>1, ActFields DEF RefreshRead, Refreshing
    <3>2. act' = [act EXCEPT ![w] = act'[w]]
      BY <1>0, <1>1 DEF RefreshRead, Become
    <3>3. \/ /\ Live(id)
             /\ act'[w] = [act[w] EXCEPT !.pc = "fetch", !.key = rows[id].key, !.version = rows[id].version]
          \/ act'[w] = [act[w] EXCEPT !.pc = "finish"]
      BY <1>0, <1>1 DEF RefreshRead, Become
    <3> QED
      BY <1>0, <3>1, <3>2, <3>3
  <2>3. FetchOfVersion'
    <3>1. Live(id) => rows[id] # NoRow /\ rows[id].version \in Nat
      BY <2>1, RowFields DEF Live, NoRow, Row, Keys
    <3> QED
      BY <2>1, <2>2, <3>1 DEF FetchOfVersion
  <2> QED
    BY <2>1, <2>3 DEF Versions, ResultOfKey, Live
<1>2. CASE RefreshSave(w)
  <2> DEFINE id == act[w].id
             k == act[w].key
  <2>1. id \in Ids /\ act[w].pc = "fetch" /\ UNCHANGED edits
    BY <1>2, ActFields DEF RefreshSave, Refreshing
  <2>2. \A v \in Workers : act'[v].pc = "fetch" => act'[v] = act[v]
    BY <1>0, <1>2 DEF RefreshSave, Become
  <2>3. CASE UNCHANGED rows
    BY <2>1, <2>2, <2>3, RowsKept
  <2>4. ASSUME SameCredential(w), NEW r, rows' = [rows EXCEPT ![id] = r],
               r \in {[rows[id] EXCEPT !.balance = k, !.error = None], [rows[id] EXCEPT !.error = k]}
        PROVE  (Versions /\ FetchOfVersion /\ ResultOfKey)'
    <3>1. Live(id) /\ rows[id] \in Row /\ k = rows[id].key
      BY <2>1, <2>4, RowFields DEF SameCredential, FetchOfVersion, Live
    <3>2. /\ r # NoRow /\ r.state = "live"
          /\ r.version = rows[id].version /\ r.key = rows[id].key
          /\ r.balance \in {rows[id].balance, k} /\ r.error \in {None, k}
      BY <2>4, <3>1 DEF Row, NoRow
    <3>3. Versions'
      BY <1>0, <2>1, <2>4, <3>1, <3>2 DEF Versions, Live
    <3>4. FetchOfVersion'
      <4>1. \A v \in Workers : act[v].pc = "fetch" => act[v].id \in Ids
        BY ActFields DEF Refreshing
      <4> QED
        BY <1>0, <2>1, <2>2, <2>4, <3>1, <3>2, <4>1 DEF FetchOfVersion, Live
    <3>5. ResultOfKey'
      BY <1>0, <2>1, <2>4, <3>1, <3>2 DEF ResultOfKey, Live
    <3> QED
      BY <3>3, <3>4, <3>5
  <2>5. CASE SameCredential(w) /\ rows' = [rows EXCEPT ![id].balance = k, ![id].error = None]
    <3>1. rows' = [rows EXCEPT ![id] = [rows[id] EXCEPT !.balance = k, !.error = None]]
      BY <2>1, <2>5 DEF TypeOK
    <3> QED
      BY <2>4, <2>5, <3>1
  <2>6. CASE SameCredential(w) /\ rows' = [rows EXCEPT ![id].error = k]
    <3>1. rows' = [rows EXCEPT ![id] = [rows[id] EXCEPT !.error = k]]
      BY <2>1, <2>6 DEF TypeOK
    <3> QED
      BY <2>4, <2>6, <3>1
  <2>7. \/ SameCredential(w) /\ rows' = [rows EXCEPT ![id].balance = k, ![id].error = None]
        \/ SameCredential(w) /\ rows' = [rows EXCEPT ![id].error = k]
        \/ UNCHANGED rows
    BY <1>2 DEF RefreshSave
  <2> QED
    BY <2>3, <2>5, <2>6, <2>7
<1>3. CASE Finish(w)
  <2>1. \A v \in Workers : act'[v].pc = "fetch" => act'[v] = act[v]
    BY <1>0, <1>3 DEF Finish, Leave, Become, Idle
  <2> QED
    BY <1>3, <2>1, RowsKept DEF Finish
<1> QED
  BY <1>1, <1>2, <1>3 DEF Work

LEMMA RowsRest ==
    ASSUME TypeOK, Versions, FetchOfVersion, ResultOfKey,
           \/ \E id \in Ids : DeleteBalance(id) \/ Elapse(id)
           \/ Loop \/ Boot \/ Signal \/ ProcessEnds \/ UNCHANGED vars
    PROVE  (Versions /\ FetchOfVersion /\ ResultOfKey)'
<1>1. ASSUME NEW id \in Ids, DeleteBalance(id)
      PROVE  (Versions /\ FetchOfVersion /\ ResultOfKey)'
  <2>1. UNCHANGED <<edits, act>> /\ rows' = [rows EXCEPT ![id] = Gone]
        /\ rows \in [Ids -> Row \cup {NoRow, Gone}]
    BY <1>1 DEF DeleteBalance, TypeOK
  <2>2. Gone # NoRow /\ Gone.state # "live"
    BY DEF Gone, NoRow
  <2>3. \A v \in Workers : act[v].pc = "fetch" => act[v].id \in Ids
    BY ActFields DEF Refreshing
  <2>4. Versions' /\ ResultOfKey'
    BY <2>1, <2>2 DEF Versions, ResultOfKey, Live
  <2>5. FetchOfVersion'
    BY <2>1, <2>2, <2>3 DEF FetchOfVersion
  <2> QED
    BY <2>4, <2>5
<1>2. ASSUME NEW id \in Ids, Poll(id)
      PROVE  (Versions /\ FetchOfVersion /\ ResultOfKey)'
  <2>1. \A v \in Workers : act'[v].pc = "fetch" => act'[v] = act[v]
    BY <1>2 DEF Poll, Become, Refresh, TypeOK
  <2> QED
    BY <1>2, <2>1, RowsKept DEF Poll
<1>3. CASE ProcessEnds
  <2>1. \A v \in Workers : act'[v].pc = "fetch" => act'[v] = act[v]
    BY <1>3 DEF ProcessEnds, Idle
  <2> QED
    BY <1>3, <2>1, RowsKept DEF ProcessEnds
<1>4. CASE \/ \E id \in Ids : Elapse(id)
           \/ TakeUpdate \/ TimerFires \/ LoopStops \/ Boot \/ Signal \/ UNCHANGED vars
  <2>1. UNCHANGED <<rows, edits, act>>
    BY <1>4 DEF Elapse, TakeUpdate, TimerFires, LoopStops, Boot, Signal, vars
  <2> QED
    BY <2>1, RowsKept
<1> QED
  BY <1>1, <1>2, <1>3, <1>4 DEF Loop

LEMMA RowsStep ==
    ASSUME TypeOK, Versions, FetchOfVersion, ResultOfKey, [Next]_vars
    PROVE  (Versions /\ FetchOfVersion /\ ResultOfKey)'
BY RowsRequest, RowsWork, RowsRest DEF Next

-----------------------------------------------------------------------------
(* The map of refreshes in progress *)

\* Steps by which no refresh begins or ends.
LEMMA FlightKept ==
    ASSUME OwnPlace, InFlightExact, UNCHANGED inFlight,
           \A w \in Workers : /\ Refreshing(w)' <=> Refreshing(w)
                              /\ Refreshing(w) => act'[w].id = act[w].id,
           \A id \in Ids : act[id] = Idle => act'[id] = Idle
    PROVE  (OwnPlace /\ InFlightExact)'
<1>1. Ids \subseteq Workers
  BY DEF Workers
<1>2. OwnPlace'
  BY <1>1 DEF OwnPlace
<1>3. InFlightExact'
  BY DEF InFlightExact
<1> QED
  BY <1>2, <1>3

\* A worker that was idle begins to refresh a row that nobody refreshes.
LEMMA FlightBegins ==
    ASSUME TypeOK, OwnPlace, InFlightExact, NEW w \in Workers, NEW id \in Ids,
           ~Refreshing(w), Begin(id), Become(w, Refresh(id)), w \in Ids => w = id
    PROVE  (OwnPlace /\ InFlightExact)'
<1>1. /\ id \notin inFlight /\ inFlight' = inFlight \cup {id}
      /\ act'[w] = Refresh(id) /\ \A v \in Workers : v # w => act'[v] = act[v]
  BY DEF Begin, Become, TypeOK
<1>2. /\ Refreshing(w)' /\ act'[w].id = id
      /\ \A v \in Workers : v # w => (Refreshing(v)' <=> Refreshing(v))
  BY <1>1 DEF Refreshing, Refresh
<1>3. \A v \in Workers : Refreshing(v) => act[v].id # id
  BY <1>1 DEF InFlightExact
<1>4. OwnPlace'
  BY <1>1, <1>2 DEF OwnPlace, Workers
<1>5. InFlightExact'
  <2>1. inFlight' = {act'[v].id : v \in {u \in Workers : Refreshing(u)'}}
    BY <1>1, <1>2 DEF InFlightExact
  <2>2. \A u, v \in Workers :
            Refreshing(u)' /\ Refreshing(v)' /\ act'[u].id = act'[v].id => u = v
    BY <1>1, <1>2, <1>3 DEF InFlightExact
  <2> QED
    BY <2>1, <2>2 DEF InFlightExact
<1> QED
  BY <1>4, <1>5

LEMMA FlightEnds ==
    ASSUME TypeOK, OwnPlace, InFlightExact, NEW w \in Workers, Finish(w)
    PROVE  (OwnPlace /\ InFlightExact)'
<1>1. /\ Refreshing(w) /\ inFlight' = inFlight \ {act[w].id}
      /\ act'[w] = Idle /\ \A v \in Workers : v # w => act'[v] = act[v]
  BY DEF Finish, Leave, Become, TypeOK, Refreshing
<1>2. ~Refreshing(w)' /\ \A v \in Workers : v # w => (Refreshing(v)' <=> Refreshing(v))
  BY <1>1 DEF Refreshing, Idle
<1>3. OwnPlace'
  BY <1>1, <1>2 DEF OwnPlace, Workers
<1>4. \A v \in Workers : Refreshing(v) /\ v # w => act[v].id # act[w].id
  BY <1>1 DEF InFlightExact
<1>5. InFlightExact'
  <2>1. inFlight' = {act'[v].id : v \in {u \in Workers : Refreshing(u)'}}
    BY <1>1, <1>2, <1>4 DEF InFlightExact
  <2>2. \A u, v \in Workers :
            Refreshing(u)' /\ Refreshing(v)' /\ act'[u].id = act'[v].id => u = v
    BY <1>1, <1>2 DEF InFlightExact
  <2> QED
    BY <2>1, <2>2 DEF InFlightExact
<1> QED
  BY <1>3, <1>5

LEMMA FlightStep ==
    ASSUME TypeOK, OwnPlace, InFlightExact, [Next]_vars
    PROVE  (OwnPlace /\ InFlightExact)'
<1>0. /\ act \in [Workers -> Act \cup {Idle}] /\ Idle.pc = "idle"
      /\ Ids \subseteq Workers /\ Clients \subseteq Workers /\ Ids \cap Clients = {}
  BY BalanceAssumption DEF TypeOK, Workers, Idle
<1>1. ASSUME NEW c \in Clients,
             \/ \E id \in Ids : \/ \E p \in Providers : CreateBalance(c, id, p)
                                \/ ReadBalance(c, id)
             \/ UpdateBalance(c) \/ UpdateRefused(c) \/ ScheduleUpdate(c)
      PROVE  (OwnPlace /\ InFlightExact)'
  <2>1. /\ UNCHANGED inFlight /\ ~Refreshing(c)
        /\ act' = act \/ \E a : act' = [act EXCEPT ![c] = a] /\ a.pc \in {"edit", "notify", "idle"}
    <3> DEFINE Sets == \E a : act' = [act EXCEPT ![c] = a] /\ a.pc \in {"edit", "notify", "idle"}
    <3>1. \A id \in Ids, p \in Providers, b \in BOOLEAN :
              Edit(id, p).pc = "edit" /\ Notify(id, b).pc = "notify"
      BY DEF Edit, Notify
    <3>2. ASSUME NEW id \in Ids, NEW p \in Providers, CreateBalance(c, id, p)
          PROVE  UNCHANGED inFlight /\ act[c].pc = "idle" /\ (act' = act \/ Sets)
      BY <1>0, <3>1, <3>2 DEF CreateBalance, Become
    <3>3. ASSUME NEW id \in Ids, ReadBalance(c, id)
          PROVE  UNCHANGED inFlight /\ act[c].pc = "idle" /\ Sets
      <4>1. /\ UNCHANGED inFlight /\ act[c].pc = "idle"
            /\ act' = [act EXCEPT ![c] = Edit(id, rows[id].provider)]
        BY <1>0, <3>3 DEF ReadBalance, Become
      <4>2. Edit(id, rows[id].provider).pc = "edit"
        BY DEF Edit
      <4> QED
        BY <4>1, <4>2
    <3>4. CASE UpdateBalance(c)
      <4>1. UNCHANGED inFlight /\ act[c].pc = "edit"
        BY <3>4 DEF UpdateBalance
      <4>2. \E b \in BOOLEAN : Become(c, Notify(act[c].id, b)) \/ Leave(c)
        BY <3>4 DEF UpdateBalance
      <4> QED
        BY <1>0, <4>1, <4>2 DEF Become, Leave, Notify, Refreshing
    <3>5. CASE UpdateRefused(c) \/ ScheduleUpdate(c)
      BY <1>0, <3>5 DEF UpdateRefused, ScheduleUpdate, Become, Leave, Refreshing
    <3> QED
      BY <1>1, <3>2, <3>3, <3>4, <3>5 DEF Refreshing
  <2>2. /\ \A w \in Workers : w # c => act'[w] = act[w]
        /\ ~Refreshing(c)'
    BY <1>0, <2>1 DEF Refreshing
  <2> QED
    BY <1>0, <2>1, <2>2, FlightKept DEF Refreshing
<1>2. ASSUME NEW c \in Clients, NEW id \in Ids, RefreshNow(c, id)
      PROVE  (OwnPlace /\ InFlightExact)'
  BY <1>0, <1>2, FlightBegins DEF RefreshNow, Refreshing
<1>3. ASSUME NEW w \in Workers, Work(w)
      PROVE  (OwnPlace /\ InFlightExact)'
  <2>1. CASE RefreshRead(w) \/ RefreshSave(w)
    <3>1. /\ UNCHANGED inFlight /\ Refreshing(w)
          /\ \A v \in Workers : v # w => act'[v] = act[v]
      BY <1>0, <2>1 DEF RefreshRead, RefreshSave, Become, Refreshing
    <3>2. act[w] \in [pc : {"read", "fetch", "finish"}, id : Ids,
                      key : {None} \cup Keys, version : {None} \cup Keys]
      BY <3>1, ActFields
    <3>3. \/ act'[w] = [act[w] EXCEPT !.pc = "finish"]
          \/ act'[w] = [act[w] EXCEPT !.pc = "fetch", !.key = rows[act[w].id].key,
                                      !.version = rows[act[w].id].version]
      BY <1>0, <2>1 DEF RefreshRead, RefreshSave, Become
    <3>4. Refreshing(w)' /\ act'[w].id = act[w].id
      BY <3>2, <3>3 DEF Refreshing
    <3>5. act[w] # Idle
      BY <1>0, <3>1 DEF Refreshing
    <3> QED
      BY <1>0, <3>1, <3>4, <3>5, FlightKept DEF Refreshing
  <2>2. CASE Finish(w)
    BY <2>2, FlightEnds
  <2> QED
    BY <1>3, <2>1, <2>2 DEF Work
<1>4. ASSUME NEW id \in Ids, Poll(id)
      PROVE  (OwnPlace /\ InFlightExact)'
  <2>1. CASE Begin(id) /\ Become(id, Refresh(id))
    <3>1. ~Refreshing(id)
      BY <1>0, <2>1 DEF Begin, InFlightExact, OwnPlace, Refreshing
    <3> QED
      BY <1>0, <2>1, <3>1, FlightBegins
  <2>2. CASE UNCHANGED <<inFlight, act>>
    BY <2>2, FlightKept DEF Refreshing
  <2> QED
    BY <1>4, <2>1, <2>2 DEF Poll
<1>5. CASE ProcessEnds
  BY <1>0, <1>5 DEF ProcessEnds, OwnPlace, InFlightExact, Refreshing
<1>6. CASE \/ \E id \in Ids : DeleteBalance(id) \/ Elapse(id)
           \/ TakeUpdate \/ TimerFires \/ LoopStops \/ Boot \/ Signal \/ UNCHANGED vars
  <2>1. UNCHANGED <<inFlight, act>>
    BY <1>6 DEF DeleteBalance, Elapse, TakeUpdate, TimerFires, LoopStops, Boot, Signal, vars
  <2> QED
    BY <2>1, FlightKept DEF Refreshing
<1> QED
  BY <1>1, <1>2, <1>3, <1>4, <1>5, <1>6 DEF Next, Loop

-----------------------------------------------------------------------------
(* Deadlines *)

Scheduled(id) ==
    \/ next[id] # "none"
    \/ \E i \in DOMAIN wake : wake[i].id = id
    \/ \E c \in Clients : act[c].pc = "notify" /\ act[c].id = id

\* Steps after which each live row has what it had, or a notice.
LEMMA ScheduleKept ==
    ASSUME TypeOK, NoLostSchedule, UNCHANGED available, faults' = 0 => faults = 0, Alive' => Alive,
           \A id \in Ids : Live(id)' /\ (Live(id) => Scheduled(id)) => Scheduled(id)'
    PROVE  NoLostSchedule'
<1>1. Alive' /\ available' /\ faults' = 0 => \A id \in Ids : Live(id) => Scheduled(id)
  BY DEF NoLostSchedule, Scheduled
<1>2. Alive' /\ available' /\ faults' = 0 => \A id \in Ids : Live(id)' => Scheduled(id)'
  BY <1>1
<1> QED
  BY <1>2 DEF NoLostSchedule, Scheduled

LEMMA ScheduleRequest ==
    ASSUME TypeOK, NoLostSchedule, NEW c \in Clients,
           \/ \E id \in Ids : \/ \E p \in Providers : CreateBalance(c, id, p)
                              \/ ReadBalance(c, id) \/ RefreshNow(c, id)
           \/ UpdateBalance(c) \/ UpdateRefused(c) \/ ScheduleUpdate(c)
    PROVE  NoLostSchedule'
<1>0. /\ act \in [Workers -> Act \cup {Idle}] /\ Idle.pc = "idle" /\ c \in Workers
      /\ Clients \subseteq Workers
      /\ rows \in [Ids -> Row \cup {NoRow, Gone}] /\ wake \in Seq(Update)
  BY DEF TypeOK, Workers, Idle
<1>1. ASSUME NEW id \in Ids, NEW p \in Providers, CreateBalance(c, id, p)
      PROVE  NoLostSchedule'
  <2>1. /\ UNCHANGED <<available, next, wake, loop>>
        /\ \A j \in Ids : j # id => rows'[j] = rows[j]
        /\ faults' = 0 => faults = 0 /\ act' = [act EXCEPT ![c] = Notify(id, TRUE)]
        /\ act[c] = Idle
    <3>1. faults' = 0 => NoFault
      BY <1>1, Faults DEF CreateBalance
    <3>2. NoFault => faults' = faults /\ ~Fault
      BY BalanceAssumption DEF NoFault, Fault, TypeOK
    <3>3. UNCHANGED <<available, next, wake, loop>> /\ rows' = [rows EXCEPT ![id] = NewRow(p, edits')]
      BY <1>1 DEF CreateBalance, loopVars
    <3>4. Become(c, Notify(id, TRUE)) \/ Fault
      BY <1>1 DEF CreateBalance
    <3>5. \A j \in Ids : j # id => rows'[j] = rows[j]
      BY <1>0, <3>3
    <3>6. act[c] = Idle
      BY <1>1 DEF CreateBalance
    <3> QED
      BY <3>1, <3>2, <3>3, <3>4, <3>5, <3>6 DEF Become
  <2>2. CASE faults' = 0
    <3>1. act'[c].pc = "notify" /\ act'[c].id = id /\ \A d \in Clients : d # c => act'[d] = act[d]
      BY <1>0, <2>1, <2>2 DEF Notify
    <3>2. \A j \in Ids : j # id => (Live(j)' <=> Live(j)) /\ (Scheduled(j) => Scheduled(j)')
      BY <1>0, <2>1, <3>1 DEF Live, Scheduled
    <3>3. Scheduled(id)'
      BY <3>1 DEF Scheduled
    <3> QED
      BY <2>1, <2>2, <3>2, <3>3, ScheduleKept DEF Alive
  <2>3. CASE faults' # 0
    BY <2>3 DEF NoLostSchedule
  <2> QED
    BY <2>2, <2>3
<1>2. ASSUME NEW id \in Ids, ReadBalance(c, id) \/ RefreshNow(c, id)
      PROVE  NoLostSchedule'
  <2>1. /\ UNCHANGED <<available, next, wake, loop, rows, faults>>
        /\ \A d \in Clients : act[d].pc = "notify" => act'[d] = act[d]
    BY <1>0, <1>2 DEF ReadBalance, RefreshNow, Become, loopVars
  <2>2. \A j \in Ids : (Live(j)' <=> Live(j)) /\ (Scheduled(j) => Scheduled(j)')
    BY <2>1 DEF Live, Scheduled
  <2> QED
    BY <2>1, <2>2, ScheduleKept DEF Alive
<1>3. CASE UpdateBalance(c) \/ UpdateRefused(c)
  <2>1. /\ UNCHANGED <<available, next, wake, loop>>
        /\ faults' = 0 => faults = 0
        /\ \A d \in Clients : act[d].pc = "notify" => act'[d] = act[d]
    BY <1>0, <1>3, Faults
    DEF UpdateBalance, UpdateRefused, Become, Leave, loopVars, NoFault, Fault, TypeOK
  <2>2. \A j \in Ids : Live(j)' => Live(j)
    <3>1. CASE UpdateRefused(c)
      BY <3>1 DEF UpdateRefused, Live
    <3>2. CASE UpdateBalance(c)
      <4>1. act[c].id \in Ids
        BY <1>0, <3>2, ActFields DEF UpdateBalance
      <4> QED
        BY <1>0, <3>2, <4>1 DEF UpdateBalance, Live
    <3> QED
      BY <1>3, <3>1, <3>2
  <2>3. \A j \in Ids : Scheduled(j) => Scheduled(j)'
    BY <2>1 DEF Scheduled
  <2> QED
    BY <2>1, <2>2, <2>3, ScheduleKept DEF Alive
<1>4. CASE ScheduleUpdate(c)
  <2>1. /\ UNCHANGED <<available, next, loop, rows, faults>>
        /\ wake' = Append(wake, [id |-> act[c].id, immediate |-> act[c].immediate])
        /\ \A d \in Clients : d # c => act'[d] = act[d]
    BY <1>0, <1>4 DEF ScheduleUpdate, Become, Leave, loopVars
  <2>2. /\ \A i \in DOMAIN wake : i \in DOMAIN wake' /\ wake'[i] = wake[i]
        /\ Len(wake) + 1 \in DOMAIN wake' /\ wake'[Len(wake) + 1].id = act[c].id
    BY <1>0, <2>1
  <2>3. \A j \in Ids : (Live(j)' <=> Live(j)) /\ (Scheduled(j) => Scheduled(j)')
    BY <2>1, <2>2 DEF Live, Scheduled
  <2> QED
    BY <2>1, <2>3, ScheduleKept DEF Alive
<1> QED
  BY <1>1, <1>2, <1>3, <1>4

LEMMA ScheduleStep ==
    ASSUME TypeOK, NoLostSchedule, OwnPlace, [Next]_vars
    PROVE  NoLostSchedule'
<1>0. /\ act \in [Workers -> Act \cup {Idle}] /\ Idle.pc = "idle"
      /\ Clients \subseteq Workers /\ Ids \subseteq Workers /\ Ids \cap Clients = {}
      /\ rows \in [Ids -> Row \cup {NoRow, Gone}] /\ wake \in Seq(Update)
      /\ next \in [Ids -> {"none", "soon", "later", "due"}]
  BY BalanceAssumption DEF TypeOK, Workers, Idle
<1>1. ASSUME NEW w \in Workers, Work(w)
      PROVE  NoLostSchedule'
  <2>1. /\ UNCHANGED <<available, next, wake, loop>>
        /\ faults' = 0 => faults = 0
        /\ \A d \in Clients : act[d].pc = "notify" => act'[d] = act[d]
    BY <1>0, <1>1, Faults
    DEF Work, RefreshRead, RefreshSave, Finish, Become, Leave, loopVars, NoFault, Fault, TypeOK
  <2>2. \A j \in Ids : Live(j)' => Live(j)
    <3>1. CASE RefreshRead(w) \/ Finish(w)
      BY <3>1 DEF RefreshRead, Finish, Live
    <3>2. CASE RefreshSave(w)
      BY <1>0, <3>2, ActFields DEF RefreshSave, SameCredential, Live, Refreshing
    <3> QED
      BY <1>1, <3>1, <3>2 DEF Work
  <2>3. \A j \in Ids : Scheduled(j) => Scheduled(j)'
    BY <2>1 DEF Scheduled
  <2> QED
    BY <2>1, <2>2, <2>3, ScheduleKept DEF Alive
<1>2. ASSUME NEW id \in Ids, DeleteBalance(id) \/ Elapse(id)
      PROVE  NoLostSchedule'
  <2>1. /\ UNCHANGED <<available, wake, loop, faults, act>>
        /\ \A j \in Ids : next[j] # "none" => next'[j] # "none"
    BY <1>0, <1>2 DEF DeleteBalance, Elapse, loopVars
  <2>2. \A j \in Ids : Live(j)' => Live(j)
    BY <1>0, <1>2 DEF DeleteBalance, Elapse, Live, Gone
  <2>3. \A j \in Ids : Scheduled(j) => Scheduled(j)'
    BY <2>1 DEF Scheduled
  <2> QED
    BY <2>1, <2>2, <2>3, ScheduleKept DEF Alive
<1>3. CASE TakeUpdate
  <2> DEFINE u == Head(wake)
  <2>1. /\ UNCHANGED <<available, rows, loop, act>>
        /\ wake # <<>> /\ wake' = Tail(wake)
        /\ faults' = 0 => /\ faults = 0
                          /\ \/ Live(u.id) /\ next' = [next EXCEPT ![u.id] = Deadline(u)]
                             \/ ~Live(u.id) /\ next' = [next EXCEPT ![u.id] = "none"]
    BY <1>3, Faults DEF TakeUpdate, NoFault, Fault, TypeOK
  <2>2. CASE faults' = 0
    <3>1. u \in Update /\ u.id \in Ids /\ u = wake[1]
      <4>1. u \in Update /\ u = wake[1]
        BY <1>0, <2>1
      <4> QED
        BY <4>1 DEF Update
    <3>2. \A i \in DOMAIN wake : i # 1 => i - 1 \in DOMAIN wake' /\ wake'[i - 1] = wake[i]
      BY <1>0, <2>1
    <3>3. \A j \in Ids : j # u.id => next'[j] = next[j]
      BY <1>0, <2>1, <2>2, <3>1
    <3>4. Live(u.id) => next'[u.id] # "none"
      BY <1>0, <2>1, <2>2, <3>1 DEF Deadline
    <3>5. \A j \in Ids : j # u.id /\ Scheduled(j) => Scheduled(j)'
      <4> SUFFICES ASSUME NEW j \in Ids, j # u.id, Scheduled(j) PROVE Scheduled(j)'
        OBVIOUS
      <4>1. CASE next[j] # "none"
        BY <3>3, <4>1 DEF Scheduled
      <4>2. ASSUME NEW i \in DOMAIN wake, wake[i].id = j PROVE Scheduled(j)'
        BY <3>1, <3>2, <4>2 DEF Scheduled
      <4>3. CASE \E c \in Clients : act[c].pc = "notify" /\ act[c].id = j
        BY <2>1, <4>3 DEF Scheduled
      <4> QED
        BY <4>1, <4>2, <4>3 DEF Scheduled
    <3>6. \A j \in Ids : (Live(j)' <=> Live(j)) /\ (Live(j) /\ Scheduled(j) => Scheduled(j)')
      BY <2>1, <3>4, <3>5 DEF Live, Scheduled
    <3> QED
      BY <2>1, <2>2, <3>6, ScheduleKept DEF Alive
  <2>3. CASE faults' # 0
    BY <2>3 DEF NoLostSchedule
  <2> QED
    BY <2>2, <2>3
<1>4. ASSUME NEW id \in Ids, Poll(id)
      PROVE  NoLostSchedule'
  <2>1. /\ UNCHANGED <<available, rows, wake>> /\ loop = "fire"
        /\ faults' = 0 => faults = 0 /\ (Live(id) => next'[id] # "none")
        /\ \A j \in Ids : j # id => next'[j] = next[j]
        /\ \A d \in Clients : act'[d] = act[d]
    BY <1>0, <1>4, Faults DEF Poll, Become, Busy, NoFault, Fault, TypeOK
  <2>2. CASE faults' = 0
    <3>1. \A j \in Ids : (Live(j)' <=> Live(j)) /\ (Live(j) /\ Scheduled(j) => Scheduled(j)')
      BY <2>1, <2>2 DEF Live, Scheduled
    <3> QED
      BY <2>1, <2>2, <3>1, ScheduleKept DEF Alive
  <2>3. CASE faults' # 0
    BY <2>3 DEF NoLostSchedule
  <2> QED
    BY <2>2, <2>3
<1>5. CASE Boot
  <2>1. CASE next' = AllDue /\ UNCHANGED rows
    BY <2>1 DEF AllDue, NoLostSchedule, Live
  <2>2. CASE ~Alive' \/ ~available'
    BY <2>2 DEF NoLostSchedule
  <2> QED
    BY <1>5, <2>1, <2>2 DEF Boot, Alive
<1>6. CASE ProcessEnds
  BY <1>6 DEF ProcessEnds, NoLostSchedule
<1>7. CASE TimerFires \/ LoopStops \/ Signal \/ UNCHANGED vars
  <2>1. UNCHANGED <<available, rows, wake, next, act, faults>> /\ (Alive' => Alive)
    BY <1>7 DEF TimerFires, LoopStops, Signal, vars, loopVars, Alive
  <2>2. \A j \in Ids : (Live(j)' <=> Live(j)) /\ (Scheduled(j) => Scheduled(j)')
    BY <2>1 DEF Live, Scheduled
  <2> QED
    BY <2>1, <2>2, ScheduleKept
<1> QED
  BY <1>1, <1>2, <1>3, <1>4, <1>5, <1>6, <1>7, ScheduleRequest DEF Next, Loop

-----------------------------------------------------------------------------
LEMMA Initially == Init => BInv
<1> SUFFICES ASSUME Init PROVE BInv
  OBVIOUS
<1>1. TypeOK
  BY TypeInit
<1>2. \A w \in Workers : act[w].pc = "idle" /\ act[w] = Idle
  BY DEF Init, Idle
<1>3. Ids \subseteq Workers /\ \A id \in Ids : ~Live(id)
  BY DEF Workers, Init, Live, NoRow
<1>4. Versions /\ ResultOfKey /\ NoLostSchedule
  BY <1>3 DEF Versions, ResultOfKey, NoLostSchedule
<1>5. FetchOfVersion /\ OwnPlace
  BY <1>2, <1>3 DEF FetchOfVersion, OwnPlace
<1>6. InFlightExact
  BY <1>2 DEF InFlightExact, Refreshing, Init
<1> QED
  BY <1>1, <1>4, <1>5, <1>6 DEF BInv

LEMMA Inductive == BInv /\ [Next]_vars => BInv'
BY TypeStep, RowsStep, FlightStep, ScheduleStep DEF BInv

LEMMA Invariant == Spec => []BInv
BY Initially, Inductive, PTL DEF Spec

-----------------------------------------------------------------------------
(* The theorems *)

\* The variables of the manager, the table and the requests keep their types; no version
\* and no edit outgrows its bound, and the channel never holds more than it can.
THEOREM BalanceTypes == Spec => []TypeOK
<1>1. BInv => TypeOK
  BY DEF BInv
<1> QED
  BY <1>1, Invariant, PTL

\* credential_version does what it is for: no row ever shows an amount or an error that
\* was fetched with another key than the one it holds.
THEOREM ResultsBelongToKeys == Spec => []ResultOfKey
<1>1. BInv => ResultOfKey
  BY DEF BInv
<1> QED
  BY <1>1, Invariant, PTL

\* The map inFlight names exactly the rows that a goroutine refreshes, one for each.
THEOREM OneRefreshPerRow == Spec => []InFlightExact
<1>1. BInv => InFlightExact
  BY DEF BInv
<1> QED
  BY <1>1, Invariant, PTL

\* As long as no read fails, the loop loses no configuration.
THEOREM NoneDropped == Spec => []NoLostSchedule
<1>1. BInv => NoLostSchedule
  BY DEF BInv
<1> QED
  BY <1>1, Invariant, PTL
=============================================================================
