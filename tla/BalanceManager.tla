--------------------------- MODULE BalanceManager ---------------------------
(***************************************************************************)
(* Provider balances: the polling loop of internal/balances/manager.go,    *)
(* its refresh goroutines, the requests of internal/httpapi/balances.go    *)
(* and the table balance_configs (internal/store/balance.go).              *)
(*                                                                         *)
(* A key is named by the edit that brought it.  Amounts are abstracted to  *)
(* the key they were fetched with; encryption and the providers' HTTP      *)
(* interfaces are external.                                                *)
(***************************************************************************)
EXTENDS Integers, Sequences

CONSTANTS
    Ids,        \* row ids the table can hand out (AUTOINCREMENT)
    Clients,    \* concurrent HTTP requests
    Providers,
    WakeCap,    \* capacity of the wake channel (128 in the code)
    MaxEdits,   \* bound on creations and updates
    MaxFaults   \* bound on failing database reads

ASSUME BalanceAssumption ==
    /\ WakeCap \in Nat \ {0}
    /\ MaxEdits \in Nat
    /\ MaxFaults \in Nat
    /\ Ids \cap Clients = {}

VARIABLES
    phase,      \* off, serving, stopping (the root context is cancelled)
    available,  \* Manager.Available
    rows,       \* table balance_configs
    edits,      \* creations and updates so far: the source of key names
    wake,       \* Manager.wake
    loop,       \* run: off, select, fire, or gone (it returned)
    next,       \* its map of deadlines: none, soon (in a second), later (in an interval)
                \* or due
    todo,       \* due entries its timer branch has not come to yet
    inFlight,   \* Manager.inFlight
    act,        \* what each request and each polling goroutine is at
    faults

vars == <<phase, available, rows, edits, wake, loop, next, todo, inFlight, act, faults>>
loopVars == <<loop, next, todo>>

Keys == 1..MaxEdits
None == 0
NoRow == [state |-> "absent"]
Gone == [state |-> "deleted"]
Row == [state : {"live"}, provider : Providers, key : Keys, version : Keys,
        balance : {None} \cup Keys, error : {None} \cup Keys]
NewRow(p, k) == [state |-> "live", provider |-> p, key |-> k, version |-> 1,
                 balance |-> None, error |-> None]

Update == [id : Ids, immediate : BOOLEAN]

\* A goroutine of refresh, polling (named by the id) or manual (by the request).
Workers == Ids \cup Clients
Idle == [pc |-> "idle"]
Edit(id, p) == [pc |-> "edit", id |-> id, provider |-> p]
Notify(id, immediate) == [pc |-> "notify", id |-> id, immediate |-> immediate]
Refresh(id) == [pc |-> "read", id |-> id, key |-> None, version |-> None]
Act == [pc : {"edit"}, id : Ids, provider : Providers]
       \cup [pc : {"notify"}, id : Ids, immediate : BOOLEAN]
       \cup [pc : {"read", "fetch", "finish"}, id : Ids,
             key : {None} \cup Keys, version : {None} \cup Keys]

-----------------------------------------------------------------------------
Live(id) == rows[id].state = "live"
Up == phase # "off"
Serving == Up /\ available          \* balanceFeatureAvailable
Alive == loop \in {"select", "fire"}
Refreshing(w) == act[w].pc \in {"read", "fetch", "finish"}
Fault == faults < MaxFaults /\ faults' = faults + 1
NoFault == UNCHANGED faults

Become(w, a) == act' = [act EXCEPT ![w] = a]
Leave(w) == Become(w, Idle)

\* Mutant: no test of the map.
BeginAlways(id) == inFlight' = inFlight \cup {id}

\* begin, when it succeeds
Begin(id) == id \notin inFlight /\ inFlight' = inFlight \cup {id}

-----------------------------------------------------------------------------
(* Requests *)

\* The INSERT; the row is then read back, and if that fails the handler returns without
\* telling the loop.
CreateBalance(c, id, p) ==
    /\ Serving
    /\ act[c] = Idle
    /\ rows[id] = NoRow
    /\ edits < MaxEdits
    /\ edits' = edits + 1
    /\ rows' = [rows EXCEPT ![id] = NewRow(p, edits')]
    /\ \/ Become(c, Notify(id, TRUE)) /\ NoFault
       \/ UNCHANGED act /\ Fault
    /\ UNCHANGED <<phase, available, wake, loopVars, inFlight>>

\* handleUpdateBalance reads the row to compare the provider ...
ReadBalance(c, id) ==
    /\ Serving
    /\ act[c] = Idle
    /\ Live(id)
    /\ Become(c, Edit(id, rows[id].provider))
    /\ UNCHANGED <<phase, available, rows, edits, wake, loopVars, inFlight, faults>>

\* Mutant: a replaced key keeps the version and what was fetched with the old one.
ReplaceKeepsVersion(r, p, k) == [r EXCEPT !.provider = p, !.key = k]

\* UpdateBalanceConfig with a new key
ReplaceKey(r, p, k) == [NewRow(p, k) EXCEPT !.version = r.version + 1]

\* ... and writes it, with a new key or, if the provider is the one it read, without.
\* A row deleted since matches no UPDATE and is not found on reading back.
UpdateBalance(c) ==
    LET id == act[c].id IN
    /\ act[c].pc = "edit"
    /\ edits < MaxEdits
    /\ edits' = edits + 1
    /\ \E p \in Providers, replace \in BOOLEAN :
          /\ p # act[c].provider => replace
          /\ rows' = IF ~Live(id) THEN rows
                     ELSE [rows EXCEPT ![id] = IF replace THEN ReplaceKey(@, p, edits')
                                               ELSE [@ EXCEPT !.provider = p]]
          /\ \/ Live(id) /\ Become(c, Notify(id, replace)) /\ NoFault
             \/ ~Live(id) /\ Leave(c) /\ NoFault
             \/ Live(id) /\ Leave(c) /\ Fault
    /\ UNCHANGED <<phase, available, wake, loopVars, inFlight>>

\* The request is refused (a bad interval, another provider without a key).
UpdateRefused(c) ==
    /\ act[c].pc = "edit"
    /\ Leave(c)
    /\ UNCHANGED <<phase, available, rows, edits, wake, loopVars, inFlight, faults>>

\* The loop is not told.
DeleteBalance(id) ==
    /\ Serving
    /\ Live(id)
    /\ rows' = [rows EXCEPT ![id] = Gone]
    /\ UNCHANGED <<phase, available, edits, wake, loopVars, inFlight, act, faults>>

\* Mutant: the channel takes any number of updates.
NoCapacity == TRUE

HasRoom == Len(wake) < WakeCap

\* The send blocks while the channel is full.
ScheduleUpdate(c) ==
    /\ act[c].pc = "notify"
    /\ HasRoom
    /\ wake' = Append(wake, [id |-> act[c].id, immediate |-> act[c].immediate])
    /\ Leave(c)
    /\ UNCHANGED <<phase, available, rows, edits, loopVars, inFlight, faults>>

\* RefreshNow; refused while another refresh of the row is in progress.  The id is the
\* request's, the row may not exist.
RefreshNow(c, id) ==
    /\ Serving
    /\ act[c] = Idle
    /\ Begin(id)
    /\ Become(c, Refresh(id))
    /\ UNCHANGED <<phase, available, rows, edits, wake, loopVars, faults>>

-----------------------------------------------------------------------------
(* refresh, by a request or by a polling goroutine *)

RefreshRead(w) ==
    LET id == act[w].id IN
    /\ act[w].pc = "read"
    /\ \/ /\ Live(id) /\ available
          /\ Become(w, [act[w] EXCEPT !.pc = "fetch", !.key = rows[id].key,
                                      !.version = rows[id].version])
          /\ NoFault
       \/ ~(Live(id) /\ available) /\ Become(w, [act[w] EXCEPT !.pc = "finish"]) /\ NoFault
       \/ Become(w, [act[w] EXCEPT !.pc = "finish"]) /\ Fault
    /\ UNCHANGED <<phase, available, rows, edits, wake, loopVars, inFlight>>

\* Mutant: the row is updated by its id alone.
SameRow(w) == Live(act[w].id)

\* WHERE id=? AND credential_version=?
SameCredential(w) == Live(act[w].id) /\ rows[act[w].id].version = act[w].version

\* Fetch returns; SaveBalanceSuccess or SaveBalanceError (which keeps the last balance).
\* A failing UPDATE is not retried.
RefreshSave(w) ==
    LET id == act[w].id
        k == act[w].key
    IN
    /\ act[w].pc = "fetch"
    /\ \/ /\ SameCredential(w)
          /\ \/ rows' = [rows EXCEPT ![id].balance = k, ![id].error = None]
             \/ rows' = [rows EXCEPT ![id].error = k]
          /\ NoFault
       \/ UNCHANGED rows /\ IF SameCredential(w) THEN Fault ELSE NoFault
    /\ Become(w, [act[w] EXCEPT !.pc = "finish"])
    /\ UNCHANGED <<phase, available, edits, wake, loopVars, inFlight>>

Finish(w) ==
    /\ act[w].pc = "finish"
    /\ inFlight' = inFlight \ {act[w].id}
    /\ Leave(w)
    /\ UNCHANGED <<phase, available, rows, edits, wake, loopVars, faults>>

-----------------------------------------------------------------------------
(* The loop *)

\* Time passes a deadline.
Elapse(id) ==
    /\ next[id] \in {"soon", "later"}
    /\ next' = [next EXCEPT ![id] = "due"]
    /\ UNCHANGED <<phase, available, rows, edits, wake, loop, todo, inFlight, act, faults>>

\* The deadline after an update: at once, or a whole interval from now.
Deadline(u) == IF u.immediate /\ available THEN "due" ELSE "later"

\* case update := <-m.wake.  An id that cannot be read is dropped.
TakeUpdate ==
    LET u == Head(wake) IN
    /\ loop = "select"
    /\ wake # <<>>
    /\ wake' = Tail(wake)
    /\ \/ Live(u.id) /\ NoFault /\ next' = [next EXCEPT ![u.id] = Deadline(u)]
       \/ ~Live(u.id) /\ NoFault /\ next' = [next EXCEPT ![u.id] = "none"]
       \/ Live(u.id) /\ Fault /\ next' = [next EXCEPT ![u.id] = "none"]
    /\ UNCHANGED <<phase, available, rows, edits, loop, todo, inFlight, act>>

\* case <-timer.C
TimerFires ==
    /\ loop = "select"
    /\ \E id \in Ids : next[id] = "due"
    /\ todo' = {id \in Ids : next[id] = "due"}
    /\ loop' = "fire"
    /\ UNCHANGED <<phase, available, rows, edits, wake, next, inFlight, act, faults>>

\* Mutant: a row whose refresh is in progress loses its deadline.
BusyForgotten == "none"

\* It is tried again in a second.
Busy == "soon"

\* One turn of the loop over the map, in no particular order.
Poll(id) ==
    /\ loop = "fire"
    /\ id \in todo
    /\ todo' = todo \ {id}
    /\ loop' = IF todo' = {} THEN "select" ELSE "fire"
    /\ \/ /\ Live(id) /\ NoFault
          /\ Begin(id)
          /\ Become(id, Refresh(id))
          /\ next' = [next EXCEPT ![id] = "later"]
       \/ /\ Live(id) /\ NoFault
          /\ id \in inFlight
          /\ next' = [next EXCEPT ![id] = Busy]
          /\ UNCHANGED <<inFlight, act>>
       \/ /\ IF Live(id) THEN Fault ELSE NoFault
          /\ next' = [next EXCEPT ![id] = "none"]
          /\ UNCHANGED <<inFlight, act>>
    /\ UNCHANGED <<phase, available, rows, edits, wake>>

\* case <-ctx.Done()
LoopStops ==
    /\ loop = "select"
    /\ phase = "stopping"
    /\ loop' = "gone"
    /\ UNCHANGED <<phase, available, rows, edits, wake, next, todo, inFlight, act, faults>>

-----------------------------------------------------------------------------
(* The process *)

AllDue == [id \in Ids |-> IF Live(id) THEN "due" ELSE "none"]
NoneDue == [id \in Ids |-> "none"]

\* NewManager and the start of run.  Without a usable key the feature is off and the
\* loop runs idle, or it is gone if the key does not open a stored credential; if only
\* run fails to list the rows, the loop is gone and the feature stays on.
Boot ==
    /\ phase = "off"
    /\ phase' = "serving"
    /\ todo' = {}
    /\ \/ available' = TRUE /\ loop' = "select" /\ next' = AllDue /\ NoFault
       \/ available' = TRUE /\ loop' = "gone" /\ next' = NoneDue /\ Fault
       \/ /\ available' = FALSE /\ loop' \in {"select", "gone"} /\ next' = NoneDue /\ Fault
    /\ UNCHANGED <<rows, edits, wake, inFlight, act>>

Signal ==
    /\ phase = "serving"
    /\ phase' = "stopping"
    /\ UNCHANGED <<available, rows, edits, wake, loopVars, inFlight, act, faults>>

ProcessEnds ==
    /\ Up
    /\ phase' = "off"
    /\ available' = FALSE
    /\ wake' = <<>>
    /\ loop' = "off"
    /\ next' = NoneDue
    /\ todo' = {}
    /\ inFlight' = {}
    /\ act' = [w \in Workers |-> Idle]
    /\ UNCHANGED <<rows, edits, faults>>

Init ==
    /\ phase = "off"
    /\ available = FALSE
    /\ rows = [id \in Ids |-> NoRow]
    /\ edits = 0
    /\ wake = <<>>
    /\ loop = "off"
    /\ next = NoneDue
    /\ todo = {}
    /\ inFlight = {}
    /\ act = [w \in Workers |-> Idle]
    /\ faults = 0

Loop == TakeUpdate \/ TimerFires \/ LoopStops \/ \E id \in Ids : Poll(id)
Work(w) == RefreshRead(w) \/ RefreshSave(w) \/ Finish(w)

Next ==
    \/ \E c \in Clients, id \in Ids :
          \/ \E p \in Providers : CreateBalance(c, id, p)
          \/ ReadBalance(c, id) \/ RefreshNow(c, id)
    \/ \E c \in Clients : UpdateBalance(c) \/ UpdateRefused(c) \/ ScheduleUpdate(c)
    \/ \E id \in Ids : DeleteBalance(id) \/ Elapse(id)
    \/ \E w \in Workers : Work(w)
    \/ Loop
    \/ Boot \/ Signal \/ ProcessEnds

Spec == Init /\ [][Next]_vars

\* A second passes (nothing is assumed of a whole interval), the goroutines of a process
\* that is up go on, and a fetch ends (its client has a timeout of 15 s).  Between
\* deadlines, which are a second or an interval apart, the select finds only the channel
\* ready; senders wait for it in a queue.
Fairness ==
    /\ WF_vars(Loop)
    /\ SF_vars(TakeUpdate)
    /\ \A id \in Ids : WF_vars(next[id] = "soon" /\ Elapse(id))
    /\ \A w \in Workers : WF_vars(Work(w))
    /\ \A c \in Clients : SF_vars(ScheduleUpdate(c))

FairSpec == Spec /\ Fairness

-----------------------------------------------------------------------------
TypeOK ==
    /\ phase \in {"off", "serving", "stopping"}
    /\ available \in BOOLEAN
    /\ rows \in [Ids -> Row \cup {NoRow, Gone}]
    /\ edits \in 0..MaxEdits
    /\ wake \in Seq(Update) /\ Len(wake) <= WakeCap
    /\ loop \in {"off", "select", "fire", "gone"}
    /\ next \in [Ids -> {"none", "soon", "later", "due"}]
    /\ todo \in SUBSET Ids
    /\ inFlight \in SUBSET Ids
    /\ act \in [Workers -> Act \cup {Idle}]
    /\ faults \in 0..MaxFaults

\* What a row shows, balance or error, came from the key it holds now: a refresh that
\* outlives its key, or two of them out of order, cannot put the old account's answer
\* under the new key (credential_version).
ResultOfKey ==
    \A id \in Ids : Live(id) =>
        /\ rows[id].balance \in {None, rows[id].key}
        /\ rows[id].error \in {None, rows[id].key}

\* Polling and manual refreshes of one configuration exclude each other, and the map
\* forgets none that is at work and keeps none that has ended: a leaked entry would
\* answer every later refresh with "in progress".
InFlightExact ==
    /\ inFlight = {act[w].id : w \in {v \in Workers : Refreshing(v)}}
    /\ \A v, w \in Workers :
          Refreshing(v) /\ Refreshing(w) /\ act[v].id = act[w].id => v = w

\* While the loop runs, every configuration has a deadline or an update on its way to
\* the loop: none is silently dropped from polling (as a failing read would do).
NoLostSchedule ==
    Alive /\ available /\ faults = 0 =>
        \A id \in Ids : Live(id) =>
            \/ next[id] # "none"
            \/ \E i \in DOMAIN wake : wake[i].id = id
            \/ \E c \in Clients : act[c].pc = "notify" /\ act[c].id = id

\* An update of the row is on its way to the loop, one that asks for a read or one that
\* does not.
Coming(id, immediate) ==
    \/ \E i \in DOMAIN wake : wake[i] = [id |-> id, immediate |-> immediate]
    \/ \E c \in Clients : act[c] = Notify(id, immediate)

\* An update that asks for a read gets the key of the row tried while the loop runs,
\* without an interval being waited out, or the key is replaced or deleted before that: no
\* full channel, no refresh in progress with the old key and no busy row takes the read
\* away.  Only a later update without a new key does: it moves the deadline, due or not, a
\* whole interval on.
Tried(id, k) == rows[id].state = "live" /\ k \in {rows[id].balance, rows[id].error}
Holds(id, k) == Live(id) /\ rows[id].key = k
Running == Alive /\ available /\ phase = "serving" /\ faults = 0
KeyGetsUsed ==
    \A id \in Ids, k \in Keys :
        Holds(id, k) /\ Running /\ Coming(id, TRUE)
            ~> Tried(id, k) \/ ~Holds(id, k) \/ ~Running \/ Coming(id, FALSE)
=============================================================================
