------------------------------ MODULE Scheduler ------------------------------
(***************************************************************************)
(* The task scheduler of codeck: the tasks and task_runs tables            *)
(* (internal/store/task.go), the polling loop and the run goroutines       *)
(* (internal/scheduler/scheduler.go), the HTTP handlers that change tasks  *)
(* under them (internal/httpapi/tasks.go) and the life of the process      *)
(* around all of it (main.go).                                             *)
(*                                                                         *)
(* Every SQL statement is one step (the store has a single connection),    *)
(* and so is every operation on the in-memory map of running tasks.  A     *)
(* handler or goroutine that issues several of them takes several steps,   *)
(* between which the others run.                                           *)
(***************************************************************************)
EXTENDS Integers

CONSTANTS
    Tasks,        \* ids the tasks table can hand out (AUTOINCREMENT: never reused)
    Profiles,     \* ids of the profiles that exist at the start
    RunIds,       \* ids for the task_runs rows that are not yet settled history
    Clients,      \* concurrent HTTP requests
    CronExprs,    \* cron expressions that tasks carry
    BrokenExprs,  \* those of them the cron parser rejects (rows not written by this API)
    CronNext(_,_),\* the cron library: the first firing of an expression after a time
    MaxTime,      \* bound on the clock
    MaxFaults,    \* bound on the number of SQL statements that fail
    Events,       \* the requests and process events of the instance, a subset of AllEvents
    AutoModes,    \* values of the "automatic dispatch" setting at start-up
    Stored,       \* schedules of enabled tasks a previous process left in the database
    NoTask, NoExpr

AllEvents == {"create", "update", "delete", "run", "deleteProfile", "crash", "stop"}
Dispatcher == "dispatcher"
Actors == Clients \cup {Dispatcher}  \* the callers of spawn
NoTime == -1                         \* SQL NULL, nil *time.Time
Times == 0..MaxTime

ASSUME SchedulerAssumption ==
    /\ MaxTime \in Nat
    /\ MaxFaults \in Nat
    /\ Profiles # {}                 \* without a profile there is no task
    /\ BrokenExprs \subseteq CronExprs
    /\ \A e \in CronExprs, n \in Times : CronNext(e, n) \in Nat
    /\ NoTask \notin Tasks
    /\ NoExpr \notin CronExprs
    /\ Dispatcher \notin Clients
    /\ Events \subseteq AllEvents
    /\ AutoModes \subseteq BOOLEAN

Slots == Nat \cup {NoTime}
Cron(e) == [kind |-> "cron", expr |-> e, runAt |-> NoTime]
Once(n) == [kind |-> "once", expr |-> NoExpr, runAt |-> n]
Schedules == {Cron(e) : e \in CronExprs} \cup {Once(n) : n \in Times}

ASSUME StoredAssumption == Stored \subseteq Schedules

TaskRow == [state : {"absent", "live", "deleted"}, sched : Schedules, profile : Profiles,
            enabled : BOOLEAN, next : Slots, last : {"", "success", "failed"}]
TaskCopy == [id : Tasks, sched : Schedules, profile : Profiles, next : Nat]
NoCopy == [id |-> NoTask]
Claim == [id : Tasks, profile : Profiles]
NoClaim == [id |-> NoTask]
Edit == [id : Tasks, sched : Schedules, profile : Profiles, enabled : BOOLEAN, next : Slots]
NoEdit == [id |-> NoTask]
Run == [task : Tasks, profile : Profiles, status : {"gone", "running", "success", "failed"},
        pc : {"none", "opened", "spawned", "executing", "success", "failed", "releasing"}]
\* A row not inserted yet, or deleted (disabled, without a slot).  Of a deleted row only
\* the profile still counts, for the cascade; no statement here reads the other columns.
UnusedRow(state, p) ==
    [state |-> state, sched |-> CHOOSE s \in Schedules : TRUE, profile |-> p,
     enabled |-> FALSE, next |-> NoTime, last |-> ""]
AbsentRow == UnusedRow("absent", CHOOSE p \in Profiles : TRUE)
NoRun == [task |-> NoTask, status |-> "gone", pc |-> "none"]

VARIABLES
    now,       \* the wall clock
    tasks,     \* table tasks
    profiles,  \* table profiles
    runs,      \* table task_runs, each row with the goroutine that owns it, or the
               \* request that has inserted it and has yet to start that goroutine
    running,   \* Scheduler.running, the tasks being run
    claim,     \* per caller of spawn: the task it has put into running
    loop,      \* where the polling goroutine stands
    dueAt,     \* dispatchDue's now
    due,       \* dispatchDue's copies of the due tasks still to be handled
    cur,       \* dispatchDue's current copy
    edit,      \* per request: the task row handleUpdateTask is about to write
    phase,     \* the process: off, serving, stopping (root context cancelled), drained
               \* (no new requests), stopped (Scheduler.Stop has returned)
    faults,    \* failed SQL statements so far
    lastSlot   \* history: the last slot of each task handed out by dispatchDue

db == <<tasks, profiles, runs>>
dispatch == <<loop, dueAt, due, cur, lastSlot>>
vars == <<now, db, running, claim, dispatch, edit, phase, faults>>

-----------------------------------------------------------------------------
(* Helper state formulae *)

Live(t) == tasks[t].state = "live"
Owned(r) == runs[r].pc # "none"
\* Mutant: the conditions on enabled and on NULL are forgotten.
DueIfNull(t) == Live(t) /\ tasks[t].next <= now
\* Mutant: a slot is taken one unit early.
DueEarly(t) ==
    Live(t) /\ tasks[t].enabled /\ tasks[t].next # NoTime /\ tasks[t].next <= now + 1

Due(t) == /\ Live(t)
          /\ tasks[t].enabled
          /\ tasks[t].next # NoTime
          /\ tasks[t].next <= now
FreeRuns == {r \in RunIds : runs[r] = NoRun}
Serving == phase \in {"serving", "stopping"}     \* new requests are accepted
Cancelled == phase \in {"stopping", "drained", "stopped"}   \* ctx.Done() is closed
Idle(c) == Serving /\ claim[c] = NoClaim /\ edit[c] = NoEdit

\* A row that is closed and whose goroutine has ended is history: nothing in the
\* program writes it again, and its id is used for another row.
Settle(run) == IF run.pc = "none" /\ run.status # "running" THEN NoRun ELSE run

Fault == faults < MaxFaults /\ faults' = faults + 1
NoFault == UNCHANGED faults

-----------------------------------------------------------------------------
(* The store's statements on tasks: each is a no-op on a deleted task.  *)

\* Mutant: the statement also writes deleted tasks.
SetTaskNextRunAlways(t, next) == tasks' = [tasks EXCEPT ![t].next = next]

SetTaskNextRun(t, next) ==
    tasks' = IF Live(t) THEN [tasks EXCEPT ![t].next = next] ELSE tasks

\* Mutant: the task is not disabled.
ConsumeOneShotKeepsEnabled(t) ==
    tasks' = IF Live(t) THEN [tasks EXCEPT ![t].next = NoTime] ELSE tasks

ConsumeOneShot(t) ==
    tasks' = IF Live(t) THEN [tasks EXCEPT ![t].enabled = FALSE, ![t].next = NoTime]
             ELSE tasks

\* Mutant: only an enabled task gets its outcome recorded.
MarkTaskRunIfEnabled(t, outcome) ==
    tasks' = IF Live(t) /\ tasks[t].enabled THEN [tasks EXCEPT ![t].last = outcome] ELSE tasks

MarkTaskRun(t, outcome) ==
    tasks' = IF Live(t) THEN [tasks EXCEPT ![t].last = outcome] ELSE tasks

-----------------------------------------------------------------------------
(* The polling loop *)

Copy(t) == [id |-> t, sched |-> tasks[t].sched, profile |-> tasks[t].profile,
            next |-> tasks[t].next]

\* dispatchDue: the clock and the due tasks are read once, then worked off.
DispatchDue ==
    /\ loop = "idle"
    /\ due' = {Copy(t) : t \in {u \in Tasks : Due(u)}}
    /\ due' # {}
    /\ dueAt' = now
    /\ loop' = "list"
    /\ UNCHANGED <<now, db, running, claim, cur, lastSlot, edit, phase, faults>>

\* The next copy of the list; after the last one dispatchDue returns.
NextCopy(rest) ==
    IF rest = {} THEN loop' = "idle" /\ dueAt' = 0
    ELSE loop' = "list" /\ UNCHANGED dueAt
ParkedExpr(c) == c.sched.kind = "cron" /\ c.sched.expr \in BrokenExprs

\* Mutant: the slot is not moved on before the run.
ReserveNothing(c) == UNCHANGED tasks

\* reserveNext: the stored slot is moved on before the run starts.
ReserveNext(c) ==
    IF c.sched.kind = "once" THEN ConsumeOneShot(c.id)
    ELSE IF ParkedExpr(c) THEN SetTaskNextRun(c.id, NoTime)
    ELSE SetTaskNextRun(c.id, CronNext(c.sched.expr, dueAt))

TakeCopy(c) ==
    /\ loop = "list"
    /\ c \in due
    /\ \A d \in due : c.next <= d.next
    /\ due' = due \ {c}
    /\ UNCHANGED <<now, profiles, runs, running, claim, edit, phase>>

Reserve(c) ==
    /\ TakeCopy(c)
    /\ ~ParkedExpr(c)
    /\ ReserveNext(c)
    /\ cur' = c
    /\ loop' = "claim"
    /\ UNCHANGED dueAt
    /\ lastSlot' = [lastSlot EXCEPT ![c.id] = c.next]
    /\ NoFault

Park(c) ==
    /\ TakeCopy(c)
    /\ ParkedExpr(c)
    /\ ReserveNext(c)
    /\ NextCopy(due \ {c})
    /\ UNCHANGED <<cur, lastSlot>>
    /\ NoFault

ReserveFails(c) ==
    /\ TakeCopy(c)
    /\ NextCopy(due \ {c})
    /\ UNCHANGED <<tasks, cur, lastSlot>>
    /\ Fault

\* Mutant: the loop does not look at the context.
LoopExitNever == FALSE

\* The loop's select: a tick and the cancelled context may both be ready.
LoopExit ==
    /\ loop = "idle"
    /\ Cancelled
    /\ loop' = "off"
    /\ UNCHANGED <<now, db, running, claim, dueAt, due, cur, lastSlot, edit, phase, faults>>

-----------------------------------------------------------------------------
(* spawn: LoadOrStore, then the run row, then the goroutine *)

\* Mutant: Store instead of LoadOrStore.
StoreOnly(a, k) ==
    /\ running' = running \cup {k.id}
    /\ claim' = [claim EXCEPT ![a] = k]

\* The guard against a task overlapping with itself.
LoadOrStore(a, k) ==
    /\ k.id \notin running
    /\ running' = running \cup {k.id}
    /\ claim' = [claim EXCEPT ![a] = k]

DispatchClaim ==
    /\ loop = "claim"
    /\ LoadOrStore(Dispatcher, [id |-> cur.id, profile |-> cur.profile])
    /\ loop' = "open"
    /\ cur' = NoCopy
    /\ UNCHANGED <<now, db, dueAt, due, lastSlot, edit, phase, faults>>

\* "skipping run: the previous run of this task is still in progress"
DispatchSkip ==
    /\ loop = "claim"
    /\ cur.id \in running
    /\ cur' = NoCopy
    /\ NextCopy(due)
    /\ UNCHANGED <<now, db, running, claim, due, lastSlot, edit, phase, faults>>

LeaveSpawn(a) ==
    /\ claim' = [claim EXCEPT ![a] = NoClaim]
    /\ IF a = Dispatcher THEN NextCopy(due) ELSE UNCHANGED <<loop, dueAt>>
    /\ UNCHANGED <<now, tasks, profiles, due, cur, lastSlot, edit, phase>>

\* A request that has opened its row has yet to raise the wait group's counter and start
\* the goroutine; for the polling loop, which that counter counts anyway, the insert and
\* the start are one step.
FirstPc(a) == IF a = Dispatcher THEN "spawned" ELSE "opened"

\* StartTaskRun inserts only for a task that is not deleted.
StartTaskRun(a) ==
    LET k == claim[a] IN
    /\ k # NoClaim
    /\ Live(k.id)
    /\ \E r \in FreeRuns :
          runs' = [runs EXCEPT ![r] = [task |-> k.id, profile |-> k.profile,
                                       status |-> "running",
                                       pc |-> FirstPc(a)]]
    /\ UNCHANGED running
    /\ LeaveSpawn(a)
    /\ NoFault

\* Mutant: the entry stays when the run row cannot be opened.
KeepClaim(a) == UNCHANGED running

DropClaim(a) == running' = running \ {claim[a].id}

StartTaskRunFails(a) ==
    /\ claim[a] # NoClaim
    /\ IF Live(claim[a].id) THEN Fault ELSE NoFault
    /\ DropClaim(a)
    /\ UNCHANGED runs
    /\ LeaveSpawn(a)

-----------------------------------------------------------------------------
(* The goroutine of a run *)

\* FinishTaskRun(status) on the row, which a cascade may have removed, then pc.
FinishTaskRun(r, status, pc) ==
    \/ /\ runs' = [runs EXCEPT ![r].pc = pc,
                               ![r].status = IF @ = "gone" THEN @ ELSE status]
       /\ NoFault
    \/ /\ runs' = [runs EXCEPT ![r].pc = pc]
       /\ Fault

WorkerOnly == UNCHANGED <<now, tasks, profiles, running, claim, dispatch, edit, phase>>

\* wg.Add and the go statement of a request's spawn.
Launch(r) ==
    /\ runs[r].pc = "opened"
    /\ runs' = [runs EXCEPT ![r].pc = "spawned"]
    /\ NoFault
    /\ WorkerOnly

\* The context is checked once before the run.
WorkerCancelled(r) ==
    /\ runs[r].pc = "spawned"
    /\ Cancelled
    /\ FinishTaskRun(r, "failed", "releasing")
    /\ WorkerOnly

\* execute: the profile of the copied task may be gone by now.
WorkerNoProfile(r) ==
    /\ runs[r].pc = "spawned"
    /\ ~Cancelled
    /\ runs[r].profile \notin profiles
    /\ FinishTaskRun(r, "failed", "failed")
    /\ WorkerOnly

WorkerExecute(r) ==
    /\ runs[r].pc = "spawned"
    /\ ~Cancelled
    /\ runs[r].profile \in profiles
    /\ runs' = [runs EXCEPT ![r].pc = "executing"]
    /\ NoFault
    /\ WorkerOnly

\* codex.Service.Run has returned.
WorkerFinish(r) ==
    /\ runs[r].pc = "executing"
    /\ \E outcome \in {"success", "failed"} : FinishTaskRun(r, outcome, outcome)
    /\ WorkerOnly

WorkerMark(r) ==
    /\ runs[r].pc \in {"success", "failed"}
    /\ \/ MarkTaskRun(runs[r].task, runs[r].pc) /\ NoFault
       \/ UNCHANGED tasks /\ Fault
    /\ runs' = [runs EXCEPT ![r].pc = "releasing"]
    /\ UNCHANGED <<now, profiles, running, claim, dispatch, edit, phase>>

\* The deferred running.Delete, the last thing the goroutine does.
WorkerRelease(r) ==
    /\ runs[r].pc = "releasing"
    /\ running' = running \ {runs[r].task}
    /\ runs' = [runs EXCEPT ![r] = Settle([@ EXCEPT !.pc = "none"])]
    /\ UNCHANGED <<now, tasks, profiles, claim, dispatch, edit, phase, faults>>

Worker(r) ==
    \/ Launch(r) \/ WorkerCancelled(r) \/ WorkerNoProfile(r)
    \/ WorkerExecute(r) \/ WorkerFinish(r) \/ WorkerMark(r) \/ WorkerRelease(r)

-----------------------------------------------------------------------------
(* Requests *)

Accepted(s) == s.kind = "cron" => s.expr \notin BrokenExprs  \* normalizeSchedule

\* A one-shot task is enabled only for a time in the future.
Enableable(s) == s.kind = "once" => s.runAt > now

FirstSlot(s) == IF s.kind = "once" THEN s.runAt ELSE CronNext(s.expr, now)

NextRunForNewTask(enabled, s) == IF enabled THEN FirstSlot(s) ELSE NoTime

\* A pending slot survives an edit that leaves the schedule alone.
NextRunAfterEdit(existing, enabled, s) ==
    IF ~enabled THEN NoTime
    ELSE IF existing.enabled /\ existing.sched = s /\ existing.next # NoTime
         THEN existing.next
         ELSE FirstSlot(s)

CreateTask(t, s, p, enabled) ==
    /\ "create" \in Events
    /\ Serving
    /\ tasks[t].state = "absent"
    /\ p \in profiles
    /\ Accepted(s)
    /\ enabled => Enableable(s)
    /\ tasks' = [tasks EXCEPT ![t] =
                    [state |-> "live", sched |-> s, profile |-> p, enabled |-> enabled,
                     next |-> NextRunForNewTask(enabled, s), last |-> ""]]
    /\ UNCHANGED <<now, profiles, runs, running, claim, dispatch, edit, phase, faults>>

\* handleUpdateTask up to UpdateTask: the existing row is read, the next slot computed.
ReadTaskForUpdate(c, t, s, p, enabled) ==
    /\ "update" \in Events
    /\ Idle(c)
    /\ Live(t)
    /\ Accepted(s)
    /\ enabled => Enableable(s)
    /\ edit' = [edit EXCEPT ![c] =
                    [id |-> t, sched |-> s, profile |-> p, enabled |-> enabled,
                     next |-> NextRunAfterEdit(tasks[t], enabled, s)]]
    /\ UNCHANGED <<now, db, running, claim, dispatch, phase, faults>>

UpdateTask(c) ==
    LET e == edit[c] IN
    /\ e # NoEdit
    /\ tasks' = IF Live(e.id) /\ e.profile \in profiles
                THEN [tasks EXCEPT ![e.id].sched = e.sched, ![e.id].profile = e.profile,
                                   ![e.id].enabled = e.enabled, ![e.id].next = e.next]
                ELSE tasks
    /\ edit' = [edit EXCEPT ![c] = NoEdit]
    /\ UNCHANGED <<now, profiles, runs, running, claim, dispatch, phase, faults>>

DeleteTask(t) ==
    /\ "delete" \in Events
    /\ Serving
    /\ Live(t)
    /\ tasks' = [tasks EXCEPT ![t] = UnusedRow("deleted", @.profile)]
    /\ UNCHANGED <<now, profiles, runs, running, claim, dispatch, edit, phase, faults>>

\* The foreign keys remove the profile's tasks, the logically deleted ones too, and
\* their runs with it.  A row that is gone and a row with deleted_at set are the same to every statement above.
DeleteProfile(p) ==
    LET lost == {t \in Tasks : tasks[t].state # "absent" /\ tasks[t].profile = p} IN
    /\ "deleteProfile" \in Events
    /\ Serving
    /\ p \in profiles
    /\ profiles' = profiles \ {p}
    /\ tasks' = [t \in Tasks |->
                    IF t \in lost THEN UnusedRow("deleted", p) ELSE tasks[t]]
    /\ runs' = [r \in RunIds |->
                    IF runs[r].task \in lost
                    THEN Settle([runs[r] EXCEPT !.status = "gone"])
                    ELSE runs[r]]
    /\ UNCHANGED <<now, running, claim, dispatch, edit, phase, faults>>

\* RunNow: the schedule is left alone.  A running task is refused (409).
RunNow(c, t) ==
    /\ "run" \in Events
    /\ Idle(c)
    /\ Live(t)
    /\ LoadOrStore(c, [id |-> t, profile |-> tasks[t].profile])
    /\ UNCHANGED <<now, db, dispatch, edit, phase, faults>>

-----------------------------------------------------------------------------
(* The process *)

\* Everything in memory is lost: the map of running tasks, the goroutines, the
\* requests in flight.  The rows stay as they are.
PowerOff ==
    /\ phase' = "off"
    /\ running' = {}
    /\ claim' = [a \in Actors |-> NoClaim]
    /\ edit' = [c \in Clients |-> NoEdit]
    /\ loop' = "off"
    /\ dueAt' = 0
    /\ due' = {}
    /\ cur' = NoCopy
    /\ runs' = [r \in RunIds |-> Settle([runs[r] EXCEPT !.pc = "none"])]
    /\ UNCHANGED <<now, tasks, profiles, lastSlot, faults>>

Crash == "crash" \in Events /\ phase # "off" /\ PowerOff

\* SIGTERM cancels the root context.
Signal ==
    /\ "stop" \in Events
    /\ phase = "serving"
    /\ phase' = "stopping"
    /\ UNCHANGED <<now, db, running, claim, dispatch, edit, faults>>

\* srv.Shutdown returned: no new requests.  It waits for those in flight, but for
\* 20 s at most, so a handler may still be at work.
Drain ==
    /\ phase = "stopping"
    /\ phase' = "drained"
    /\ UNCHANGED <<now, db, running, claim, dispatch, edit, faults>>

StopStep ==
    /\ phase = "drained"
    /\ loop = "off"
    /\ phase' = "stopped"
    /\ UNCHANGED <<now, db, running, claim, dispatch, edit, faults>>

\* Mutant: Stop waits for the loop only.
StopEarly == StopStep

\* Scheduler.Stop's wg.Wait returns: the loop and every run goroutine have ended.  The
\* counter says nothing of a request inside spawn, even if its row is open already.
Stop ==
    /\ StopStep
    /\ \A r \in RunIds : runs[r].pc \in {"none", "opened"}

\* main returns right after Stop, yet a late handler may still open a run.
MainReturns == phase = "stopped" /\ PowerOff

\* Mutant: the boot does not repair the table.
MarkNothing == UNCHANGED runs

\* MarkStaleRunsFailed: rows left running by a previous process are closed.
MarkStaleRunsFailed ==
    runs' = [r \in RunIds |->
                IF runs[r].status = "running"
                THEN Settle([runs[r] EXCEPT !.status = "failed"])
                ELSE runs[r]]

Boot(automatic) ==
    /\ phase = "off"
    /\ phase' = "serving"
    /\ loop' = IF automatic THEN "idle" ELSE "off"
    /\ \/ MarkStaleRunsFailed /\ NoFault
       \/ UNCHANGED runs /\ Fault
    /\ UNCHANGED <<now, tasks, profiles, running, claim, dueAt, due, cur, lastSlot, edit>>

Tick ==
    /\ now < MaxTime
    /\ now' = now + 1
    /\ UNCHANGED <<db, running, claim, dispatch, edit, phase, faults>>

-----------------------------------------------------------------------------
(* The specification *)

\* The database a previous process left behind: ids not handed out yet, and enabled
\* tasks with a slot pending (of which this build's parser may reject the expression).
StoredSlot(s) == IF s.kind = "once" THEN s.runAt ELSE 0
StoredRow(s, p) ==
    [state |-> "live", sched |-> s, profile |-> p, enabled |-> TRUE,
     next |-> StoredSlot(s), last |-> ""]
StoredRows == UNION {{StoredRow(s, p) : s \in Stored} : p \in Profiles}

Init ==
    /\ now = 0
    /\ tasks \in [Tasks -> {AbsentRow} \cup StoredRows]
    /\ profiles = Profiles
    /\ runs = [r \in RunIds |-> NoRun]
    /\ running = {}
    /\ claim = [a \in Actors |-> NoClaim]
    /\ loop = "off"
    /\ dueAt = 0
    /\ due = {}
    /\ cur = NoCopy
    /\ edit = [c \in Clients |-> NoEdit]
    /\ phase = "off"
    /\ faults = 0
    /\ lastSlot = [t \in Tasks |-> NoTime]

Loop ==
    \/ DispatchDue \/ DispatchClaim \/ DispatchSkip \/ LoopExit
    \/ \E c \in due : Reserve(c) \/ Park(c) \/ ReserveFails(c)

OpenRun(a) == StartTaskRun(a) \/ StartTaskRunFails(a)

Request ==
    \/ \E t \in Tasks, s \in Schedules, p \in Profiles, enabled \in BOOLEAN :
          \/ CreateTask(t, s, p, enabled)
          \/ \E c \in Clients : ReadTaskForUpdate(c, t, s, p, enabled)
    \/ \E c \in Clients : UpdateTask(c)
    \/ \E c \in Clients, t \in Tasks : RunNow(c, t)
    \/ \E t \in Tasks : DeleteTask(t)
    \/ \E p \in Profiles : DeleteProfile(p)

Process ==
    \/ Crash \/ Signal \/ Drain \/ Stop \/ MainReturns
    \/ \E automatic \in AutoModes : Boot(automatic)

Next ==
    \/ Loop
    \/ \E a \in Actors : OpenRun(a)
    \/ \E r \in RunIds : Worker(r)
    \/ Request
    \/ Process
    \/ Tick

Spec == Init /\ [][Next]_vars

\* The goroutines and handlers of a process that is up keep taking steps, and a run
\* of codex returns (its timeout kills the child).  Nobody has to send a request or a
\* signal.  The process is started again, by systemd after a failure (Restart=on-failure
\* in docs/deploy.md), by the operator after a stop.  Each condition is about one thread
\* of control, which has one next step at a time.
Fairness ==
    /\ WF_vars(Loop \/ OpenRun(Dispatcher))
    /\ \A c \in Clients : WF_vars(OpenRun(c) \/ UpdateTask(c))
    /\ \A r \in RunIds : WF_vars(Worker(r))
    /\ WF_vars(Drain \/ Stop \/ MainReturns \/ \E automatic \in AutoModes : Boot(automatic))

FairSpec == Spec /\ Fairness

-----------------------------------------------------------------------------
(* Invariants *)

TypeOK ==
    /\ now \in Times
    /\ tasks \in [Tasks -> TaskRow]
    /\ profiles \in SUBSET Profiles
    /\ runs \in [RunIds -> Run \cup {NoRun}]
    /\ running \in SUBSET Tasks
    /\ claim \in [Actors -> Claim \cup {NoClaim}]
    /\ loop \in {"off", "idle", "list", "claim", "open"}
    /\ dueAt \in Times
    /\ due \in SUBSET TaskCopy
    /\ cur \in TaskCopy \cup {NoCopy}
    /\ edit \in [Clients -> Edit \cup {NoEdit}]
    /\ phase \in {"off", "serving", "stopping", "drained", "stopped"}
    /\ faults \in 0..MaxFaults
    /\ lastSlot \in [Tasks -> Slots]

\* A task never overlaps with itself, however the loop and manual requests interleave
\* (spawn's LoadOrStore, released only by the goroutine's last step).
NoSelfOverlap ==
    \A q, r \in RunIds :
        Owned(q) /\ Owned(r) /\ runs[q].task = runs[r].task => q = r

\* Scheduler.running holds a task exactly while one caller of spawn is opening its run
\* or one goroutine is at it: an entry that nobody will delete would refuse every later
\* run of the task with "already running", a missing one would let two runs overlap.
RunningAccounted ==
    /\ \A t \in running : \/ \E a \in Actors : claim[a] # NoClaim /\ claim[a].id = t
                          \/ \E r \in RunIds : Owned(r) /\ runs[r].task = t
    /\ \A a \in Actors : claim[a] # NoClaim =>
          /\ claim[a].id \in running
          /\ \A b \in Actors \ {a} : claim[b].id # claim[a].id
          /\ \A r \in RunIds : Owned(r) => runs[r].task # claim[a].id
    /\ \A r \in RunIds : Owned(r) => runs[r].task \in running

\* While the process is up, a row that says "running" has a goroutine that will close
\* it; only a failed statement can leave one spinning (MarkStaleRunsFailed at boot,
\* FinishTaskRun in every branch of the goroutine).
RunningRowOwned ==
    phase # "off" /\ faults = 0 =>
        \A r \in RunIds : runs[r].status = "running" => Owned(r)

\* A deleted task stays switched off: the dispatcher, a worker or an edit that still
\* holds a copy of it cannot arm it again.
DeletedInert ==
    \A t \in Tasks : tasks[t].state = "deleted" =>
        /\ ~tasks[t].enabled
        /\ tasks[t].next = NoTime

\* "An enabled task must never be persisted without a concrete next slot": it would
\* never be due again.  Only a task parked for its broken expression has none.
EnabledHasSlot ==
    \A t \in Tasks : Live(t) /\ tasks[t].enabled /\ tasks[t].next = NoTime =>
        /\ tasks[t].sched.kind = "cron"
        /\ tasks[t].sched.expr \in BrokenExprs

\* last_status is the outcome of the most recent run by the time the task can run
\* again (a run cancelled before it started is not recorded there).
LastStatusCurrent ==
    \A r \in RunIds :
        runs[r].pc = "releasing" /\ faults = 0 /\ ~Cancelled /\ Live(runs[r].task)
            => tasks[runs[r].task].last = runs[r].status

-----------------------------------------------------------------------------
(* Action properties *)

\* Stop "waits for every Scheduler-owned goroutine": when it returns every row is closed
\* but those of the requests that outlived srv.Shutdown and stand between the insert and
\* wg.Add just then: their runs are cut off, for the next boot to repair.
ShutdownClosesRuns ==
    [][phase = "drained" /\ phase' = "stopped" /\ faults = 0 =>
        \A r \in RunIds : runs'[r].status = "running" => runs'[r].pc = "opened"]_vars

\* "the slot it just came due for is not handed out a second time": the slots a task
\* is dispatched for only grow.
SlotOnce ==
    [][loop = "list" /\ loop' = "claim" => cur'.next > lastSlot[cur'.id]]_vars

\* The dispatcher moves a stored slot on only once that slot has come due: working off
\* a list of copies, it never takes a slot twice or a later one early.  (With an edit
\* between DueTasks and reserveNext this is not so: the outdated copy wins.)
OnlyDueSlotsMove ==
    [][loop = "list" /\ phase' # "off" =>
        \A t \in Tasks : tasks'[t].next # tasks[t].next /\ due' # due =>
            tasks[t].next <= now]_vars

-----------------------------------------------------------------------------
(* Liveness *)

\* A task that is due is handed out (or edited or deleted): the loop never wedges on
\* an earlier task of the list, nor on one that is still running.
DueIsHandled == \A t \in Tasks : Due(t) /\ loop # "off" ~> ~Due(t) \/ loop = "off"

\* A shutdown ends: no worker, spawn or loop is left waiting on another.
ShutdownEnds == phase = "stopping" ~> phase = "off"

Ledger == INSTANCE RunLedger WITH
    open <- [r \in RunIds |-> IF runs[r].status = "running" THEN runs[r].task ELSE NoTask]

\* The task_runs table keeps the promise of RunLedger across crashes and restarts.
ImplementsLedger == Ledger!Spec
=============================================================================
