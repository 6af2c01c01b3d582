---------------------------- MODULE DispatchProofs ----------------------------
(***************************************************************************)
(* More of what holds of Scheduler: the recorded outcome of a task, and    *)
(* the slots that the dispatcher hands out.                                *)
(***************************************************************************)
EXTENDS SchedulerProofs

-----------------------------------------------------------------------------
(* The last status *)

\* What the last status rests on, for one run: the goroutine carries the outcome that its
\* row shows, a row that a cascade removed had a task that is gone too, and no run is of a
\* task that does not exist yet.
LastOf(r) ==
    /\ runs[r].pc \in {"success", "failed"} => runs[r].status \in {runs[r].pc, "gone"}
    /\ Owned(r) /\ runs[r].status = "gone" => ~Live(runs[r].task)
    /\ Owned(r) => tasks[runs[r].task].state # "absent"
    /\ runs[r].pc = "releasing" /\ ~Cancelled /\ Live(runs[r].task)
          => tasks[runs[r].task].last = runs[r].status

LastInv == faults = 0 => \A r \in RunIds : LastOf(r)

\* What a step may do to the columns that LastOf reads, a worker's own write excepted.
Spares(u) ==
    \/ tasks[u].state = "absent"
    \/ tasks'[u].state = "deleted"
    \/ tasks'[u].state = tasks[u].state /\ tasks'[u].last = tasks[u].last

LEMMA LastFrame ==
    ASSUME TypeInv, NEW r \in RunIds, LastOf(r), runs'[r] = runs[r],
           Owned(r) => Spares(runs[r].task), Cancelled => Cancelled'
    PROVE  LastOf(r)'
BY DEF LastOf, Owned, Live, Spares

LEMMA LastIdle ==
    ASSUME NEW r \in RunIds, runs'[r].pc = "none"
    PROVE  LastOf(r)'
BY DEF LastOf, Owned

LEMMA StatementsSpareLast ==
    ASSUME TypeOK, NEW t \in Tasks, NEW n, NEW u \in Tasks,
           SetTaskNextRun(t, n) \/ ConsumeOneShot(t)
    PROVE  tasks'[u].state = tasks[u].state /\ tasks'[u].last = tasks[u].last
<1>1. tasks \in [Tasks -> TaskRow]
  BY DEF TypeOK
<1>2. \A row \in TaskRow :
         /\ [row EXCEPT !.next = n].state = row.state
         /\ [row EXCEPT !.next = n].last = row.last
         /\ [row EXCEPT !.enabled = FALSE, !.next = NoTime].state = row.state
         /\ [row EXCEPT !.enabled = FALSE, !.next = NoTime].last = row.last
  BY DEF TaskRow
<1>3. CASE ~Live(t)
  BY <1>3 DEF SetTaskNextRun, ConsumeOneShot
<1>4. CASE Live(t)
  <2>1. PICK row : /\ row.state = tasks[t].state /\ row.last = tasks[t].last
                   /\ tasks' = [tasks EXCEPT ![t] = row]
    BY <1>1, <1>2, <1>4 DEF SetTaskNextRun, ConsumeOneShot
  <2> QED
    BY <1>1, <2>1
<1> QED
  BY <1>3, <1>4

\* Each step of the dispatcher and each request.
LEMMA LoopSpares ==
    ASSUME TypeInv, Loop
    PROVE  /\ \A u \in Tasks : Spares(u)
           /\ UNCHANGED <<runs, phase>>
           /\ NoFault \/ Fault
<1>1. UNCHANGED <<runs, phase>> /\ (NoFault \/ Fault)
  BY DEF Loop, DispatchDue, DispatchClaim, DispatchSkip, LoopExit, Reserve, Park,
         ReserveFails, TakeCopy, NoFault, db
<1>2. ASSUME UNCHANGED tasks, NEW u \in Tasks PROVE Spares(u)
  BY <1>2 DEF Spares
<1>3. ASSUME NEW c \in due, Reserve(c) \/ Park(c), NEW u \in Tasks PROVE Spares(u)
  <2>1. c.id \in Tasks /\ ReserveNext(c)
    BY <1>3 DEF Reserve, Park, TypeInv, TypeOK, TaskCopy
  <2>2. tasks'[u].state = tasks[u].state /\ tasks'[u].last = tasks[u].last
    BY <2>1, StatementsSpareLast DEF ReserveNext, TypeInv
  <2> QED
    BY <2>2 DEF Spares
<1>4. ASSUME NEW c \in due, ReserveFails(c) PROVE UNCHANGED tasks
  BY <1>4 DEF ReserveFails
<1>5. ASSUME DispatchDue \/ DispatchClaim \/ DispatchSkip \/ LoopExit PROVE UNCHANGED tasks
  BY <1>5 DEF DispatchDue, DispatchClaim, DispatchSkip, LoopExit, db
<1> QED
  BY <1>1, <1>2, <1>3, <1>4, <1>5 DEF Loop

LEMMA CreateSpares ==
    ASSUME TypeInv, NEW t \in Tasks, NEW s \in Schedules, NEW p \in Profiles,
           NEW enabled \in BOOLEAN, CreateTask(t, s, p, enabled), NEW u \in Tasks
    PROVE  Spares(u)
BY DEF CreateTask, Spares, TypeInv, TypeOK

LEMMA UpdateSpares ==
    ASSUME TypeInv, NEW c \in Clients, UpdateTask(c), NEW u \in Tasks
    PROVE  Spares(u)
<1> DEFINE e == edit[c]
<1>1. e.id \in Tasks
  BY DEF UpdateTask, TypeInv, TypeOK, Edit
<1>2. \A row \in TaskRow :
         LET new == [row EXCEPT !.sched = e.sched, !.profile = e.profile,
                                !.enabled = e.enabled, !.next = e.next]
         IN  new.state = row.state /\ new.last = row.last
  BY DEF TaskRow
<1>3. tasks'[u].state = tasks[u].state /\ tasks'[u].last = tasks[u].last
  BY <1>1, <1>2 DEF UpdateTask, TypeInv, TypeOK
<1> QED
  BY <1>3 DEF Spares

\* A request other than DeleteProfile.
LEMMA RequestSpares ==
    ASSUME TypeInv, Request, \A p \in Profiles : ~DeleteProfile(p)
    PROVE  /\ \A u \in Tasks : Spares(u)
           /\ UNCHANGED <<runs, phase, faults>>
<1> DEFINE Goal == /\ \A u \in Tasks : Spares(u)
                   /\ UNCHANGED <<runs, phase, faults>>
<1>1. ASSUME NEW t \in Tasks, NEW s \in Schedules, NEW p \in Profiles,
             NEW enabled \in BOOLEAN, CreateTask(t, s, p, enabled)
      PROVE  Goal
  BY <1>1, CreateSpares DEF CreateTask
<1>2. ASSUME NEW c \in Clients, NEW t \in Tasks, NEW s \in Schedules, NEW p \in Profiles,
             NEW enabled \in BOOLEAN, ReadTaskForUpdate(c, t, s, p, enabled)
      PROVE  Goal
  BY <1>2 DEF ReadTaskForUpdate, Spares, db
<1>3. ASSUME NEW c \in Clients, UpdateTask(c) PROVE Goal
  BY <1>3, UpdateSpares DEF UpdateTask
<1>4. ASSUME NEW t \in Tasks, DeleteTask(t) PROVE Goal
  BY <1>4, UnusedRowInert DEF DeleteTask, Spares, TypeInv, TypeOK
<1>5. ASSUME NEW c \in Clients, NEW t \in Tasks, RunNow(c, t) PROVE Goal
  BY <1>5 DEF RunNow, Spares, db
<1> HIDE DEF Goal
<1>6. Goal
  BY <1>1, <1>2, <1>3, <1>4, <1>5, Zenon DEF Request
<1> QED
  BY <1>6 DEF Goal

LEMMA WorkerLast ==
    ASSUME TypeInv, NoSelfOverlap, NEW q \in RunIds, Worker(q), faults = 0, faults' = 0,
           \A r \in RunIds : LastOf(r), NEW r \in RunIds
    PROVE  LastOf(r)'
<1>0. ~Fault
  BY DEF Fault
<1>1. /\ runs[q] \in Run /\ runs[q].task \in Tasks /\ Owned(q) /\ UNCHANGED phase
      /\ \A s \in RunIds \ {q} : runs'[s] = runs[s]
  BY DEF Worker, Launch, WorkerCancelled, WorkerNoProfile, WorkerExecute, WorkerFinish,
         WorkerMark, WorkerRelease, WorkerOnly, FinishTaskRun, TypeInv, TypeOK, NoRun, Run, Owned
<1>2. Cancelled => Cancelled'
  BY <1>1 DEF Cancelled
<1>3. LastOf(q)
  OBVIOUS
<1>4. CASE WorkerMark(q)
  <2>1. /\ MarkTaskRun(runs[q].task, runs[q].pc)
        /\ runs' = [runs EXCEPT ![q].pc = "releasing"]
    BY <1>0, <1>4 DEF WorkerMark
  <2>2. /\ \A u \in Tasks : tasks'[u].state = tasks[u].state
        /\ \A u \in Tasks \ {runs[q].task} : tasks'[u].last = tasks[u].last
        /\ Live(runs[q].task) => tasks'[runs[q].task].last = runs[q].pc
    <3> DEFINE marked == [tasks[runs[q].task] EXCEPT !.last = runs[q].pc]
    <3>1. tasks \in [Tasks -> TaskRow] /\ tasks[runs[q].task] \in TaskRow
      BY <1>1 DEF TypeInv, TypeOK
    <3>2. marked.state = tasks[runs[q].task].state /\ marked.last = runs[q].pc
      BY <3>1 DEF TaskRow
    <3>3. tasks' = [tasks EXCEPT ![runs[q].task] =
                      IF Live(runs[q].task) THEN marked ELSE tasks[runs[q].task]]
      BY <2>1, <3>1 DEF MarkTaskRun
    <3> HIDE DEF marked
    <3> QED
      BY <1>1, <3>1, <3>2, <3>3
  <2>3. CASE r = q
    <3>1. /\ runs'[q].pc = "releasing" /\ runs'[q].status = runs[q].status
          /\ runs'[q].task = runs[q].task
      BY <1>1, <2>1 DEF Run, TypeInv, TypeOK
    <3>2. runs[q].pc \in {"success", "failed"}
      BY <1>4 DEF WorkerMark
    <3> QED
      BY <1>1, <1>3, <2>2, <2>3, <3>1, <3>2 DEF LastOf, Owned, Live
  <2>4. CASE r # q
    <3>1. Owned(r) => runs[r].task \in Tasks \ {runs[q].task}
      BY <1>1, <2>4 DEF NoSelfOverlap, Owned, TypeInv, TypeOK, Run, NoRun
    <3>2. Owned(r) => Spares(runs[r].task)
      BY <2>2, <3>1 DEF Spares
    <3> QED
      BY <1>1, <1>2, <2>4, <3>2, LastFrame
  <2> QED
    BY <2>3, <2>4
<1>5. CASE ~WorkerMark(q)
  <2>1. UNCHANGED tasks
    BY <1>5 DEF Worker, Launch, WorkerCancelled, WorkerNoProfile, WorkerExecute, WorkerFinish,
                WorkerRelease, WorkerOnly
  <2>2. CASE r # q
    <3>1. Spares(runs[r].task)
      BY <2>1 DEF Spares
    <3> QED
      BY <1>1, <1>2, <2>2, <3>1, LastFrame
  <2>3. CASE r = q
    <3>1. ASSUME NEW status \in {"success", "failed"}, NEW pc, FinishTaskRun(q, status, pc)
          PROVE  /\ runs'[q].pc = pc /\ runs'[q].task = runs[q].task
                 /\ runs'[q].status \in {status, "gone"}
                 /\ runs'[q].status = "gone" => runs[q].status = "gone"
      BY <1>0, <1>1, <3>1 DEF FinishTaskRun, Run, TypeInv, TypeOK
    <3>2. CASE WorkerCancelled(q)
      <4>1. Cancelled'
        BY <1>2, <3>2 DEF WorkerCancelled
      <4> QED
        BY <1>1, <1>3, <2>1, <2>3, <3>1, <3>2, <4>1 DEF WorkerCancelled, LastOf, Owned, Live
    <3>3. CASE WorkerNoProfile(q)
      BY <1>1, <1>3, <2>1, <2>3, <3>1, <3>3 DEF WorkerNoProfile, LastOf, Owned, Live
    <3>4. CASE WorkerFinish(q)
      BY <1>1, <1>3, <2>1, <2>3, <3>1, <3>4 DEF WorkerFinish, LastOf, Owned, Live
    <3>5. CASE Launch(q) \/ WorkerExecute(q)
      <4>1. /\ runs'[q].pc \in {"spawned", "executing"} /\ runs'[q].status = runs[q].status
            /\ runs'[q].task = runs[q].task
        BY <1>1, <3>5 DEF Launch, WorkerExecute, Run, TypeInv, TypeOK
      <4> QED
        BY <1>1, <1>3, <2>1, <2>3, <4>1 DEF LastOf, Owned, Live
    <3>6. CASE WorkerRelease(q)
      <4>1. runs'[q].pc = "none"
        BY <1>1, <3>6 DEF WorkerRelease, Settle, NoRun, Run, TypeInv, TypeOK
      <4> QED
        BY <2>3, <4>1, LastIdle
    <3> QED
      BY <1>5, <3>2, <3>3, <3>4, <3>5, <3>6 DEF Worker
  <2> QED
    BY <2>2, <2>3
<1> QED
  BY <1>4, <1>5

LEMMA LastStep ==
    ASSUME TypeInv, RunningInv, RowInv, LastInv, [Next]_vars
    PROVE  LastInv'
<1> SUFFICES ASSUME faults' = 0, NEW r \in RunIds PROVE LastOf(r)'
  BY DEF LastInv
<1>0. ~Fault /\ (NoFault => faults = 0)
  BY SchedulerAssumption DEF Fault, NoFault, TypeInv, TypeOK
<1>1. faults = 0 => \A q \in RunIds : LastOf(q)
  BY DEF LastInv
<1>2. Owned(r) => runs[r].task \in Tasks
  BY DEF Owned, TypeInv, TypeOK, Run, NoRun
<1>3. ASSUME faults = 0, UNCHANGED runs, \A u \in Tasks : Spares(u), Cancelled => Cancelled'
      PROVE  LastOf(r)'
  BY <1>1, <1>2, <1>3, LastFrame
<1>4. CASE Loop
  BY <1>0, <1>3, <1>4, LoopSpares DEF Cancelled
<1>5. ASSUME NEW a \in Actors, OpenRun(a) PROVE LastOf(r)'
  <2>1. UNCHANGED <<tasks, phase>>
    BY <1>5 DEF OpenRun, StartTaskRun, StartTaskRunFails, LeaveSpawn
  <2>2. (Cancelled => Cancelled') /\ \A u : Spares(u)
    BY <2>1 DEF Cancelled, Spares
  <2>3. CASE StartTaskRun(a)
    <3>1. faults = 0
      BY <1>0, <2>3 DEF StartTaskRun
    <3>2. PICK q \in RunIds :
            runs' = [runs EXCEPT ![q] = [task |-> claim[a].id, profile |-> claim[a].profile,
                                         status |-> "running", pc |-> FirstPc(a)]]
      BY <2>3 DEF StartTaskRun, FreeRuns
    <3>3. CASE r = q
      <4>1. Live(claim[a].id)
        BY <2>3 DEF StartTaskRun
      <4> QED
        BY <2>1, <3>2, <3>3, <4>1 DEF FirstPc, LastOf, Owned, Live, TypeInv, TypeOK
    <3>4. CASE r # q
      <4>1. runs'[r] = runs[r]
        BY <3>2, <3>4 DEF TypeInv, TypeOK
      <4> QED
        BY <1>1, <2>2, <3>1, <4>1, LastFrame
    <3> QED
      BY <3>3, <3>4
  <2>4. CASE StartTaskRunFails(a)
    BY <1>0, <1>3, <2>2, <2>4 DEF StartTaskRunFails
  <2> QED
    BY <1>5, <2>3, <2>4 DEF OpenRun
<1>6. ASSUME NEW q \in RunIds, Worker(q) PROVE LastOf(r)'
  <2>1. faults = 0
    BY <1>0, <1>6
    DEF Worker, Launch, WorkerCancelled, WorkerNoProfile, WorkerExecute, WorkerFinish,
        WorkerMark, WorkerRelease, FinishTaskRun, NoFault
  <2> QED
    BY <1>1, <1>6, <2>1, WorkerLast DEF RunningInv
<1>7. ASSUME NEW p \in Profiles, DeleteProfile(p) PROVE LastOf(r)'
  <2> DEFINE lost == {t \in Tasks : tasks[t].state # "absent" /\ tasks[t].profile = p}
  <2>1. /\ faults = 0 /\ UNCHANGED phase
        /\ runs' = [q \in RunIds |-> IF runs[q].task \in lost
                                     THEN Settle([runs[q] EXCEPT !.status = "gone"])
                                     ELSE runs[q]]
        /\ tasks' = [t \in Tasks |->
                        IF t \in lost THEN UnusedRow("deleted", p) ELSE tasks[t]]
    BY <1>0, <1>7 DEF DeleteProfile, NoFault
  <2>2. \A u \in Tasks : Spares(u)
    BY <2>1, UnusedRowInert DEF Spares
  <2>3. CASE runs[r].task \notin lost
    <3>1. runs'[r] = runs[r] /\ (Cancelled => Cancelled')
      BY <2>1, <2>3 DEF Cancelled
    <3> QED
      BY <1>1, <1>2, <2>1, <2>2, <3>1, LastFrame
  <2>4. CASE runs[r].task \in lost
    <3>1. tasks'[runs[r].task].state = "deleted" /\ runs[r] \in Run
      BY <2>1, <2>4, UnusedRowInert, SchedulerAssumption DEF TypeInv, TypeOK, NoRun
    <3>2. \/ runs'[r].pc = "none"
          \/ /\ runs'[r].status = "gone" /\ runs'[r].task = runs[r].task
      BY <2>1, <2>4, <3>1 DEF Settle, NoRun, Run
    <3> QED
      BY <3>1, <3>2 DEF LastOf, Owned, Live
  <2> QED
    BY <2>3, <2>4
<1>8. ASSUME Request, \A p \in Profiles : ~DeleteProfile(p) PROVE LastOf(r)'
  BY <1>0, <1>3, <1>8, RequestSpares DEF Cancelled, NoFault
<1>9. CASE PowerOff
  <2>1. runs'[r].pc = "none"
    BY <1>9 DEF PowerOff, Settle, NoRun, TypeInv, TypeOK, Run
  <2> QED
    BY <2>1, LastIdle
<1>10. ASSUME NEW automatic \in AutoModes, Boot(automatic) PROVE LastOf(r)'
  <2>1. /\ MarkStaleRunsFailed /\ faults = 0 /\ UNCHANGED tasks
        /\ ~Cancelled
    BY <1>0, <1>10 DEF Boot, Cancelled
  <2>2. LastOf(r)
    BY <1>1, <2>1
  <2>3. CASE runs[r].status # "running"
    <3>1. runs'[r] = runs[r] /\ Spares(runs[r].task)
      BY <2>1, <2>3 DEF MarkStaleRunsFailed, Spares
    <3> QED
      BY <2>1, <2>2, <3>1, LastFrame
  <2>4. CASE runs[r].status = "running"
    <3>1. /\ runs[r].pc \notin {"success", "failed", "releasing"}
          /\ runs[r] \in Run
      BY <2>1, <2>4 DEF RowInv, TypeInv, TypeOK, NoRun
    <3>2. \/ runs'[r].pc = "none"
          \/ /\ runs'[r].status = "failed" /\ runs'[r].task = runs[r].task
             /\ runs'[r].pc = runs[r].pc
      BY <2>1, <2>4, <3>1 DEF MarkStaleRunsFailed, Settle, NoRun, Run
    <3> QED
      BY <2>1, <2>2, <3>1, <3>2 DEF LastOf, Owned, Live
  <2> QED
    BY <2>3, <2>4
<1>11. CASE Signal \/ Drain \/ Stop \/ Tick \/ UNCHANGED vars
  <2>1. UNCHANGED <<runs, tasks, faults>> /\ (Cancelled => Cancelled')
    BY <1>11 DEF Signal, Drain, Stop, StopStep, Tick, vars, db, Cancelled
  <2>2. \A u \in Tasks : Spares(u)
    BY <2>1 DEF Spares
  <2> QED
    BY <1>0, <1>3, <2>1, <2>2 DEF NoFault
<1> QED
  BY <1>4, <1>5, <1>6, <1>7, <1>8, <1>9, <1>10, <1>11 DEF Next, Process, Crash, MainReturns

\* When a goroutine is about to let its task go, the task's last_status is the outcome of
\* its run: two runs of a task record theirs in the order in which they ended, and neither
\* an edit nor a restart nor a cascade puts an older one back, as long as the store answers
\* and the process is not going down.
THEOREM LastStatusHolds == Spec => []LastStatusCurrent
<1>1. Init => LastInv
  <2>1. Init => \A r \in RunIds : runs[r].pc = "none"
    BY DEF Init, NoRun
  <2> QED
    BY <2>1 DEF LastInv, LastOf, Owned
<1>2. TypeInv /\ RunningInv /\ RowInv /\ LastInv /\ [Next]_vars => LastInv'
  BY LastStep
<1>3. LastInv => LastStatusCurrent
  BY DEF LastInv, LastOf, LastStatusCurrent
<1> QED
  BY <1>1, <1>2, <1>3, RunningAlways, RowAlways, PTL DEF Spec

-----------------------------------------------------------------------------
(* Copies of due tasks *)

\* A copy of a task that still exists is up to date but for the outcome of its last run.
Fresh(c) ==
    /\ tasks[c.id].state # "absent"
    /\ c.next <= dueAt
    /\ Live(c.id) => tasks[c.id].next = c.next /\ tasks[c.id].sched = c.sched

CopyInv ==
    /\ \A c \in Clients : edit[c] = NoEdit
    /\ dueAt <= now
    /\ \A c \in due : Fresh(c)
    /\ \A c, d \in due : c.id = d.id => c = d

\* What a step may do to the columns that Fresh reads.
Keeps(u) ==
    \/ tasks[u].state = "absent"
    \/ tasks'[u].state = "deleted"
    \/ /\ tasks'[u].state = tasks[u].state
       /\ tasks'[u].next = tasks[u].next
       /\ tasks'[u].sched = tasks[u].sched

LEMMA CopyFrame ==
    ASSUME TypeInv, CopyInv, \A c \in Clients : edit'[c] = NoEdit,
           due' \subseteq due, \A c \in due' : Keeps(c.id),
           dueAt' = dueAt \/ (due' = {} /\ dueAt' = 0), UNCHANGED now
    PROVE  CopyInv'
<1>1. dueAt' <= now'
  BY SchedulerAssumption DEF CopyInv, TypeInv, TypeOK, Times
<1>2. ASSUME NEW c \in due' PROVE Fresh(c)'
  <2>1. Fresh(c) /\ Keeps(c.id) /\ dueAt' = dueAt
    BY <1>2 DEF CopyInv
  <2> QED
    BY <2>1 DEF Fresh, Keeps, Live
<1> QED
  BY <1>1, <1>2 DEF CopyInv

\* A worker writes last_status only.
LEMMA WorkerSparesSlot ==
    ASSUME TypeInv, NEW r \in RunIds, Worker(r), NEW u \in Tasks
    PROVE  /\ tasks'[u].state = tasks[u].state
           /\ tasks'[u].next = tasks[u].next
           /\ tasks'[u].sched = tasks[u].sched
           /\ tasks'[u].enabled = tasks[u].enabled
<1>1. CASE UNCHANGED tasks
  BY <1>1
<1>2. CASE WorkerMark(r) /\ MarkTaskRun(runs[r].task, runs[r].pc)
  <2>1. runs[r].task \in Tasks
    BY <1>2 DEF WorkerMark, TypeInv, TypeOK, Run, NoRun
  <2>2. \A l : \A row \in TaskRow :
           LET new == [row EXCEPT !.last = l]
           IN  /\ new.state = row.state /\ new.next = row.next
               /\ new.sched = row.sched /\ new.enabled = row.enabled
    BY DEF TaskRow
  <2> QED
    BY <1>2, <2>1, <2>2 DEF MarkTaskRun, TypeInv, TypeOK
<1> QED
  BY <1>1, <1>2 DEF Worker, Launch, WorkerCancelled, WorkerNoProfile, WorkerExecute, WorkerFinish,
                    WorkerMark, WorkerRelease, WorkerOnly

\* reserveNext touches one task.
LEMMA ReserveSparesOthers ==
    ASSUME TypeInv, NEW c \in due, ReserveNext(c), NEW u \in Tasks, u # c.id
    PROVE  tasks'[u] = tasks[u]
BY DEF ReserveNext, SetTaskNextRun, ConsumeOneShot, TypeInv, TypeOK

LEMMA CopyLoop ==
    ASSUME TypeInv, CopyInv, Loop
    PROVE  CopyInv'
<1>0. UNCHANGED <<edit, now>> /\ (\A c \in Clients : edit'[c] = NoEdit)
      /\ \A c \in due : c.id \in Tasks
  BY DEF Loop, DispatchDue, DispatchClaim, DispatchSkip, LoopExit, Reserve, Park,
         ReserveFails, TakeCopy, CopyInv, TypeInv, TypeOK, TaskCopy
<1>1. CASE DispatchDue
  <2>1. /\ due' = {Copy(t) : t \in {u \in Tasks : Due(u)}}
        /\ dueAt' = now /\ UNCHANGED <<tasks, now>>
    BY <1>1 DEF DispatchDue, db
  <2>2. \A c \in due' : \E t \in Tasks : Due(t) /\ c = Copy(t)
    BY <2>1
  <2>3. \A c \in due' : Fresh(c)'
    BY <2>1, <2>2 DEF Copy, Due, Fresh, Live
  <2>4. \A c, d \in due' : c.id = d.id => c = d
    BY <2>2 DEF Copy
  <2>5. dueAt' <= now'
    BY <2>1 DEF TypeInv, TypeOK, Times
  <2> QED
    BY <1>0, <2>3, <2>4, <2>5 DEF CopyInv
<1>2. CASE DispatchClaim \/ DispatchSkip \/ LoopExit
  <2>1. UNCHANGED <<due, tasks>> /\ (dueAt' = dueAt \/ (due' = {} /\ dueAt' = 0))
    BY <1>2 DEF DispatchClaim, DispatchSkip, LoopExit, NextCopy, db
  <2>2. \A c \in due' : Keeps(c.id)
    BY <2>1 DEF Keeps
  <2> QED
    BY <1>0, <2>1, <2>2, CopyFrame
<1>3. ASSUME NEW c \in due, Reserve(c) \/ Park(c) \/ ReserveFails(c) PROVE CopyInv'
  <2>1. /\ due' = due \ {c}
        /\ UNCHANGED tasks \/ ReserveNext(c)
        /\ dueAt' = dueAt \/ (due' = {} /\ dueAt' = 0)
    BY <1>3 DEF Reserve, Park, ReserveFails, TakeCopy, NextCopy
  <2>2. \A d \in due' : d.id # c.id
    BY <2>1 DEF CopyInv
  <2>3. \A d \in due' : Keeps(d.id)
    <3> SUFFICES ASSUME NEW d \in due' PROVE Keeps(d.id)
      OBVIOUS
    <3>1. d.id \in Tasks /\ d.id # c.id
      BY <1>0, <2>1, <2>2
    <3>2. tasks'[d.id] = tasks[d.id]
      BY <2>1, <3>1, ReserveSparesOthers
    <3> QED
      BY <3>2 DEF Keeps
  <2> QED
    BY <1>0, <2>1, <2>3, CopyFrame
<1> QED
  BY <1>1, <1>2, <1>3 DEF Loop

\* Requests, as far as the slots of tasks are concerned: rows are born, and die.
LEMMA RequestSparesSlot ==
    ASSUME "update" \notin Events, TypeInv, CopyInv, Request
    PROVE  /\ \A u \in Tasks :
                 \/ /\ tasks[u].state = "absent" /\ tasks'[u].state = "live"
                    /\ tasks'[u].enabled => tasks'[u].next # NoTime
                 \/ \E p : tasks'[u] = UnusedRow("deleted", p)
                 \/ tasks'[u] = tasks[u]
           /\ UNCHANGED <<now, dispatch, edit>>
<1> DEFINE Goal == /\ \A u \in Tasks :
                         \/ /\ tasks[u].state = "absent" /\ tasks'[u].state = "live"
                            /\ tasks'[u].enabled => tasks'[u].next # NoTime
                         \/ \E p : tasks'[u] = UnusedRow("deleted", p)
                         \/ tasks'[u] = tasks[u]
                   /\ UNCHANGED <<now, dispatch, edit>>
<1>1. ASSUME NEW t \in Tasks, NEW s \in Schedules, NEW p \in Profiles,
             NEW enabled \in BOOLEAN, CreateTask(t, s, p, enabled)
      PROVE  Goal
  <2>1. enabled => NextRunForNewTask(enabled, s) # NoTime
    BY FirstSlotTyped DEF NextRunForNewTask, NoTime, TypeInv
  <2> QED
    BY <1>1, <2>1 DEF CreateTask, TypeInv, TypeOK
<1>2. ASSUME NEW c \in Clients, NEW t \in Tasks, NEW s \in Schedules, NEW p \in Profiles,
             NEW enabled \in BOOLEAN, ReadTaskForUpdate(c, t, s, p, enabled)
      PROVE  Goal
  BY <1>2 DEF ReadTaskForUpdate
<1>3. ASSUME NEW c \in Clients, UpdateTask(c) PROVE Goal
  BY <1>3 DEF UpdateTask, CopyInv
<1>4. ASSUME NEW t \in Tasks, DeleteTask(t) PROVE Goal
  BY <1>4 DEF DeleteTask, TypeInv, TypeOK
<1>5. ASSUME NEW c \in Clients, NEW t \in Tasks, RunNow(c, t) PROVE Goal
  BY <1>5 DEF RunNow, db
<1>6. ASSUME NEW p \in Profiles, DeleteProfile(p) PROVE Goal
  BY <1>6 DEF DeleteProfile
<1> HIDE DEF Goal
<1>7. Goal
  BY <1>1, <1>2, <1>3, <1>4, <1>5, <1>6, Zenon DEF Request
<1> QED
  BY <1>7 DEF Goal

LEMMA CopyStep ==
    ASSUME "update" \notin Events, TypeInv, CopyInv, [Next]_vars
    PROVE  CopyInv'
<1>0. /\ \A c \in due : c.id \in Tasks
      /\ \A c \in Clients : edit[c] = NoEdit
  BY DEF CopyInv, TypeInv, TypeOK, TaskCopy
<1>1. CASE Loop
  BY <1>1, CopyLoop
<1>2. ASSUME NEW a \in Actors, OpenRun(a) PROVE CopyInv'
  <2>1. /\ UNCHANGED <<tasks, due, edit, now>>
        /\ dueAt' = dueAt \/ (due' = {} /\ dueAt' = 0)
    BY <1>2 DEF OpenRun, StartTaskRun, StartTaskRunFails, LeaveSpawn, NextCopy
  <2>2. \A c \in due' : Keeps(c.id)
    BY <2>1 DEF Keeps
  <2> QED
    BY <1>0, <2>1, <2>2, CopyFrame
<1>3. ASSUME NEW r \in RunIds, Worker(r) PROVE CopyInv'
  <2>1. UNCHANGED <<due, dueAt, edit, now>>
    BY <1>3 DEF Worker, Launch, WorkerCancelled, WorkerNoProfile, WorkerExecute, WorkerFinish,
                WorkerMark, WorkerRelease, WorkerOnly, dispatch
  <2>2. \A c \in due' : Keeps(c.id)
    BY <1>0, <1>3, <2>1, WorkerSparesSlot DEF Keeps
  <2> QED
    BY <1>0, <2>1, <2>2, CopyFrame
<1>4. CASE Request
  <2>1. UNCHANGED <<due, dueAt, edit, now>>
    BY <1>4, RequestSparesSlot DEF dispatch
  <2>2. \A c \in due' : Keeps(c.id)
    BY <1>0, <1>4, <2>1, RequestSparesSlot, UnusedRowInert DEF Keeps
  <2> QED
    BY <1>0, <2>1, <2>2, CopyFrame
<1>5. CASE PowerOff
  <2>1. /\ due' = {} /\ dueAt' = 0 /\ UNCHANGED now
        /\ \A c \in Clients : edit'[c] = NoEdit
    BY <1>5 DEF PowerOff
  <2> QED
    BY <2>1, CopyFrame
<1>6. CASE \/ Signal \/ Drain \/ Stop \/ UNCHANGED vars
           \/ \E automatic \in AutoModes : Boot(automatic)
  <2>1. UNCHANGED <<tasks, due, dueAt, edit, now>>
    BY <1>6 DEF Signal, Drain, Stop, StopStep, Boot, vars, db, dispatch
  <2>2. \A c \in due' : Keeps(c.id)
    BY <2>1 DEF Keeps
  <2> QED
    BY <1>0, <2>1, <2>2, CopyFrame
<1>7. CASE Tick
  <2>1. UNCHANGED <<tasks, due, dueAt, edit>> /\ now' = now + 1
    BY <1>7 DEF Tick, db, dispatch
  <2>2. dueAt' <= now'
    BY <2>1, SchedulerAssumption DEF CopyInv, TypeInv, TypeOK, Times
  <2>3. \A c \in due' : Fresh(c)'
    BY <2>1 DEF CopyInv, Fresh, Live
  <2> QED
    BY <1>0, <2>1, <2>2, <2>3 DEF CopyInv
<1> QED
  BY <1>1, <1>2, <1>3, <1>4, <1>5, <1>6, <1>7 DEF Next, Process, Crash, MainReturns

LEMMA CopyAlways == ASSUME "update" \notin Events PROVE Spec => [](TypeInv /\ CopyInv)
<1>1. Init => TypeInv /\ CopyInv
  <2>1. Init => CopyInv
    BY DEF Init, CopyInv
  <2> QED
    BY <2>1, TypeInit
<1>2. TypeInv /\ CopyInv /\ [Next]_vars => TypeInv' /\ CopyInv'
  BY TypeStep, CopyStep
<1> QED
  BY <1>1, <1>2, PTL DEF Spec

\* What a step of the loop that takes a copy does to the stored slots.
LEMMA TakenWasDue ==
    ASSUME TypeInv, CopyInv, NEW c \in due, ReserveNext(c) \/ UNCHANGED tasks,
           NEW t \in Tasks, tasks'[t].next # tasks[t].next
    PROVE  t = c.id /\ tasks[t].next = c.next /\ tasks[t].next <= now
<1>1. t = c.id
  BY ReserveSparesOthers
<1>2. Live(t)
  BY <1>1 DEF ReserveNext, SetTaskNextRun, ConsumeOneShot
<1>3. Fresh(c) /\ dueAt <= now /\ c.next \in Nat /\ dueAt \in Nat /\ now \in Nat
  BY SchedulerAssumption DEF CopyInv, TypeInv, TypeOK, TaskCopy, Times
<1> QED
  BY <1>1, <1>2, <1>3 DEF Fresh

\* Only a step that takes a copy changes the list while the loop works on it.
LEMMA OnlyTakes ==
    ASSUME [Next]_vars, loop = "list", due' # due, phase' # "off"
    PROVE  \E c \in due : TakeCopy(c) /\ (ReserveNext(c) \/ UNCHANGED tasks)
<1>1. ~DispatchDue /\ ~DispatchClaim /\ ~DispatchSkip /\ ~LoopExit
  BY DEF DispatchDue, DispatchClaim, DispatchSkip, LoopExit
<1>2. \A a \in Actors : ~OpenRun(a)
  BY DEF OpenRun, StartTaskRun, StartTaskRunFails, LeaveSpawn
<1>3. \A r \in RunIds : ~Worker(r)
  BY DEF Worker, Launch, WorkerCancelled, WorkerNoProfile, WorkerExecute, WorkerFinish, WorkerMark,
         WorkerRelease, WorkerOnly, dispatch
<1>4. ~Request
  <2>1. \A t \in Tasks, s \in Schedules, p \in Profiles, enabled \in BOOLEAN :
          ~CreateTask(t, s, p, enabled)
    BY DEF CreateTask, dispatch
  <2>2. \A c \in Clients, t \in Tasks, s \in Schedules, p \in Profiles, enabled \in BOOLEAN :
          ~ReadTaskForUpdate(c, t, s, p, enabled)
    BY DEF ReadTaskForUpdate, dispatch
  <2>3. \A c \in Clients : ~UpdateTask(c)
    BY DEF UpdateTask, dispatch
  <2>4. \A c \in Clients, t \in Tasks : ~RunNow(c, t)
    BY DEF RunNow, dispatch
  <2>5. \A t \in Tasks : ~DeleteTask(t)
    BY DEF DeleteTask, dispatch
  <2>6. \A p \in Profiles : ~DeleteProfile(p)
    BY DEF DeleteProfile, dispatch
  <2> QED
    BY <2>1, <2>2, <2>3, <2>4, <2>5, <2>6, Zenon DEF Request
<1>5. ~Tick /\ ~UNCHANGED vars
  BY DEF Tick, vars, dispatch
<1>6. ~Process
  BY DEF Process, Crash, PowerOff, Signal, Drain, Stop, StopStep, MainReturns, Boot, dispatch
<1>7. PICK c \in due : Reserve(c) \/ Park(c) \/ ReserveFails(c)
  BY <1>1, <1>2, <1>3, <1>4, <1>5, <1>6 DEF Next, Loop
<1> QED
  BY <1>7 DEF Reserve, Park, ReserveFails

\* Without an edit in between, the dispatcher moves a stored slot on only when that slot
\* has come due, for every cron library, whatever runs, creations, deletions, failing
\* statements and restarts go on: its copies stay true until they are used.
THEOREM OnlyDueMove == ASSUME "update" \notin Events PROVE Spec => OnlyDueSlotsMove
<1>1. TypeInv /\ CopyInv /\ [Next]_vars =>
        [loop = "list" /\ phase' # "off" =>
            \A t \in Tasks : tasks'[t].next # tasks[t].next /\ due' # due =>
                tasks[t].next <= now]_vars
  BY OnlyTakes, TakenWasDue
<1> QED
  BY <1>1, CopyAlways, PTL DEF Spec, OnlyDueSlotsMove

-----------------------------------------------------------------------------
(* Slots handed out *)

\* The cron library names a later time, for the expressions the parser accepts.
CronAdvances == \A e \in CronExprs \ BrokenExprs, n \in Times : CronNext(e, n) > n

\* A slot still to come is later than the last one handed out.
OnceInv ==
    /\ \A t \in Tasks : tasks[t].state = "absent" => lastSlot[t] = NoTime
    /\ \A t \in Tasks : tasks[t].next # NoTime => lastSlot[t] < tasks[t].next
    /\ \A c \in due : lastSlot[c.id] < c.next

\* What a step may do to the columns that OnceInv reads.
SlotKept(u) ==
    /\ tasks'[u].state = "absent" => tasks[u].state = "absent"
    /\ tasks[u].state = "absent" \/ tasks'[u].next \in {tasks[u].next, NoTime}

LEMMA OnceFrame ==
    ASSUME TypeInv, TypeInv', OnceInv, UNCHANGED lastSlot, due' \subseteq due,
           \A u \in Tasks : SlotKept(u)
    PROVE  OnceInv'
<1>1. \A t \in Tasks : tasks'[t].state = "absent" => lastSlot'[t] = NoTime
  BY DEF OnceInv, SlotKept
<1>2. ASSUME NEW t \in Tasks, tasks'[t].next # NoTime PROVE lastSlot'[t] < tasks'[t].next
  <2>1. CASE tasks[t].state = "absent"
    <3>1. tasks'[t].next \in Nat /\ lastSlot'[t] = NoTime
      BY <1>2, <2>1 DEF OnceInv, TypeInv, TypeOK, TaskRow, Slots
    <3> QED
      BY <3>1 DEF NoTime
  <2>2. CASE tasks[t].state # "absent"
    BY <1>2, <2>2 DEF OnceInv, SlotKept
  <2> QED
    BY <2>1, <2>2
<1>3. \A c \in due' : lastSlot'[c.id] < c.next
  BY DEF OnceInv
<1> QED
  BY <1>1, <1>2, <1>3 DEF OnceInv

\* reserveNext leaves the row of its task alone, or moves the slot beyond dispatchDue's
\* now, or takes it away.
LEMMA ReserveMoves ==
    ASSUME CronAdvances, TypeInv, NEW c \in due, ReserveNext(c)
    PROVE  /\ c.id \in Tasks
           /\ tasks'[c.id].state = tasks[c.id].state
           /\ ~Live(c.id) => tasks'[c.id] = tasks[c.id]
           /\ Live(c.id) => \/ tasks'[c.id].next = NoTime
                            \/ ~ParkedExpr(c) /\ dueAt < tasks'[c.id].next
<1>1. /\ c.id \in Tasks /\ c.sched \in Schedules /\ tasks[c.id] \in TaskRow
      /\ tasks \in [Tasks -> TaskRow]
  BY DEF TypeInv, TypeOK, TaskCopy
<1>2. \A n : LET new == [tasks[c.id] EXCEPT !.next = n]
             IN  new.state = tasks[c.id].state /\ new.next = n
  BY <1>1 DEF TaskRow
<1>3. LET new == [tasks[c.id] EXCEPT !.enabled = FALSE, !.next = NoTime]
      IN  new.state = tasks[c.id].state /\ new.next = NoTime
  BY <1>1 DEF TaskRow
<1>4. CASE c.sched.kind = "once"
  <2>1. ConsumeOneShot(c.id)
    BY <1>4 DEF ReserveNext
  <2> QED
    BY <1>1, <1>3, <2>1 DEF ConsumeOneShot
<1>5. CASE c.sched.kind # "once" /\ ParkedExpr(c)
  <2>1. SetTaskNextRun(c.id, NoTime)
    BY <1>5 DEF ReserveNext
  <2>2. LET new == [tasks[c.id] EXCEPT !.next = NoTime]
        IN  new.state = tasks[c.id].state /\ new.next = NoTime
    BY <1>2
  <2> QED
    BY <1>1, <2>1, <2>2 DEF SetTaskNextRun
<1>6. CASE c.sched.kind # "once" /\ ~ParkedExpr(c)
  <2>1. CronNext(c.sched.expr, dueAt) > dueAt
    BY <1>1, <1>6, SchedulesTyped DEF ParkedExpr, CronAdvances, TypeInv, TypeOK
  <2>2. dueAt \in Nat /\ CronNext(c.sched.expr, dueAt) \in Nat
    BY <1>1, <1>6, SchedulesTyped, SchedulerAssumption DEF TypeInv, TypeOK, Times
  <2>3. SetTaskNextRun(c.id, CronNext(c.sched.expr, dueAt))
    BY <1>6 DEF ReserveNext
  <2>4. Live(c.id) => tasks'[c.id].next = CronNext(c.sched.expr, dueAt)
    BY <1>1, <1>2, <2>3 DEF SetTaskNextRun
  <2> QED
    BY <1>1, <1>2, <1>6, <2>1, <2>2, <2>3, <2>4 DEF SetTaskNextRun
<1> QED
  BY <1>4, <1>5, <1>6

LEMMA OnceLoop ==
    ASSUME CronAdvances, TypeInv, TypeInv', DeletedInert, CopyInv, OnceInv, Loop
    PROVE  OnceInv'
<1>0. \A c \in due : c \in TaskCopy /\ c.id \in Tasks /\ c.next \in Nat
  BY DEF TypeInv, TypeOK, TaskCopy
<1>1. CASE DispatchDue
  <2>1. UNCHANGED <<tasks, lastSlot>> /\ due' = {Copy(t) : t \in {u \in Tasks : Due(u)}}
    BY <1>1 DEF DispatchDue, db
  <2>2. \A c \in due' : lastSlot'[c.id] < c.next
    BY <2>1 DEF OnceInv, Copy, Due
  <2> QED
    BY <2>1, <2>2 DEF OnceInv
<1>2. ASSUME UNCHANGED <<tasks, lastSlot>>, due' \subseteq due PROVE OnceInv'
  BY <1>2, OnceFrame DEF SlotKept
<1>3. CASE DispatchClaim \/ DispatchSkip \/ LoopExit
  BY <1>2, <1>3 DEF DispatchClaim, DispatchSkip, LoopExit, db
<1>4. ASSUME NEW c \in due, ReserveFails(c) PROVE OnceInv'
  BY <1>2, <1>4 DEF ReserveFails, TakeCopy
<1>5. ASSUME NEW c \in due, Park(c) PROVE OnceInv'
  <2>1. ReserveNext(c) /\ ParkedExpr(c) /\ UNCHANGED lastSlot /\ due' \subseteq due
    BY <1>5 DEF Park, TakeCopy
  <2>2. ASSUME NEW u \in Tasks PROVE SlotKept(u)
    <3>1. CASE u = c.id
      BY <2>1, <3>1, ReserveMoves DEF SlotKept
    <3>2. CASE u # c.id
      BY <2>1, <3>2, ReserveSparesOthers DEF SlotKept
    <3> QED
      BY <3>1, <3>2
  <2> QED
    BY <2>1, <2>2, OnceFrame
<1>6. ASSUME NEW c \in due, Reserve(c) PROVE OnceInv'
  <2>1. /\ ReserveNext(c) /\ due' = due \ {c}
        /\ lastSlot' = [lastSlot EXCEPT ![c.id] = c.next]
    BY <1>6 DEF Reserve, TakeCopy
  <2>2. /\ Fresh(c) /\ c.id \in Tasks /\ c.next \in Nat /\ dueAt \in Nat
        /\ lastSlot \in [Tasks -> Slots] /\ tasks' \in [Tasks -> TaskRow]
    BY <1>0, SchedulerAssumption DEF CopyInv, TypeInv, TypeOK, Times
  <2>3. /\ lastSlot'[c.id] = c.next
        /\ \A u \in Tasks \ {c.id} : lastSlot'[u] = lastSlot[u] /\ tasks'[u] = tasks[u]
    BY <2>1, <2>2, ReserveSparesOthers
  <2>4. tasks'[c.id].state # "absent"
    BY <2>1, <2>2, ReserveMoves DEF Fresh
  <2>5. tasks'[c.id].next # NoTime => lastSlot'[c.id] < tasks'[c.id].next
    <3>1. CASE Live(c.id)
      <4>1. tasks'[c.id].next # NoTime => dueAt < tasks'[c.id].next
        BY <2>1, <3>1, ReserveMoves
      <4>2. c.next <= dueAt
        BY <2>2, <3>1 DEF Fresh
      <4>3. tasks'[c.id] \in TaskRow
        BY <2>2
      <4>4. \A row \in TaskRow : row.next \in Slots
        BY Zenon DEF TaskRow
      <4>5. tasks'[c.id].next \in Int
        BY <4>3, <4>4 DEF Slots, NoTime
      <4> QED
        BY <2>2, <2>3, <4>1, <4>2, <4>5
    <3>2. CASE ~Live(c.id)
      <4>1. tasks[c.id].state = "deleted"
        BY <2>2, <3>2 DEF Fresh, Live, TypeInv, TypeOK, TaskRow
      <4> QED
        BY <2>1, <2>2, <3>2, <4>1, ReserveMoves DEF DeletedInert
    <3> QED
      BY <3>1, <3>2
  <2>6. \A d \in due' : d.id \in Tasks \ {c.id} /\ d \in due
    BY <1>0, <2>1 DEF CopyInv
  <2> QED
    BY <2>3, <2>4, <2>5, <2>6 DEF OnceInv
<1> QED
  BY <1>1, <1>3, <1>4, <1>5, <1>6 DEF Loop

LEMMA OnceStep ==
    ASSUME "update" \notin Events, CronAdvances, TypeInv, DeletedInert, CopyInv, OnceInv,
           [Next]_vars
    PROVE  OnceInv'
<1>0. TypeInv'
  BY TypeStep
<1>1. CASE Loop
  BY <1>0, <1>1, OnceLoop
<1>2. ASSUME UNCHANGED <<tasks, lastSlot>>, due' \subseteq due PROVE OnceInv'
  BY <1>0, <1>2, OnceFrame DEF SlotKept
<1>3. ASSUME NEW a \in Actors, OpenRun(a) PROVE OnceInv'
  BY <1>2, <1>3 DEF OpenRun, StartTaskRun, StartTaskRunFails, LeaveSpawn
<1>4. ASSUME NEW r \in RunIds, Worker(r) PROVE OnceInv'
  <2>1. UNCHANGED <<due, lastSlot>>
    BY <1>4 DEF Worker, Launch, WorkerCancelled, WorkerNoProfile, WorkerExecute, WorkerFinish,
                WorkerMark, WorkerRelease, WorkerOnly, dispatch
  <2>2. \A u \in Tasks : SlotKept(u)
    BY <1>4, WorkerSparesSlot DEF SlotKept
  <2> QED
    BY <1>0, <2>1, <2>2, OnceFrame
<1>5. CASE Request
  <2>1. UNCHANGED <<due, lastSlot>>
    BY <1>5, RequestSparesSlot DEF dispatch
  <2>2. \A u \in Tasks : SlotKept(u)
    BY <1>5, RequestSparesSlot, UnusedRowInert DEF SlotKept
  <2> QED
    BY <1>0, <2>1, <2>2, OnceFrame
<1>6. CASE PowerOff
  BY <1>2, <1>6 DEF PowerOff
<1>7. CASE \/ Signal \/ Drain \/ Stop \/ Tick \/ UNCHANGED vars
           \/ \E automatic \in AutoModes : Boot(automatic)
  BY <1>2, <1>7 DEF Signal, Drain, Stop, StopStep, Tick, Boot, vars, db, dispatch
<1> QED
  BY <1>1, <1>3, <1>4, <1>5, <1>6, <1>7 DEF Next, Process, Crash, MainReturns

LEMMA OnceInit == Init => OnceInv
<1> SUFFICES ASSUME Init PROVE OnceInv
  OBVIOUS
<1>1. tasks \in [Tasks -> TaskRow]
  BY TypeInit DEF TypeInv, TypeOK
<1>2. \A t \in Tasks : tasks[t].next # NoTime => tasks[t].next \in Nat
  BY <1>1 DEF TaskRow, Slots
<1> QED
  BY <1>2 DEF Init, OnceInv, NoTime

\* Each slot is handed out at most once, and they are handed out in order, if the cron
\* library moves on (scheduler_never: it need not) and no edit writes back a slot it has
\* read before (scheduler_edit: one may); crashes, stale copies of deleted tasks, failing
\* statements and tasks still running do no harm.
THEOREM SlotsOnce ==
    ASSUME "update" \notin Events, CronAdvances
    PROVE  Spec => SlotOnce
<1>1. Init => TypeInv /\ OnceInv
  BY TypeInit, OnceInit
<1>2. TypeInv /\ DeletedInert /\ CopyInv /\ OnceInv /\ [Next]_vars => OnceInv'
  BY OnceStep
<1>3. TypeInv /\ CopyInv /\ OnceInv /\ [Next]_vars =>
        [loop = "list" /\ loop' = "claim" => cur'.next > lastSlot[cur'.id]]_vars
  <2> SUFFICES ASSUME TypeInv, OnceInv, [Next]_vars, loop = "list", loop' = "claim"
               PROVE  cur'.next > lastSlot[cur'.id]
    OBVIOUS
  <2>1. PICK c \in due : Reserve(c)
    <3>1. ~DispatchDue /\ ~DispatchClaim /\ ~DispatchSkip /\ ~LoopExit
      BY DEF DispatchDue, DispatchClaim, DispatchSkip, LoopExit
    <3>2. \A c \in due : ~Park(c) /\ ~ReserveFails(c)
      BY DEF Park, ReserveFails, NextCopy
    <3>3. \A a \in Actors : ~OpenRun(a)
      BY DEF OpenRun, StartTaskRun, StartTaskRunFails, LeaveSpawn, NextCopy
    <3>4. \A r \in RunIds : ~Worker(r)
      BY DEF Worker, Launch, WorkerCancelled, WorkerNoProfile, WorkerExecute, WorkerFinish,
             WorkerMark, WorkerRelease, WorkerOnly, dispatch
    <3>5. ~Request
      <4>1. \A t \in Tasks, s \in Schedules, p \in Profiles, enabled \in BOOLEAN :
              ~CreateTask(t, s, p, enabled)
        BY DEF CreateTask, dispatch
      <4>2. \A d \in Clients, t \in Tasks, s \in Schedules, p \in Profiles, enabled \in BOOLEAN :
              ~ReadTaskForUpdate(d, t, s, p, enabled)
        BY DEF ReadTaskForUpdate, dispatch
      <4>3. \A d \in Clients : ~UpdateTask(d)
        BY DEF UpdateTask, dispatch
      <4>4. \A d \in Clients, t \in Tasks : ~RunNow(d, t)
        BY DEF RunNow, dispatch
      <4>5. \A t \in Tasks : ~DeleteTask(t)
        BY DEF DeleteTask, dispatch
      <4>6. \A p \in Profiles : ~DeleteProfile(p)
        BY DEF DeleteProfile, dispatch
      <4> QED
        BY <4>1, <4>2, <4>3, <4>4, <4>5, <4>6, Zenon DEF Request
    <3>6. ~Process /\ ~Tick /\ ~UNCHANGED vars
      BY DEF Process, Crash, PowerOff, Signal, Drain, Stop, StopStep, MainReturns, Boot,
             Tick, vars, dispatch
    <3> QED
      BY <3>1, <3>2, <3>3, <3>4, <3>5, <3>6 DEF Next, Loop
  <2>2. cur' = c /\ lastSlot[c.id] < c.next
    BY <2>1 DEF Reserve, OnceInv
  <2>3. c.next \in Int /\ lastSlot[c.id] \in Int
    BY DEF TypeInv, TypeOK, TaskCopy, Slots, NoTime
  <2> QED
    BY <2>2, <2>3
<1> QED
  BY <1>1, <1>2, <1>3, CopyAlways, DeletedStaysInert, PTL DEF Spec, SlotOnce

-----------------------------------------------------------------------------
(* Parked tasks *)

\* An enabled task without a slot is one whose expression the parser rejects.
ParkedInv ==
    \A t \in Tasks : tasks[t].enabled /\ tasks[t].next = NoTime =>
        tasks[t].sched.kind = "cron" /\ tasks[t].sched.expr \in BrokenExprs

LEMMA ReserveKeepsParked ==
    ASSUME TypeInv, CopyInv, ParkedInv, NEW c \in due, ReserveNext(c)
    PROVE  ParkedInv'
<1>1. /\ c.id \in Tasks /\ c.sched \in Schedules /\ Fresh(c)
      /\ tasks \in [Tasks -> TaskRow] /\ tasks[c.id] \in TaskRow
  BY DEF CopyInv, TypeInv, TypeOK, TaskCopy
<1>2. \A u \in Tasks \ {c.id} : tasks'[u] = tasks[u]
  BY ReserveSparesOthers
<1>3. tasks'[c.id].enabled /\ tasks'[c.id].next = NoTime =>
        /\ tasks'[c.id].sched.kind = "cron"
        /\ tasks'[c.id].sched.expr \in BrokenExprs
  <2>1. CASE ~Live(c.id)
    BY <1>1, <2>1 DEF ReserveNext, SetTaskNextRun, ConsumeOneShot, ParkedInv
  <2>2. CASE Live(c.id) /\ c.sched.kind = "once"
    <3>1. ConsumeOneShot(c.id)
      BY <2>2 DEF ReserveNext
    <3>2. tasks'[c.id] = [tasks[c.id] EXCEPT !.enabled = FALSE, !.next = NoTime]
      BY <1>1, <2>2, <3>1 DEF ConsumeOneShot
    <3>3. [tasks[c.id] EXCEPT !.enabled = FALSE, !.next = NoTime].enabled = FALSE
      BY <1>1 DEF TaskRow
    <3> QED
      BY <3>2, <3>3
  <2>3. CASE Live(c.id) /\ c.sched.kind # "once" /\ ~ParkedExpr(c)
    <3>1. CronNext(c.sched.expr, dueAt) # NoTime
      BY <1>1, <2>3, SchedulesTyped, SchedulerAssumption DEF TypeInv, TypeOK, NoTime
    <3>2. SetTaskNextRun(c.id, CronNext(c.sched.expr, dueAt))
      BY <2>3 DEF ReserveNext
    <3>3. tasks'[c.id] = [tasks[c.id] EXCEPT !.next = CronNext(c.sched.expr, dueAt)]
      BY <1>1, <2>3, <3>2 DEF SetTaskNextRun
    <3>4. tasks'[c.id].next = CronNext(c.sched.expr, dueAt)
      BY <1>1, <3>3 DEF TaskRow
    <3> QED
      BY <3>1, <3>4
  <2>4. CASE Live(c.id) /\ c.sched.kind # "once" /\ ParkedExpr(c)
    <3>1. tasks[c.id].sched = c.sched
      BY <1>1, <2>4 DEF Fresh
    <3>2. SetTaskNextRun(c.id, NoTime)
      BY <2>4 DEF ReserveNext
    <3>3. tasks'[c.id] = [tasks[c.id] EXCEPT !.next = NoTime]
      BY <1>1, <2>4, <3>2 DEF SetTaskNextRun
    <3>4. tasks'[c.id].sched = tasks[c.id].sched
      BY <1>1, <3>3 DEF TaskRow
    <3> QED
      BY <2>4, <3>1, <3>4 DEF ParkedExpr
  <2> QED
    BY <2>1, <2>2, <2>3, <2>4
<1> QED
  BY <1>2, <1>3 DEF ParkedInv

LEMMA ParkedStep ==
    ASSUME "update" \notin Events, TypeInv, CopyInv, ParkedInv, [Next]_vars
    PROVE  ParkedInv'
<1>1. CASE UNCHANGED tasks
  BY <1>1 DEF ParkedInv
<1>2. CASE Loop
  <2>1. ASSUME NEW c \in due, Reserve(c) \/ Park(c) PROVE ParkedInv'
    BY <2>1, ReserveKeepsParked DEF Reserve, Park
  <2>2. ASSUME NEW c \in due, ReserveFails(c) PROVE ParkedInv'
    BY <1>1, <2>2 DEF ReserveFails
  <2>3. CASE DispatchDue \/ DispatchClaim \/ DispatchSkip \/ LoopExit
    BY <1>1, <2>3 DEF DispatchDue, DispatchClaim, DispatchSkip, LoopExit, db
  <2> QED
    BY <1>2, <2>1, <2>2, <2>3 DEF Loop
<1>3. ASSUME NEW a \in Actors, OpenRun(a) PROVE ParkedInv'
  BY <1>1, <1>3 DEF OpenRun, StartTaskRun, StartTaskRunFails, LeaveSpawn
<1>4. ASSUME NEW r \in RunIds, Worker(r) PROVE ParkedInv'
  BY <1>4, WorkerSparesSlot DEF ParkedInv
<1>5. CASE Request
  BY <1>5, RequestSparesSlot, UnusedRowInert DEF ParkedInv
<1>6. CASE Process \/ Tick \/ UNCHANGED vars
  BY <1>1, <1>6 DEF Process, Crash, PowerOff, Signal, Drain, Stop, StopStep, MainReturns,
                    Boot, Tick, vars, db
<1> QED
  BY <1>2, <1>3, <1>4, <1>5, <1>6 DEF Next

\* Expressions that the parser rejects included: unless a task is edited while a copy of
\* it waits to be dispatched, only one whose own expression is broken is ever parked.
THEOREM OnlyBrokenParked == ASSUME "update" \notin Events PROVE Spec => []EnabledHasSlot
<1>1. Init => ParkedInv
  <2>1. Init => SlotInv
    BY SlotInit
  <2> QED
    BY <2>1 DEF SlotInv, ParkedInv
<1>2. TypeInv /\ CopyInv /\ ParkedInv /\ [Next]_vars => ParkedInv'
  BY ParkedStep
<1>3. ParkedInv => EnabledHasSlot
  BY DEF ParkedInv, EnabledHasSlot
<1> QED
  BY <1>1, <1>2, <1>3, CopyAlways, PTL DEF Spec
=============================================================================
