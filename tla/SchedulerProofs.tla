--------------------------- MODULE SchedulerProofs ---------------------------
(***************************************************************************)
(* What holds of Scheduler for every number of tasks, profiles, clients    *)
(* and runs, every clock and every behaviour of the cron library.          *)
(***************************************************************************)
EXTENDS Scheduler, TLAPS

-----------------------------------------------------------------------------
(* Types *)

\* TypeOK needs to know that dispatchDue has a copy in hand when it calls spawn.
TypeInv == TypeOK /\ (loop = "claim" => cur \in TaskCopy)

LEMMA SchedulesTyped ==
    /\ \A e \in CronExprs : Cron(e) \in Schedules
    /\ \A n \in Times : Once(n) \in Schedules
    /\ \A s \in Schedules : /\ s.kind = "cron" => s.expr \in CronExprs
                            /\ s.kind = "once" => s.runAt \in Times
                            /\ s.kind \in {"cron", "once"}
BY DEF Schedules, Cron, Once

LEMMA EditedRowTyped ==
    ASSUME NEW old \in TaskRow, NEW s \in Schedules, NEW p \in Profiles,
           NEW b \in BOOLEAN, NEW n \in Slots
    PROVE  [old EXCEPT !.sched = s, !.profile = p, !.enabled = b, !.next = n] \in TaskRow
BY Zenon DEF TaskRow

LEMMA UnusedRowTyped ==
    /\ AbsentRow \in TaskRow
    /\ \A p \in Profiles : UnusedRow("deleted", p) \in TaskRow
<1>1. 0 \in Times
  BY SchedulerAssumption DEF Times
<1>2. Schedules # {}
  BY <1>1 DEF Schedules
<1>3. (CHOOSE s \in Schedules : TRUE) \in Schedules
  BY <1>2
<1>4. (CHOOSE p \in Profiles : TRUE) \in Profiles
  BY SchedulerAssumption
<1> QED
  BY <1>3, <1>4 DEF AbsentRow, UnusedRow, TaskRow, Slots, NoTime

\* A row stays a row under each column assignment of the store.
LEMMA RowTyped ==
    ASSUME NEW row \in TaskRow
    PROVE  /\ \A n \in Slots : [row EXCEPT !.next = n] \in TaskRow
           /\ [row EXCEPT !.enabled = FALSE, !.next = NoTime] \in TaskRow
           /\ \A l \in {"success", "failed"} : [row EXCEPT !.last = l] \in TaskRow
<1>1. \A n \in Slots : [row EXCEPT !.next = n] \in TaskRow
  BY DEF TaskRow
<1>2. [row EXCEPT !.enabled = FALSE, !.next = NoTime] \in TaskRow
  BY DEF TaskRow, Slots
<1>3. \A l \in {"success", "failed"} : [row EXCEPT !.last = l] \in TaskRow
  BY DEF TaskRow
<1> QED
  BY <1>1, <1>2, <1>3

LEMMA StatementsTyped ==
    ASSUME tasks \in [Tasks -> TaskRow], NEW t \in Tasks
    PROVE  /\ \A n \in Slots : SetTaskNextRun(t, n) => tasks' \in [Tasks -> TaskRow]
           /\ ConsumeOneShot(t) => tasks' \in [Tasks -> TaskRow]
           /\ \A l \in {"success", "failed"} :
                MarkTaskRun(t, l) => tasks' \in [Tasks -> TaskRow]
<1>1. ASSUME NEW n \in Slots, SetTaskNextRun(t, n) PROVE tasks' \in [Tasks -> TaskRow]
  BY <1>1, RowTyped DEF SetTaskNextRun
<1>2. ASSUME ConsumeOneShot(t) PROVE tasks' \in [Tasks -> TaskRow]
  BY <1>2, RowTyped DEF ConsumeOneShot
<1>3. ASSUME NEW l \in {"success", "failed"}, MarkTaskRun(t, l)
      PROVE  tasks' \in [Tasks -> TaskRow]
  BY <1>3, RowTyped DEF MarkTaskRun
<1> QED
  BY <1>1, <1>2, <1>3

LEMMA SettleTyped == \A run \in Run \cup {NoRun} : Settle(run) \in Run \cup {NoRun}
BY DEF Settle

\* The slot a schedule gets is a time, whatever the library answers.
LEMMA FirstSlotTyped ==
    ASSUME TypeOK, NEW s \in Schedules PROVE FirstSlot(s) \in Nat
<1>1. now \in Times
  BY DEF TypeOK
<1>2. CASE s.kind = "once"
  BY <1>2, SchedulesTyped, SchedulerAssumption DEF FirstSlot, Times
<1>3. CASE s.kind = "cron"
  BY <1>1, <1>3, SchedulesTyped, SchedulerAssumption DEF FirstSlot
<1> QED
  BY <1>2, <1>3, SchedulesTyped

LEMMA TypeInit == Init => TypeInv
<1> SUFFICES ASSUME Init PROVE TypeInv
  OBVIOUS
<1>1. 0 \in Times
  BY SchedulerAssumption DEF Times
<1>2. StoredRows \subseteq TaskRow
  <2>1. ASSUME NEW s \in Stored PROVE StoredSlot(s) \in Slots
    BY StoredAssumption, SchedulesTyped, SchedulerAssumption DEF StoredSlot, Slots, Times
  <2>2. ASSUME NEW s \in Stored, NEW p \in Profiles PROVE StoredRow(s, p) \in TaskRow
    BY <2>1, StoredAssumption, Zenon DEF StoredRow, TaskRow
  <2> QED
    BY <2>2 DEF StoredRows
<1>3. tasks \in [Tasks -> TaskRow]
  BY <1>2, UnusedRowTyped DEF Init
<1>4. lastSlot \in [Tasks -> Slots]
  BY DEF Init, Slots
<1> QED
  BY <1>1, <1>3, <1>4, SchedulerAssumption
  DEF Init, TypeInv, TypeOK, Actors

LEMMA TypeLoop == TypeInv /\ Loop => TypeInv'
<1> SUFFICES ASSUME TypeInv, Loop PROVE TypeInv'
  OBVIOUS
<1> USE DEF TypeInv, TypeOK
<1>0. \A rest : NextCopy(rest) => loop' \in {"idle", "list"} /\ dueAt' \in Times
  BY SchedulerAssumption DEF NextCopy, Times
<1>1. CASE DispatchDue
  <2>1. \A t \in Tasks : Due(t) => Copy(t) \in TaskCopy
    BY DEF Due, Copy, TaskCopy, TaskRow, Slots
  <2> QED
    BY <1>1, <2>1 DEF DispatchDue, db
<1>2. CASE DispatchClaim
  <2>1. [id |-> cur.id, profile |-> cur.profile] \in Claim
    BY <1>2 DEF DispatchClaim, TaskCopy, Claim
  <2> QED
    BY <1>2, <2>1 DEF DispatchClaim, LoadOrStore, db, Actors, Claim
<1>3. CASE DispatchSkip
  BY <1>3, <1>0 DEF DispatchSkip, db
<1>4. CASE LoopExit
  BY <1>4 DEF LoopExit, db
<1>5. ASSUME NEW c \in due, Reserve(c) \/ Park(c) PROVE TypeInv'
  <2>1. c \in TaskCopy
    OBVIOUS
  <2>2. c.id \in Tasks /\ c.sched \in Schedules /\ c.next \in Nat
    BY <2>1 DEF TaskCopy
  <2>3. ReserveNext(c)
    BY <1>5 DEF Reserve, Park
  <2>4. tasks' \in [Tasks -> TaskRow]
    <3>1. c.sched.kind # "once" => CronNext(c.sched.expr, dueAt) \in Slots
      BY <2>2, SchedulesTyped, SchedulerAssumption DEF Slots
    <3> QED
      BY <2>2, <2>3, <3>1, StatementsTyped DEF ReserveNext, Slots
  <2> QED
    BY <1>5, <1>0, <2>1, <2>2, <2>4 DEF Reserve, Park, TakeCopy, NoFault, Slots
<1>6. ASSUME NEW c \in due, ReserveFails(c) PROVE TypeInv'
  BY <1>6, <1>0, SchedulerAssumption DEF ReserveFails, TakeCopy, Fault
<1> QED
  BY <1>1, <1>2, <1>3, <1>4, <1>5, <1>6 DEF Loop

LEMMA TypeOpenRun == \A a \in Actors : TypeInv /\ OpenRun(a) => TypeInv'
<1> SUFFICES ASSUME NEW a \in Actors, TypeInv, OpenRun(a) PROVE TypeInv'
  OBVIOUS
<1> USE DEF TypeInv, TypeOK
<1>1. LeaveSpawn(a) /\ claim[a] \in Claim
  BY DEF OpenRun, StartTaskRun, StartTaskRunFails, NoClaim
<1>2. /\ claim' \in [Actors -> Claim \cup {NoClaim}]
      /\ loop' \in {"off", "idle", "list", "claim", "open"}
      /\ loop' = "claim" => loop = "claim"
      /\ dueAt' \in Times
  BY <1>1, SchedulerAssumption DEF LeaveSpawn, NextCopy, Times
<1>3. CASE StartTaskRun(a)
  <2>1. PICK r \in FreeRuns :
          runs' = [runs EXCEPT ![r] = [task |-> claim[a].id, profile |-> claim[a].profile,
                                       status |-> "running", pc |-> FirstPc(a)]]
    BY <1>3 DEF StartTaskRun
  <2>2. runs' \in [RunIds -> Run \cup {NoRun}]
    BY <1>1, <2>1 DEF FirstPc, FreeRuns, Run, Claim
  <2> QED
    BY <1>1, <1>2, <1>3, <2>2 DEF StartTaskRun, LeaveSpawn, NoFault
<1>4. CASE StartTaskRunFails(a)
  BY <1>1, <1>2, <1>4, SchedulerAssumption
  DEF StartTaskRunFails, DropClaim, LeaveSpawn, Fault, NoFault
<1> QED
  BY <1>3, <1>4 DEF OpenRun

LEMMA TypeWorker == \A r \in RunIds : TypeInv /\ Worker(r) => TypeInv'
<1> SUFFICES ASSUME NEW r \in RunIds, TypeInv, Worker(r) PROVE TypeInv'
  OBVIOUS
<1> USE DEF TypeInv, TypeOK
<1>1. runs[r] \in Run
  BY DEF Worker, Launch, WorkerCancelled, WorkerNoProfile, WorkerExecute, WorkerFinish,
         WorkerMark, WorkerRelease, NoRun
<1>2. ASSUME NEW status \in {"success", "failed"}, NEW pc \in {"success", "failed", "releasing"},
             FinishTaskRun(r, status, pc), WorkerOnly
      PROVE  TypeInv'
  BY <1>1, <1>2, SchedulerAssumption
  DEF FinishTaskRun, WorkerOnly, Fault, NoFault, Run, dispatch
<1>3. CASE Launch(r) \/ WorkerExecute(r)
  BY <1>1, <1>3 DEF Launch, WorkerExecute, WorkerOnly, NoFault, Run, dispatch
<1>4. CASE WorkerMark(r)
  <2>1. MarkTaskRun(runs[r].task, runs[r].pc) => tasks' \in [Tasks -> TaskRow]
    <3>1. runs[r].task \in Tasks /\ runs[r].pc \in {"success", "failed"}
      BY <1>1, <1>4 DEF WorkerMark, Run
    <3> QED
      BY <3>1, StatementsTyped
  <2>2. runs' \in [RunIds -> Run \cup {NoRun}]
    BY <1>1, <1>4 DEF WorkerMark, Run
  <2> QED
    BY <1>4, <2>1, <2>2, SchedulerAssumption DEF WorkerMark, Fault, NoFault, dispatch
<1>5. CASE WorkerRelease(r)
  <2>1. [runs[r] EXCEPT !.pc = "none"] \in Run
    BY <1>1 DEF Run
  <2> QED
    BY <1>5, <2>1, SettleTyped DEF WorkerRelease, dispatch
<1> QED
  BY <1>2, <1>3, <1>4, <1>5
  DEF Worker, WorkerCancelled, WorkerNoProfile, WorkerFinish

LEMMA TypeRequest == TypeInv /\ Request => TypeInv'
<1> SUFFICES ASSUME TypeInv, Request PROVE TypeInv'
  OBVIOUS
<1> USE DEF TypeInv, TypeOK
<1>1. ASSUME NEW t \in Tasks, NEW s \in Schedules, NEW p \in Profiles,
             NEW enabled \in BOOLEAN, CreateTask(t, s, p, enabled)
      PROVE  TypeInv'
  <2>1. NextRunForNewTask(enabled, s) \in Slots
    BY FirstSlotTyped DEF NextRunForNewTask, Slots
  <2>2. [state |-> "live", sched |-> s, profile |-> p, enabled |-> enabled,
         next |-> NextRunForNewTask(enabled, s), last |-> ""] \in TaskRow
    BY <2>1, Zenon DEF TaskRow
  <2> QED
    BY <1>1, <2>2 DEF CreateTask, dispatch
<1>2. ASSUME NEW c \in Clients, NEW t \in Tasks, NEW s \in Schedules, NEW p \in Profiles,
             NEW enabled \in BOOLEAN, ReadTaskForUpdate(c, t, s, p, enabled)
      PROVE  TypeInv'
  <2>1. NextRunAfterEdit(tasks[t], enabled, s) \in Slots
    BY FirstSlotTyped DEF NextRunAfterEdit, Slots, TaskRow
  <2>2. [id |-> t, sched |-> s, profile |-> p, enabled |-> enabled,
         next |-> NextRunAfterEdit(tasks[t], enabled, s)] \in Edit
    BY <2>1, Zenon DEF Edit
  <2> QED
    BY <1>2, <2>2 DEF ReadTaskForUpdate, db, dispatch
<1>3. ASSUME NEW c \in Clients, UpdateTask(c) PROVE TypeInv'
  <2>1. edit[c] \in Edit
    BY <1>3 DEF UpdateTask
  <2>2. tasks' \in [Tasks -> TaskRow]
    <3> DEFINE e == edit[c]
               row == [tasks[e.id] EXCEPT !.sched = e.sched, !.profile = e.profile,
                                          !.enabled = e.enabled, !.next = e.next]
    <3>1. e.id \in Tasks
      BY <2>1 DEF Edit
    <3>2. row \in TaskRow
      <4>1. /\ e.sched \in Schedules /\ e.profile \in Profiles
            /\ e.enabled \in BOOLEAN /\ e.next \in Slots
        BY <2>1 DEF Edit
      <4>2. tasks[e.id] \in TaskRow
        BY <3>1
      <4> HIDE DEF e
      <4> QED
        BY <4>1, <4>2, EditedRowTyped, Zenon DEF row
    <3>3. tasks' = tasks \/ tasks' = [tasks EXCEPT ![e.id] = row]
      BY <1>3 DEF UpdateTask
    <3> HIDE DEF e, row
    <3> QED
      BY <3>1, <3>2, <3>3
  <2> QED
    BY <1>3, <2>2 DEF UpdateTask, dispatch
<1>4. ASSUME NEW c \in Clients, NEW t \in Tasks, RunNow(c, t) PROVE TypeInv'
  <2>1. [id |-> t, profile |-> tasks[t].profile] \in Claim
    BY DEF Claim, TaskRow
  <2> QED
    BY <1>4, <2>1 DEF RunNow, LoadOrStore, db, dispatch, Actors
<1>5. ASSUME NEW t \in Tasks, DeleteTask(t) PROVE TypeInv'
  <2>1. tasks[t].profile \in Profiles
    BY DEF TaskRow
  <2> QED
    BY <1>5, <2>1, UnusedRowTyped DEF DeleteTask, dispatch
<1>6. ASSUME NEW p \in Profiles, DeleteProfile(p) PROVE TypeInv'
  <2>1. tasks' \in [Tasks -> TaskRow]
    BY <1>6, UnusedRowTyped DEF DeleteProfile
  <2>2. runs' \in [RunIds -> Run \cup {NoRun}]
    <3>1. \A r \in RunIds :
            runs[r].task \in Tasks => [runs[r] EXCEPT !.status = "gone"] \in Run
      BY SchedulerAssumption DEF Run, NoRun
    <3> QED
      BY <1>6, <3>1, SettleTyped DEF DeleteProfile
  <2> QED
    BY <1>6, <2>1, <2>2 DEF DeleteProfile, dispatch
<1> QED
  BY <1>1, <1>2, <1>3, <1>4, <1>5, <1>6 DEF Request

LEMMA TypeProcess == TypeInv /\ Process => TypeInv'
<1> SUFFICES ASSUME TypeInv, Process PROVE TypeInv'
  OBVIOUS
<1> USE DEF TypeInv, TypeOK
<1>1. ASSUME PowerOff PROVE TypeInv'
  <2>1. \A r \in RunIds : [runs[r] EXCEPT !.pc = "none"] \in Run \cup {NoRun}
    BY DEF Run, NoRun
  <2>2. runs' \in [RunIds -> Run \cup {NoRun}]
    BY <1>1, <2>1, SettleTyped DEF PowerOff
  <2>3. 0 \in Times
    BY SchedulerAssumption DEF Times
  <2> QED
    BY <1>1, <2>2, <2>3 DEF PowerOff
<1>2. CASE Signal
  BY <1>2 DEF Signal, db, dispatch
<1>3. CASE Drain \/ Stop
  BY <1>3 DEF Drain, Stop, StopStep, db, dispatch
<1>4. ASSUME NEW automatic \in AutoModes, Boot(automatic) PROVE TypeInv'
  <2>1. \A r \in RunIds : runs[r].status = "running" =>
            [runs[r] EXCEPT !.status = "failed"] \in Run
    BY DEF Run, NoRun
  <2>2. MarkStaleRunsFailed => runs' \in [RunIds -> Run \cup {NoRun}]
    BY <2>1, SettleTyped DEF MarkStaleRunsFailed
  <2> QED
    BY <1>4, <2>2, SchedulerAssumption DEF Boot, Fault, NoFault
<1> QED
  BY <1>1, <1>2, <1>3, <1>4 DEF Process, Crash, MainReturns

LEMMA TypeStep == TypeInv /\ [Next]_vars => TypeInv'
<1> SUFFICES ASSUME TypeInv, [Next]_vars PROVE TypeInv'
  OBVIOUS
<1>1. CASE Tick
  BY <1>1, SchedulerAssumption DEF Tick, TypeInv, TypeOK, Times, db, dispatch
<1>2. CASE UNCHANGED vars
  BY <1>2 DEF vars, TypeInv, TypeOK, db, dispatch
<1> QED
  BY <1>1, <1>2, TypeLoop, TypeOpenRun, TypeWorker, TypeRequest, TypeProcess DEF Next

\* Every row, copy and claim the scheduler can ever hold has its type: no statement
\* is given a NULL, a missing id or a copy that is not there.
THEOREM TypeCorrect == Spec => []TypeOK
<1>1. TypeInv => TypeOK
  BY DEF TypeInv
<1> QED
  BY <1>1, TypeInit, TypeStep, PTL DEF Spec

-----------------------------------------------------------------------------
(* The map of running tasks *)

\* The polling goroutine holds a claim only inside spawn, and none survives the process:
\* without that, a second spawn could overwrite a claim whose run is not open yet.
RunningInv ==
    /\ RunningAccounted
    /\ NoSelfOverlap
    /\ claim[Dispatcher] # NoClaim => loop = "open"
    /\ phase = "off" => loop = "off"

\* A step that neither changes the map and the claims, nor starts or ends a goroutine.
LEMMA RunningFrame ==
    ASSUME RunningAccounted, NoSelfOverlap, running' = running, claim' = claim,
           \A r \in RunIds : /\ runs'[r].pc # "none" <=> runs[r].pc # "none"
                             /\ runs[r].pc # "none" => runs'[r].task = runs[r].task
    PROVE  RunningAccounted' /\ NoSelfOverlap'
<1>1. NoSelfOverlap'
  BY DEF NoSelfOverlap, Owned
<1>2. \A t \in running' :
          \/ \E a \in Actors : claim'[a] # NoClaim /\ claim'[a].id = t
          \/ \E r \in RunIds : Owned(r)' /\ runs'[r].task = t
  BY DEF RunningAccounted, Owned
<1>3. \A a \in Actors : claim'[a] # NoClaim =>
          /\ claim'[a].id \in running'
          /\ \A b \in Actors \ {a} : claim'[b].id # claim'[a].id
          /\ \A r \in RunIds : Owned(r)' => runs'[r].task # claim'[a].id
  BY DEF RunningAccounted, Owned
<1>4. \A r \in RunIds : Owned(r)' => runs'[r].task \in running'
  BY DEF RunningAccounted, Owned
<1> QED
  BY <1>1, <1>2, <1>3, <1>4 DEF RunningAccounted

LEMMA RunningClaim ==
    ASSUME TypeInv, RunningAccounted, NoSelfOverlap, UNCHANGED runs,
           NEW a \in Actors, NEW k \in Claim, claim[a] = NoClaim, LoadOrStore(a, k)
    PROVE  RunningAccounted' /\ NoSelfOverlap'
<1>1. /\ k.id \in Tasks /\ k # NoClaim /\ NoClaim.id \notin Tasks
      /\ k.id \notin running /\ running' = running \cup {k.id}
  BY SchedulerAssumption DEF Claim, NoClaim, LoadOrStore
<1>2. /\ claim'[a] = k
      /\ \A b \in Actors \ {a} : claim'[b] = claim[b]
  BY DEF LoadOrStore, TypeInv, TypeOK
<1>3. \A b \in Actors : claim[b] # NoClaim => claim[b].id \in running
  BY DEF RunningAccounted
<1>4. \A r \in RunIds : Owned(r) => runs[r].task \in running
  BY DEF RunningAccounted
<1>5. \A t \in running' :
          \/ \E b \in Actors : claim'[b] # NoClaim /\ claim'[b].id = t
          \/ \E r \in RunIds : Owned(r)' /\ runs'[r].task = t
  BY <1>1, <1>2 DEF RunningAccounted, Owned
<1>6. \A b \in Actors : claim'[b] # NoClaim =>
          /\ claim'[b].id \in running'
          /\ \A d \in Actors \ {b} : claim'[d].id # claim'[b].id
          /\ \A r \in RunIds : Owned(r)' => runs'[r].task # claim'[b].id
  BY <1>1, <1>2, <1>3, <1>4 DEF RunningAccounted, Owned
<1>7. \A r \in RunIds : Owned(r)' => runs'[r].task \in running'
  BY <1>1, <1>4 DEF Owned
<1> QED
  BY <1>5, <1>6, <1>7 DEF RunningAccounted, NoSelfOverlap, Owned

LEMMA RunningOpen ==
    ASSUME TypeInv, RunningInv, NEW a \in Actors, OpenRun(a)
    PROVE  RunningAccounted' /\ NoSelfOverlap'
<1> DEFINE t == claim[a].id
<1>0. /\ claim[a] # NoClaim /\ claim[a] \in Claim /\ t \in Tasks
      /\ NoClaim.id \notin Tasks /\ NoRun.pc = "none"
  BY SchedulerAssumption
  DEF OpenRun, StartTaskRun, StartTaskRunFails, TypeInv, TypeOK, Claim, NoClaim, NoRun
<1>1. /\ claim'[a] = NoClaim
      /\ \A b \in Actors \ {a} : claim'[b] = claim[b]
  BY DEF OpenRun, StartTaskRun, StartTaskRunFails, LeaveSpawn, TypeInv, TypeOK
<1>2. /\ t \in running
      /\ \A b \in Actors \ {a} : claim[b].id # t
      /\ \A r \in RunIds : Owned(r) => runs[r].task # t
  BY <1>0 DEF RunningInv, RunningAccounted
<1>3. CASE StartTaskRun(a)
  <2>1. PICK r \in FreeRuns :
          runs' = [runs EXCEPT ![r] = [task |-> t, profile |-> claim[a].profile,
                                       status |-> "running", pc |-> FirstPc(a)]]
    BY <1>3 DEF StartTaskRun
  <2>2. /\ r \in RunIds /\ ~Owned(r) /\ running' = running
        /\ runs'[r].pc # "none" /\ runs'[r].task = t
        /\ \A q \in RunIds \ {r} : runs'[q] = runs[q]
    BY <1>0, <1>3, <2>1 DEF FirstPc, FreeRuns, Owned, StartTaskRun, TypeInv, TypeOK
  <2>3. \A u \in running' :
            \/ \E b \in Actors : claim'[b] # NoClaim /\ claim'[b].id = u
            \/ \E q \in RunIds : Owned(q)' /\ runs'[q].task = u
    BY <1>1, <2>2 DEF RunningInv, RunningAccounted, Owned
  <2>4. \A b \in Actors : claim'[b] # NoClaim =>
            /\ claim'[b].id \in running'
            /\ \A d \in Actors \ {b} : claim'[d].id # claim'[b].id
            /\ \A q \in RunIds : Owned(q)' => runs'[q].task # claim'[b].id
    <3> SUFFICES ASSUME NEW b \in Actors, claim'[b] # NoClaim
                 PROVE  /\ claim'[b].id \in running'
                        /\ \A d \in Actors \ {b} : claim'[d].id # claim'[b].id
                        /\ \A q \in RunIds : Owned(q)' => runs'[q].task # claim'[b].id
      OBVIOUS
    <3>1. b # a /\ claim'[b] = claim[b] /\ claim[b].id \in running /\ claim[b].id \in Tasks
      BY <1>1, SchedulerAssumption DEF RunningInv, RunningAccounted, TypeInv, TypeOK
    <3> QED
      BY <1>0, <1>1, <1>2, <2>2, <3>1 DEF RunningInv, RunningAccounted, Owned
  <2>5. \A q \in RunIds : Owned(q)' => runs'[q].task \in running'
    BY <1>2, <2>2 DEF RunningInv, RunningAccounted, Owned
  <2>6. NoSelfOverlap'
    BY <1>2, <2>2 DEF RunningInv, NoSelfOverlap, Owned
  <2> QED
    BY <2>3, <2>4, <2>5, <2>6 DEF RunningAccounted
<1>4. CASE StartTaskRunFails(a)
  <2>1. running' = running \ {t} /\ runs' = runs
    BY <1>4 DEF StartTaskRunFails, DropClaim
  <2>2. NoSelfOverlap'
    BY <2>1 DEF RunningInv, NoSelfOverlap, Owned
  <2>3. \A u \in running' :
            \/ \E b \in Actors : claim'[b] # NoClaim /\ claim'[b].id = u
            \/ \E q \in RunIds : Owned(q)' /\ runs'[q].task = u
    BY <1>1, <2>1 DEF RunningInv, RunningAccounted, Owned
  <2>4. \A b \in Actors : claim'[b] # NoClaim =>
            /\ claim'[b].id \in running'
            /\ \A d \in Actors \ {b} : claim'[d].id # claim'[b].id
            /\ \A q \in RunIds : Owned(q)' => runs'[q].task # claim'[b].id
    <3> SUFFICES ASSUME NEW b \in Actors, claim'[b] # NoClaim
                 PROVE  /\ claim'[b].id \in running'
                        /\ \A d \in Actors \ {b} : claim'[d].id # claim'[b].id
                        /\ \A q \in RunIds : Owned(q)' => runs'[q].task # claim'[b].id
      OBVIOUS
    <3>1. b # a /\ claim'[b] = claim[b] /\ claim[b].id \in running /\ claim[b].id \in Tasks
      BY <1>1, SchedulerAssumption DEF RunningInv, RunningAccounted, TypeInv, TypeOK
    <3> QED
      BY <1>0, <1>1, <1>2, <2>1, <3>1 DEF RunningInv, RunningAccounted, Owned
  <2>5. \A q \in RunIds : Owned(q)' => runs'[q].task \in running'
    BY <1>2, <2>1 DEF RunningInv, RunningAccounted, Owned
  <2> QED
    BY <2>2, <2>3, <2>4, <2>5 DEF RunningAccounted
<1> QED
  BY <1>3, <1>4 DEF OpenRun

LEMMA RunningWorker ==
    ASSUME TypeInv, RunningInv, NEW r \in RunIds, Worker(r)
    PROVE  RunningAccounted' /\ NoSelfOverlap'
<1>1. runs[r] \in Run /\ runs[r].pc # "none" /\ UNCHANGED claim
  BY DEF Worker, Launch, WorkerCancelled, WorkerNoProfile, WorkerExecute, WorkerFinish,
         WorkerMark, WorkerRelease, WorkerOnly, TypeInv, TypeOK, NoRun
<1>2. CASE WorkerRelease(r)
  <2>1. /\ running' = running \ {runs[r].task}
        /\ ~Owned(r)'
        /\ \A q \in RunIds \ {r} : runs'[q] = runs[q]
    BY <1>1, <1>2 DEF WorkerRelease, Settle, NoRun, Owned, Run, TypeInv, TypeOK
  <2>2. /\ \A q \in RunIds \ {r} : Owned(q) => runs[q].task # runs[r].task
        /\ \A a \in Actors : claim[a] # NoClaim => claim[a].id # runs[r].task
    BY <1>1 DEF RunningInv, RunningAccounted, NoSelfOverlap, Owned
  <2>3. NoSelfOverlap'
    BY <2>1 DEF RunningInv, NoSelfOverlap, Owned
  <2>4. \A u \in running' :
            \/ \E b \in Actors : claim'[b] # NoClaim /\ claim'[b].id = u
            \/ \E q \in RunIds : Owned(q)' /\ runs'[q].task = u
    BY <1>1, <2>1 DEF RunningInv, RunningAccounted, Owned
  <2>5. \A b \in Actors : claim'[b] # NoClaim =>
            /\ claim'[b].id \in running'
            /\ \A d \in Actors \ {b} : claim'[d].id # claim'[b].id
            /\ \A q \in RunIds : Owned(q)' => runs'[q].task # claim'[b].id
    BY <1>1, <2>1, <2>2 DEF RunningInv, RunningAccounted, Owned
  <2>6. \A q \in RunIds : Owned(q)' => runs'[q].task \in running'
    BY <2>1, <2>2 DEF RunningInv, RunningAccounted, Owned
  <2> QED
    BY <2>3, <2>4, <2>5, <2>6 DEF RunningAccounted
<1>3. CASE ~WorkerRelease(r)
  <2>1. /\ UNCHANGED running
        /\ runs'[r].pc # "none" /\ runs'[r].task = runs[r].task
        /\ \A q \in RunIds \ {r} : runs'[q] = runs[q]
    BY <1>1, <1>3
    DEF Worker, Launch, WorkerCancelled, WorkerNoProfile, WorkerExecute, WorkerFinish,
        WorkerMark, WorkerOnly, FinishTaskRun, Run, TypeInv, TypeOK
  <2> QED
    BY <1>1, <2>1, RunningFrame DEF RunningInv
<1> QED
  BY <1>2, <1>3

LEMMA RunningStep == TypeInv /\ RunningInv /\ [Next]_vars => RunningInv'
<1> SUFFICES ASSUME TypeInv, RunningInv, [Next]_vars PROVE RunningInv'
  OBVIOUS
<1>1. CASE Loop
  <2>1. CASE DispatchClaim
    <3>1. claim[Dispatcher] = NoClaim /\ phase # "off"
      BY <2>1 DEF DispatchClaim, RunningInv
    <3>2. [id |-> cur.id, profile |-> cur.profile] \in Claim
      BY <2>1 DEF DispatchClaim, TypeInv, TaskCopy, Claim
    <3>3. RunningAccounted' /\ NoSelfOverlap'
      BY <2>1, <3>1, <3>2, RunningClaim DEF DispatchClaim, RunningInv, db, Actors
    <3> QED
      BY <2>1, <3>1, <3>3 DEF DispatchClaim, RunningInv
  <2>2. CASE ~DispatchClaim
    <3>1. /\ UNCHANGED <<runs, running, claim, phase>>
          /\ loop # "off" /\ loop # "open"
      BY <1>1, <2>2
      DEF Loop, DispatchDue, DispatchSkip, LoopExit, Reserve, Park, ReserveFails, TakeCopy, db
    <3> QED
      BY <3>1, RunningFrame DEF RunningInv
  <2> QED
    BY <2>1, <2>2
<1>2. ASSUME NEW a \in Actors, OpenRun(a) PROVE RunningInv'
  <2>1. /\ UNCHANGED phase
        /\ claim'[Dispatcher] # NoClaim => claim[Dispatcher] # NoClaim /\ UNCHANGED loop
        /\ phase = "off" => UNCHANGED loop
    BY <1>2 DEF OpenRun, StartTaskRun, StartTaskRunFails, LeaveSpawn, RunningInv,
                TypeInv, TypeOK, Actors
  <2> QED
    BY <1>2, <2>1, RunningOpen DEF RunningInv
<1>3. ASSUME NEW r \in RunIds, Worker(r) PROVE RunningInv'
  <2>1. UNCHANGED <<claim, loop, phase>>
    BY <1>3 DEF Worker, Launch, WorkerCancelled, WorkerNoProfile, WorkerExecute, WorkerFinish,
                WorkerMark, WorkerRelease, WorkerOnly, dispatch
  <2> QED
    BY <1>3, <2>1, RunningWorker DEF RunningInv
<1>4. ASSUME NEW c \in Clients, NEW t \in Tasks, RunNow(c, t) PROVE RunningInv'
  <2>1. [id |-> t, profile |-> tasks[t].profile] \in Claim
    BY DEF TypeInv, TypeOK, TaskRow, Claim
  <2>2. RunningAccounted' /\ NoSelfOverlap'
    BY <1>4, <2>1, RunningClaim DEF RunNow, Idle, RunningInv, db, Actors
  <2>3. claim'[Dispatcher] = claim[Dispatcher] /\ UNCHANGED <<loop, phase>>
    BY <1>4, SchedulerAssumption DEF RunNow, LoadOrStore, dispatch, TypeInv, TypeOK, Actors
  <2> QED
    BY <2>2, <2>3 DEF RunningInv
<1>5. ASSUME NEW p \in Profiles, DeleteProfile(p) PROVE RunningInv'
  <2>1. UNCHANGED <<running, claim, loop, phase>>
    BY <1>5 DEF DeleteProfile, dispatch
  <2>2. \A q \in RunIds : /\ runs'[q].pc # "none" <=> runs[q].pc # "none"
                          /\ runs[q].pc # "none" => runs'[q].task = runs[q].task
    BY <1>5 DEF DeleteProfile, Settle, TypeInv, TypeOK, Run, NoRun
  <2> QED
    BY <2>1, <2>2, RunningFrame DEF RunningInv
<1>6. CASE Request /\ UNCHANGED <<runs, running, claim, loop, phase>>
  BY <1>6, RunningFrame DEF RunningInv
<1>7. ASSUME PowerOff PROVE RunningInv'
  <2>1. \A r \in RunIds : ~Owned(r)'
    BY <1>7 DEF PowerOff, Settle, NoRun, Owned, TypeInv, TypeOK, Run
  <2> QED
    BY <1>7, <2>1 DEF PowerOff, RunningInv, RunningAccounted, NoSelfOverlap, Actors
<1>8. ASSUME NEW automatic \in AutoModes, Boot(automatic) PROVE RunningInv'
  <2>1. \A q \in RunIds : /\ runs'[q].pc # "none" <=> runs[q].pc # "none"
                          /\ runs[q].pc # "none" => runs'[q].task = runs[q].task
    BY <1>8 DEF Boot, MarkStaleRunsFailed, Settle, TypeInv, TypeOK, Run, NoRun
  <2>2. /\ UNCHANGED <<running, claim>> /\ claim[Dispatcher] = NoClaim
        /\ phase' = "serving"
    BY <1>8 DEF Boot, RunningInv
  <2> QED
    BY <2>1, <2>2, RunningFrame DEF RunningInv
<1>9. CASE Signal \/ Drain \/ Stop
  <2>1. UNCHANGED <<runs, running, claim, loop>> /\ phase # "off" /\ phase' # "off"
    BY <1>9 DEF Signal, Drain, Stop, StopStep, db, dispatch
  <2> QED
    BY <2>1, RunningFrame DEF RunningInv
<1>10. CASE Tick \/ UNCHANGED vars
  <2>1. UNCHANGED <<runs, running, claim, loop, phase>>
    BY <1>10 DEF Tick, vars, db, dispatch
  <2> QED
    BY <2>1, RunningFrame DEF RunningInv
<1>11. CASE Request
  <2>1. \/ \E c \in Clients, t \in Tasks : RunNow(c, t)
        \/ \E p \in Profiles : DeleteProfile(p)
        \/ UNCHANGED <<runs, running, claim, loop, phase>>
    <3>1. \A t \in Tasks, s \in Schedules, p \in Profiles, enabled \in BOOLEAN :
            CreateTask(t, s, p, enabled) => UNCHANGED <<runs, running, claim, loop, phase>>
      BY DEF CreateTask, dispatch
    <3>2. \A c \in Clients, t \in Tasks, s \in Schedules, p \in Profiles, enabled \in BOOLEAN :
            ReadTaskForUpdate(c, t, s, p, enabled)
              => UNCHANGED <<runs, running, claim, loop, phase>>
      BY DEF ReadTaskForUpdate, db, dispatch
    <3>3. \A c \in Clients : UpdateTask(c) => UNCHANGED <<runs, running, claim, loop, phase>>
      BY DEF UpdateTask, dispatch
    <3>4. \A t \in Tasks : DeleteTask(t) => UNCHANGED <<runs, running, claim, loop, phase>>
      BY DEF DeleteTask, dispatch
    <3> QED
      BY <1>11, <3>1, <3>2, <3>3, <3>4, Zenon DEF Request
  <2> QED
    BY <1>4, <1>5, <1>6, <1>11, <2>1
<1> QED
  BY <1>1, <1>2, <1>3, <1>7, <1>8, <1>9, <1>10, <1>11
  DEF Next, Process, Crash, MainReturns

LEMMA RunningInit == Init => RunningInv
BY DEF Init, RunningInv, RunningAccounted, NoSelfOverlap, Owned, NoRun, Actors

LEMMA RunningAlways == Spec => [](TypeInv /\ RunningInv)
<1>1. Init => TypeInv /\ RunningInv
  BY TypeInit, RunningInit
<1>2. TypeInv /\ RunningInv /\ [Next]_vars => TypeInv' /\ RunningInv'
  BY TypeStep, RunningStep
<1> QED
  BY <1>1, <1>2, PTL DEF Spec

\* Two runs of one task never overlap, for any number of tasks, manual requests and
\* restarts: whoever opens a run holds the task's entry in Scheduler.running, alone.
THEOREM MutualExclusion == Spec => []NoSelfOverlap
<1>1. RunningInv => NoSelfOverlap
  BY DEF RunningInv
<1> QED
  BY <1>1, RunningAlways, PTL

\* No entry of Scheduler.running is ever leaked or lost: each belongs to one caller of
\* spawn or to one goroutine, which deletes it as its last step.
THEOREM RunningMapExact == Spec => []RunningAccounted
<1>1. RunningInv => RunningAccounted
  BY DEF RunningInv
<1> QED
  BY <1>1, RunningAlways, PTL

-----------------------------------------------------------------------------
(* Deleted tasks *)

\* The store's statements leave a deleted row as it is and delete none.
LEMMA StatementsSpareDeleted ==
    ASSUME TypeOK, NEW t \in Tasks, NEW n, NEW l, NEW u \in Tasks,
           \/ SetTaskNextRun(t, n) \/ ConsumeOneShot(t) \/ MarkTaskRun(t, l)
    PROVE  /\ tasks'[u].state = tasks[u].state
           /\ tasks[u].state = "deleted" => tasks'[u] = tasks[u]
<1>1. tasks \in [Tasks -> TaskRow]
  BY DEF TypeOK
<1>2. \A row \in TaskRow : /\ [row EXCEPT !.next = n].state = row.state
                          /\ [row EXCEPT !.enabled = FALSE, !.next = NoTime].state = row.state
                          /\ [row EXCEPT !.last = l].state = row.state
  BY DEF TaskRow
<1>3. CASE ~Live(t)
  BY <1>3 DEF SetTaskNextRun, ConsumeOneShot, MarkTaskRun
<1>4. CASE Live(t)
  <2>1. PICK row : /\ row.state = tasks[t].state
                   /\ tasks' = [tasks EXCEPT ![t] = row]
    BY <1>1, <1>2, <1>4 DEF SetTaskNextRun, ConsumeOneShot, MarkTaskRun
  <2> QED
    BY <1>1, <1>4, <2>1 DEF Live
<1> QED
  BY <1>3, <1>4

LEMMA UnusedRowInert ==
    /\ \A state, p : /\ UnusedRow(state, p).state = state
                     /\ UnusedRow(state, p).enabled = FALSE
                     /\ UnusedRow(state, p).next = NoTime
    /\ AbsentRow.state = "absent" /\ AbsentRow.enabled = FALSE /\ AbsentRow.next = NoTime
BY DEF AbsentRow, UnusedRow

LEMMA DeletedStep == TypeInv /\ DeletedInert /\ [Next]_vars => DeletedInert'
<1> SUFFICES ASSUME TypeInv, DeletedInert, [Next]_vars PROVE DeletedInert'
  OBVIOUS
<1>1. ASSUME NEW t \in Tasks, NEW n, NEW l,
             \/ SetTaskNextRun(t, n) \/ ConsumeOneShot(t) \/ MarkTaskRun(t, l)
      PROVE  DeletedInert'
  BY <1>1, StatementsSpareDeleted DEF DeletedInert, TypeInv
<1>2. CASE UNCHANGED tasks
  BY <1>2 DEF DeletedInert
<1>3. CASE Loop
  <2>1. ASSUME NEW c \in due, Reserve(c) \/ Park(c) PROVE DeletedInert'
    <3>1. c.id \in Tasks /\ ReserveNext(c)
      BY <2>1 DEF Reserve, Park, TypeInv, TypeOK, TaskCopy
    <3> QED
      BY <3>1, <1>1 DEF ReserveNext
  <2>2. ASSUME NEW c \in due, ReserveFails(c) PROVE DeletedInert'
    BY <1>2, <2>2 DEF ReserveFails
  <2>3. CASE DispatchDue \/ DispatchClaim \/ DispatchSkip \/ LoopExit
    BY <1>2, <2>3 DEF DispatchDue, DispatchClaim, DispatchSkip, LoopExit, db
  <2> QED
    BY <1>3, <2>1, <2>2, <2>3 DEF Loop
<1>4. ASSUME NEW a \in Actors, OpenRun(a) PROVE DeletedInert'
  BY <1>2, <1>4 DEF OpenRun, StartTaskRun, StartTaskRunFails, LeaveSpawn
<1>5. ASSUME NEW r \in RunIds, Worker(r) PROVE DeletedInert'
  <2>1. CASE WorkerMark(r)
    <3>1. runs[r].task \in Tasks
      BY <2>1 DEF WorkerMark, TypeInv, TypeOK, Run, NoRun
    <3> QED
      BY <1>1, <1>2, <2>1, <3>1 DEF WorkerMark
  <2> QED
    BY <1>2, <1>5, <2>1
    DEF Worker, Launch, WorkerCancelled, WorkerNoProfile, WorkerExecute, WorkerFinish,
        WorkerRelease, WorkerOnly
<1>6. CASE Request
  <2>1. ASSUME NEW t \in Tasks, NEW s \in Schedules, NEW p \in Profiles,
               NEW enabled \in BOOLEAN, CreateTask(t, s, p, enabled)
        PROVE  DeletedInert'
    BY <2>1 DEF CreateTask, DeletedInert, TypeInv, TypeOK
  <2>2. ASSUME NEW c \in Clients, UpdateTask(c) PROVE DeletedInert'
    <3> DEFINE e == edit[c]
    <3>1. CASE ~(Live(e.id) /\ e.profile \in profiles)
      BY <1>2, <2>2, <3>1 DEF UpdateTask
    <3>2. CASE Live(e.id)
      <4>1. e.id \in Tasks
        BY <2>2 DEF UpdateTask, TypeInv, TypeOK, Edit
      <4>2. tasks'[e.id].state = tasks[e.id].state
        <5>1. \A row \in TaskRow :
                [row EXCEPT !.sched = e.sched, !.profile = e.profile,
                            !.enabled = e.enabled, !.next = e.next].state = row.state
          BY DEF TaskRow
        <5> QED
          BY <2>2, <4>1, <5>1 DEF UpdateTask, TypeInv, TypeOK
      <4>3. \A u \in Tasks \ {e.id} : tasks'[u] = tasks[u]
        BY <2>2, <4>1 DEF UpdateTask, TypeInv, TypeOK
      <4> HIDE DEF e
      <4> QED
        BY <3>2, <4>2, <4>3 DEF DeletedInert, Live
    <3> QED
      BY <3>1, <3>2
  <2>3. ASSUME NEW t \in Tasks, DeleteTask(t) PROVE DeletedInert'
    BY <2>3, UnusedRowInert DEF DeleteTask, DeletedInert, TypeInv, TypeOK
  <2>4. ASSUME NEW p \in Profiles, DeleteProfile(p) PROVE DeletedInert'
    BY <2>4, UnusedRowInert DEF DeleteProfile, DeletedInert, TypeInv, TypeOK
  <2>5. ASSUME NEW c \in Clients, NEW t \in Tasks, NEW s \in Schedules, NEW p \in Profiles,
               NEW enabled \in BOOLEAN, ReadTaskForUpdate(c, t, s, p, enabled)
        PROVE  DeletedInert'
    BY <1>2, <2>5 DEF ReadTaskForUpdate, db
  <2>6. ASSUME NEW c \in Clients, NEW t \in Tasks, RunNow(c, t) PROVE DeletedInert'
    BY <1>2, <2>6 DEF RunNow, db
  <2> QED
    BY <1>6, <2>1, <2>2, <2>3, <2>4, <2>5, <2>6, Zenon DEF Request
<1>7. CASE Process
  BY <1>2, <1>7 DEF Process, Crash, PowerOff, Signal, Drain, Stop, StopStep, MainReturns, Boot, db
<1>8. CASE Tick \/ UNCHANGED vars
  BY <1>2, <1>8 DEF Tick, vars, db
<1> QED
  BY <1>3, <1>4, <1>5, <1>6, <1>7, <1>8 DEF Next

\* A deleted task is never armed again, whichever stale copy of it the dispatcher, a
\* worker or an edit still writes back.
THEOREM DeletedStaysInert == Spec => []DeletedInert
<1>1. Init => DeletedInert
  <2>1. \A row \in StoredRows : row.state = "live"
    <3>1. \A sch, p : StoredRow(sch, p).state = "live"
      BY DEF StoredRow
    <3> QED
      BY <3>1 DEF StoredRows
  <2>2. ASSUME Init, NEW t \in Tasks PROVE tasks[t].state # "deleted"
    <3>1. tasks[t] = AbsentRow \/ tasks[t] \in StoredRows
      BY <2>2 DEF Init
    <3> QED
      BY <2>1, <3>1, UnusedRowInert
  <2> QED
    BY <2>2 DEF DeletedInert
<1>2. Init => TypeInv /\ DeletedInert
  BY <1>1, TypeInit
<1>3. TypeInv /\ DeletedInert /\ [Next]_vars => TypeInv' /\ DeletedInert'
  BY TypeStep, DeletedStep
<1> QED
  BY <1>2, <1>3, PTL DEF Spec

-----------------------------------------------------------------------------
(* Open rows *)

\* Every branch of a run goroutine closes its row before it lets the task go.
RowInv ==
    faults = 0 =>
        \A r \in RunIds :
            /\ phase # "off" /\ runs[r].status = "running" => runs[r].pc # "none"
            /\ runs[r].pc \in {"success", "failed", "releasing"}
                  => runs[r].status # "running"

LEMMA RowStep == TypeInv /\ RowInv /\ [Next]_vars => RowInv'
<1> SUFFICES ASSUME TypeInv, RowInv, [Next]_vars, faults' = 0
             PROVE  \A r \in RunIds :
                       /\ phase' # "off" /\ runs'[r].status = "running"
                             => runs'[r].pc # "none"
                       /\ runs'[r].pc \in {"success", "failed", "releasing"}
                             => runs'[r].status # "running"
  BY DEF RowInv
<1> DEFINE Goal == \A r \in RunIds :
                       /\ phase' # "off" /\ runs'[r].status = "running"
                             => runs'[r].pc # "none"
                       /\ runs'[r].pc \in {"success", "failed", "releasing"}
                             => runs'[r].status # "running"
<1>0. ~Fault /\ (NoFault => faults = 0)
  BY SchedulerAssumption DEF Fault, NoFault, TypeInv, TypeOK
<1>1. ASSUME UNCHANGED runs, faults = 0, phase = "off" => phase' = "off" PROVE Goal
  BY <1>1 DEF RowInv
<1>2. ASSUME NEW a \in Actors, OpenRun(a) PROVE Goal
  <2>1. CASE StartTaskRun(a)
    <3>1. faults = 0 /\ UNCHANGED phase
      BY <1>0, <2>1 DEF StartTaskRun, LeaveSpawn
    <3>2. PICK q \in RunIds :
            runs' = [runs EXCEPT ![q] = [task |-> claim[a].id, profile |-> claim[a].profile,
                                         status |-> "running", pc |-> FirstPc(a)]]
      BY <2>1 DEF StartTaskRun, FreeRuns
    <3> QED
      BY <3>1, <3>2 DEF FirstPc, RowInv, TypeInv, TypeOK
  <2>2. CASE StartTaskRunFails(a)
    BY <1>0, <1>1, <2>2 DEF StartTaskRunFails, LeaveSpawn
  <2> QED
    BY <1>2, <2>1, <2>2 DEF OpenRun
<1>3. ASSUME NEW q \in RunIds, Worker(q) PROVE Goal
  <2>1. faults = 0 /\ UNCHANGED phase
    BY <1>0, <1>3
    DEF Worker, Launch, WorkerCancelled, WorkerNoProfile, WorkerExecute, WorkerFinish,
        WorkerMark, WorkerRelease, WorkerOnly, FinishTaskRun, NoFault
  <2>2. runs[q] \in Run
    BY <1>3
    DEF Worker, Launch, WorkerCancelled, WorkerNoProfile, WorkerExecute, WorkerFinish,
        WorkerMark, WorkerRelease, TypeInv, TypeOK, NoRun
  <2>3. \A r \in RunIds \ {q} : runs'[r] = runs[r]
    BY <1>3
    DEF Worker, Launch, WorkerCancelled, WorkerNoProfile, WorkerExecute, WorkerFinish,
        WorkerMark, WorkerRelease, FinishTaskRun, TypeInv, TypeOK
  <2>4. /\ runs'[q].status = "running" => runs'[q].pc \in {"spawned", "executing"}
    <3>1. CASE Launch(q) \/ WorkerExecute(q)
      BY <2>2, <3>1 DEF Launch, WorkerExecute, Run, TypeInv, TypeOK
    <3>2. CASE WorkerMark(q)
      BY <2>1, <2>2, <3>2 DEF WorkerMark, RowInv, Run, TypeInv, TypeOK
    <3>3. CASE WorkerRelease(q)
      BY <2>1, <2>2, <3>3 DEF WorkerRelease, RowInv, Settle, Run, NoRun, TypeInv, TypeOK
    <3>4. ASSUME NEW status \in {"success", "failed"}, NEW pc, FinishTaskRun(q, status, pc)
          PROVE  runs'[q].status # "running"
      BY <1>0, <2>2, <3>4 DEF FinishTaskRun, Run, TypeInv, TypeOK
    <3> QED
      BY <1>3, <3>1, <3>2, <3>3, <3>4
      DEF Worker, WorkerCancelled, WorkerNoProfile, WorkerFinish
  <2> QED
    BY <2>1, <2>3, <2>4 DEF RowInv
<1>4. ASSUME NEW p \in Profiles, DeleteProfile(p) PROVE Goal
  <2>1. faults = 0 /\ UNCHANGED phase
    BY <1>4, <1>0 DEF DeleteProfile, NoFault
  <2>2. \A r \in RunIds : \/ runs'[r] = runs[r]
                          \/ runs'[r].status = "gone"
    BY <1>4 DEF DeleteProfile, Settle, NoRun, TypeInv, TypeOK, Run
  <2> QED
    BY <2>1, <2>2 DEF RowInv
<1>5. ASSUME PowerOff PROVE Goal
  <2>1. phase' = "off" /\ \A r \in RunIds : runs'[r].pc = "none"
    BY <1>5 DEF PowerOff, Settle, NoRun, TypeInv, TypeOK, Run
  <2> QED
    BY <2>1
<1>6. ASSUME NEW automatic \in AutoModes, Boot(automatic) PROVE Goal
  <2>1. MarkStaleRunsFailed
    BY <1>0, <1>6 DEF Boot
  <2>2. \A r \in RunIds : runs'[r].status # "running"
    BY <2>1 DEF MarkStaleRunsFailed, Settle, NoRun, TypeInv, TypeOK, Run
  <2> QED
    BY <2>2
<1>7. CASE Loop
  <2>1. UNCHANGED runs /\ UNCHANGED phase
    BY <1>7 DEF Loop, DispatchDue, DispatchClaim, DispatchSkip, LoopExit, Reserve, Park,
                ReserveFails, TakeCopy, db
  <2>2. NoFault \/ Fault
    BY <1>7 DEF Loop, DispatchDue, DispatchClaim, DispatchSkip, LoopExit, Reserve, Park,
                ReserveFails, NoFault
  <2> QED
    BY <1>0, <1>1, <2>1, <2>2
<1>8. CASE Request
  <2>1. ASSUME UNCHANGED <<runs, phase, faults>> PROVE Goal
    BY <1>0, <1>1, <2>1 DEF NoFault
  <2>2. ASSUME NEW t \in Tasks, NEW s \in Schedules, NEW p \in Profiles,
               NEW enabled \in BOOLEAN, CreateTask(t, s, p, enabled)
        PROVE  Goal
    BY <2>1, <2>2 DEF CreateTask
  <2>3. ASSUME NEW c \in Clients, NEW t \in Tasks, NEW s \in Schedules, NEW p \in Profiles,
               NEW enabled \in BOOLEAN, ReadTaskForUpdate(c, t, s, p, enabled)
        PROVE  Goal
    BY <2>1, <2>3 DEF ReadTaskForUpdate, db
  <2>4. ASSUME NEW c \in Clients, UpdateTask(c) PROVE Goal
    BY <2>1, <2>4 DEF UpdateTask
  <2>5. ASSUME NEW t \in Tasks, DeleteTask(t) PROVE Goal
    BY <2>1, <2>5 DEF DeleteTask
  <2>6. ASSUME NEW c \in Clients, NEW t \in Tasks, RunNow(c, t) PROVE Goal
    BY <2>1, <2>6 DEF RunNow, db
  <2> HIDE DEF Goal
  <2>7. Goal
    BY <1>4, <1>8, <2>2, <2>3, <2>4, <2>5, <2>6, Zenon DEF Request
  <2> QED
    BY <2>7 DEF Goal
<1>9. CASE Signal \/ Drain \/ Stop \/ Tick \/ UNCHANGED vars
  <2>1. UNCHANGED <<runs, faults>> /\ (phase = "off" => phase' = "off")
    BY <1>9 DEF Signal, Drain, Stop, StopStep, Tick, vars, db
  <2> QED
    BY <1>0, <1>1, <2>1 DEF NoFault
<1> QED
  BY <1>2, <1>3, <1>5, <1>6, <1>7, <1>8, <1>9 DEF Next, Process, Crash, MainReturns

LEMMA RowAlways == Spec => [](TypeInv /\ RowInv)
<1>1. Init => TypeInv /\ RowInv
  <2>1. Init => RowInv
    BY DEF Init, RowInv, NoRun
  <2> QED
    BY <2>1, TypeInit
<1>2. TypeInv /\ RowInv /\ [Next]_vars => TypeInv' /\ RowInv'
  BY TypeStep, RowStep
<1> QED
  BY <1>1, <1>2, PTL DEF Spec

\* As long as the store answers, a row that says "running" has a goroutine at work on
\* it: no branch of spawn, execute, boot or profile deletion leaves a row spinning.
THEOREM NoSpinningRow == Spec => []RunningRowOwned
<1>1. RowInv => RunningRowOwned
  BY DEF RowInv, RunningRowOwned, Owned
<1> QED
  BY <1>1, RowAlways, PTL

\* No other step leads from "drained" to "stopped".
LEMMA OnlyStop == [Next]_vars /\ phase = "drained" /\ phase' = "stopped" => Stop
<1> SUFFICES ASSUME [Next]_vars, phase = "drained", phase' = "stopped" PROVE Stop
  OBVIOUS
<1>1. ~Loop
  BY DEF Loop, DispatchDue, DispatchClaim, DispatchSkip, LoopExit, Reserve, Park,
         ReserveFails, TakeCopy
<1>2. \A a \in Actors : ~OpenRun(a)
  BY DEF OpenRun, StartTaskRun, StartTaskRunFails, LeaveSpawn
<1>3. \A r \in RunIds : ~Worker(r)
  BY DEF Worker, Launch, WorkerCancelled, WorkerNoProfile, WorkerExecute, WorkerFinish, WorkerMark,
         WorkerRelease, WorkerOnly
<1>4. ~Request
  <2>1. \A t \in Tasks, s \in Schedules, p \in Profiles, enabled \in BOOLEAN :
          ~CreateTask(t, s, p, enabled)
    BY DEF CreateTask
  <2>2. \A c \in Clients, t \in Tasks, s \in Schedules, p \in Profiles, enabled \in BOOLEAN :
          ~ReadTaskForUpdate(c, t, s, p, enabled)
    BY DEF ReadTaskForUpdate
  <2>3. \A c \in Clients : ~UpdateTask(c)
    BY DEF UpdateTask
  <2>4. \A c \in Clients, t \in Tasks : ~RunNow(c, t)
    BY DEF RunNow
  <2>5. \A t \in Tasks : ~DeleteTask(t)
    BY DEF DeleteTask
  <2>6. \A p \in Profiles : ~DeleteProfile(p)
    BY DEF DeleteProfile
  <2> QED
    BY <2>1, <2>2, <2>3, <2>4, <2>5, <2>6, Zenon DEF Request
<1>5. ~Tick /\ ~UNCHANGED vars
  BY DEF Tick, vars
<1>6. ~Crash /\ ~Signal /\ ~Drain /\ ~MainReturns /\ \A automatic \in AutoModes : ~Boot(automatic)
  BY DEF Crash, PowerOff, Signal, Drain, MainReturns, Boot
<1> QED
  BY <1>1, <1>2, <1>3, <1>4, <1>5, <1>6 DEF Next, Process

\* Scheduler.Stop waits long enough: when it returns, every row that is still open is one
\* that a late request has just inserted, whose goroutine it has not started.
THEOREM ShutdownIsClean == Spec => ShutdownClosesRuns
<1>1. TypeInv /\ RowInv /\ [Next]_vars =>
        [phase = "drained" /\ phase' = "stopped" /\ faults = 0 =>
            \A r \in RunIds : runs'[r].status = "running" => runs'[r].pc = "opened"]_vars
  <2> SUFFICES ASSUME RowInv, [Next]_vars, phase = "drained", phase' = "stopped", faults = 0,
                      NEW r \in RunIds, runs'[r].status = "running"
               PROVE  runs'[r].pc = "opened"
    OBVIOUS
  <2>1. Stop
    BY OnlyStop
  <2>2. runs[r].pc \in {"none", "opened"} /\ runs[r].pc # "none" /\ UNCHANGED runs
    BY <2>1 DEF Stop, StopStep, RowInv, db
  <2> QED
    BY <2>2
<1> QED
  BY <1>1, RowAlways, PTL DEF Spec, ShutdownClosesRuns

-----------------------------------------------------------------------------
(* Slots *)

\* What handleUpdateTask is about to write keeps the invariant too.
SlotInv ==
    /\ \A t \in Tasks : tasks[t].enabled => tasks[t].next # NoTime
    /\ \A c \in Clients : edit[c] # NoEdit /\ edit[c].enabled => edit[c].next # NoTime

LEMMA StatementsKeepSlot ==
    ASSUME TypeOK, NEW t \in Tasks, NEW n \in Nat, NEW l, NEW u \in Tasks,
           tasks[u].enabled => tasks[u].next # NoTime,
           \/ SetTaskNextRun(t, n) \/ ConsumeOneShot(t) \/ MarkTaskRun(t, l)
    PROVE  tasks'[u].enabled => tasks'[u].next # NoTime
<1>1. tasks[t] \in TaskRow /\ n # NoTime
  BY DEF TypeOK, NoTime
<1>2. CASE SetTaskNextRun(t, n)
  BY <1>1, <1>2 DEF SetTaskNextRun, TypeOK, TaskRow
<1>3. CASE ConsumeOneShot(t)
  BY <1>1, <1>3 DEF ConsumeOneShot, TypeOK, TaskRow
<1>4. CASE MarkTaskRun(t, l)
  BY <1>1, <1>4 DEF MarkTaskRun, TypeOK, TaskRow
<1> QED
  BY <1>2, <1>3, <1>4

LEMMA SlotStep ==
    ASSUME BrokenExprs = {}, TypeInv, SlotInv, [Next]_vars PROVE SlotInv'
<1>1. ASSUME UNCHANGED edit, NEW t \in Tasks, NEW n \in Nat, NEW l,
             \/ SetTaskNextRun(t, n) \/ ConsumeOneShot(t) \/ MarkTaskRun(t, l)
      PROVE  SlotInv'
  BY <1>1, StatementsKeepSlot DEF SlotInv, TypeInv
<1>2. CASE UNCHANGED tasks /\ UNCHANGED edit
  BY <1>2 DEF SlotInv
<1>3. CASE Loop
  <2>1. ASSUME NEW c \in due, Reserve(c) \/ Park(c) PROVE SlotInv'
    <3>1. c \in TaskCopy /\ c.id \in Tasks /\ c.sched \in Schedules
      BY DEF TypeInv, TypeOK, TaskCopy
    <3>2. ReserveNext(c) /\ UNCHANGED edit /\ ~ParkedExpr(c)
      BY <2>1 DEF Reserve, Park, TakeCopy, ParkedExpr
    <3>3. c.sched.kind # "once" => CronNext(c.sched.expr, dueAt) \in Nat
      BY <3>1, SchedulesTyped, SchedulerAssumption DEF TypeInv, TypeOK
    <3> QED
      BY <1>1, <3>1, <3>2, <3>3 DEF ReserveNext
  <2>2. ASSUME NEW c \in due, ReserveFails(c) PROVE SlotInv'
    BY <1>2, <2>2 DEF ReserveFails, TakeCopy
  <2>3. CASE DispatchDue \/ DispatchClaim \/ DispatchSkip \/ LoopExit
    BY <1>2, <2>3 DEF DispatchDue, DispatchClaim, DispatchSkip, LoopExit, db
  <2> QED
    BY <1>3, <2>1, <2>2, <2>3 DEF Loop
<1>4. ASSUME NEW a \in Actors, OpenRun(a) PROVE SlotInv'
  BY <1>2, <1>4 DEF OpenRun, StartTaskRun, StartTaskRunFails, LeaveSpawn
<1>5. ASSUME NEW r \in RunIds, Worker(r) PROVE SlotInv'
  <2>1. CASE WorkerMark(r)
    <3>1. runs[r].task \in Tasks /\ UNCHANGED edit
      BY <2>1 DEF WorkerMark, TypeInv, TypeOK, Run, NoRun
    <3> QED
      BY <1>1, <1>2, <2>1, <3>1 DEF WorkerMark
  <2> QED
    BY <1>2, <1>5, <2>1
    DEF Worker, Launch, WorkerCancelled, WorkerNoProfile, WorkerExecute, WorkerFinish,
        WorkerRelease, WorkerOnly
<1>6. CASE Request
  <2>1. ASSUME NEW t \in Tasks, NEW s \in Schedules, NEW p \in Profiles,
               NEW enabled \in BOOLEAN, CreateTask(t, s, p, enabled)
        PROVE  SlotInv'
    <3>1. enabled => NextRunForNewTask(enabled, s) # NoTime
      BY FirstSlotTyped DEF NextRunForNewTask, NoTime, TypeInv
    <3> QED
      BY <2>1, <3>1 DEF CreateTask, SlotInv, TypeInv, TypeOK
  <2>2. ASSUME NEW c \in Clients, NEW t \in Tasks, NEW s \in Schedules, NEW p \in Profiles,
               NEW enabled \in BOOLEAN, ReadTaskForUpdate(c, t, s, p, enabled)
        PROVE  SlotInv'
    <3>1. enabled => NextRunAfterEdit(tasks[t], enabled, s) # NoTime
      BY FirstSlotTyped DEF NextRunAfterEdit, NoTime, TypeInv
    <3> QED
      BY <2>2, <3>1 DEF ReadTaskForUpdate, SlotInv, TypeInv, TypeOK, db
  <2>3. ASSUME NEW c \in Clients, UpdateTask(c) PROVE SlotInv'
    <3> DEFINE e == edit[c]
    <3>1. e # NoEdit /\ e.id \in Tasks
      BY <2>3 DEF UpdateTask, TypeInv, TypeOK, Edit
    <3>2. \A d \in Clients : edit'[d] = edit[d] \/ edit'[d] = NoEdit
      BY <2>3 DEF UpdateTask, TypeInv, TypeOK
    <3>3. \A row \in TaskRow :
            LET new == [row EXCEPT !.sched = e.sched, !.profile = e.profile,
                                   !.enabled = e.enabled, !.next = e.next]
            IN  (new.enabled <=> e.enabled) /\ new.next = e.next
      BY DEF TaskRow
    <3>4. \A t \in Tasks : \/ tasks'[t] = tasks[t]
                           \/ (tasks'[t].enabled <=> e.enabled) /\ tasks'[t].next = e.next
      BY <2>3, <3>1, <3>3 DEF UpdateTask, TypeInv, TypeOK
    <3> QED
      BY <3>1, <3>2, <3>4 DEF SlotInv
  <2>4. ASSUME NEW t \in Tasks, DeleteTask(t) PROVE SlotInv'
    BY <2>4, UnusedRowInert DEF DeleteTask, SlotInv, TypeInv, TypeOK
  <2>5. ASSUME NEW p \in Profiles, DeleteProfile(p) PROVE SlotInv'
    BY <2>5, UnusedRowInert DEF DeleteProfile, SlotInv, TypeInv, TypeOK
  <2>6. ASSUME NEW c \in Clients, NEW t \in Tasks, RunNow(c, t) PROVE SlotInv'
    BY <1>2, <2>6 DEF RunNow, db
  <2> QED
    BY <1>6, <2>1, <2>2, <2>3, <2>4, <2>5, <2>6, Zenon DEF Request
<1>7. CASE Process
  BY <1>2, <1>7 DEF Process, Crash, PowerOff, Signal, Drain, Stop, StopStep, MainReturns, Boot, SlotInv, db
<1>8. CASE Tick \/ UNCHANGED vars
  BY <1>2, <1>8 DEF Tick, vars, db
<1> QED
  BY <1>3, <1>4, <1>5, <1>6, <1>7, <1>8 DEF Next

LEMMA SlotInit == Init => SlotInv
<1> SUFFICES ASSUME Init PROVE SlotInv
  OBVIOUS
<1>1. \A row \in StoredRows : row.next # NoTime
  <2>1. ASSUME NEW s \in Stored, NEW p \in Profiles PROVE StoredRow(s, p).next # NoTime
    BY StoredAssumption, SchedulesTyped, SchedulerAssumption
    DEF StoredRow, StoredSlot, Times, NoTime
  <2> QED
    BY <2>1 DEF StoredRows
<1>2. \A t \in Tasks : tasks[t] = AbsentRow \/ tasks[t] \in StoredRows
  BY DEF Init
<1>3. \A c \in Clients : edit[c] = NoEdit
  BY DEF Init
<1> QED
  BY <1>1, <1>2, <1>3, UnusedRowInert DEF SlotInv

\* With expressions that the parser accepts, an enabled task always has a slot: no
\* order of edits, dispatches and restarts leaves one that silently never runs again.
THEOREM NoSilentTask == ASSUME BrokenExprs = {} PROVE Spec => []EnabledHasSlot
<1>1. Init => TypeInv /\ SlotInv
  BY TypeInit, SlotInit
<1>2. TypeInv /\ SlotInv /\ [Next]_vars => TypeInv' /\ SlotInv'
  BY TypeStep, SlotStep
<1>3. SlotInv => EnabledHasSlot
  BY DEF SlotInv, EnabledHasSlot
<1> QED
  BY <1>1, <1>2, <1>3, PTL DEF Spec

-----------------------------------------------------------------------------
(* The run history *)

\* The task of an open row, the refinement mapping of Scheduler's Ledger.
OpenTask(r) == IF runs[r].status = "running" THEN runs[r].task ELSE NoTask

\* Nobody is inside spawn while the process is off.
ClaimsUp == phase = "off" => \A a \in Actors : claim[a] = NoClaim

LEMMA ClaimsUpStep == TypeInv /\ RunningInv /\ ClaimsUp /\ [Next]_vars => ClaimsUp'
<1> SUFFICES ASSUME TypeInv, RunningInv, ClaimsUp, [Next]_vars, phase' = "off",
                    NEW a \in Actors
             PROVE  claim'[a] = NoClaim
  BY DEF ClaimsUp
<1>1. CASE PowerOff
  BY <1>1 DEF PowerOff
<1>2. CASE phase = "off" /\ UNCHANGED claim
  BY <1>2 DEF ClaimsUp
<1>3. CASE Loop
  <2>1. UNCHANGED phase /\ loop # "off"
    BY <1>3 DEF Loop, DispatchDue, DispatchClaim, DispatchSkip, LoopExit, Reserve, Park,
                ReserveFails, TakeCopy
  <2> QED
    BY <2>1 DEF RunningInv
<1>4. ASSUME NEW b \in Actors, OpenRun(b) PROVE FALSE
  <2>1. UNCHANGED phase /\ claim[b] # NoClaim
    BY <1>4 DEF OpenRun, StartTaskRun, StartTaskRunFails, LeaveSpawn
  <2> QED
    BY <2>1 DEF ClaimsUp
<1>5. ASSUME NEW r \in RunIds, Worker(r) PROVE phase = "off" /\ UNCHANGED claim
  BY <1>5 DEF Worker, Launch, WorkerCancelled, WorkerNoProfile, WorkerExecute, WorkerFinish,
              WorkerMark, WorkerRelease, WorkerOnly
<1>6. ASSUME Request PROVE phase = "off" /\ UNCHANGED claim
  <2> DEFINE Goal == phase = "off" /\ UNCHANGED claim
  <2>1. \A t \in Tasks, s \in Schedules, p \in Profiles, enabled \in BOOLEAN :
          CreateTask(t, s, p, enabled) => Goal
    BY DEF CreateTask
  <2>2. \A c \in Clients, t \in Tasks, s \in Schedules, p \in Profiles, enabled \in BOOLEAN :
          ReadTaskForUpdate(c, t, s, p, enabled) => Goal
    BY DEF ReadTaskForUpdate
  <2>3. \A c \in Clients : UpdateTask(c) => Goal
    BY DEF UpdateTask
  <2>4. \A c \in Clients, t \in Tasks : RunNow(c, t) => Goal
    BY DEF RunNow, Idle, Serving
  <2>5. \A t \in Tasks : DeleteTask(t) => Goal
    BY DEF DeleteTask
  <2>6. \A p \in Profiles : DeleteProfile(p) => Goal
    BY DEF DeleteProfile
  <2> HIDE DEF Goal
  <2>7. Goal
    BY <1>6, <2>1, <2>2, <2>3, <2>4, <2>5, <2>6, Zenon DEF Request
  <2> QED
    BY <2>7 DEF Goal
<1>7. CASE Signal \/ Drain \/ Stop \/ \E automatic \in AutoModes : Boot(automatic)
  BY <1>7 DEF Signal, Drain, Stop, StopStep, Boot
<1>8. CASE Tick \/ UNCHANGED vars
  BY <1>2, <1>8 DEF Tick, vars
<1> QED
  BY <1>1, <1>2, <1>3, <1>4, <1>5, <1>6, <1>7, <1>8 DEF Next, Process, Crash, MainReturns

\* A step that does not open a row leaves each open row as it is or closes it.
LEMMA RowsOnlyClose ==
    ASSUME TypeInv, [Next]_vars, \A a \in Actors : ~StartTaskRun(a), NEW r \in RunIds
    PROVE  OpenTask(r)' = OpenTask(r) \/ OpenTask(r)' = NoTask
<1> DEFINE Goal == OpenTask(r)' = OpenTask(r) \/ OpenTask(r)' = NoTask
<1>1. CASE UNCHANGED runs
  BY <1>1 DEF OpenTask
<1>2. CASE \E a \in Actors : OpenRun(a)
  BY <1>1, <1>2 DEF OpenRun, StartTaskRunFails
<1>3. ASSUME NEW q \in RunIds, Worker(q) PROVE Goal
  <2>1. runs[q] \in Run /\ \A u \in RunIds \ {q} : runs'[u] = runs[u]
    BY <1>3
    DEF Worker, Launch, WorkerCancelled, WorkerNoProfile, WorkerExecute, WorkerFinish,
        WorkerMark, WorkerRelease, FinishTaskRun, TypeInv, TypeOK, NoRun
  <2> DEFINE Closed == OpenTask(q)' = OpenTask(q) \/ OpenTask(q)' = NoTask
  <2>2. ASSUME NEW status \in {"success", "failed"}, NEW pc, FinishTaskRun(q, status, pc)
        PROVE  Closed
    BY <2>1, <2>2 DEF FinishTaskRun, OpenTask, Run, TypeInv, TypeOK
  <2>3. ASSUME Launch(q) \/ WorkerExecute(q) \/ WorkerMark(q) \/ WorkerRelease(q)
        PROVE  Closed
    BY <2>1, <2>3
    DEF Launch, WorkerExecute, WorkerMark, WorkerRelease, OpenTask, Settle, NoRun, Run, TypeInv, TypeOK
  <2>4. Closed => Goal
    BY <2>1 DEF OpenTask
  <2> HIDE DEF Closed, Goal
  <2>5. WorkerCancelled(q) => Closed
    BY <2>2 DEF WorkerCancelled
  <2>6. WorkerNoProfile(q) => Closed
    BY <2>2 DEF WorkerNoProfile
  <2>7. WorkerFinish(q) => Closed
    BY <2>2 DEF WorkerFinish
  <2> QED
    BY <1>3, <2>3, <2>4, <2>5, <2>6, <2>7, Zenon DEF Worker
<1>4. ASSUME NEW p \in Profiles, DeleteProfile(p) PROVE Goal
  BY <1>4 DEF DeleteProfile, Settle, OpenTask, NoRun, TypeInv, TypeOK, Run
<1>5. CASE PowerOff
  BY <1>5 DEF PowerOff, Settle, OpenTask, NoRun, TypeInv, TypeOK, Run
<1>6. ASSUME NEW automatic \in AutoModes, Boot(automatic) PROVE Goal
  BY <1>1, <1>6 DEF Boot, MarkStaleRunsFailed, Settle, OpenTask, NoRun, TypeInv, TypeOK, Run
<1>7. CASE Loop
  BY <1>1, <1>7 DEF Loop, DispatchDue, DispatchClaim, DispatchSkip, LoopExit, Reserve, Park,
                    ReserveFails, TakeCopy, db
<1>8. CASE Request
  <2>1. ASSUME NEW t \in Tasks, NEW s \in Schedules, NEW p \in Profiles,
               NEW enabled \in BOOLEAN, CreateTask(t, s, p, enabled)
        PROVE  Goal
    BY <1>1, <2>1 DEF CreateTask
  <2>2. ASSUME NEW c \in Clients, NEW t \in Tasks, NEW s \in Schedules, NEW p \in Profiles,
               NEW enabled \in BOOLEAN, ReadTaskForUpdate(c, t, s, p, enabled)
        PROVE  Goal
    BY <1>1, <2>2 DEF ReadTaskForUpdate, db
  <2>3. ASSUME NEW c \in Clients, UpdateTask(c) PROVE Goal
    BY <1>1, <2>3 DEF UpdateTask
  <2>4. ASSUME NEW t \in Tasks, DeleteTask(t) PROVE Goal
    BY <1>1, <2>4 DEF DeleteTask
  <2>5. ASSUME NEW c \in Clients, NEW t \in Tasks, RunNow(c, t) PROVE Goal
    BY <1>1, <2>5 DEF RunNow, db
  <2> HIDE DEF Goal
  <2>6. Goal
    BY <1>4, <1>8, <2>1, <2>2, <2>3, <2>4, <2>5, Zenon DEF Request
  <2> QED
    BY <2>6 DEF Goal
<1>9. CASE Signal \/ Drain \/ Stop \/ Tick \/ UNCHANGED vars
  BY <1>1, <1>9 DEF Signal, Drain, Stop, StopStep, Tick, vars, db
<1> QED
  BY <1>2, <1>3, <1>5, <1>6, <1>7, <1>8, <1>9 DEF Next, Process, Crash, MainReturns

LEMMA LedgerStep ==
    ASSUME TypeInv, RunningInv, RowInv, ClaimsUp, faults = 0, [Next]_vars
    PROVE  Ledger!Next
<1>1. CASE \E a \in Actors : StartTaskRun(a)
  <2>1. PICK a \in Actors : StartTaskRun(a)
    BY <1>1
  <2>2. PICK r \in RunIds :
          /\ runs[r] = NoRun
          /\ runs' = [runs EXCEPT ![r] = [task |-> claim[a].id, profile |-> claim[a].profile,
                                          status |-> "running", pc |-> FirstPc(a)]]
    BY <2>1 DEF StartTaskRun, FreeRuns
  <2> DEFINE t == claim[a].id
  <2>3. t \in Tasks /\ phase # "off"
    BY <2>1 DEF StartTaskRun, ClaimsUp, TypeInv, TypeOK, Claim
  <2>4. OpenTask(r) = NoTask /\ OpenTask(r)' = t
    BY <2>2 DEF OpenTask, NoRun, TypeInv, TypeOK
  <2>5. \A q \in RunIds \ {r} : OpenTask(q)' = OpenTask(q)
    BY <2>2 DEF OpenTask, TypeInv, TypeOK
  <2>6. \A q \in RunIds : OpenTask(q) # t
    <3>1. \A q \in RunIds : runs[q].status = "running" => Owned(q)
      BY <2>3 DEF RowInv, Owned
    <3>2. claim[a] # NoClaim /\ NoTask # t
      BY <2>1, <2>3, SchedulerAssumption DEF StartTaskRun
    <3> QED
      BY <3>1, <3>2 DEF RunningInv, RunningAccounted, OpenTask
  <2>7. Ledger!Open(r, t)
    BY <2>4, <2>5, <2>6 DEF Ledger!Open, OpenTask
  <2>8. r \in RunIds /\ t \in Tasks
    BY <2>3
  <2> HIDE DEF t
  <2>9. \E q \in RunIds, u \in Tasks : Ledger!Open(q, u)
    <3> USE <2>8 DEF Ledger!Open
    <3> WITNESS r \in RunIds, t \in Tasks
    <3> QED
      BY <2>7
  <2> QED
    BY <2>9 DEF Ledger!Next
<1>2. CASE \A a \in Actors : ~StartTaskRun(a)
  <2> DEFINE after(r) == IF runs'[r].status = "running" THEN runs'[r].task ELSE NoTask
             S == {r \in RunIds : after(r) = NoTask}
  <2>1. \A r \in RunIds : after(r) = IF r \in S THEN NoTask ELSE OpenTask(r)
    BY <1>2, RowsOnlyClose DEF OpenTask
  <2>2. Ledger!Close(S)
    BY <2>1 DEF Ledger!Close, OpenTask
  <2>3. S \in SUBSET RunIds
    OBVIOUS
  <2> HIDE DEF S
  <2>4. \E Z \in SUBSET RunIds : Ledger!Close(Z)
    <3> USE <2>3 DEF Ledger!Close
    <3> WITNESS S \in SUBSET RunIds
    <3> QED
      BY <2>2
  <2> QED
    BY <2>4 DEF Ledger!Next
<1> QED
  BY <1>1, <1>2

\* Without a failing statement the task_runs table implements the safety part of the
\* run history: across any number of crashes and restarts, a run opens only for a task
\* that has no open run.
THEOREM LedgerSafe == ASSUME MaxFaults = 0 PROVE Spec => Ledger!Safety
<1>1. Init => ClaimsUp /\ Ledger!Init
  BY DEF Init, ClaimsUp, Ledger!Init, NoRun
<1>2. TypeInv /\ RunningInv /\ ClaimsUp /\ [Next]_vars => ClaimsUp'
  BY ClaimsUpStep
<1>3. TypeInv => faults = 0
  BY DEF TypeInv, TypeOK
<1>4. TypeInv /\ RunningInv /\ RowInv /\ ClaimsUp /\ [Next]_vars => Ledger!Next
  BY <1>3, LedgerStep
<1> QED
  BY <1>1, <1>2, <1>4, RunningAlways, RowAlways, PTL DEF Spec, Ledger!Safety
=============================================================================
