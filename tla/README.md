# codeck: a TLA+ model of its core

codeck is a single Go process with a web UI. It runs the Codex CLI for two
kinds of work, scheduled tasks and chat turns, keeps everything durable in one
SQLite database, and is stopped and restarted by systemd. This directory holds a
model of the parts where concurrency, failure and restart meet: TLC checks them on
small instances and TLAPS proves the safety properties of the passing runs for
instances of every size, a few under a stated hypothesis.

    tlc -workers 2 -config MCScheduler_safety.cfg MCScheduler
    tlapm SchedulerProofs.tla

## 1. The system

| component | state | operations | interacts with |
|---|---|---|---|
| Scheduler (`internal/scheduler`) | `running` map, one polling goroutine, one goroutine per run, a context | `Start`, `Stop`, `RunNow`, `dispatchDue`, `reserveNext`, `spawn`, `execute` | store (every decision is a row), Codex service, root context |
| Store (`internal/store`) | tables `profiles`, `conversations`, `messages`, `tasks`, `task_runs`, `model_prices`, `balance_configs` | one SQL statement each; two transactions (`BeginConversationTurn`, `FinalizeConversationTurn`) | everything; a single connection serialises the statements |
| Task API (`internal/httpapi/tasks.go`) | none of its own | create, update (read, then write), delete, run | store, scheduler |
| Chat (`internal/httpapi/chat.go`, `store/conversation.go`) | conversations, messages, thread ids | create, delete, patch, stream one turn | store, Codex service |
| Codex service (`internal/codex/service.go`, `inbound.go`) | execution slots (4), `homeMu` | `Run`, `PreviewInbound` | homes, child process |
| Homes and profiles (`codex/home.go`, `httpapi/profiles.go`) | one home and one workspace directory per profile, the `profiles` rows | `EnsureHome`, `RemoveHome`; create, update, delete | Codex service, file system |
| JSON-RPC client, App Server (`jsonrpc.go`, `appserver.go`) | pending calls, the child process | `Call`, `Close`, read loop, handshake, reap | account handlers |
| Caches (`account.go`, `dashboard.go`) | one value and its time each, under a mutex | load | App Server, CLI |
| Usage report and prices (`internal/usage`, `httpapi/usage.go`, `store/price.go`) | cached report under a mutex, price table | report, rescan, price changes, seed, restore | session files, store |
| Balances (`internal/balances`, `httpapi/balances.go`, `store/balance.go`) | next deadlines, in-flight set, wake channel, credential versions | `ScheduleUpdate`, `RefreshNow`, the run loop, handlers | providers, store |
| Process (`main.go`) | root context | boot repairs, start, signal, shutdown | all |
| Web UI (`web/src`) | nothing durable | requests | the API |

What is hard here:

- **Two actors on one thing.** The polling loop and any number of requests start
  runs of one task (`sync.Map.LoadOrStore`), refreshes of one balance (`inFlight`), turns of
  one conversation (a partial unique index), and provision one home (`homeMu`, which the
  profile handlers do not take). Each guard must be released on every path.
- **Copies.** `dispatchDue`, `execute`, `handleUpdateTask`, `handleChatStream`,
  `handleUpdateBalance`, `refresh` and the price restore all read a row, and use or write
  the copy several statements later.
- **Order.** The slot is moved on before the run is opened, the run row closed before
  the task is marked, the task released last; a call registers after it has checked that
  the client is open; a scan reads prices before its report is stored.
- **Restart.** Rows in state `running` outlive the process; the next one repairs them.
- **Shutdown.** Requests arrive until `srv.Shutdown` returns, runs are cancelled,
  chat runs are not, `Stop` waits.
- **Another process.** The App Server answers late, in any order, never, or dies; codex
  reads a file that the next run may be rewriting.

What makes the components correct: a task never overlaps with itself; a slot is
handed out once; what is due is dispatched; an enabled task has a slot and a deleted
one has none; a row that says `running` has somebody who will close it; one Codex process
per session; a conversation keeps its session; execution slots are neither leaked nor
overbooked; a run starts in the home of its own settings; a call is answered once, with its
own answer, and not waited for after the server has died; a price change reaches the report; a
balance was fetched with the key it is shown for, and no configuration drops out of polling.

## 2. The modules

| module | what it is |
|---|---|
| `RunLedger` | abstract: what a run history promises. At most one open run per task; each is closed in the end |
| `Scheduler` | task store, loop, spawn, run goroutines, task and profile handlers, process life; implements `RunLedger` |
| `ChatTurn` | conversations, messages, the chat handler, process life; implements `RunLedger` |
| `SlotPool` | abstract: a pool of execution slots. Who asks gets one or gives up |
| `CodexService` | `Run` and `PreviewInbound`, homes on disk, profile handlers; implements `SlotPool` |
| `ProbeCache` | abstract, and `codexStatus` as it is: one probe per time window, by one request at a time |
| `RPCClient` | the JSON-RPC client and the App Server process |
| `AccountCache` | `RPCClient` composed with the handshake and `loadAccount`; implements `ProbeCache` |
| `BalanceManager` | polling loop, refreshes, balance handlers and table, process life |
| `UsageCache` | report cache, price table and its handlers |
| `SchedulerProofs`, `DispatchProofs`, `ChatProofs`, `CodexProofs`, `RPCProofs`, `BalanceProofs`, `UsageProofs` | theorems about these modules and their proofs |
| `PriceProofs` | theorems about the operators of `UsageCache` that price a model; `UsageProofs` builds on them |
| `MCScheduler`, ... | the instances: a cron library, stored tasks, a price list, symmetry |

The components share the process, the store and the execution slots. They are composed
where they act on each other's state: `AccountCache` EXTENDS `RPCClient`, both run histories
map to `RunLedger`, and `CodexService` takes its runs from scheduler and chat alike (a run
or a preview of some profile may be asked for at any time, which is all that those two
do to it). In the other direction, scheduler and chat see of a run that it ends, in any of
its outcomes.

### 2.1 Scheduler

A step is one SQL statement (the store has one connection) or one operation on the
`running` map. `tasks`, `profiles`, `runs` are the tables; `running`, `claim`, `loop`,
`due`, `cur`, `edit` are memory and are lost in a crash.

- **Loop.** `DispatchDue` reads the clock once and copies the due rows;
  `Reserve`/`Park`/`ReserveFails` are `reserveNext` on the next copy in order of its slot;
  `DispatchClaim`/`DispatchSkip` are the two outcomes of `LoadOrStore`.
- **spawn.** A caller is a request or the dispatcher. `claim[a]` is the task it
  has put into `running` and has no row for yet; `StartTaskRun` inserts the row,
  `StartTaskRunFails` deletes the entry. The row of a request is then `opened` until
  `Launch`, which is its `wg.Add` and `go`: in between the row is open and the wait group
  does not count it. For the dispatcher the two are one step, because the wait group
  counts the polling goroutine all the while and nobody else looks at the new row.
- **Run goroutine.** It lives in `runs[r].pc` from `spawned` on: check of the context, profile lookup, codex,
  `FinishTaskRun`, `MarkTaskRun`, the deferred `running.Delete`.
- **Requests.** `ReadTaskForUpdate` and `UpdateTask` are the two halves of an update,
  and others run between them. In `RunNow` the read and the `LoadOrStore` are one
  step: the copy holds nothing but the profile, which the next statement does not look at.
- **Process.** `Signal` cancels the root context, `Drain` is `srv.Shutdown` returning
  (with or without its 20 s used up, so requests may be left), `Stop` is its `wg.Wait`
  returning, over a row that a late handler has just opened if there is one, `MainReturns`
  the end of `main` right after (a late handler can still open a
  run in between: the wait is over), `Crash` may come at any moment. `Boot` runs
  `MarkStaleRunsFailed` first.

Abstractions. A schedule is a cron expression or a time; texts, timeouts, triggers,
tokens and `last_run_at` are dropped. The cron library is the constant `CronNext`,
with 0 for the zero time it returns when an expression never fires. A one-shot
task without a `run_at` is refused by `Validate`, so that branch of `reserveNext` is left
out. Rows that are closed and have no goroutine are history nobody writes again:
`Settle` forgets them so that a few run ids suffice for behaviours of any length.
Deleted rows keep only what some statement still reads: that they are deleted, and their
profile, by which a cascade still finds their runs.
Rejected requests, failed reads and ticks with nothing due change nothing and
are stuttering steps. A failed statement is a step of its own, `MaxFaults` of them.

### 2.2 ChatTurn

A turn is the pair of rows inserted by `BeginConversationTurn`; its id stands for the
assistant message. A handler goes through `read` (it holds its copy of the
conversation), `run` (reservation taken), `exec` (codex started), `done`. The session that
codex starts for turn *m* is called *m*; `resume` keeps the one it is given. A run killed
early reports the thread it was given, which may be empty. Deleting a profile
is, for this component, deleting its conversations.

### 2.3 CodexService and SlotPool

`prov[a]` is where actor *a* (a run, a preview or a profile handler) is inside
`EnsureHome`, and with which version of the settings; the four variables `dir`, `auth`,
`config`, `work` are what is on disk for each profile. Each system call is a step, and
`os.WriteFile` is two: open (which truncates or creates) and write. `open` holds
the actors whose file is still the one in the directory, because `RemoveHome` may take it away in
between. Of the text in `config.toml` the model keeps the versions it was made of: `{}` is
an empty or missing file, two versions are what is left when a shorter text is
written over a longer one. Runs hold `homeMu` while they provision; `SaveProfile` and
`DeleteProfile` and what follows them do not, as in the code. After the mutex come
the slot (not for a preview), the start (which fails without the workspace or
when the context is done), the child's reading of its config, its exit, and the deferred
releases. `used` is `len(runSlots)`.

### 2.4 RPCClient, AccountCache, ProbeCache

`call[s]` follows `Call` through the check of `closed`, `register`, `write` and the
`select`, whose ready cases are alternatives (`Receive`, `StreamEnded`, `Cancelled`).
`dispatch` is two steps, because it takes the entry under the mutex and sends
after; `failAll` is several, in the read loop and in `Close`, and only the former
closes `done`. The child answers in any order or never, sends requests of its own under the ids `ServerIds`
(`ServerRequest`; with a pending id, `dispatch` takes one for the answer), prints a line too long
for the scanner, is killed, exits; `Wait` closes the pipe and loses what was not read.
A write may take any time while the child is up, for it may not read its stdin.
Results carry the number of their request so that a wrong delivery would show; that number
is not on the wire. `MaxId` bounds the requests of one client: a call beyond it ends like one
whose context is done.

`AccountCache` adds `StartAppServer` with its handshake, and `loadAccount` with the
mutex, the time window and one goroutine per method.

### 2.5 BalanceManager

`next` is the loop's map of deadlines with the time abstracted to *later* (an interval),
*soon* (the second after which the loop comes back to a busy row) and *due*; `todo` is what its timer branch has yet to visit. A refresh is a goroutine `act[w]`
named by the configuration (polled) or by the request (manual), in three steps: read
of the row, the fetch with the save that ends it, release of the in-flight entry.
A key is named by the edit that brought it, and a balance or an error by the key it was
fetched with. `UpdateBalance` compares with the provider that `ReadBalance` saw, as
the handler does.

### 2.6 UsageCache

A row of `model_prices` is its pattern and its price, that of the default table ("seed") or one of the
operator's (`Own`: amounts and a priority, told apart by their name). `EnsureSeed` is a
count and one insert after the other; restore is a look-up and a write per default row, and
requests that have looked up a row follow it when it is renamed (`Follow`), since they know
it by its id; one that found none keeps to that, whatever is inserted since.
`ListModelPrices` puts at place *i* the row that *i* - 1 rows come before, `Summarize` is the
pass over that list as `Match` makes it; `Best`, which `EditsReachReport` uses, is what the
rules of that pass amount to, stated without order.
The scan holds `usageMu` from the test of the cache to the store of the report.
`unseen` is a history variable: the patterns changed since the prices of the report were
read by somebody who does not drop the report for it. It collects for each restore what it has written so
far, and under `Nobody` what seedings, restores that gave up and changes that could not be
read back have written; it is emptied where the prices are read and where the report is dropped.

## 3. The runs

Bounds are in the `.cfg` files. `MaxTime`, `MaxTurns`, `MaxEdits` and `MaxId` bound clock
and counters, `MaxFaults` the failing store calls, `WakeCap` and `PipeCap` are
capacities; the rest are sizes of sets.

| run | instance | what it shows |
|---|---|---|
| `scheduler_safety` | 1 task, 2 requests, 2 open rows, time 0..1, 1 fault, every handler, crash and signal; about 360 000 states | `TypeOK`; `NoSelfOverlap`; `RunningAccounted`, the map is exact; `RunningRowOwned`; `DeletedInert`; `EnabledHasSlot`; `LastStatusCurrent`, an older outcome never overwrites a newer one; `ShutdownClosesRuns`, but for a row that a late request has just opened |
| `scheduler_dispatch` | 2 tasks stored earlier (cron, one-shot or unparsable), manual runs, deletions, crashes, no faults; about 370 000 | `SlotOnce`; `OnlyDueSlotsMove`; `EnabledHasSlot` with an expression the parser rejects; `DueIsHandled`, whatever becomes of the task before it in the list |
| `scheduler_live` | 1 task, 1 request, every handler, crash and signal, no faults, automatic dispatch on and off; about 64 000 | `ShutdownEnds`; `ImplementsLedger` |
| `chat` | 2 conversations, 2 requests, 3 turns, 1 fault, restarts; about 66 000 | `TypeOK` with referential integrity; `ThreadExclusive`; `RunningReplyOwned`; `ThreadKept`; `ResumeKeepsThread`; `ImplementsLedger` |
| `codex` | 1 profile, 2 runs or previews, 1 handler, 1 slot, 2 versions of the settings; about 270 000 | `TypeOK`; `SlotsExact`; `AloneProvisions`; `MutexReleased`; `ImplementsPool` |
| `account` | handshake and 2 account methods, 2 requests, 3 request ids, one of which the App Server also uses, `Close`, a pipe of 1 line; about 660 000 | `TypeOK`; `ReplyOnce`; `OwnAnswer`, but for a server request with the call's id; `DeadServerFreesRequests`, if no write blocks for good; `ImplementsProbe` |
| `usage` | 2 requests of any kind, 2 models, 2 patterns (both defaults), 2 operator prices, 1 fault; about 150 000 | `TypeOK`; `EditsReachReport`, which names what the cached report may be missing; `EveryoneAnswered` |
| `balances` | 1 configuration, 2 clients, 2 providers, a wake channel of 1, 2 edits, 1 fault, restarts; about 82 000 | `TypeOK`; `ResultOfKey`; `InFlightExact`; `NoLostSchedule`; `KeyGetsUsed`, without waiting an interval, unless a later plain update postpones the read |

Four more runs end in a counterexample (section 5).

Why the bounds are enough to meet the interesting cases.

- *Scheduler.* One task is enough for overlap, since the map and the rows of
  different tasks do not touch; two requests and the dispatcher give three callers of
  `spawn`. A row may be left open by a fault while the next run opens another: two
  ids. The dispatch run needs two tasks, so that the list of copies has a second
  element while the first is worked on. With the stored tasks due at 1, two moments
  are one dispatch of each; `scheduler_edit` and `scheduler_never` have a third, so that a
  slot can be passed over or come back.
- *Chat.* Two requests on two conversations make one that is refused, one that is
  admitted and one that reads in between; three turns are two on one conversation and one
  on the other, in either order.
- *Codex.* Homes of different profiles share nothing, so one name is enough; two runs contend for
  `homeMu` and for the one slot, and the handler edits, deletes or creates under
  either of them. An edit is needed for a second version, and a deletion with a
  re-creation needs that same one. Larger numbers of runs, names and slots are covered by the proofs.
- *Account.* Three ids are the handshake and one fetch, or the handshake, one method, a
  late answer and a second call; a call that finds no id left just fails. One line in the pipe is
  enough for an answer to be late, since requests wait in the child before. The server's own
  requests use the id of the last call, so that there are calls that collide and calls that do not.
- *Usage.* Two defaults make a seeding or a restore stop half-way. Of the two, the glob
  matches both models and the exact pattern one, and an operator price may have the lower
  priority, so that a row wins by priority or by wildcards; that `Match` applies its rules
  rightly to every table is proved (`PriceProofs`). A second operator price makes a
  stale report differ from one after a change of an operator's row.
- *Balances.* The in-flight set, the deadlines and the versions of different
  configurations do not touch, so one is enough; the channel of capacity 1 is
  full after one update; two clients and the loop are three refreshers; two edits are a
  creation and a replaced key.

Where a bound ends a behaviour (clock, ids, edits), actions that do not need the next
value go on. Deadlock checking is off in `account` (without an App Server, once the
handshake has failed and the child is reaped, nothing more has to happen in the
component) and in `codex` (when every profile has been deleted and the bound on edits is used
up, nothing can), and in the runs that stop at a counterexample.

`scheduler_safety` uses a VIEW without `lastSlot`, a history variable no action reads
and no property of that run mentions. Symmetry is used in that run only, which checks
no liveness.

### Fairness

- *Scheduler, chat.* Weak fairness of each thread of control: the polling loop, each
  request inside `spawn` or between its read and its write, each run (from the insert of its
  row on), `main`. They are goroutines with no lock to starve on. A codex run
  ends, because `Run` puts a deadline on it and kills the process group. `Drain`, `Stop` and
  `MainReturns` follow from the 20 s of `srv.Shutdown` and from the above. The process
  is started again after it ended: by systemd after a failure (`Restart=on-failure`
  in `docs/deploy.md`), by the operator after a stop; only `ImplementsLedger` needs
  this. `WF` of the whole loop is enough for `DueIsHandled` because a list is finite and
  sorted by slot.
- *Codex.* Strong fairness of taking `homeMu` and of taking a slot: a Go mutex in
  starvation mode and a channel serve their waiters in order. Weak fairness of
  everything a run does by itself, of the deadline once a slot is held, and of
  the exit of a child whose context is over (it is killed). A child need not exit of
  its own accord, and a caller need not give up.
- *RPC, account.* Goroutines go on; a process that was killed dies and is waited for.
  Nobody has to answer, and no call has to be cancelled: `DeadServerFreesRequests` holds
  without any deadline. A write to a child that is up is not fair, because the child need
  not read: the property has `WritesReturn` (no write blocks for good on such a child) as its
  hypothesis, since a call that is blocked there looks neither at `done` nor at its
  context. Writes to a child that is gone return.
- *Usage.* Handlers go on, and `usageMu` is handed on (strong fairness of getting it).
- *Balances.* The second that a busy row is put off for passes; an interval need not.
  Goroutines go on, a fetch ends (15 s of the HTTP client).
  Strong fairness of `TakeUpdate`, because the select finds only the channel ready
  between two deadlines, which are at least a second apart, and of `ScheduleUpdate`,
  because senders wait for a full channel in a queue.

No request, signal, crash, fault or kill is ever assumed to happen.

## 4. What is proved

All theorems are proved for any sets of tasks, profiles, requests, conversations, rows,
runs and names, and any values of the bounds, from the named assumptions of the modules
and, where a table states one, a hypothesis.

`SchedulerProofs`, from `SchedulerAssumption` and `StoredAssumption`:

| theorem | statement |
|---|---|
| `TypeCorrect` | `Spec => []TypeOK` |
| `MutualExclusion` | `Spec => []NoSelfOverlap` |
| `RunningMapExact` | `Spec => []RunningAccounted` |
| `DeletedStaysInert` | `Spec => []DeletedInert` |
| `NoSpinningRow` | `Spec => []RunningRowOwned` |
| `ShutdownIsClean` | `Spec => ShutdownClosesRuns` |
| `NoSilentTask` | `BrokenExprs = {}` implies `Spec => []EnabledHasSlot` |
| `LedgerSafe` | `MaxFaults = 0` implies `Spec => Ledger!Safety` |

- `TypeInv` adds to `TypeOK` that in state `claim` the current copy is a task
  copy; without it `DispatchClaim` could claim a non-task.
- `RunningInv` is `RunningAccounted`, `NoSelfOverlap`, and two facts about the polling
  goroutine: it has a claim only in state `open`, and it is off while the process is. Neither
  of the two properties is inductive alone: that a new row does not overlap follows from
  the claimed task having no goroutine, which `RunningAccounted` says, and that the last
  step of a goroutine may delete the entry follows from its being the only one, which
  `NoSelfOverlap` says.
- `RowInv` says where a goroutine may stand while its row is open: a goroutine past
  `FinishTaskRun` has a closed row. It gives `RunningRowOwned`, and with the guard of
  `Stop` (lemma `OnlyStop`: no other step ends the shutdown) also `ShutdownClosesRuns`,
  which speaks of the moment `Stop` returns: a row that is open then has a goroutine that
  has not been started yet, that is, a late request between its insert and its `wg.Add`.
- `SlotInv` carries to the pending edits and the copies what `EnabledHasSlot` says of the
  rows: an edit about to be written has a slot if it enables the task.
- `DeletedInert` is inductive because every statement is conditional on `deleted_at IS
  NULL`; the proof goes through the statements once and through the actions by them.
- `LedgerSafe` maps an open row to its task. The step that opens a row needs
  `RunningInv` and `RowInv` (an open row has an owner, an owner's task is not claimed) and
  `ClaimsUp` (nobody is in `spawn` while the process is off); every other step only
  closes rows (`RowsOnlyClose`). With a failing `FinishTaskRun` the statement is false: the
  row stays open and the next run of the task opens a second one.

`DispatchProofs`, from the same assumptions and the hypotheses in the table:

| theorem | statement |
|---|---|
| `LastStatusHolds` | `Spec => []LastStatusCurrent` |
| `OnlyDueMove` | no edits imply `Spec => OnlyDueSlotsMove` |
| `SlotsOnce` | no edits and `CronAdvances` imply `Spec => SlotOnce` |
| `OnlyBrokenParked` | no edits imply `Spec => []EnabledHasSlot` |

"No edits" is `"update" \notin Events`; creations, deletions, manual runs, failing
statements, crashes and restarts all stay. `CronAdvances` says that the cron library
returns a later time for each expression the parser accepts. Neither hypothesis is for the
prover's sake: `scheduler_edit` refutes `SlotOnce` with edits and `scheduler_never` without
`CronAdvances`; edits and broken expressions together refute `EnabledHasSlot` (section 5;
`NoSilentTask` has the edits and no broken expression); and with edits a copy may retire a one-shot task whose new time is to come,
against `OnlyDueSlotsMove`.

- `LastInv` says for each run, as long as the store has answered, what the last status
  rests on: the goroutine carries the outcome its row shows, a row that a cascade
  removed had a task that is gone too, no run is of a task that does not exist yet, and
  past `MarkTaskRun` the task shows this outcome. That it still shows it at the release
  is `RunningInv` again: no other goroutine of the task can have written meanwhile.
- `CopyInv` says that the copies of `dispatchDue` are `Fresh`: whoever still exists has
  the slot and the schedule of its copy, and there is one copy of a task. Without edits
  nobody but the dispatcher writes these columns of an existing row, and it drops the copy
  in the same step. So a slot that moves is one that is due.
- `OnceInv` says that the slots to come, in rows and in copies, are later than the last
  one handed out; `ReserveMoves` that `reserveNext` goes beyond the `now` of
  `dispatchDue`, which is not before the slot of the copy.
- `ParkedInv` is `EnabledHasSlot` with "enabled" in place of "exists and enabled"; the step
  that parks needs `CopyInv`, because it decides by the expression of the copy.

`ChatProofs`, from `ChatAssumption`, with failing store calls allowed throughout:

| theorem | statement |
|---|---|
| `ChatTypes` | `Spec => []TypeOK` |
| `ThreadsExclude` | `Spec => []ThreadExclusive` |
| `RepliesOwned` | `Spec => []RunningReplyOwned` |
| `ThreadsKept` | `Spec => ThreadKept` |
| `ResumesKeepThread` | `Spec => ResumeKeepsThread` |
| `ChatKeepsLedger` | `Spec => Ledger!Safety` |

The invariant `CInv` says who holds a thread. `Holds(k, c)`: conversation *c* names
thread *k* in its row, or a request of it carries *k*, reports it or could still start
it. `OneConv`: no two conversations hold one thread; for that `FreshIds`, because a new thread is
named by a turn id nobody has. `OneWorker`: one handler of a conversation is
past its reservation, also after the conversation has been deleted under it;
`Reserved`: its turn is running, or gone with its conversation for good. Two handlers that run
one thread are then on one conversation, and there is one of them. `Reserved`
also keeps a conversation's only running reply in its handler's hands, from which
`ChatKeepsLedger` follows.

`CodexProofs`, from `CodexAssumption`:

| theorem | statement |
|---|---|
| `CodexTypes` | `Spec => []TypeOK` |
| `SlotsCounted` | `Spec => []SlotsExact` |
| `HomesComplete` | `Spec => []AloneProvisions` |
| `SlotsArePool` | `Spec => Pool!Safety` |

For the homes, `Provisioners` says that a run is inside `EnsureHome` only with `homeMu` held, so
that any two actors there are one run and handlers; `Linkable` that without a handler an
`auth.json` is there only if the credentials are, so that linking cannot fail; `Undisturbed`
that a run no handler has touched since it locked has achieved what its position
promises (`Achieved`: directory, link, an empty file, a file of its version, workspace). A step
of another run does not move the disk at all, and a handler's step on the same home ends
`alone`. For the slots, `SlotMoves` classifies every step as one of five moves of a
run (or none); with the finiteness of `Runs` the counts follow, and the same
classification is the step simulation of `SlotPool`.

`RPCProofs`, from `RPCAssumption` and `AccountAssumption`:

| theorem | statement |
|---|---|
| `AccountTypes` | `AccountSpec => []TypeOK` |
| `OneReply` | `AccountSpec => []ReplyOnce` |
| `AnswersMatch` | `AccountSpec => []OwnAnswer` |
| `AccountImplementsProbe` | `AccountSpec => ImplementsProbe` |

The invariant follows an id through its life: handed out (`IdsUsed`, `CallIds`), in the map
with an empty channel (`PendingEmpty`), or taken by exactly one of the reader and
the callers of `failAll`, who find the channel empty (`FailersAlone`, `ReaderAlone`), or in
the channel; a waiting call's id is always in one of these places (`CallsKnown`), and the
answers on their way under an id carry the number of the request that was given that id, or are
requests of the App Server, which has to use that id for its own: the exception in `OwnAnswer`.
`ServerIds` may be any set of ids; for the empty one the theorem has no exception.

`BalanceProofs`, from `BalanceAssumption`:

| theorem | statement |
|---|---|
| `BalanceTypes` | `Spec => []TypeOK` |
| `ResultsBelongToKeys` | `Spec => []ResultOfKey` |
| `OneRefreshPerRow` | `Spec => []InFlightExact` |
| `NoneDropped` | `Spec => []NoLostSchedule` |

`FetchOfVersion` relates what a fetch took along to the row: the same version
means the same key. It needs `Versions`, a row's version is not above the number of edits, so
that a version is never used twice for a row. `OwnPlace` says that a polling goroutine
refreshes the configuration it is named by, so that starting one never overwrites
another.

`PriceProofs` and `UsageProofs`, from `UsageAssumption` (finitely many patterns, priorities
and lengths are numbers, the names of the patterns are in a strict total order):

| theorem | statement |
|---|---|
| `MatchFindsBest` | `Match(m, ListModelPrices(t)) = Best(m, t)` for every table *t* and model *m* |
| `SummarizeIsReport` | `Summarize(t) = Report(t)` for every table *t* |
| `BestIsBest` | `Best(m, t)` is a matching row of *t* that is `Better` than every other, or none matches |
| `UsageTypes` | `Spec => []TypeOK` |
| `EditsReach` | `Spec => []EditsReachReport` |

`Match` looks at priority, wildcards and length and takes the first of equals; that this is
the order with ties broken by name rests on the ORDER BY of the query, by way of `LaterBeats`: of
two rows in the order of the list, the later one is taken over the earlier exactly if it is
the better one. `ListSorted` shows that the list holds each row once, in that order
(`PlacesTaken`: the numbers of rows before a row take each value once). The pass itself is a fold
over the list, that is an induction, which the prover cannot take from the library's induction
theorems; instead `PassIsWinner` takes a smallest set of places at which the claim fails
(`SmallestSubset`, from the minimal element of a well-founded order, `WFMin`) and removes its
last place. `WinnerExists` goes the same way.

`EditsReachReport` compares the cached report with the one of the present table, and allows
other prices for the patterns in `unseen[Nobody]` only. To make it inductive, `ReportInv`
speaks also of the time while restores are half-way: as long as nobody stands before
`invalidateUsage` (`Quiet`), both the cached report and one that a scan in progress carries
price by the table up to all patterns marked by anybody (`Marked`); and marks under a
request belong to a restore (`RestoresOnly`). Lemma `Marking` says that a step which marks what
it writes keeps this, `GivingUp` that a restore that gives up hands its marks on to `Nobody`.
The last request to be answered is at `InvalidateUsage`, which waits for the mutex, so that
by `UsageTypes` no scan is under way and nothing is cached after that step. Without failing
statements, lost races and a seeding in progress nothing is marked, and the report is exact.

`LastInv`, `CopyInv`, `OnceInv`, `ParkedInv` and `ReportInv` were checked by TLC on the instances of
`scheduler_safety`, `scheduler_dispatch` and `usage` before they were proved. The work on the
last one showed a
request of `restore` that had found no row follow one that another had inserted, which no SQL
statement does; `Follow` excludes it now.

Checked by TLC only: the liveness properties (`ShutdownEnds`, `DueIsHandled`,
`MutexReleased`, `DeadServerFreesRequests`, `EveryoneAnswered`, `KeyGetsUsed` and the liveness in
`ImplementsLedger` and `ImplementsPool`), because the prover has neither fairness
nor ENABLED.

## 5. Where the code and its text disagree

- **`scheduler_edit`.** `handleUpdateTask` reads a task, `dispatchDue` moves its slot on and
  starts the run, `UpdateTask` writes the old slot back: it is due again and
  dispatched a second time (`scheduler.go:201-202` promises otherwise).
- **`scheduler_never`.** An expression such as 30 February parses, never fires, and gets the
  zero time as its next slot, which is due at every tick: the spinning that
  `scheduler.go:219` parks broken expressions to avoid.
- **`chat_stale`.** The thread id is read before the turn is admitted. A turn admitted just
  after another was finalized resumes the older thread, or starts a second one,
  though `conversation.go:306-309` says it cannot. `ResumeKeepsThread` shows that this is
  the only way a conversation changes its thread.
- **`codex_config`.** `EnsureHome` rewrites `config.toml` in place before each run, and the
  mutex is released before codex starts. Of two runs of one profile, the second
  truncates the file while the first one's codex is reading it, though
  `service.go:254-255` says that a resumed run takes its sandbox from that file.

The properties name further exceptions, each of which the model contains and which a
text of the repository speaks against; each was seen as a counterexample of the
property without that exception:

- **Broken expression, repaired.** A task stored with an expression the parser rejects (a
  hand-edited database or an older release, as the test at `scheduler_test.go:322-324`
  supposes) comes due, and while its copy waits in `dispatchDue` an edit gives it a valid expression and a slot: `reserveNext`
  (`scheduler.go:220`) goes by the copy and clears that slot, and the task stays enabled and
  silent until it is edited again. TLC finds this in six steps with one task, one client,
  `Stored = {Cron("bad")}` and `Events = {"update"}`. `tasks.go:205`: "An enabled task must
  never be persisted without a concrete next slot".
- **Stop and a late request.** `wg.Wait` does not count a request between the insert of its row
  (`scheduler.go:239`) and `wg.Add` (`:245`): `Stop` returns with that row open, though
  it "waits for every Scheduler-owned goroutine" (`scheduler.go:122-123`). The next boot
  repairs the row (`ShutdownClosesRuns`).
- **Colliding ids.** `dispatch` (`jsonrpc.go:195-212`) goes by the id alone: a request of the
  App Server with an id that is pending on this side ends that call with an empty result,
  though `Call` "waits for the matching response" (`:86`). The comment at `:204` expects such
  requests, but only with other ids (`OwnAnswer`).
- **A blocked write.** `write` (`jsonrpc.go:160-169`) holds `wmu` and looks at no context; on a
  full stdin pipe of a child that does not read, the call and those behind it outlive
  their contexts and the end of the read loop (`DeadServerFreesRequests`).
- **The cached report.** "Keep the snapshot until the operator asks for a rescan or the price
  table changes" (`usage.go:23-24`): a report cached while another request is seeding
  lacks the rows that follow; a restore that gives up half-way (`usage.go:141`), on a failing statement or
  because another request took the pattern or the row between its look-up and its write,
  has changed rows and does not invalidate; so has a creation or an update whose row
  cannot be read back; and the report of a failed read of the prices is cached
  (`EditsReachReport`).
- **The wake channel.** "Calls are non-blocking and coalesce under load" and immediate "also triggers
  a provider read" (`manager.go:122-123`): the send blocks on a full channel, for ever
  if the loop has returned; and a later update that is not immediate moves a
  deadline that is due a whole interval on before the read took place (`KeyGetsUsed` and
  `NoLostSchedule` speak of a loop that runs, the former of updates that no plain one follows).

In the following no text promises anything; the models contain them too:

- a one-shot task that comes due while a manual run of it is in progress is retired, then
  skipped (`scheduler.go:212`);
- a profile of the same name created between `DeleteProfile` and `RemoveHome` loses
  its fresh home; the next run provisions it again;
- an update of a balance checks provider and key against a row read earlier.

## 6. Not modelled

- Parsing of Codex output and the classification of a run's outcome (exit code, deadline,
  output, in this order): a sequential decoding of another program's lines. Scheduler and
  chat take the outcome as a choice.
- Encryption of balance keys and the providers' HTTP interfaces: `BalanceManager` takes
  success or failure.
- Scanning of session files and the floating-point sums of the usage report: the model of
  the report is the row that prices each model.
- Titles and the `status` column of conversations, SSE frames: columns that no other
  component reads.
- Configuration, migrations (run once, alone, in order), routing, authentication and static
  files: no concurrency and no state that changes.
- The web UI: it keeps no durable state, and its requests are inputs of the modules.

## 7. What is left

1. A clock finer than the polling tick, for the comparison of `next_run_at` as text
   (`store/task.go:178`).
2. Titles and status of conversations in `ChatTurn` (`UpdateConversation` reads both
   and writes both back).
3. The outcome of a run as a function of exit, deadline and output, with `CodexService`
   and the scheduler composed over it.
