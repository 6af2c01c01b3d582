---------------------------- MODULE CodexService ----------------------------
(***************************************************************************)
(* codex.Service: the homes of the profiles on disk, which runs, previews  *)
(* and the profile handlers provision, and the execution slots of the      *)
(* runs (internal/codex/service.go, home.go, inbound.go and                *)
(* internal/httpapi/profiles.go).                                          *)
(*                                                                         *)
(* A file is written in two steps, as os.WriteFile does; the other system  *)
(* calls are atomic, RemoveAll included.  work_dir is left empty, so that  *)
(* the workspace is the profile's own.  What codex does between reading    *)
(* its config and its exit is left out.                                    *)
(***************************************************************************)
EXTENDS Integers, FiniteSets

CONSTANTS
    Names,          \* of profiles
    Runs,           \* callers of Run (chat, task, test) and of PreviewInbound
    Handlers,       \* requests that create, update or delete profiles
    MaxConcurrent,  \* MAX_CONCURRENT_RUNS
    MaxEdits,       \* bound on the versions of the settings that are ever stored
    HasAuth,        \* the credentials that linkAuth links exist
    Nobody

ASSUME CodexAssumption ==
    /\ MaxConcurrent \in Int
    /\ MaxEdits \in Nat \ {0}
    /\ HasAuth \in BOOLEAN
    /\ IsFiniteSet(Runs)
    /\ Runs \cap Handlers = {}
    /\ Nobody \notin Runs

VARIABLES
    row,        \* per name: id and version of the settings, or NoRow
    edits,      \* versions stored so far
    dir, auth, work,    \* per name: CODEX_HOME, its auth.json, the workspace exist
    config,     \* per name: versions whose text is in config.toml; {} if truncated or missing
    open,       \* actors that have opened the config.toml which is still in place
    prov,       \* per actor: where its EnsureHome is, and of which settings
    homeMu,     \* the run that holds the mutex
    run,        \* per caller: where it is
    used,       \* len(Service.runSlots)
    handler     \* per profile handler: where it is

homeVars == <<dir, auth, work, config, open>>
vars == <<row, edits, homeVars, prov, homeMu, run, used, handler>>

Actors == Runs \cup Handlers
Versions == 1..MaxEdits
NoRow == [id |-> 0, ver |-> 0]
Row == [id : Versions, ver : Versions]
Exists(n) == row[n] # NoRow

Slots == IF MaxConcurrent < 1 THEN 1 ELSE MaxConcurrent

NotProvisioning == [pc |-> "idle", name |-> Nobody, ver |-> 0]
\* over: the run's context is done.  alone: no handler has touched the home since the run
\* began to provision it; history for the properties.
NotRunning == [pc |-> "idle", kind |-> "run", over |-> FALSE, alone |-> FALSE]
NoRequest == [pc |-> "idle", id |-> 0]

-----------------------------------------------------------------------------
(* EnsureHome *)

At(a, pc) == prov[a].pc = pc
Goes(a, pc) == prov' = [prov EXCEPT ![a].pc = pc]
Sets(f, a, v) == [f EXCEPT ![prov[a].name] = v]

\* MkdirAll, and the Lstat of linkAuth: what comes between them makes no difference.
MakeHome(a) ==
    /\ At(a, "home")
    /\ dir' = Sets(dir, a, TRUE)
    /\ Goes(a, IF ~HasAuth THEN "truncate" ELSE IF auth[prov[a].name] THEN "remove" ELSE "link")
    /\ UNCHANGED <<auth, work, config, open>>

\* The rest of linkAuth: Remove, Symlink.
RemoveAuth(a) ==
    LET n == prov[a].name IN
    /\ At(a, "remove")
    /\ auth' = Sets(auth, a, FALSE)
    /\ Goes(a, IF auth[n] THEN "link" ELSE "failed")
    /\ UNCHANGED <<dir, work, config, open>>

LinkAuth(a) ==
    LET n == prov[a].name IN
    /\ At(a, "link")
    /\ \/ /\ dir[n] /\ ~auth[n]
          /\ auth' = Sets(auth, a, TRUE)
          /\ Goes(a, "truncate")
       \/ /\ ~dir[n] \/ auth[n]
          /\ Goes(a, "failed")
          /\ UNCHANGED auth
    /\ UNCHANGED <<dir, work, config, open>>

\* os.WriteFile: the open, which creates or truncates, and then the write.
TruncateConfig(a) ==
    /\ At(a, "truncate")
    /\ \/ /\ dir[prov[a].name]
          /\ config' = Sets(config, a, {})
          /\ open' = open \cup {a}
          /\ Goes(a, "write")
       \/ /\ ~dir[prov[a].name]
          /\ Goes(a, "failed")
          /\ UNCHANGED <<config, open>>
    /\ UNCHANGED <<dir, auth, work>>

\* Over what another actor wrote since, the end of a longer text stays.  A file that was
\* removed meanwhile takes the text with it.
WriteConfig(a) ==
    LET old == config[prov[a].name] IN
    /\ At(a, "write")
    /\ \/ a \notin open /\ UNCHANGED config
       \/ a \in open /\ \E rest \in {{}, old} : config' = Sets(config, a, {prov[a].ver} \cup rest)
    /\ open' = open \ {a}
    /\ Goes(a, "workspace")
    /\ UNCHANGED <<dir, auth, work>>

MakeWorkspace(a) ==
    /\ At(a, "workspace")
    /\ work' = Sets(work, a, TRUE)
    /\ Goes(a, "ok")
    /\ UNCHANGED <<dir, auth, config, open>>

EnsureHome(a) ==
    /\ \/ MakeHome(a) \/ RemoveAuth(a) \/ LinkAuth(a)
       \/ TruncateConfig(a) \/ WriteConfig(a) \/ MakeWorkspace(a)
    /\ UNCHANGED <<row, edits, homeMu, run, used, handler>>

-----------------------------------------------------------------------------
(* Run and PreviewInbound *)

RunAt(r, pc) == run[r].pc = pc
RunGoes(r, pc) == run' = [run EXCEPT ![r].pc = pc]
RunReturns(r) ==
    /\ run' = [run EXCEPT ![r] = NotRunning]
    /\ prov' = [prov EXCEPT ![r] = NotProvisioning]

Touching(n) == \E h \in Handlers : handler[h].pc # "idle" /\ prov[h].name = n

\* The caller has read the profile.
BeginRun(r) ==
    \E n \in Names, kind \in {"run", "preview"} :
        /\ RunAt(r, "idle")
        /\ Exists(n)
        /\ run' = [run EXCEPT ![r] = [NotRunning EXCEPT !.pc = "lock", !.kind = kind]]
        /\ prov' = [prov EXCEPT ![r] = [pc |-> "idle", name |-> n, ver |-> row[n].ver]]
        /\ UNCHANGED <<row, edits, homeVars, homeMu, used, handler>>

\* Mutant: ensureHome without the mutex.
NoMutex == TRUE

MutexFree == homeMu = Nobody

LockHome(r) ==
    /\ RunAt(r, "lock")
    /\ MutexFree
    /\ homeMu' = r
    /\ Goes(r, "home")
    /\ run' = [run EXCEPT ![r].pc = "home", ![r].alone = ~Touching(prov[r].name)]
    /\ UNCHANGED <<row, edits, homeVars, used, handler>>

\* Mutant: the mutex is not deferred and stays locked on an error.
KeptOnError(r) == homeMu' = IF At(r, "failed") THEN homeMu ELSE Nobody

Unlock(r) == homeMu' = Nobody

UnlockHome(r) ==
    /\ RunAt(r, "home")
    /\ prov[r].pc \in {"ok", "failed"}
    /\ Unlock(r)
    /\ IF At(r, "failed")
       THEN RunReturns(r)
       ELSE RunGoes(r, IF run[r].kind = "run" THEN "slot" ELSE "start") /\ Goes(r, "idle")
    /\ UNCHANGED <<row, edits, homeVars, used, handler>>

\* Mutant: one slot too many.
RoomForOneMore == used <= Slots

HasRoom == used < Slots

AcquireSlot(r) ==
    /\ RunAt(r, "slot")
    /\ HasRoom
    /\ used' = used + 1
    /\ RunGoes(r, "start")
    /\ UNCHANGED <<row, edits, homeVars, prov, homeMu, handler>>

GiveUpSlot(r) ==
    /\ RunAt(r, "slot")
    /\ run[r].over
    /\ RunReturns(r)
    /\ UNCHANGED <<row, edits, homeVars, homeMu, used, handler>>

\* The caller goes away, or is shut down; with a slot held, the timeout passes.  Nobody
\* looks at the context before the wait for a slot, or the start, and after the exit.
ContextOver(r) ==
    /\ run[r].pc \in {"slot", "start", "started", "configured"}
    /\ ~run[r].over
    /\ run' = [run EXCEPT ![r].over = TRUE]
    /\ UNCHANGED <<row, edits, homeVars, prov, homeMu, used, handler>>

\* Mutant: the slot is not given back when codex could not be started.
KeptOnReturn(r) == used' = IF RunAt(r, "start") THEN used ELSE used - 1

FreeSlot(r) == used' = IF run[r].kind = "run" THEN used - 1 ELSE used

\* cmd.Start fails without the workspace, and when the context is done already.
StartCodex(r) ==
    /\ RunAt(r, "start")
    /\ IF work[prov[r].name] /\ ~run[r].over
       THEN RunGoes(r, "started") /\ UNCHANGED <<prov, used>>
       ELSE RunReturns(r) /\ FreeSlot(r)
    /\ UNCHANGED <<row, edits, homeVars, homeMu, handler>>

\* The child reads config.toml.
ReadConfig(r) ==
    /\ RunAt(r, "started")
    /\ RunGoes(r, "configured")
    /\ UNCHANGED <<row, edits, homeVars, prov, homeMu, used, handler>>

\* The child exits by itself, or is killed with its process group.
Exit(r) ==
    /\ RunAt(r, "configured")
    /\ RunGoes(r, "exited")
    /\ UNCHANGED <<row, edits, homeVars, prov, homeMu, used, handler>>

\* Wait, the result, the deferred releases.
Finish(r) ==
    /\ RunAt(r, "exited")
    /\ RunReturns(r)
    /\ FreeSlot(r)
    /\ UNCHANGED <<row, edits, homeVars, homeMu, handler>>

-----------------------------------------------------------------------------
(* The profile handlers; EnsureHome and RemoveHome without the mutex *)

Touch(n) == run' = [r \in Runs |-> IF prov[r].name = n THEN [run[r] EXCEPT !.alone = FALSE] ELSE run[r]]

\* INSERT of a new name, or UPDATE by id: the id is that of the row which is there.
SaveProfile(h) ==
    \E n \in Names :
        LET ver == edits + 1
            id == IF Exists(n) THEN row[n].id ELSE ver
        IN
        /\ handler[h] = NoRequest
        /\ ver \in Versions
        /\ edits' = ver
        /\ row' = [row EXCEPT ![n] = [id |-> id, ver |-> ver]]
        /\ handler' = [handler EXCEPT ![h] = [pc |-> "reread", id |-> id]]
        /\ prov' = [prov EXCEPT ![h] = [NotProvisioning EXCEPT !.name = n]]
        /\ Touch(n)
        /\ UNCHANGED <<homeVars, homeMu, used>>

Responds(h) ==
    /\ handler' = [handler EXCEPT ![h] = NoRequest]
    /\ prov' = [prov EXCEPT ![h] = NotProvisioning]

\* GetProfile by id: what is provisioned is the row as it is now; without one, nothing.
Reread(h) ==
    LET now == row[prov[h].name] IN
    /\ handler[h].pc = "reread"
    /\ IF now.id = handler[h].id
       THEN /\ handler' = [handler EXCEPT ![h].pc = "home"]
            /\ prov' = [prov EXCEPT ![h].pc = "home", ![h].ver = now.ver]
       ELSE Responds(h)
    /\ UNCHANGED <<row, edits, homeVars, homeMu, run, used>>

\* The profile stays saved if its home could not be prepared.
Saved(h) ==
    /\ handler[h].pc = "home"
    /\ prov[h].pc \in {"ok", "failed"}
    /\ Responds(h)
    /\ UNCHANGED <<row, edits, homeVars, homeMu, run, used>>

DeleteProfile(h) ==
    \E n \in Names :
        /\ handler[h] = NoRequest
        /\ Exists(n)
        /\ row' = [row EXCEPT ![n] = NoRow]
        /\ handler' = [handler EXCEPT ![h] = [pc |-> "rmhome", id |-> row[n].id]]
        /\ prov' = [prov EXCEPT ![h] = [NotProvisioning EXCEPT !.name = n]]
        /\ Touch(n)
        /\ UNCHANGED <<edits, homeVars, homeMu, used>>

RemoveHome(h) ==
    LET n == prov[h].name IN
    /\ handler[h].pc = "rmhome"
    /\ dir' = Sets(dir, h, FALSE)
    /\ auth' = Sets(auth, h, FALSE)
    /\ config' = Sets(config, h, {})
    /\ open' = {a \in open : prov[a].name # n}
    /\ handler' = [handler EXCEPT ![h].pc = "rmwork"]
    /\ UNCHANGED <<row, edits, work, prov, homeMu, run, used>>

RemoveWorkspace(h) ==
    /\ handler[h].pc = "rmwork"
    /\ work' = Sets(work, h, FALSE)
    /\ Responds(h)
    /\ UNCHANGED <<row, edits, dir, auth, config, open, homeMu, run, used>>

-----------------------------------------------------------------------------
\* Profiles of an earlier process, with their homes.
Init ==
    /\ row = [n \in Names |-> [id |-> 1, ver |-> 1]]
    /\ edits = 1
    /\ dir = [n \in Names |-> TRUE]
    /\ auth = [n \in Names |-> HasAuth]
    /\ work = [n \in Names |-> TRUE]
    /\ config = [n \in Names |-> {1}]
    /\ open = {}
    /\ prov = [a \in Actors |-> NotProvisioning]
    /\ homeMu = Nobody
    /\ run = [r \in Runs |-> NotRunning]
    /\ used = 0
    /\ handler = [h \in Handlers |-> NoRequest]

Provision(r) == LockHome(r) \/ EnsureHome(r) \/ UnlockHome(r)
Execute(r) == StartCodex(r) \/ ReadConfig(r) \/ Finish(r)
Handle(h) == Reread(h) \/ EnsureHome(h) \/ Saved(h) \/ RemoveHome(h) \/ RemoveWorkspace(h)

Next ==
    \/ \E r \in Runs :
          \/ BeginRun(r) \/ Provision(r) \/ Execute(r) \/ Exit(r)
          \/ AcquireSlot(r) \/ GiveUpSlot(r) \/ ContextOver(r)
    \/ \E h \in Handlers : SaveProfile(h) \/ DeleteProfile(h) \/ Handle(h)

Spec == Init /\ [][Next]_vars

Queue(r) == LockHome(r) \/ AcquireSlot(r)
Progress(r) ==
    \/ EnsureHome(r) \/ UnlockHome(r) \/ Execute(r)
    \/ ~RunAt(r, "slot") /\ ContextOver(r)
    \/ run[r].over /\ Exit(r)

\* Goroutines go on; whoever waits for the mutex or for a slot is served in turn; the
\* timeout passes and the kill succeeds.  A caller need not give up waiting for a slot.
Fairness == \A r \in Runs : SF_vars(Queue(r)) /\ WF_vars(Progress(r))

FairSpec == Spec /\ Fairness

-----------------------------------------------------------------------------
TypeOK ==
    /\ row \in [Names -> Row \cup {NoRow}]
    /\ edits \in Versions
    /\ dir \in [Names -> BOOLEAN]
    /\ auth \in [Names -> BOOLEAN]
    /\ work \in [Names -> BOOLEAN]
    /\ config \in [Names -> SUBSET Versions]
    /\ open \in SUBSET Actors
    /\ prov \in [Actors -> [pc : {"idle", "home", "remove", "link", "truncate",
                                   "write", "workspace", "ok", "failed"},
                            name : Names \cup {Nobody}, ver : Versions \cup {0}]]
    /\ homeMu \in Runs \cup {Nobody}
    /\ run \in [Runs -> [pc : {"idle", "lock", "home", "slot", "start", "started",
                               "configured", "exited"},
                         kind : {"run", "preview"}, over : BOOLEAN, alone : BOOLEAN]]
    /\ used \in 0..Slots
    /\ handler \in [Handlers -> [pc : {"idle", "reread", "home", "rmhome", "rmwork"},
                                 id : Versions \cup {0}]]

Waiting == {r \in Runs : RunAt(r, "slot")}
Holding == {r \in Runs : run[r].kind = "run" /\ run[r].pc \in {"start", "started", "configured", "exited"}}

\* The channel holds one token per run that is past acquireRunSlot and has not returned,
\* whichever way it returns: a token too many would lower the limit for good.
SlotsExact == used = Cardinality(Holding) /\ used <= Slots

\* Unless a profile handler is at work on the same home, a run or preview leaves ensureHome
\* with the complete home of its own settings, however many others provision it: none of
\* them sees another's half-replaced link or half-written config.
AloneProvisions ==
    \A r \in Runs :
        run[r].alone /\ prov[r].pc \in {"ok", "failed"} =>
            LET n == prov[r].name IN
            /\ At(r, "ok")
            /\ dir[n] /\ work[n]
            /\ auth[n] = HasAuth
            /\ config[n] = {prov[r].ver}

\* A home that cannot be prepared blocks nobody: whoever holds the mutex releases it, also
\* if a handler takes the directory away under it and a system call fails.
MutexReleased == homeMu # Nobody ~> homeMu = Nobody

Pool == INSTANCE SlotPool WITH waiting <- Waiting, holding <- Holding
\* The slots are a fair pool: a waiting run gets one or gives up.
ImplementsPool == Pool!Spec

\* Violated: "the sandbox and working directory are taken from the generated config.toml"
\* (service.go:254-255).  What codex reads is one whole generated config, at least as long
\* as no handler touches the home.
ReadsGeneratedConfig ==
    [][\A r \in Runs : ReadConfig(r) /\ run[r].alone => Cardinality(config[prov[r].name]) = 1]_vars
=============================================================================
