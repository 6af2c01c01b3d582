----------------------------- MODULE CodexProofs -----------------------------
(***************************************************************************)
(* What holds of the homes and the execution slots of codex.Service for    *)
(* any set of profiles, runs and profile handlers, any number of edits and *)
(* any limit.                                                              *)
(***************************************************************************)
EXTENDS CodexService, FiniteSetTheorems, TLAPS

-----------------------------------------------------------------------------
(* The inductive invariant *)

ProvState == [pc : {"idle", "home", "remove", "link", "truncate", "write", "workspace", "ok", "failed"},
              name : Names \cup {Nobody}, ver : Versions \cup {0}]
RunState == [pc : {"idle", "lock", "home", "slot", "start", "started", "configured", "exited"},
             kind : {"run", "preview"}, over : BOOLEAN, alone : BOOLEAN]
HandlerState == [pc : {"idle", "reread", "home", "rmhome", "rmwork"}, id : Versions \cup {0}]

HomesTyped ==
    /\ dir \in [Names -> BOOLEAN]
    /\ auth \in [Names -> BOOLEAN]
    /\ work \in [Names -> BOOLEAN]
    /\ config \in [Names -> SUBSET Versions]
    /\ open \in SUBSET Actors

ActorsTyped ==
    /\ row \in [Names -> Row \cup {NoRow}]
    /\ edits \in Versions
    /\ prov \in [Actors -> ProvState]
    /\ homeMu \in Runs \cup {Nobody}
    /\ run \in [Runs -> RunState]
    /\ handler \in [Handlers -> HandlerState]

\* Whoever is at work has a profile and its settings.
Assigned ==
    /\ \A r \in Runs : run[r].pc # "idle" => prov[r].name \in Names /\ prov[r].ver \in Versions
    /\ \A h \in Handlers : handler[h].pc # "idle" => prov[h].name \in Names /\ handler[h].id \in Versions
    /\ \A h \in Handlers : handler[h].pc = "home" => prov[h].ver \in Versions

\* EnsureHome runs under the mutex in a run, and without it in a handler.
Provisioners ==
    /\ \A r \in Runs : run[r].pc = "home" <=> homeMu = r
    /\ \A r \in Runs : prov[r].pc # "idle" => run[r].pc = "home"
    /\ \A h \in Handlers : prov[h].pc # "idle" => handler[h].pc = "home"

\* A link exists, or is on its way, only if there is something to link.
Linkable ==
    /\ \A n \in Names : auth[n] => HasAuth
    /\ \A a \in Actors : prov[a].pc \in {"remove", "link"} => HasAuth

\* What a run that nobody disturbs has achieved so far.
Achieved(r) ==
    LET n == prov[r].name
        pc == prov[r].pc
    IN
    /\ ~Touching(n)
    /\ pc # "failed"
    /\ pc \in {"remove", "link", "truncate", "write", "workspace", "ok"} => dir[n]
    /\ pc = "remove" => auth[n]
    /\ pc = "link" => ~auth[n]
    /\ pc \in {"truncate", "write", "workspace", "ok"} => auth[n] = HasAuth
    /\ pc = "write" => config[n] = {} /\ r \in open
    /\ pc \in {"workspace", "ok"} => config[n] = {prov[r].ver}
    /\ pc = "ok" => work[n]

Undisturbed == \A r \in Runs : run[r].pc = "home" /\ run[r].alone => Achieved(r)

KInv == HomesTyped /\ ActorsTyped /\ Assigned /\ Provisioners /\ Linkable /\ Undisturbed

-----------------------------------------------------------------------------
LEMMA Idles ==
    /\ NotProvisioning \in ProvState /\ NotProvisioning.pc = "idle"
    /\ NotRunning \in RunState /\ NotRunning.pc = "idle" /\ NotRunning.kind = "run"
    /\ NoRequest \in HandlerState /\ NoRequest.pc = "idle"
    /\ NoRow \notin Row /\ NoRow.id = 0 /\ 0 \notin Versions
    /\ MaxEdits \in Nat \ {0} /\ HasAuth \in BOOLEAN
BY CodexAssumption
DEF NotProvisioning, ProvState, NotRunning, RunState, NoRequest, HandlerState, NoRow, Row, Versions

LEMMA Initially == Init => KInv
<1> SUFFICES ASSUME Init PROVE KInv
  OBVIOUS
<1> USE Idles DEF Init
<1>1. 1 \in Versions /\ [id |-> 1, ver |-> 1] \in Row
  BY DEF Versions, Row
<1>2. HomesTyped /\ ActorsTyped
  BY <1>1 DEF HomesTyped, ActorsTyped
<1>3. /\ \A a \in Actors : prov[a].pc = "idle"
      /\ \A r \in Runs : run[r].pc = "idle" /\ homeMu # r
      /\ \A h \in Handlers : handler[h].pc = "idle"
      /\ Runs \subseteq Actors /\ Handlers \subseteq Actors
  BY CodexAssumption DEF Actors
<1>4. Assigned /\ Provisioners /\ Linkable /\ Undisturbed
  BY <1>3 DEF Assigned, Provisioners, Linkable, Undisturbed
<1> QED
  BY <1>2, <1>4 DEF KInv

-----------------------------------------------------------------------------
(* EnsureHome *)

\* Every step of it goes on, in its own home.
LEMMA EnsureSteps ==
    ASSUME KInv, NEW a \in Actors, EnsureHome(a)
    PROVE  LET n == prov[a].name IN
           /\ prov[a].pc \in {"home", "remove", "link", "truncate", "write", "workspace"}
           /\ n \in Names
           /\ prov' \in [Actors -> ProvState] /\ prov'[a].pc # "idle"
           /\ prov'[a].name = n /\ prov'[a].ver = prov[a].ver
           /\ \A b \in Actors : b # a => prov'[b] = prov[b] /\ (b \in open' <=> b \in open)
           /\ HomesTyped'
           /\ \A m \in Names : m # n => /\ dir'[m] = dir[m] /\ auth'[m] = auth[m]
                                        /\ work'[m] = work[m] /\ config'[m] = config[m]
           /\ UNCHANGED <<row, edits, homeMu, run, used, handler>>
<1> DEFINE n == prov[a].name
<1> USE DEF At, Goes, Sets, KInv
<1>1. prov[a].pc \in {"home", "remove", "link", "truncate", "write", "workspace"}
  BY DEF EnsureHome, MakeHome, RemoveAuth, LinkAuth, TruncateConfig, WriteConfig, MakeWorkspace
<1>2. n \in Names /\ prov[a].ver \in Versions
  BY <1>1 DEF Actors, Assigned, Provisioners
<1>3. PICK p \in {"remove", "link", "truncate", "write", "workspace", "ok", "failed"} :
          prov' = [prov EXCEPT ![a].pc = p]
  BY DEF EnsureHome, MakeHome, RemoveAuth, LinkAuth, TruncateConfig, WriteConfig, MakeWorkspace
<1>4. /\ prov' \in [Actors -> ProvState] /\ prov'[a].pc # "idle"
      /\ prov'[a].name = n /\ prov'[a].ver = prov[a].ver
      /\ \A b \in Actors : b # a => prov'[b] = prov[b]
  BY <1>3 DEF ActorsTyped, ProvState
<1>5. /\ HomesTyped'
      /\ \A m \in Names : m # n => /\ dir'[m] = dir[m] /\ auth'[m] = auth[m]
                                   /\ work'[m] = work[m] /\ config'[m] = config[m]
      /\ \A b \in Actors : b # a => (b \in open' <=> b \in open)
  <2> USE DEF HomesTyped
  <2>1. CASE MakeHome(a)
    BY <1>2, <2>1 DEF MakeHome
  <2>2. CASE RemoveAuth(a)
    BY <1>2, <2>2 DEF RemoveAuth
  <2>3. CASE LinkAuth(a)
    BY <1>2, <2>3 DEF LinkAuth
  <2>4. CASE TruncateConfig(a)
    BY <1>2, <2>4 DEF TruncateConfig
  <2>5. CASE WriteConfig(a)
    BY <1>2, <2>5 DEF WriteConfig
  <2>6. CASE MakeWorkspace(a)
    BY <1>2, <2>6 DEF MakeWorkspace
  <2> QED
    BY <2>1, <2>2, <2>3, <2>4, <2>5, <2>6 DEF EnsureHome
<1> QED
  BY <1>1, <1>2, <1>4, <1>5 DEF EnsureHome

\* Undisturbed, it reaches in each step what the step is for.
LEMMA EnsureAchieves ==
    ASSUME KInv, NEW r \in Runs, EnsureHome(r), Achieved(r)
    PROVE  Achieved(r)'
<1> DEFINE n == prov[r].name
<1> USE Idles DEF At, Goes, Sets
<1>0. /\ r \in Actors /\ r \notin Handlers /\ n \in Names
      /\ prov'[r].name = n /\ prov'[r].ver = prov[r].ver
      /\ \A b \in Actors : b # r => prov'[b] = prov[b]
      /\ UNCHANGED <<handler, run>>
      /\ dir \in [Names -> BOOLEAN] /\ auth \in [Names -> BOOLEAN] /\ work \in [Names -> BOOLEAN]
      /\ config \in [Names -> SUBSET Versions] /\ prov \in [Actors -> ProvState]
  BY EnsureSteps, CodexAssumption DEF Actors, KInv, HomesTyped, ActorsTyped
<1>1. ~Touching(n) /\ (Touching(n)' <=> Touching(n))
  BY <1>0 DEF Achieved, Touching, Actors
<1>2. CASE MakeHome(r)
  <2>1. prov'[r].pc = IF ~HasAuth THEN "truncate" ELSE IF auth[n] THEN "remove" ELSE "link"
    BY <1>0, <1>2 DEF MakeHome, ProvState
  <2>2. dir'[n] /\ UNCHANGED auth /\ (auth[n] => HasAuth)
    BY <1>0, <1>2 DEF MakeHome, KInv, Linkable
  <2> QED
    BY <1>0, <1>1, <2>1, <2>2 DEF Achieved
<1>3. CASE RemoveAuth(r)
  <2>1. /\ prov'[r].pc = "link" /\ ~auth'[n] /\ dir'[n]
    BY <1>0, <1>3 DEF RemoveAuth, Achieved, ProvState
  <2> QED
    BY <1>0, <1>1, <2>1 DEF Achieved
<1>4. CASE LinkAuth(r)
  <2>1. /\ prov'[r].pc = "truncate" /\ auth'[n] /\ dir'[n] /\ HasAuth
    BY <1>0, <1>4 DEF LinkAuth, Achieved, ProvState, KInv, Linkable
  <2> QED
    BY <1>0, <1>1, <2>1 DEF Achieved
<1>5. CASE TruncateConfig(r)
  <2>1. /\ prov'[r].pc = "write" /\ config'[n] = {} /\ r \in open' /\ dir'[n]
        /\ auth'[n] = HasAuth
    BY <1>0, <1>5 DEF TruncateConfig, Achieved, ProvState
  <2> QED
    BY <1>0, <1>1, <2>1 DEF Achieved
<1>6. CASE WriteConfig(r)
  <2>1. /\ prov'[r].pc = "workspace" /\ dir'[n] /\ auth'[n] = HasAuth
    BY <1>0, <1>6 DEF WriteConfig, Achieved, ProvState
  <2>2. config'[n] = {prov[r].ver}
    <3>1. r \in open /\ config[n] = {}
      BY <1>6 DEF WriteConfig, Achieved
    <3> QED
      BY <1>0, <1>6, <3>1 DEF WriteConfig
  <2> QED
    BY <1>0, <1>1, <2>1, <2>2 DEF Achieved
<1>7. CASE MakeWorkspace(r)
  <2>1. /\ prov'[r].pc = "ok" /\ dir'[n] /\ auth'[n] = HasAuth
        /\ config'[n] = {prov[r].ver} /\ work'[n]
    BY <1>0, <1>7 DEF MakeWorkspace, Achieved, ProvState
  <2> QED
    BY <1>0, <1>1, <2>1 DEF Achieved
<1> QED
  BY <1>2, <1>3, <1>4, <1>5, <1>6, <1>7 DEF EnsureHome

LEMMA EnsureStep ==
    ASSUME KInv, NEW a \in Actors, EnsureHome(a)
    PROVE  KInv'
<1> DEFINE n == prov[a].name
<1>1. /\ prov[a].pc \in {"home", "remove", "link", "truncate", "write", "workspace"}
      /\ n \in Names
      /\ prov' \in [Actors -> ProvState] /\ prov'[a].pc # "idle"
      /\ prov'[a].name = n /\ prov'[a].ver = prov[a].ver
      /\ \A b \in Actors : b # a => prov'[b] = prov[b] /\ (b \in open' <=> b \in open)
      /\ HomesTyped'
      /\ \A m \in Names : m # n => /\ dir'[m] = dir[m] /\ auth'[m] = auth[m]
                                   /\ work'[m] = work[m] /\ config'[m] = config[m]
      /\ UNCHANGED <<row, edits, homeMu, run, used, handler>>
  BY EnsureSteps
<1>2. Runs \subseteq Actors /\ Handlers \subseteq Actors /\ Runs \cap Handlers = {}
  BY CodexAssumption DEF Actors
<1>3. ActorsTyped'
  BY <1>1 DEF KInv, ActorsTyped
<1>4. Assigned' /\ Provisioners'
  BY <1>1, <1>2 DEF KInv, Assigned, Provisioners
<1>5. Linkable'
  <2> USE DEF At, Goes, Sets, Linkable
  <2>1. prov \in [Actors -> ProvState] /\ auth \in [Names -> BOOLEAN]
    BY DEF KInv, HomesTyped, ActorsTyped
  <2>2. auth'[n] => HasAuth
    BY <1>1, <2>1
    DEF EnsureHome, MakeHome, RemoveAuth, LinkAuth, TruncateConfig, WriteConfig, MakeWorkspace, KInv
  <2>3. prov'[a].pc \in {"remove", "link"} => HasAuth
    BY <1>1, <2>1
    DEF EnsureHome, MakeHome, RemoveAuth, LinkAuth, TruncateConfig, WriteConfig, MakeWorkspace, KInv,
        ProvState
  <2> QED
    BY <1>1, <2>2, <2>3 DEF KInv
<1>6. Undisturbed'
  <2> SUFFICES ASSUME NEW r \in Runs, run[r].pc = "home", run[r].alone PROVE Achieved(r)'
    BY <1>1 DEF Undisturbed
  <2>1. Achieved(r)
    BY DEF KInv, Undisturbed
  <2>2. CASE r = a
    BY <2>1, <2>2, EnsureAchieves
  <2>3. CASE r # a
    <3>1. prov[r].name # n /\ prov[r].name \in Names
      BY <1>1, <1>2, <2>1, <2>3 DEF KInv, Provisioners, Assigned, Achieved, Touching, Actors
    <3>2. Touching(prov[r].name)' <=> Touching(prov[r].name)
      BY <1>1, <1>2, <2>3 DEF Touching
    <3> QED
      BY <1>1, <1>2, <2>1, <2>3, <3>1, <3>2 DEF Achieved
  <2> QED
    BY <2>2, <2>3
<1> QED
  BY <1>1, <1>3, <1>4, <1>5, <1>6 DEF KInv

-----------------------------------------------------------------------------
(* Runs *)

\* Steps of a run that change no home, and no provisioning but its own.
LEMMA RunMoves ==
    ASSUME KInv, NEW r \in Runs, NEW u \in RunState, NEW p \in ProvState,
           run' = [run EXCEPT ![r] = u], prov' = [prov EXCEPT ![r] = p],
           UNCHANGED <<row, edits, homeVars, handler>>,
           homeMu' \in Runs \cup {Nobody},
           \A s \in Runs : s # r => (homeMu' = s <=> homeMu = s),
           u.pc = "home" <=> homeMu' = r,
           p.pc # "idle" => u.pc = "home" /\ p.pc = "home",
           u.pc # "idle" => p.name \in Names /\ p.ver \in Versions,
           u.pc = "home" /\ u.alone => p.pc = "home" /\ ~Touching(p.name)
    PROVE  KInv'
<1>1. Runs \subseteq Actors /\ Handlers \subseteq Actors /\ Runs \cap Handlers = {}
  BY CodexAssumption DEF Actors
<1>2. /\ run' \in [Runs -> RunState] /\ run'[r] = u /\ \A s \in Runs : s # r => run'[s] = run[s]
      /\ prov' \in [Actors -> ProvState] /\ prov'[r] = p
      /\ \A a \in Actors : a # r => prov'[a] = prov[a]
  BY <1>1 DEF KInv, ActorsTyped
<1>3. HomesTyped' /\ ActorsTyped'
  BY <1>2 DEF KInv, HomesTyped, ActorsTyped, homeVars
<1>4. Assigned'
  BY <1>1, <1>2 DEF KInv, Assigned
<1>5. Provisioners'
  BY <1>1, <1>2 DEF KInv, Provisioners
<1>6. Linkable'
  BY <1>2 DEF KInv, Linkable, homeVars
<1>7. Undisturbed'
  <2> SUFFICES ASSUME NEW s \in Runs, run'[s].pc = "home", run'[s].alone PROVE Achieved(s)'
    BY DEF Undisturbed
  <2>1. \A n : Touching(n)' <=> Touching(n)
    BY <1>1, <1>2 DEF Touching
  <2>2. CASE s = r
    BY <1>2, <2>1, <2>2 DEF Achieved
  <2>3. CASE s # r
    <3>1. Achieved(s) /\ prov'[s] = prov[s]
      BY <1>1, <1>2, <2>3 DEF KInv, Undisturbed
    <3> QED
      BY <2>1, <3>1 DEF Achieved, homeVars
  <2> QED
    BY <2>2, <2>3
<1> QED
  BY <1>3, <1>4, <1>5, <1>6, <1>7 DEF KInv

LEMMA RunStep ==
    ASSUME KInv, NEW r \in Runs,
           \/ BeginRun(r) \/ LockHome(r) \/ UnlockHome(r) \/ Execute(r) \/ Exit(r)
           \/ AcquireSlot(r) \/ GiveUpSlot(r) \/ ContextOver(r)
    PROVE  KInv'
<1> USE Idles DEF RunAt, RunGoes, RunReturns, At, Goes
<1>1. /\ r \in Actors /\ r # Nobody /\ run[r] \in RunState /\ prov[r] \in ProvState
      /\ run \in [Runs -> RunState] /\ prov \in [Actors -> ProvState]
      /\ homeMu \in Runs \cup {Nobody} /\ Nobody \notin Runs
  BY CodexAssumption DEF Actors, KInv, ActorsTyped
<1>2. /\ run[r].pc = "home" <=> homeMu = r
      /\ prov[r].pc # "idle" => run[r].pc = "home"
      /\ run[r].pc # "idle" => prov[r].name \in Names /\ prov[r].ver \in Versions
  BY DEF KInv, Provisioners, Assigned
<1>3. CASE BeginRun(r)
  <2>1. PICK n \in Names, kind \in {"run", "preview"} :
            /\ RunAt(r, "idle") /\ Exists(n)
            /\ run' = [run EXCEPT ![r] = [NotRunning EXCEPT !.pc = "lock", !.kind = kind]]
            /\ prov' = [prov EXCEPT ![r] = [pc |-> "idle", name |-> n, ver |-> row[n].ver]]
            /\ UNCHANGED <<row, edits, homeVars, homeMu, used, handler>>
    BY <1>3 DEF BeginRun
  <2>2. row[n].ver \in Versions
    BY <2>1 DEF KInv, ActorsTyped, Row, Exists
  <2>3. [pc |-> "idle", name |-> n, ver |-> row[n].ver] \in ProvState
    BY <2>2 DEF ProvState
  <2>4. [NotRunning EXCEPT !.pc = "lock", !.kind = kind] \in RunState
        /\ [NotRunning EXCEPT !.pc = "lock", !.kind = kind].pc = "lock"
    BY DEF RunState, NotRunning
  <2> QED
    BY <1>1, <1>2, <2>1, <2>2, <2>3, <2>4, RunMoves
<1>4. CASE LockHome(r)
  <2> DEFINE u == [run[r] EXCEPT !.pc = "home", !.alone = ~Touching(prov[r].name)]
             p == [prov[r] EXCEPT !.pc = "home"]
  <2>1. run[r].pc = "lock" /\ homeMu = Nobody /\ homeMu' = r
        /\ UNCHANGED <<row, edits, homeVars, handler>>
    BY <1>4 DEF LockHome, MutexFree
  <2>2. run' = [run EXCEPT ![r] = u] /\ prov' = [prov EXCEPT ![r] = p]
    BY <1>1, <1>4 DEF LockHome
  <2>3. u \in RunState /\ u.pc = "home" /\ (u.alone <=> ~Touching(prov[r].name))
    BY <1>1 DEF RunState, Touching
  <2>4. p \in ProvState /\ p.pc = "home" /\ p.name = prov[r].name /\ p.ver = prov[r].ver
    BY <1>1 DEF ProvState
  <2> HIDE DEF u, p
  <2> QED
    BY <1>1, <1>2, <2>1, <2>2, <2>3, <2>4, RunMoves
<1>5. CASE UnlockHome(r)
  <2>1. run[r].pc = "home" /\ homeMu = r /\ homeMu' = Nobody
        /\ UNCHANGED <<row, edits, homeVars, handler>>
    BY <1>2, <1>5 DEF UnlockHome, Unlock
  <2>2. CASE run' = [run EXCEPT ![r] = NotRunning] /\ prov' = [prov EXCEPT ![r] = NotProvisioning]
    BY <1>1, <1>2, <2>1, <2>2, RunMoves
  <2>3. ASSUME NEW pc \in {"slot", "start"},
               run' = [run EXCEPT ![r].pc = pc], prov' = [prov EXCEPT ![r].pc = "idle"]
        PROVE  KInv'
    <3> DEFINE u == [run[r] EXCEPT !.pc = pc]
               p == [prov[r] EXCEPT !.pc = "idle"]
    <3>1. run' = [run EXCEPT ![r] = u] /\ prov' = [prov EXCEPT ![r] = p]
      BY <2>3
    <3>2. u \in RunState /\ u.pc = pc /\ pc # "home"
      BY <1>1 DEF RunState
    <3>3. p \in ProvState /\ p.pc = "idle" /\ p.name = prov[r].name /\ p.ver = prov[r].ver
      BY <1>1 DEF ProvState
    <3> HIDE DEF u, p
    <3> QED
      BY <1>1, <1>2, <2>1, <3>1, <3>2, <3>3, RunMoves
  <2> QED
    BY <1>5, <2>2, <2>3 DEF UnlockHome
<1>6. CASE \/ AcquireSlot(r) \/ ContextOver(r) \/ ReadConfig(r) \/ Exit(r)
           \/ StartCodex(r) /\ RunGoes(r, "started") /\ UNCHANGED prov
  <2> DEFINE u == run'[r]
  <2>1. /\ run[r].pc # "idle" /\ run[r].pc # "home"
        /\ UNCHANGED <<row, edits, homeVars, handler, homeMu, prov>>
    BY <1>6 DEF AcquireSlot, ContextOver, ReadConfig, Exit, StartCodex
  <2>2. run' = [run EXCEPT ![r] = u] /\ u \in RunState /\ u.pc # "home" /\ u.pc # "idle"
    <3>1. CASE ContextOver(r)
      BY <1>1, <2>1, <3>1 DEF ContextOver, RunState
    <3>2. ASSUME NEW pc \in {"start", "started", "configured", "exited"}, run' = [run EXCEPT ![r].pc = pc]
          PROVE  run' = [run EXCEPT ![r] = u] /\ u \in RunState /\ u.pc # "home" /\ u.pc # "idle"
      BY <1>1, <3>2 DEF RunState
    <3>3. ContextOver(r) \/ \E pc \in {"start", "started", "configured", "exited"} :
                                run' = [run EXCEPT ![r].pc = pc]
      BY <1>6 DEF AcquireSlot, ReadConfig, Exit
    <3> QED
      BY <3>1, <3>2, <3>3
  <2>3. prov' = [prov EXCEPT ![r] = prov[r]]
    BY <1>1, <2>1
  <2> HIDE DEF u
  <2> QED
    BY <1>1, <1>2, <2>1, <2>2, <2>3, RunMoves
<1>7. CASE GiveUpSlot(r) \/ Finish(r) \/ (StartCodex(r) /\ RunReturns(r))
  <2>1. /\ run[r].pc # "home"
        /\ run' = [run EXCEPT ![r] = NotRunning] /\ prov' = [prov EXCEPT ![r] = NotProvisioning]
        /\ UNCHANGED <<row, edits, homeVars, handler, homeMu>>
    BY <1>7 DEF GiveUpSlot, Finish, StartCodex
  <2> QED
    BY <1>1, <1>2, <2>1, RunMoves
<1> QED
  BY <1>3, <1>4, <1>5, <1>6, <1>7 DEF Execute, StartCodex

-----------------------------------------------------------------------------
(* Profile handlers *)

\* A step of a handler, to g and p, that leaves the homes of the runs that stay alone.
Spares(g, p) ==
    \A r \in Runs : run'[r].pc = "home" /\ run'[r].alone =>
        LET n == prov[r].name IN
        /\ run[r].alone
        /\ g.pc # "idle" => p.name # n
        /\ dir'[n] = dir[n] /\ auth'[n] = auth[n] /\ work'[n] = work[n] /\ config'[n] = config[n]
        /\ r \in open => r \in open'

\* A handler moves on, in its own home; the runs in that home are no longer alone.
LEMMA HandlerMoves ==
    ASSUME KInv, NEW h \in Handlers, NEW g \in HandlerState, NEW p \in ProvState,
           handler' = [handler EXCEPT ![h] = g], prov' = [prov EXCEPT ![h] = p],
           UNCHANGED homeMu,
           row' \in [Names -> Row \cup {NoRow}], edits' \in Versions, HomesTyped',
           \A n \in Names : auth'[n] => auth[n],
           run' \in [Runs -> RunState],
           \A r \in Runs : run'[r].pc = run[r].pc,
           g.pc # "idle" => p.name \in Names /\ g.id \in Versions,
           g.pc = "home" => p.ver \in Versions,
           p.pc # "idle" => p.pc = "home" /\ g.pc = "home",
           Spares(g, p)
    PROVE  KInv'
<1>1. Runs \subseteq Actors /\ Handlers \subseteq Actors /\ Runs \cap Handlers = {}
  BY CodexAssumption DEF Actors
<1>2. /\ handler' \in [Handlers -> HandlerState] /\ handler'[h] = g
      /\ \A k \in Handlers : k # h => handler'[k] = handler[k]
      /\ prov' \in [Actors -> ProvState] /\ prov'[h] = p
      /\ \A a \in Actors : a # h => prov'[a] = prov[a]
  BY <1>1 DEF KInv, ActorsTyped
<1>3. ActorsTyped'
  BY <1>2 DEF KInv, ActorsTyped
<1>4. Assigned'
  BY <1>1, <1>2 DEF KInv, Assigned
<1>5. Provisioners'
  BY <1>1, <1>2 DEF KInv, Provisioners
<1>6. Linkable'
  BY <1>2 DEF KInv, Linkable
<1>7. Undisturbed'
  <2> SUFFICES ASSUME NEW r \in Runs, run'[r].pc = "home", run'[r].alone PROVE Achieved(r)'
    BY DEF Undisturbed
  <2>1. Achieved(r) /\ prov'[r] = prov[r]
    BY <1>1, <1>2 DEF KInv, Undisturbed, Spares
  <2>2. ~Touching(prov[r].name)'
    BY <1>1, <1>2, <2>1 DEF Achieved, Touching, Spares
  <2> QED
    BY <2>1, <2>2 DEF Achieved, Spares
<1> QED
  BY <1>3, <1>4, <1>5, <1>6, <1>7 DEF KInv

LEMMA HandlerStep ==
    ASSUME KInv, NEW h \in Handlers,
           \/ SaveProfile(h) \/ DeleteProfile(h) \/ Reread(h) \/ Saved(h)
           \/ RemoveHome(h) \/ RemoveWorkspace(h)
    PROVE  KInv'
<1> USE Idles
<1>1. /\ h \in Actors /\ Runs \subseteq Actors /\ handler[h] \in HandlerState /\ prov[h] \in ProvState
      /\ handler \in [Handlers -> HandlerState] /\ prov \in [Actors -> ProvState]
      /\ run \in [Runs -> RunState] /\ row \in [Names -> Row \cup {NoRow}] /\ edits \in Versions
      /\ HomesTyped
  BY DEF Actors, KInv, ActorsTyped
<1>2. /\ handler[h].pc # "idle" => prov[h].name \in Names /\ handler[h].id \in Versions
      /\ prov[h].pc # "idle" => handler[h].pc = "home"
  BY DEF KInv, Assigned, Provisioners
<1>3. \A r \in Runs : run[r].pc = "home" /\ run[r].alone /\ handler[h].pc # "idle" =>
          prov[r].name # prov[h].name
  BY DEF KInv, Undisturbed, Achieved, Touching
<1>4. ASSUME NEW n \in Names, NEW g \in HandlerState, g.pc \in {"reread", "rmhome"}, g.id \in Versions,
             handler' = [handler EXCEPT ![h] = g],
             prov' = [prov EXCEPT ![h] = [NotProvisioning EXCEPT !.name = n]],
             Touch(n), UNCHANGED <<homeVars, homeMu>>,
             row' \in [Names -> Row \cup {NoRow}], edits' \in Versions
      PROVE  KInv'
  <2> DEFINE p == [NotProvisioning EXCEPT !.name = n]
  <2>1. p \in ProvState /\ p.pc = "idle" /\ p.name = n
    BY DEF NotProvisioning, ProvState
  <2>2. \A r \in Runs : /\ run'[r] \in RunState /\ run'[r].pc = run[r].pc
                        /\ run'[r].alone => run[r].alone /\ prov[r].name # n
    BY <1>1, <1>4 DEF Touch, RunState
  <2>3. run' \in [Runs -> RunState]
    BY <1>4, <2>2 DEF Touch
  <2>4. HomesTyped'
    BY <1>1, <1>4 DEF HomesTyped, homeVars
  <2>5. UNCHANGED <<dir, auth, work, config, open, homeMu>>
    BY <1>4 DEF homeVars
  <2>6. Spares(g, p)
    BY <2>1, <2>2, <2>5 DEF Spares
  <2> HIDE DEF p
  <2>7. prov' = [prov EXCEPT ![h] = p] /\ (g.pc # "home") /\ (g.pc # "idle" => p.name \in Names)
    BY <1>4, <2>1 DEF p
  <2>8. /\ \A m \in Names : auth'[m] => auth[m]
        /\ \A r \in Runs : run'[r].pc = run[r].pc
    BY <2>2, <2>5
  <2>9. /\ g.pc # "idle" => p.name \in Names /\ g.id \in Versions
        /\ g.pc = "home" => p.ver \in Versions
        /\ p.pc # "idle" => p.pc = "home" /\ g.pc = "home"
    BY <1>4, <2>1, <2>7
  <2> QED
    BY <1>4, <2>1, <2>3, <2>4, <2>5, <2>6, <2>7, <2>8, <2>9, HandlerMoves
<1>5. CASE SaveProfile(h)
  <2>1. PICK n \in Names :
            LET ver == edits + 1
                id == IF Exists(n) THEN row[n].id ELSE ver
            IN
            /\ ver \in Versions
            /\ edits' = ver
            /\ row' = [row EXCEPT ![n] = [id |-> id, ver |-> ver]]
            /\ handler' = [handler EXCEPT ![h] = [pc |-> "reread", id |-> id]]
            /\ prov' = [prov EXCEPT ![h] = [NotProvisioning EXCEPT !.name = n]]
            /\ Touch(n)
            /\ UNCHANGED <<homeVars, homeMu, used>>
    BY <1>5 DEF SaveProfile
  <2> DEFINE id == IF Exists(n) THEN row[n].id ELSE edits + 1
             g == [pc |-> "reread", id |-> id]
  <2>2. id \in Versions /\ edits' \in Versions
    BY <1>1, <2>1 DEF Exists, Row
  <2>3. g \in HandlerState /\ g.pc = "reread" /\ g.id \in Versions
    BY <2>2 DEF HandlerState
  <2>4. row' \in [Names -> Row \cup {NoRow}]
    BY <1>1, <2>1, <2>2 DEF Row
  <2> QED
    BY <1>4, <2>1, <2>2, <2>3, <2>4
<1>6. CASE DeleteProfile(h)
  <2>1. PICK n \in Names :
            /\ Exists(n)
            /\ row' = [row EXCEPT ![n] = NoRow]
            /\ handler' = [handler EXCEPT ![h] = [pc |-> "rmhome", id |-> row[n].id]]
            /\ prov' = [prov EXCEPT ![h] = [NotProvisioning EXCEPT !.name = n]]
            /\ Touch(n)
            /\ UNCHANGED <<edits, homeVars, homeMu, used>>
    BY <1>6 DEF DeleteProfile
  <2> DEFINE g == [pc |-> "rmhome", id |-> row[n].id]
  <2>2. g \in HandlerState /\ g.pc = "rmhome" /\ g.id \in Versions
    BY <1>1, <2>1 DEF Exists, Row, HandlerState
  <2>3. row' \in [Names -> Row \cup {NoRow}]
    BY <1>1, <2>1
  <2> QED
    BY <1>1, <1>4, <2>1, <2>2, <2>3
<1>7. CASE Responds(h) /\ UNCHANGED <<row, edits, homeVars, homeMu, run>>
  <2>1. HomesTyped'
    BY <1>1, <1>7 DEF HomesTyped, homeVars
  <2>2. handler' = [handler EXCEPT ![h] = NoRequest] /\ prov' = [prov EXCEPT ![h] = NotProvisioning]
        /\ UNCHANGED <<row, edits, homeMu, run, dir, auth, work, config, open>>
    BY <1>7 DEF Responds, homeVars
  <2>3. Spares(NoRequest, NotProvisioning)
    BY <2>2 DEF Spares
  <2> QED
    BY <1>1, <2>1, <2>2, <2>3, HandlerMoves
<1>8. CASE /\ handler[h].pc = "reread" /\ row[prov[h].name].id = handler[h].id
           /\ handler' = [handler EXCEPT ![h].pc = "home"]
           /\ prov' = [prov EXCEPT ![h].pc = "home", ![h].ver = row[prov[h].name].ver]
           /\ UNCHANGED <<row, edits, homeVars, homeMu, run>>
  <2> DEFINE g == [handler[h] EXCEPT !.pc = "home"]
             p == [prov[h] EXCEPT !.pc = "home", !.ver = row[prov[h].name].ver]
  <2>1. g \in HandlerState /\ g.pc = "home" /\ g.id \in Versions
    BY <1>1, <1>2, <1>8 DEF HandlerState
  <2>2. row[prov[h].name].ver \in Versions
    BY <1>1, <1>2, <1>8 DEF Row
  <2>3. p \in ProvState /\ p.pc = "home" /\ p.name = prov[h].name /\ p.ver \in Versions
    BY <1>1, <2>2 DEF ProvState
  <2>4. handler' = [handler EXCEPT ![h] = g] /\ prov' = [prov EXCEPT ![h] = p]
    BY <1>1, <1>8
  <2>5. HomesTyped' /\ UNCHANGED <<row, edits, homeMu, run, dir, auth, work, config, open>>
    BY <1>1, <1>8 DEF HomesTyped, homeVars
  <2>6. Spares(g, p)
    BY <1>3, <1>8, <2>3, <2>5 DEF Spares
  <2>7. /\ \A n \in Names : auth'[n] => auth[n]
        /\ \A r \in Runs : run'[r].pc = run[r].pc
        /\ run' \in [Runs -> RunState] /\ row' \in [Names -> Row \cup {NoRow}] /\ edits' \in Versions
    BY <1>1, <2>5
  <2>8. /\ g.pc # "idle" => p.name \in Names /\ g.id \in Versions
        /\ g.pc = "home" => p.ver \in Versions
        /\ p.pc # "idle" => p.pc = "home" /\ g.pc = "home"
    BY <1>2, <1>8, <2>1, <2>3
  <2> HIDE DEF g, p
  <2> QED
    BY <2>1, <2>3, <2>4, <2>5, <2>6, <2>7, <2>8, HandlerMoves
<1>9. CASE RemoveHome(h)
  <2> DEFINE g == [handler[h] EXCEPT !.pc = "rmwork"]
             m == prov[h].name
  <2>1. /\ handler[h].pc = "rmhome" /\ handler' = [handler EXCEPT ![h] = g]
        /\ dir' = [dir EXCEPT ![m] = FALSE] /\ auth' = [auth EXCEPT ![m] = FALSE]
        /\ config' = [config EXCEPT ![m] = {}] /\ open' = {a \in open : prov[a].name # m}
        /\ UNCHANGED <<row, edits, work, prov, homeMu, run>>
    BY <1>1, <1>9 DEF RemoveHome, Sets
  <2>2. m \in Names /\ prov[h].pc = "idle" /\ prov' = [prov EXCEPT ![h] = prov[h]]
    BY <1>1, <1>2, <2>1
  <2>3. g \in HandlerState /\ g.pc = "rmwork" /\ g.id \in Versions
    BY <1>1, <1>2, <2>1 DEF HandlerState
  <2>4. HomesTyped'
    BY <1>1, <2>1, <2>2 DEF HomesTyped
  <2>5. \A n \in Names : auth'[n] => auth[n]
    BY <1>1, <2>1 DEF HomesTyped
  <2>6. Spares(g, prov[h])
    <3>1. \A r \in Runs : run[r].pc = "home" => prov[r].name \in Names
      BY DEF KInv, Assigned
    <3> QED
      BY <1>1, <1>3, <2>1, <2>2, <3>1 DEF HomesTyped, Spares
  <2> HIDE DEF g, m
  <2> QED
    BY <1>1, <1>2, <2>1, <2>2, <2>3, <2>4, <2>5, <2>6, HandlerMoves DEF m
<1>10. CASE RemoveWorkspace(h)
  <2> DEFINE m == prov[h].name
  <2>1. /\ handler[h].pc = "rmwork" /\ handler' = [handler EXCEPT ![h] = NoRequest]
        /\ prov' = [prov EXCEPT ![h] = NotProvisioning]
        /\ work' = [work EXCEPT ![m] = FALSE]
        /\ UNCHANGED <<row, edits, dir, auth, config, open, homeMu, run>>
    BY <1>10 DEF RemoveWorkspace, Responds, Sets
  <2>2. m \in Names
    BY <1>2, <2>1
  <2>3. HomesTyped'
    BY <1>1, <2>1, <2>2 DEF HomesTyped
  <2>4. Spares(NoRequest, NotProvisioning)
    <3>1. \A r \in Runs : run[r].pc = "home" => prov[r].name \in Names
      BY DEF KInv, Assigned
    <3> QED
      BY <1>1, <1>3, <2>1, <2>2, <3>1 DEF HomesTyped, Spares
  <2> HIDE DEF m
  <2> QED
    BY <1>1, <2>1, <2>3, <2>4, HandlerMoves
<1> QED
  BY <1>5, <1>6, <1>7, <1>8, <1>9, <1>10 DEF Reread, Saved

LEMMA Inductive == KInv /\ [Next]_vars => KInv'
<1> SUFFICES ASSUME KInv, [Next]_vars PROVE KInv'
  OBVIOUS
<1>1. CASE UNCHANGED vars
  BY <1>1
  DEF vars, homeVars, KInv, HomesTyped, ActorsTyped, Assigned, Provisioners, Linkable, Undisturbed,
      Achieved, Touching
<1> QED
  BY <1>1, EnsureStep, RunStep, HandlerStep DEF Next, Provision, Handle, Actors

LEMMA Invariant == Spec => []KInv
BY Initially, Inductive, PTL DEF Spec

-----------------------------------------------------------------------------
(* The slots *)

\* Only a run waits for one.
SlotInv ==
    /\ \A r \in Runs : run[r].pc = "slot" => run[r].kind = "run"
    /\ SlotsExact

LEMMA HoldingFinite ==
    /\ IsFiniteSet(Holding) /\ Cardinality(Holding) \in Nat
    /\ IsFiniteSet(Holding') /\ Cardinality(Holding') \in Nat
    /\ Slots \in Nat \ {0}
<1>1. Holding \in SUBSET Runs /\ Holding' \in SUBSET Runs /\ IsFiniteSet(Runs)
  BY CodexAssumption DEF Holding
<1>2. IsFiniteSet(Holding) /\ IsFiniteSet(Holding')
  BY <1>1, FS_Subset
<1>3. Cardinality(Holding) \in Nat /\ Cardinality(Holding') \in Nat
  BY <1>2, FS_CardinalityType
<1>4. Slots \in Nat \ {0}
  BY CodexAssumption DEF Slots
<1> QED
  BY <1>2, <1>3, <1>4

LEMMA SlotInit == Init => SlotInv /\ Waiting = {} /\ Holding = {}
<1> SUFFICES ASSUME Init PROVE SlotInv /\ Waiting = {} /\ Holding = {}
  OBVIOUS
<1>1. \A r \in Runs : run[r].pc = "idle"
  BY Idles DEF Init
<1>2. Waiting = {} /\ Holding = {}
  BY <1>1 DEF Waiting, Holding, RunAt
<1> QED
  BY <1>1, <1>2, FS_EmptySet, HoldingFinite DEF SlotInv, SlotsExact, Init

\* Every step leaves waiting and holding alone, or moves one run along.
Asks(r) == r \notin Waiting /\ r \notin Holding /\ Waiting' = Waiting \cup {r} /\ UNCHANGED <<Holding, used>>
Takes(r) ==
    /\ r \in Waiting /\ r \notin Holding /\ HasRoom
    /\ Waiting' = Waiting \ {r} /\ Holding' = Holding \cup {r} /\ used' = used + 1
GivesUp(r) == r \in Waiting /\ Waiting' = Waiting \ {r} /\ UNCHANGED <<Holding, used>>
Gives(r) == r \in Holding /\ Holding' = Holding \ {r} /\ used' = used - 1 /\ UNCHANGED Waiting

LEMMA SlotMoves ==
    ASSUME KInv, SlotInv, [Next]_vars
    PROVE  /\ \A r \in Runs : run'[r].pc = "slot" => run'[r].kind = "run"
           /\ \/ UNCHANGED <<Waiting, Holding, used>>
              \/ \E r \in Runs : Asks(r) \/ Takes(r) \/ GivesUp(r) \/ Gives(r)
<1> USE Idles DEF RunAt, RunGoes, RunReturns, SlotInv
<1>1. run \in [Runs -> RunState] /\ \A r \in Runs : run[r] \in RunState
  BY DEF KInv, ActorsTyped
<1>2. ASSUME UNCHANGED used, \A r \in Runs : run'[r].pc = run[r].pc /\ run'[r].kind = run[r].kind
      PROVE  /\ \A r \in Runs : run'[r].pc = "slot" => run'[r].kind = "run"
             /\ UNCHANGED <<Waiting, Holding, used>>
  BY <1>2 DEF Waiting, Holding
<1>3. ASSUME NEW r \in Runs, NEW u, run' = [run EXCEPT ![r] = u], UNCHANGED used,
             run[r].pc \notin {"slot", "start", "started", "configured", "exited"} \/ run[r].kind # "run",
             u.pc \notin {"slot", "start", "started", "configured", "exited"} \/ u.kind # "run",
             u.pc # "slot"
      PROVE  /\ \A s \in Runs : run'[s].pc = "slot" => run'[s].kind = "run"
             /\ UNCHANGED <<Waiting, Holding, used>>
  BY <1>1, <1>3 DEF Waiting, Holding
<1>4. ASSUME NEW r \in Runs, BeginRun(r) \/ LockHome(r)
      PROVE  /\ \A s \in Runs : run'[s].pc = "slot" => run'[s].kind = "run"
             /\ UNCHANGED <<Waiting, Holding, used>>
  <2>1. /\ run' = [run EXCEPT ![r] = run'[r]] /\ UNCHANGED used
        /\ run[r].pc \in {"idle", "lock"} /\ run'[r].pc \in {"lock", "home"}
    <3>1. CASE BeginRun(r)
      <4>1. PICK k \in {"run", "preview"} :
              /\ run[r].pc = "idle" /\ UNCHANGED used
              /\ run' = [run EXCEPT ![r] = [NotRunning EXCEPT !.pc = "lock", !.kind = k]]
        BY <3>1 DEF BeginRun
      <4>2. [NotRunning EXCEPT !.pc = "lock", !.kind = k].pc = "lock"
        BY DEF NotRunning
      <4> QED
        BY <1>1, <4>1, <4>2
    <3>2. CASE LockHome(r)
      <4>1. /\ run[r].pc = "lock" /\ UNCHANGED used
            /\ run' = [run EXCEPT ![r] = [run[r] EXCEPT !.pc = "home", !.alone = ~Touching(prov[r].name)]]
        BY <1>1, <3>2 DEF LockHome, RunState
      <4> QED
        BY <1>1, <4>1 DEF RunState
    <3> QED
      BY <1>4, <3>1, <3>2
  <2> QED
    BY <1>3, <2>1
<1>5. ASSUME NEW r \in Runs, UnlockHome(r)
      PROVE  /\ \A s \in Runs : run'[s].pc = "slot" => run'[s].kind = "run"
             /\ UNCHANGED <<Waiting, Holding, used>> \/ Asks(r)
  <2>1. run[r].pc = "home" /\ UNCHANGED used
    BY <1>5 DEF UnlockHome
  <2>2. CASE run' = [run EXCEPT ![r] = NotRunning]
    BY <1>3, <2>1, <2>2
  <2>3. CASE run[r].kind = "run" /\ run' = [run EXCEPT ![r].pc = "slot"]
    <3>1. /\ run'[r].pc = "slot" /\ run'[r].kind = "run"
          /\ \A s \in Runs : s # r => run'[s] = run[s]
      BY <1>1, <2>3 DEF RunState
    <3> QED
      BY <2>1, <3>1 DEF Asks, Waiting, Holding
  <2>4. CASE run[r].kind # "run" /\ run' = [run EXCEPT ![r].pc = "start"]
    <3>1. run' = [run EXCEPT ![r] = run'[r]] /\ run'[r].pc = "start" /\ run'[r].kind # "run"
      BY <1>1, <2>4 DEF RunState
    <3> QED
      BY <1>3, <2>1, <2>4, <3>1
  <2> QED
    BY <1>5, <2>2, <2>3, <2>4 DEF UnlockHome
<1>6. ASSUME NEW r \in Runs, AcquireSlot(r)
      PROVE  /\ \A s \in Runs : run'[s].pc = "slot" => run'[s].kind = "run"
             /\ Takes(r)
  <2>1. /\ run[r].pc = "slot" /\ run[r].kind = "run"
        /\ run'[r].pc = "start" /\ run'[r].kind = "run"
        /\ \A s \in Runs : s # r => run'[s] = run[s]
        /\ HasRoom /\ used' = used + 1
    BY <1>1, <1>6 DEF AcquireSlot, RunState
  <2> QED
    BY <2>1 DEF Takes, Waiting, Holding
<1>7. ASSUME NEW r \in Runs, GiveUpSlot(r)
      PROVE  /\ \A s \in Runs : run'[s].pc = "slot" => run'[s].kind = "run"
             /\ GivesUp(r)
  <2>1. /\ run[r].pc = "slot" /\ run'[r] = NotRunning /\ UNCHANGED used
        /\ \A s \in Runs : s # r => run'[s] = run[s]
    BY <1>1, <1>7 DEF GiveUpSlot
  <2> QED
    BY <2>1 DEF GivesUp, Waiting, Holding
<1>8. ASSUME NEW r \in Runs, ContextOver(r)
      PROVE  /\ \A s \in Runs : run'[s].pc = "slot" => run'[s].kind = "run"
             /\ UNCHANGED <<Waiting, Holding, used>>
  <2>1. UNCHANGED used /\ \A s \in Runs : run'[s].pc = run[s].pc /\ run'[s].kind = run[s].kind
    BY <1>1, <1>8 DEF ContextOver, RunState
  <2> QED
    BY <1>2, <2>1
<1>9. ASSUME NEW r \in Runs, NEW pc \in {"started", "configured", "exited"},
             run[r].pc \in {"start", "started", "configured"},
             run' = [run EXCEPT ![r].pc = pc], UNCHANGED used
      PROVE  /\ \A s \in Runs : run'[s].pc = "slot" => run'[s].kind = "run"
             /\ UNCHANGED <<Waiting, Holding, used>>
  <2>1. /\ run'[r].pc = pc /\ run'[r].kind = run[r].kind
        /\ \A s \in Runs : s # r => run'[s] = run[s]
    BY <1>1, <1>9 DEF RunState
  <2> QED
    BY <1>9, <2>1 DEF Waiting, Holding
<1>10. ASSUME NEW r \in Runs, run[r].pc \in {"start", "exited"}, run' = [run EXCEPT ![r] = NotRunning],
              FreeSlot(r)
       PROVE  /\ \A s \in Runs : run'[s].pc = "slot" => run'[s].kind = "run"
              /\ UNCHANGED <<Waiting, Holding, used>> \/ Gives(r)
  <2>1. run'[r] = NotRunning /\ \A s \in Runs : s # r => run'[s] = run[s]
    BY <1>1, <1>10
  <2> QED
    BY <1>10, <2>1 DEF FreeSlot, Gives, Waiting, Holding
<1>11. ASSUME NEW a \in Actors, EnsureHome(a)
       PROVE  UNCHANGED <<run, used>>
  BY <1>11 DEF EnsureHome
<1>12. ASSUME NEW h \in Handlers, SaveProfile(h) \/ DeleteProfile(h)
       PROVE  UNCHANGED used /\ \A r \in Runs : run'[r].pc = run[r].pc /\ run'[r].kind = run[r].kind
  <2>1. PICK n \in Names : Touch(n) /\ UNCHANGED used
    BY <1>12 DEF SaveProfile, DeleteProfile
  <2> QED
    BY <1>1, <2>1 DEF Touch, RunState
<1>13. ASSUME NEW h \in Handlers, Reread(h) \/ Saved(h) \/ RemoveHome(h) \/ RemoveWorkspace(h)
       PROVE  UNCHANGED <<run, used>>
  BY <1>13 DEF Reread, Saved, RemoveHome, RemoveWorkspace
<1>14. ASSUME NEW r \in Runs, Execute(r) \/ Exit(r)
       PROVE  /\ \A s \in Runs : run'[s].pc = "slot" => run'[s].kind = "run"
              /\ UNCHANGED <<Waiting, Holding, used>> \/ Gives(r)
  BY <1>9, <1>10, <1>14 DEF Execute, StartCodex, ReadConfig, Finish, Exit
<1>15. CASE UNCHANGED <<run, used>>
  BY <1>2, <1>15
<1>16. CASE UNCHANGED vars
  BY <1>15, <1>16 DEF vars
<1>17. CASE \E r \in Runs : \/ BeginRun(r) \/ Provision(r) \/ Execute(r) \/ Exit(r)
                            \/ AcquireSlot(r) \/ GiveUpSlot(r) \/ ContextOver(r)
  BY <1>4, <1>5, <1>6, <1>7, <1>8, <1>11, <1>14, <1>15, <1>17 DEF Provision, Actors
<1>18. CASE \E h \in Handlers : SaveProfile(h) \/ DeleteProfile(h) \/ Handle(h)
  BY <1>2, <1>11, <1>12, <1>13, <1>15, <1>18 DEF Handle, Actors
<1> QED
  BY <1>16, <1>17, <1>18 DEF Next

LEMMA SlotStep == KInv /\ SlotInv /\ [Next]_vars => SlotInv'
<1> SUFFICES ASSUME KInv, SlotInv, [Next]_vars PROVE SlotInv'
  OBVIOUS
<1>1. \A r \in Runs : run'[r].pc = "slot" => run'[r].kind = "run"
  BY SlotMoves
<1>2. used = Cardinality(Holding) /\ used <= Slots /\ used \in Nat /\ Slots \in Nat
  BY HoldingFinite DEF SlotInv, SlotsExact
<1>3. ASSUME UNCHANGED <<Holding, used>> PROVE SlotsExact'
  <2>1. used' = used /\ Cardinality(Holding') = Cardinality(Holding)
    BY <1>3
  <2>2. Slots' = Slots
    BY DEF Slots
  <2> QED
    BY <1>2, <2>1, <2>2 DEF SlotsExact
<1>4. ASSUME NEW r \in Runs, Takes(r)
      PROVE  SlotsExact'
  <2>1. Cardinality(Holding') = Cardinality(Holding) + 1
    BY <1>4, HoldingFinite, FS_AddElement DEF Takes
  <2> QED
    BY <1>2, <1>4, <2>1 DEF SlotsExact, Takes, HasRoom, Slots
<1>5. ASSUME NEW r \in Runs, Gives(r)
      PROVE  SlotsExact'
  <2>1. Cardinality(Holding') = Cardinality(Holding) - 1
    BY <1>5, HoldingFinite, FS_RemoveElement DEF Gives
  <2> QED
    BY <1>2, <1>5, <2>1 DEF SlotsExact, Gives, Slots
<1> QED
  BY <1>1, <1>3, <1>4, <1>5, SlotMoves DEF SlotInv, Asks, GivesUp

LEMMA SlotInvariant == Spec => []SlotInv
<1>1. Init => SlotInv
  BY SlotInit
<1> QED
  BY <1>1, SlotStep, Invariant, PTL DEF Spec

-----------------------------------------------------------------------------
(* The theorems *)

\* The table, the homes, the slots and all actors keep their types.
THEOREM CodexTypes == Spec => []TypeOK
<1>1. ASSUME KInv, SlotInv PROVE TypeOK
  <2>1. used \in 0..Slots
    BY <1>1, HoldingFinite DEF SlotInv, SlotsExact
  <2> QED
    BY <1>1, <2>1
    DEF KInv, HomesTyped, ActorsTyped, TypeOK, ProvState, RunState, HandlerState
<1> QED
  BY <1>1, Invariant, SlotInvariant, PTL

\* No more runs than MAX_CONCURRENT_RUNS hold a slot, and none is lost or given back twice,
\* whatever way a run ends.
THEOREM SlotsCounted == Spec => []SlotsExact
<1>1. SlotInv => SlotsExact
  BY DEF SlotInv
<1> QED
  BY <1>1, SlotInvariant, PTL

\* With any number of runs and previews of any number of profiles, homeMu suffices for
\* each of them to leave ensureHome with its own complete home; the handlers of the same
\* profile are the only ones that can spoil it.
THEOREM HomesComplete == Spec => []AloneProvisions
<1>1. ASSUME KInv, NEW r \in Runs, run[r].alone, prov[r].pc \in {"ok", "failed"}
      PROVE  /\ At(r, "ok")
             /\ dir[prov[r].name] /\ work[prov[r].name]
             /\ auth[prov[r].name] = HasAuth
             /\ config[prov[r].name] = {prov[r].ver}
  <2>1. Achieved(r)
    BY <1>1 DEF KInv, Provisioners, Undisturbed
  <2> QED
    BY <1>1, <2>1 DEF Achieved, At
<1>2. KInv => AloneProvisions
  BY <1>1 DEF AloneProvisions
<1> QED
  BY <1>2, Invariant, PTL

LEMMA PoolStep == KInv /\ SlotInv /\ [Next]_vars => [Pool!Next]_(Pool!poolVars)
<1> SUFFICES ASSUME KInv, SlotInv, [Next]_vars PROVE [Pool!Next]_(Pool!poolVars)
  OBVIOUS
<1> USE DEF Pool!Next, Pool!poolVars, Pool!Ask, Pool!Take, Pool!GiveUp, Pool!Give
<1>1. CASE UNCHANGED <<Waiting, Holding, used>>
  BY <1>1
<1>2. ASSUME NEW r \in Runs, Asks(r) PROVE Pool!Ask(r)
  BY <1>2 DEF Asks
<1>3. ASSUME NEW r \in Runs, Takes(r) PROVE Pool!Take(r)
  <2>1. Cardinality(Holding) < Slots
    BY <1>3 DEF Takes, HasRoom, SlotInv, SlotsExact
  <2>2. Pool!Cardinality(Holding) = Cardinality(Holding)
    BY DEF Cardinality, Pool!Cardinality
  <2> QED
    BY <1>3, <2>1, <2>2 DEF Takes
<1>4. ASSUME NEW r \in Runs, GivesUp(r) PROVE Pool!GiveUp(r)
  BY <1>4 DEF GivesUp
<1>5. ASSUME NEW r \in Runs, Gives(r) PROVE Pool!Give(r)
  BY <1>5 DEF Gives
<1> QED
  BY <1>1, <1>2, <1>3, <1>4, <1>5, SlotMoves

\* The slots of codex.Service are a pool of Slots tokens.
THEOREM SlotsArePool == Spec => Pool!Safety
<1>1. Init => Pool!Init
  BY SlotInit DEF Pool!Init
<1> QED
  BY <1>1, PoolStep, Invariant, SlotInvariant, PTL DEF Spec, Pool!Safety
=============================================================================
