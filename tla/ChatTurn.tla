------------------------------ MODULE ChatTurn ------------------------------
(***************************************************************************)
(* Chat turns: handleChatStream (internal/httpapi/chat.go) over the        *)
(* conversations and messages tables (internal/store/conversation.go) and  *)
(* codex.Service.Run (internal/codex/service.go), with the requests that   *)
(* create and delete conversations under it and the restarts of the        *)
(* process.                                                                *)
(*                                                                         *)
(* A turn is the pair of message rows that BeginConversationTurn inserts   *)
(* in one transaction; its reply is "running" until it is finalized.       *)
(***************************************************************************)
EXTENDS Integers

CONSTANTS
    Convs,      \* ids the conversations table can hand out (AUTOINCREMENT)
    Requests,   \* concurrent POST /api/chat/stream requests
    MaxTurns,   \* bound on the turns of an instance (message ids are never reused)
    MaxFaults,  \* bound on the number of store calls that fail
    NoConv

ASSUME ChatAssumption ==
    /\ MaxTurns \in Nat
    /\ MaxFaults \in Nat
    /\ NoConv \notin Convs

Turns == 1..MaxTurns
NoThread == 0              \* the empty thread id
Threads == 0..MaxTurns     \* the codex session started for turn m has the id m
NoTurn == [conv |-> NoConv, status |-> "none"]
TurnRow == [conv : Convs, status : {"running", "ok", "error"}]
Request == [pc : {"read", "run", "exec", "done"}, conv : Convs, thread : Threads,
            turn : 0..MaxTurns, result : Threads, status : {"ok", "error"}]
Idle == [pc |-> "idle"]

VARIABLES
    up,        \* the process is running
    state,     \* per conversation id: absent, live or deleted
    thread,    \* conversations.thread_id
    turns,     \* table messages
    lastTurn,  \* the last message id handed out
    req,       \* per request: the handler's place and its local variables
    faults     \* failed store calls so far

vars == <<up, state, thread, turns, lastTurn, req, faults>>

-----------------------------------------------------------------------------
Live(c) == state[c] = "live"
Fault == faults < MaxFaults /\ faults' = faults + 1
NoFault == UNCHANGED faults

\* The partial unique index on running assistant rows.
Active(c) == \E m \in Turns : turns[m].conv = c /\ turns[m].status = "running"

CreateConversation(c) ==
    /\ up
    /\ state[c] = "absent"
    /\ state' = [state EXCEPT ![c] = "live"]
    /\ UNCHANGED <<up, thread, turns, lastTurn, req, faults>>

\* The messages go with the conversation (ON DELETE CASCADE), a running reply too.
\* Deleting the profile does the same to all of its conversations.
DeleteConversation(c) ==
    /\ up
    /\ Live(c)
    /\ state' = [state EXCEPT ![c] = "deleted"]
    /\ thread' = [thread EXCEPT ![c] = NoThread]
    /\ turns' = [m \in Turns |-> IF turns[m].conv = c THEN NoTurn ELSE turns[m]]
    /\ UNCHANGED <<up, lastTurn, req, faults>>

-----------------------------------------------------------------------------
(* One chat request *)

Leave(q) == req' = [req EXCEPT ![q] = Idle]

\* GetConversation: the thread id the turn will resume is read here.
GetConversation(q, c) ==
    /\ up
    /\ req[q] = Idle
    /\ Live(c)
    /\ req' = [req EXCEPT ![q] = [pc |-> "read", conv |-> c, thread |-> thread[c],
                                  turn |-> 0, result |-> NoThread, status |-> "ok"]]
    /\ UNCHANGED <<up, state, thread, turns, lastTurn, faults>>

\* Mutant: without the index a second turn is admitted.
AdmitAlways(c) == Live(c)

\* Mutant: without the foreign key the conversation need not exist.
AdmitDangling(c) == ~Active(c)

Admit(c) == Live(c) /\ ~Active(c)

\* BeginConversationTurn: the reservation is taken and the handler goes on to the run;
\* or it is refused (409, or the conversation is gone) and inserts nothing; or its
\* transaction fails; or it commits and one of the two reads after it fails, and the
\* handler returns with the reservation taken.
BeginConversationTurn(q) ==
    LET c == req[q].conv
        m == lastTurn + 1
    IN
    /\ req[q].pc = "read"
    /\ \/ /\ Admit(c)
          /\ m \in Turns
          /\ lastTurn' = m
          /\ turns' = [turns EXCEPT ![m] = [conv |-> c, status |-> "running"]]
          /\ \/ req' = [req EXCEPT ![q].pc = "run", ![q].turn = m] /\ NoFault
             \/ Leave(q) /\ Fault
       \/ /\ \/ ~Admit(c) /\ NoFault
             \/ Admit(c) /\ Fault
          /\ Leave(q)
          /\ UNCHANGED <<turns, lastTurn>>
    /\ UNCHANGED <<up, state, thread>>

\* Mutant: the thread id of the conversation is not passed on.
SessionFresh(q) == req[q].turn

\* buildArgs: resume the thread of the snapshot, or let codex start a new one.
Session(q) == IF req[q].thread = NoThread THEN req[q].turn ELSE req[q].thread

\* Run fails before codex starts (home, slot, process) and reports the thread it was given.
RunFailsEarly(q) ==
    /\ req[q].pc = "run"
    /\ req' = [req EXCEPT ![q].pc = "done", ![q].status = "error",
                          ![q].result = req[q].thread]
    /\ UNCHANGED <<up, state, thread, turns, lastTurn, faults>>

StartCodex(q) ==
    /\ req[q].pc = "run"
    /\ req' = [req EXCEPT ![q].pc = "exec"]
    /\ UNCHANGED <<up, state, thread, turns, lastTurn, faults>>

\* Run returns.  Killed early (timeout, client gone), codex has not announced its thread.
RunReturns(q) ==
    /\ req[q].pc = "exec"
    /\ \E status \in {"ok", "error"}, result \in {req[q].thread, Session(q)} :
          /\ status = "ok" => result = Session(q)
          /\ req' = [req EXCEPT ![q].pc = "done", ![q].status = status,
                                ![q].result = result]
    /\ UNCHANGED <<up, state, thread, turns, lastTurn, faults>>

\* Mutant: an empty thread id is written too.
SetThreadAlways(q) == thread' = [thread EXCEPT ![req[q].conv] = req[q].result]

SetThread(q) ==
    thread' = IF req[q].result = NoThread THEN thread
              ELSE [thread EXCEPT ![req[q].conv] = req[q].result]

\* The transaction: both rows, or neither if the reply is no longer running.
Finalize(q) ==
    /\ turns[req[q].turn].status = "running"
    /\ SetThread(q)
    /\ turns' = [turns EXCEPT ![req[q].turn].status = req[q].status]
    /\ NoFault

\* FinalizeConversationTurn's outcome is only logged.
FinalizeConversationTurn(q) ==
    /\ req[q].pc = "done"
    /\ \/ Finalize(q)
       \/ /\ UNCHANGED <<thread, turns>>
          /\ IF turns[req[q].turn].status = "running" THEN Fault ELSE NoFault
    /\ Leave(q)
    /\ UNCHANGED <<up, state, lastTurn>>

Handler(q) ==
    \/ BeginConversationTurn(q) \/ RunFailsEarly(q) \/ StartCodex(q)
    \/ RunReturns(q) \/ FinalizeConversationTurn(q)

-----------------------------------------------------------------------------
(* The process *)

\* A crash, or the end of main: chat runs are not derived from the root context, and
\* srv.Shutdown stops waiting for them after 20 s.
ProcessEnds ==
    /\ up
    /\ up' = FALSE
    /\ req' = [q \in Requests |-> Idle]
    /\ UNCHANGED <<state, thread, turns, lastTurn, faults>>

\* Mutant: the boot does not repair the table.
MarkNothing == UNCHANGED turns

MarkStaleMessagesFailed ==
    turns' = [m \in Turns |-> IF turns[m].status = "running"
                              THEN [turns[m] EXCEPT !.status = "error"]
                              ELSE turns[m]]

Boot ==
    /\ ~up
    /\ up' = TRUE
    /\ \/ MarkStaleMessagesFailed /\ NoFault
       \/ UNCHANGED turns /\ Fault
    /\ UNCHANGED <<state, thread, lastTurn, req>>

-----------------------------------------------------------------------------
Init ==
    /\ up = FALSE
    /\ state = [c \in Convs |-> "absent"]
    /\ thread = [c \in Convs |-> NoThread]
    /\ turns = [m \in Turns |-> NoTurn]
    /\ lastTurn = 0
    /\ req = [q \in Requests |-> Idle]
    /\ faults = 0

Next ==
    \/ \E c \in Convs : CreateConversation(c) \/ DeleteConversation(c)
    \/ \E q \in Requests, c \in Convs : GetConversation(q, c)
    \/ \E q \in Requests : Handler(q)
    \/ ProcessEnds
    \/ Boot

Spec == Init /\ [][Next]_vars

\* Handlers go on, a codex run ends (its timeout kills the process group), and the
\* process is started again (by systemd after a failure, by the operator after a stop).
Fairness == (\A q \in Requests : WF_vars(Handler(q))) /\ WF_vars(Boot)

FairSpec == Spec /\ Fairness

-----------------------------------------------------------------------------
\* Every message belongs to a conversation that exists.
TypeOK ==
    /\ up \in BOOLEAN
    /\ state \in [Convs -> {"absent", "live", "deleted"}]
    /\ thread \in [Convs -> Threads]
    /\ turns \in [Turns -> TurnRow \cup {NoTurn}]
    /\ \A m \in Turns : turns[m] # NoTurn => Live(turns[m].conv)
    /\ lastTurn \in 0..MaxTurns
    /\ req \in [Requests -> Request \cup {Idle}]
    /\ faults \in 0..MaxFaults

\* Two codex processes never work on one thread at the same time: the handlers of one
\* conversation exclude each other through the running reply, and no thread id reaches
\* a second conversation.
ThreadExclusive ==
    \A q, s \in Requests :
        req[q].pc = "exec" /\ req[s].pc = "exec" /\ Session(q) = Session(s) => q = s

\* While the process is up, a reply that says "running" has a handler that will close
\* it: otherwise every later turn of the conversation is refused with 409.
RunningReplyOwned ==
    up /\ faults = 0 =>
        \A m \in Turns : turns[m].status = "running" =>
            \E q \in Requests : req[q].pc \in {"run", "exec", "done"} /\ req[q].turn = m

\* A conversation never loses the thread it resumes, whatever becomes of a turn.
ThreadKept ==
    [][\A c \in Convs : thread[c] # NoThread /\ state'[c] = "live" =>
            thread'[c] # NoThread]_vars

\* A turn that was given the thread its conversation has does not move the conversation
\* to another one: only a turn with an outdated thread id can.
ResumeKeepsThread ==
    [][\A c \in Convs :
        thread[c] # NoThread /\ state'[c] = "live" /\ thread'[c] # thread[c] =>
            \E q \in Requests : /\ req[q].pc = "done" /\ req'[q] = Idle
                                /\ req[q].conv = c /\ req[q].thread # thread[c]]_vars

\* "the next admitted turn cannot observe a stale thread id"
NoStaleThread ==
    \A q \in Requests : req[q].pc \in {"run", "exec"} /\ Live(req[q].conv) =>
        req[q].thread = thread[req[q].conv]

Ledger == INSTANCE RunLedger WITH
    Tasks <- Convs, RunIds <- Turns, NoTask <- NoConv,
    open <- [m \in Turns |-> IF turns[m].status = "running" THEN turns[m].conv ELSE NoConv]

\* At most one reply of a conversation is open, with or without failing store calls; and
\* without one, each reply is closed in the end.
ImplementsLedger ==
    /\ Ledger!Safety
    /\ \A m \in Turns :
          turns[m].status = "running" ~> turns[m].status # "running" \/ faults # 0
=============================================================================
