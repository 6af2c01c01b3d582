----------------------------- MODULE ChatProofs -----------------------------
(***************************************************************************)
(* What holds of chat turns for any number of conversations, requests,     *)
(* turns and failing store calls.                                          *)
(***************************************************************************)
EXTENDS ChatTurn, TLAPS

-----------------------------------------------------------------------------
(* The inductive invariant *)

Working(q) == req[q].pc \in {"run", "exec", "done"}

\* Thread k is in the hands of conversation c: its row or a request of it names the
\* thread, or could still start it.
Holds(k, c) ==
    /\ k # NoThread
    /\ \/ thread[c] = k
       \/ \E q \in Requests : /\ req[q] # Idle /\ req[q].conv = c
                              /\ k \in {req[q].thread, req[q].result, req[q].turn}

\* Message ids, and with them thread ids, are handed out once.
FreshIds ==
    /\ \A m \in Turns : m > lastTurn => turns[m] = NoTurn
    /\ \A k \in Threads, c \in Convs : Holds(k, c) => k <= lastTurn

OneConv == \A k \in Threads, c, d \in Convs : Holds(k, c) /\ Holds(k, d) => c = d

\* One handler of a conversation is past its reservation, also once the conversation has
\* been deleted under it.
OneWorker ==
    \A q, s \in Requests : Working(q) /\ Working(s) /\ req[q].conv = req[s].conv => q = s

\* It has reserved a turn, which is running, or gone with its conversation for good.
Reserved ==
    \A q \in Requests : Working(q) =>
        /\ req[q].turn \in Turns
        /\ \/ turns[req[q].turn] = [conv |-> req[q].conv, status |-> "running"]
           \/ turns[req[q].turn] = NoTurn /\ ~Live(req[q].conv)

Requested ==
    /\ \A q \in Requests : req[q] # Idle => up /\ state[req[q].conv] # "absent"
    /\ \A q \in Requests : req[q].pc = "done" => req[q].result \in {req[q].thread, Session(q)}

CInv ==
    /\ TypeOK
    /\ FreshIds /\ OneConv /\ OneWorker /\ Reserved /\ Requested
    /\ RunningReplyOwned

-----------------------------------------------------------------------------
LEMMA Basics ==
    /\ Idle.pc = "idle" /\ Idle \notin Request
    /\ NoTurn.status = "none" /\ NoTurn.conv = NoConv /\ NoTurn \notin TurnRow
    /\ MaxTurns \in Nat /\ MaxFaults \in Nat /\ NoConv \notin Convs
BY ChatAssumption DEF Idle, Request, NoTurn, TurnRow

LEMMA RequestFields ==
    ASSUME TypeOK, NEW q \in Requests
    PROVE  /\ req[q].pc # "idle" <=> req[q] # Idle
           /\ req[q] # Idle => req[q] \in Request
           /\ Working(q) => req[q] # Idle
           /\ Session(q) \in {req[q].thread, req[q].turn}
BY Basics DEF TypeOK, Request, Working, Session, Idle

LEMMA TurnFields ==
    ASSUME TypeOK, NEW m \in Turns
    PROVE  /\ turns[m] # NoTurn => turns[m] \in TurnRow /\ Live(turns[m].conv)
           /\ turns[m].status = "running" => turns[m] # NoTurn
BY Basics DEF TypeOK

LEMMA Faults ==
    ASSUME TypeOK, Fault \/ NoFault
    PROVE  faults' \in 0..MaxFaults /\ (faults' = 0 => faults = 0 /\ ~Fault)
BY Basics DEF TypeOK, Fault, NoFault

\* Steps that put no thread into new hands and hand out no id.
LEMMA HandsKept ==
    ASSUME TypeOK, FreshIds, OneConv, UNCHANGED lastTurn,
           \A m \in Turns : turns[m] = NoTurn => turns'[m] = NoTurn,
           \A k \in Threads, c \in Convs : Holds(k, c)' => Holds(k, c)
    PROVE  (FreshIds /\ OneConv)'
BY DEF FreshIds, OneConv

LEMMA Initially == Init => CInv
<1> SUFFICES ASSUME Init PROVE CInv
  OBVIOUS
<1> USE Basics DEF Init
<1>1. TypeOK
  <2>1. lastTurn \in 0..MaxTurns /\ faults \in 0..MaxFaults /\ NoThread \in Threads
    BY DEF Threads, NoThread
  <2>2. \A m \in Turns : turns[m] = NoTurn
    OBVIOUS
  <2>3. /\ turns \in [Turns -> TurnRow \cup {NoTurn}] /\ req \in [Requests -> Request \cup {Idle}]
        /\ state \in [Convs -> {"absent", "live", "deleted"}] /\ thread \in [Convs -> Threads]
    BY <2>1
  <2> QED
    BY <2>1, <2>2, <2>3 DEF TypeOK
<1>2. \A q \in Requests : req[q] = Idle /\ ~Working(q)
  BY DEF Working
<1>3. FreshIds /\ OneConv
  BY <1>2 DEF FreshIds, OneConv, Holds
<1>4. OneWorker /\ Reserved /\ Requested
  BY <1>2 DEF OneWorker, Reserved, Requested
<1>5. RunningReplyOwned
  BY DEF RunningReplyOwned
<1> QED
  BY <1>1, <1>3, <1>4, <1>5 DEF CInv

-----------------------------------------------------------------------------
(* Conversations *)

LEMMA CreateStep ==
    ASSUME CInv, NEW c \in Convs, CreateConversation(c)
    PROVE  CInv'
<1> USE DEF CInv
<1>1. /\ state[c] = "absent" /\ state' = [state EXCEPT ![c] = "live"]
      /\ UNCHANGED <<up, thread, turns, lastTurn, req, faults>>
      /\ state \in [Convs -> {"absent", "live", "deleted"}]
  BY DEF CreateConversation, TypeOK
<1>2. \A d \in Convs : (Live(d) => Live(d)') /\ (state[d] # "absent" => state'[d] = state[d])
  BY <1>1 DEF Live
<1>3. TypeOK'
  <2>1. \A m \in Turns : turns[m] # NoTurn => turns[m].conv \in Convs
    BY TurnFields DEF TurnRow
  <2> QED
    BY <1>1, <1>2, <2>1 DEF TypeOK, Live
<1>4. FreshIds' /\ OneConv' /\ OneWorker'
  BY <1>1 DEF FreshIds, OneConv, OneWorker, Holds, Working
<1>5. \A q \in Requests : req[q] # Idle => req[q].conv \in Convs
  BY RequestFields DEF Request
<1>6. Reserved' /\ Requested'
  BY <1>1, <1>2, <1>5, RequestFields DEF Reserved, Requested, Working, Live, Session
<1>7. RunningReplyOwned'
  BY <1>1 DEF RunningReplyOwned
<1> QED
  BY <1>3, <1>4, <1>6, <1>7

LEMMA DeleteStep ==
    ASSUME CInv, NEW c \in Convs, DeleteConversation(c)
    PROVE  CInv'
<1> USE DEF CInv
<1>1. /\ Live(c) /\ state' = [state EXCEPT ![c] = "deleted"]
      /\ thread' = [thread EXCEPT ![c] = NoThread]
      /\ turns' = [m \in Turns |-> IF turns[m].conv = c THEN NoTurn ELSE turns[m]]
      /\ UNCHANGED <<up, lastTurn, req, faults>>
      /\ state \in [Convs -> {"absent", "live", "deleted"}]
      /\ thread \in [Convs -> Threads]
      /\ turns \in [Turns -> TurnRow \cup {NoTurn}]
  BY DEF DeleteConversation, TypeOK
<1>2. \A d \in Convs : d # c => state'[d] = state[d] /\ thread'[d] = thread[d]
  BY <1>1
<1>3. state'[c] = "deleted" /\ thread'[c] = NoThread /\ ~Live(c)'
  BY <1>1 DEF Live
<1>4. TypeOK'
  <2>1. \A m \in Turns : turns'[m] # NoTurn => turns'[m] = turns[m] /\ turns[m].conv # c
    BY <1>1
  <2>2. \A m \in Turns : turns'[m] # NoTurn => turns[m].conv \in Convs /\ Live(turns[m].conv)
    BY <2>1, TurnFields DEF TurnRow
  <2>3. \A m \in Turns : turns'[m] # NoTurn => Live(turns[m].conv)'
    BY <1>2, <2>1, <2>2 DEF Live
  <2>4. NoThread \in Threads
    BY Basics DEF NoThread, Threads
  <2> QED
    BY <1>1, <2>1, <2>3, <2>4 DEF TypeOK, Live
<1>5. FreshIds' /\ OneConv'
  <2>1. \A k \in Threads, d \in Convs : Holds(k, d)' => Holds(k, d)
    BY <1>1, <1>2, <1>3 DEF Holds
  <2> QED
    BY <1>1, <2>1, HandsKept
<1>6. OneWorker'
  BY <1>1 DEF OneWorker, Working
<1>7. Reserved'
  <2> SUFFICES ASSUME NEW q \in Requests, Working(q)
               PROVE  /\ req[q].turn \in Turns
                      /\ \/ turns'[req[q].turn] = [conv |-> req[q].conv, status |-> "running"]
                         \/ turns'[req[q].turn] = NoTurn /\ ~Live(req[q].conv)'
    BY <1>1 DEF Reserved, Working, Live
  <2>1. req[q].conv \in Convs /\ req[q].turn \in Turns
    BY RequestFields DEF Request, Reserved
  <2>2. CASE req[q].conv = c
    BY <1>1, <1>3, <2>1, <2>2, Basics DEF Reserved, Live
  <2>3. CASE req[q].conv # c
    BY <1>1, <1>2, <2>1, <2>3, Basics DEF Reserved, Live
  <2> QED
    BY <2>2, <2>3
<1>8. Requested'
  <2>1. \A q \in Requests : req[q] # Idle => req[q].conv \in Convs
    BY RequestFields DEF Request
  <2> QED
    BY <1>1, <1>2, <1>3, <2>1 DEF Requested, Session
<1>9. RunningReplyOwned'
  BY <1>1, Basics DEF RunningReplyOwned
<1> QED
  BY <1>4, <1>5, <1>6, <1>7, <1>8, <1>9

-----------------------------------------------------------------------------
(* Requests *)

\* A request leaves, or goes on within the turn and the threads it has; nothing else
\* changes.
LEMMA RequestMoves ==
    ASSUME CInv, NEW q \in Requests, NEW r \in Request \cup {Idle},
           req' = [req EXCEPT ![q] = r],
           UNCHANGED <<up, state, thread, turns, lastTurn>>,
           faults' \in 0..MaxFaults, faults' = 0 => faults = 0,
           r # Idle =>
              /\ Working(q) /\ r.pc \in {"run", "exec", "done"}
              /\ r.conv = req[q].conv /\ r.thread = req[q].thread /\ r.turn = req[q].turn
              /\ r.result \in {req[q].result, req[q].thread, Session(q)}
              /\ r.pc = "done" => r.result \in {req[q].thread, Session(q)},
           r = Idle => ~Working(q) \/ faults' # 0 \/ turns[req[q].turn].status # "running"
    PROVE  CInv'
<1> USE Basics DEF CInv
<1>1. /\ req' \in [Requests -> Request \cup {Idle}] /\ req'[q] = r
      /\ \A s \in Requests : s # q => req'[s] = req[s]
  BY DEF TypeOK
<1>2. TypeOK'
  BY <1>1 DEF TypeOK, Live
<1>3. r.pc # "idle" <=> r # Idle
  BY DEF Request, Idle
<1>4. \A s \in Requests : Working(s)' => /\ Working(s) /\ req'[s].conv = req[s].conv
                                         /\ req'[s].turn = req[s].turn
  BY <1>1, <1>3 DEF Working
<1>5. FreshIds' /\ OneConv'
  <2>1. r # Idle => {r.thread, r.result, r.turn} \subseteq {req[q].thread, req[q].result, req[q].turn}
    BY RequestFields
  <2>2. \A k \in Threads, d \in Convs : Holds(k, d)' => Holds(k, d)
    BY <1>1, <2>1, RequestFields DEF Holds
  <2> QED
    BY <2>2, HandsKept
<1>6. OneWorker' /\ Reserved'
  BY <1>4 DEF OneWorker, Reserved, Live
<1>7. Requested'
  BY <1>1, RequestFields DEF Requested, Session
<1>8. RunningReplyOwned'
  <2> SUFFICES ASSUME up, faults = 0, faults' = 0, NEW m \in Turns, turns[m].status = "running"
               PROVE  \E s \in Requests : req'[s].pc \in {"run", "exec", "done"} /\ req'[s].turn = m
    BY DEF RunningReplyOwned
  <2>1. PICK s \in Requests : Working(s) /\ req[s].turn = m
    BY DEF RunningReplyOwned, Working
  <2>2. CASE s # q
    BY <1>1, <2>1, <2>2 DEF Working
  <2>3. CASE s = q
    BY <1>1, <2>1, <2>3
  <2> QED
    BY <2>2, <2>3
<1> QED
  BY <1>2, <1>5, <1>6, <1>7, <1>8

LEMMA GetStep ==
    ASSUME CInv, NEW q \in Requests, NEW c \in Convs, GetConversation(q, c)
    PROVE  CInv'
<1> DEFINE r == [pc |-> "read", conv |-> c, thread |-> thread[c],
                 turn |-> 0, result |-> NoThread, status |-> "ok"]
<1> USE Basics DEF CInv
<1>1. /\ up /\ req[q] = Idle /\ Live(c) /\ req' = [req EXCEPT ![q] = r]
      /\ UNCHANGED <<up, state, thread, turns, lastTurn, faults>>
      /\ thread[c] \in Threads /\ NoThread \in Threads
  BY DEF GetConversation, TypeOK, NoThread, Threads
<1>2. r \in Request /\ r # Idle
  BY <1>1 DEF Request, Idle
<1>3. /\ req' \in [Requests -> Request \cup {Idle}] /\ req'[q] = r
      /\ \A s \in Requests : s # q => req'[s] = req[s]
  BY <1>1, <1>2 DEF TypeOK
<1>4. TypeOK'
  BY <1>1, <1>3 DEF TypeOK, Live
<1>5. \A s \in Requests : Working(s)' => Working(s) /\ req'[s] = req[s]
  BY <1>3 DEF Working
<1>6. FreshIds' /\ OneConv'
  <2>1. \A k \in Threads, d \in Convs : Holds(k, d)' => Holds(k, d)
    BY <1>1, <1>3 DEF Holds, NoThread
  <2> QED
    BY <1>1, <2>1, HandsKept
<1>7. OneWorker' /\ Reserved'
  BY <1>1, <1>5 DEF OneWorker, Reserved, Live
<1>8. Requested'
  BY <1>1, <1>3 DEF Requested, Live, Session
<1>9. RunningReplyOwned'
  <2>1. \A s \in Requests : Working(s) => req'[s] = req[s]
    BY <1>1, <1>3 DEF Working
  <2> QED
    BY <1>1, <2>1 DEF RunningReplyOwned, Working
<1> QED
  BY <1>4, <1>6, <1>7, <1>8, <1>9

\* The transaction commits.
LEMMA ReserveStep ==
    ASSUME CInv, NEW q \in Requests, req[q].pc = "read", Admit(req[q].conv), lastTurn + 1 \in Turns,
           lastTurn' = lastTurn + 1,
           turns' = [turns EXCEPT ![lastTurn + 1] = [conv |-> req[q].conv, status |-> "running"]],
           \/ req' = [req EXCEPT ![q].pc = "run", ![q].turn = lastTurn + 1] /\ NoFault
           \/ Leave(q) /\ Fault,
           UNCHANGED <<up, state, thread>>
    PROVE  CInv'
<1> DEFINE m == lastTurn + 1
           c == req[q].conv
<1> USE Basics DEF CInv
<1>1. /\ req[q] # Idle /\ req[q] \in Request /\ ~Working(q) /\ c \in Convs /\ Live(c)
      /\ lastTurn \in Nat /\ m \in Nat /\ m > lastTurn /\ m \in Threads /\ m # NoThread
  BY RequestFields, SMTT(40) DEF Working, Request, Admit, TypeOK, Turns, Threads, NoThread
<1>2. faults' \in 0..MaxFaults /\ (faults' = 0 => faults = 0 /\ ~Fault)
  BY Faults
<1>3. /\ turns' \in [Turns -> TurnRow \cup {NoTurn}]
      /\ turns[m] = NoTurn /\ turns'[m] = [conv |-> c, status |-> "running"]
      /\ \A n \in Turns : n # m => turns'[n] = turns[n]
  BY <1>1 DEF TypeOK, TurnRow, FreshIds
<1>4. /\ req' \in [Requests -> Request \cup {Idle}]
      /\ \A s \in Requests : s # q => req'[s] = req[s]
      /\ \/ /\ req'[q].pc = "run" /\ req'[q].turn = m /\ req'[q].conv = c /\ req'[q] # Idle
            /\ req'[q].thread = req[q].thread /\ req'[q].result = req[q].result
         \/ req'[q] = Idle /\ faults' # 0
  <2>1. CASE req' = [req EXCEPT ![q].pc = "run", ![q].turn = m]
    <3>1. [req[q] EXCEPT !.pc = "run", !.turn = m] \in Request
      BY <1>1 DEF Request, Threads, TypeOK, Turns
    <3> QED
      BY <1>1, <2>1, <3>1 DEF TypeOK, Request
  <2>2. CASE Leave(q) /\ Fault
    BY <1>2, <2>2 DEF Leave, TypeOK
  <2> QED
    BY <2>1, <2>2
<1>5. TypeOK'
  <2>1. lastTurn' \in 0..MaxTurns
    BY <1>1 DEF Turns
  <2> QED
    BY <1>1, <1>2, <1>3, <1>4, <2>1 DEF TypeOK, Live
<1>6. \A k \in Threads, d \in Convs : Holds(k, d)' => Holds(k, d) \/ (k = m /\ d = c)
  BY <1>1, <1>4 DEF Holds
<1>7. FreshIds' /\ OneConv'
  <2>1. \A k \in Threads, d \in Convs : Holds(k, d) => k <= lastTurn /\ k # m
    BY <1>1 DEF FreshIds, Threads
  <2>2. \A n \in Turns : n > lastTurn' => turns'[n] = NoTurn
    BY <1>1, <1>3 DEF FreshIds, Turns
  <2>3. \A k \in Threads, d \in Convs : Holds(k, d)' => k <= lastTurn'
    BY <1>1, <1>6, <2>1 DEF Threads
  <2>4. OneConv'
    BY <1>6, <2>1 DEF OneConv
  <2> QED
    BY <2>2, <2>3, <2>4 DEF FreshIds
<1>8. \A s \in Requests : Working(s) => req[s].conv # c
  <2> SUFFICES ASSUME NEW s \in Requests, Working(s), req[s].conv = c PROVE FALSE
    OBVIOUS
  <2>1. turns[req[s].turn].conv = c /\ turns[req[s].turn].status = "running" /\ req[s].turn \in Turns
    BY <1>1 DEF Reserved
  <2> QED
    BY <2>1 DEF Admit, Active
<1>9. OneWorker'
  BY <1>4, <1>8 DEF OneWorker, Working
<1>10. Reserved'
  <2>1. \A s \in Requests : s # q /\ Working(s) => req[s].turn # m
    <3> SUFFICES ASSUME NEW s \in Requests, Working(s), req[s].turn = m PROVE FALSE
      OBVIOUS
    <3>1. Holds(m, req[s].conv) /\ req[s].conv \in Convs
      BY <1>1, RequestFields DEF Holds, Request
    <3> QED
      BY <1>1, <3>1 DEF FreshIds
  <2> QED
    BY <1>1, <1>3, <1>4, <2>1 DEF Reserved, Working, Live
<1>11. Requested'
  BY <1>1, <1>4 DEF Requested, Live, Session
<1>12. RunningReplyOwned'
  <2>1. \A s \in Requests : Working(s) => s # q /\ req'[s] = req[s]
    BY <1>1, <1>4
  <2> QED
    BY <1>2, <1>3, <1>4, <2>1 DEF RunningReplyOwned, Working
<1> QED
  BY <1>5, <1>7, <1>9, <1>10, <1>11, <1>12

LEMMA BeginStep ==
    ASSUME CInv, NEW q \in Requests, BeginConversationTurn(q)
    PROVE  CInv'
<1>1. CASE UNCHANGED lastTurn
  <2>1. /\ req' = [req EXCEPT ![q] = Idle] /\ ~Working(q)
        /\ UNCHANGED <<up, state, thread, turns>> /\ (Fault \/ NoFault)
    BY <1>1 DEF BeginConversationTurn, Leave, Working, CInv, TypeOK
  <2> QED
    BY <1>1, <2>1, Faults, RequestMoves DEF CInv
<1>2. CASE lastTurn' = lastTurn + 1
  <2>1. lastTurn + 1 # lastTurn
    BY Basics DEF CInv, TypeOK
  <2> QED
    BY <1>2, <2>1, ReserveStep DEF BeginConversationTurn
<1> QED
  BY <1>1, <1>2 DEF BeginConversationTurn

LEMMA RunStep ==
    ASSUME CInv, NEW q \in Requests, RunFailsEarly(q) \/ StartCodex(q) \/ RunReturns(q)
    PROVE  CInv'
<1> USE DEF CInv
<1>1. Working(q) /\ req[q] \in Request
  BY RequestFields DEF RunFailsEarly, StartCodex, RunReturns, Working
<1>2. UNCHANGED <<up, state, thread, turns, lastTurn, faults>> /\ faults \in 0..MaxFaults
  BY DEF RunFailsEarly, StartCodex, RunReturns, TypeOK
<1>3. Session(q) \in Threads
  BY <1>1, RequestFields DEF Request, Threads
<1>4. PICK r \in Request :
          /\ req' = [req EXCEPT ![q] = r]
          /\ r.pc \in {"exec", "done"}
          /\ r.conv = req[q].conv /\ r.thread = req[q].thread /\ r.turn = req[q].turn
          /\ r.result \in {req[q].result, req[q].thread, Session(q)}
          /\ r.pc = "done" => r.result \in {req[q].thread, Session(q)}
  <2>1. CASE StartCodex(q)
    <3> DEFINE r == [req[q] EXCEPT !.pc = "exec"]
    <3>1. r \in Request /\ r.pc = "exec" /\ req' = [req EXCEPT ![q] = r]
      BY <1>1, <2>1 DEF StartCodex, Request
    <3> QED
      BY <1>1, <3>1 DEF Request
  <2>2. ASSUME NEW status \in {"ok", "error"}, NEW result \in {req[q].thread, Session(q)},
               req' = [req EXCEPT ![q].pc = "done", ![q].status = status, ![q].result = result]
        PROVE  \E r \in Request :
                  /\ req' = [req EXCEPT ![q] = r]
                  /\ r.pc \in {"exec", "done"}
                  /\ r.conv = req[q].conv /\ r.thread = req[q].thread /\ r.turn = req[q].turn
                  /\ r.result \in {req[q].result, req[q].thread, Session(q)}
                  /\ r.pc = "done" => r.result \in {req[q].thread, Session(q)}
    <3> DEFINE r == [req[q] EXCEPT !.pc = "done", !.status = status, !.result = result]
    <3>1. r \in Request /\ r.pc = "done" /\ r.result = result
      BY <1>1, <1>3, <2>2 DEF Request
    <3>2. req' = [req EXCEPT ![q] = r]
      BY <2>2 DEF TypeOK
    <3> QED
      BY <1>1, <2>2, <3>1, <3>2 DEF Request
  <2> QED
    BY <2>1, <2>2 DEF RunFailsEarly, StartCodex, RunReturns
<1>5. r # Idle
  BY <1>4, Basics
<1> QED
  BY <1>1, <1>2, <1>4, <1>5, RequestMoves

LEMMA FinalizeStep ==
    ASSUME CInv, NEW q \in Requests, FinalizeConversationTurn(q)
    PROVE  CInv'
<1> DEFINE m == req[q].turn
           c == req[q].conv
<1> USE Basics DEF CInv
<1>1. /\ req[q].pc = "done" /\ Working(q) /\ req[q] # Idle /\ req[q] \in Request
      /\ m \in Turns /\ c \in Convs
      /\ req[q].result \in {req[q].thread, m} /\ req[q].result \in Threads
      /\ req' = [req EXCEPT ![q] = Idle]
      /\ UNCHANGED <<up, state, lastTurn>>
  BY RequestFields DEF FinalizeConversationTurn, Leave, Working, Request, Reserved, Requested
<1>2. CASE /\ UNCHANGED <<thread, turns>>
           /\ IF turns[m].status = "running" THEN Fault ELSE NoFault
  <2>1. faults' \in 0..MaxFaults /\ (faults' = 0 => faults = 0 /\ ~Fault)
    BY <1>2, Faults
  <2> QED
    BY <1>1, <1>2, <2>1, RequestMoves
<1>3. CASE Finalize(q)
  <2>1. /\ turns[m] = [conv |-> c, status |-> "running"] /\ UNCHANGED faults
        /\ turns' = [turns EXCEPT ![m].status = req[q].status]
        /\ thread' \in {thread, [thread EXCEPT ![c] = req[q].result]}
        /\ req[q].status \in {"ok", "error"}
    BY <1>1, <1>3 DEF Finalize, SetThread, NoFault, Reserved, Request
  <2>2. /\ turns' \in [Turns -> TurnRow \cup {NoTurn}]
        /\ turns'[m] = [conv |-> c, status |-> req[q].status] /\ turns'[m] \in TurnRow
        /\ \A n \in Turns : n # m => turns'[n] = turns[n]
    BY <1>1, <2>1 DEF TypeOK, TurnRow
  <2>3. /\ thread' \in [Convs -> Threads] /\ thread'[c] \in {thread[c], req[q].result}
        /\ \A d \in Convs : d # c => thread'[d] = thread[d]
    BY <1>1, <2>1 DEF TypeOK
  <2>4. /\ req' \in [Requests -> Request \cup {Idle}] /\ req'[q] = Idle
        /\ \A s \in Requests : s # q => req'[s] = req[s]
    BY <1>1 DEF TypeOK
  <2>5. \A s \in Requests : Working(s)' => s # q /\ Working(s) /\ req'[s] = req[s]
    BY <2>4 DEF Working
  <2>6. TypeOK'
    <3>1. Live(c)
      BY <1>1, <2>1, TurnFields
    <3> QED
      BY <1>1, <2>1, <2>2, <2>3, <2>4, <3>1 DEF TypeOK, Live
  <2>7. FreshIds' /\ OneConv'
    <3>1. \A k \in Threads, d \in Convs : Holds(k, d)' => Holds(k, d)
      BY <1>1, <2>3, <2>4 DEF Holds
    <3>2. \A n \in Turns : turns[n] = NoTurn => turns'[n] = NoTurn
      BY <2>1, <2>2
    <3> QED
      BY <1>1, <3>1, <3>2, HandsKept
  <2>8. OneWorker'
    BY <2>5 DEF OneWorker
  <2>9. Reserved'
    <3>1. \A s \in Requests : Working(s) /\ s # q => req[s].turn # m
      <4> SUFFICES ASSUME NEW s \in Requests, Working(s), req[s].turn = m, s # q PROVE FALSE
        OBVIOUS
      <4>1. req[s].conv \in Convs /\ req[s] # Idle
        BY RequestFields DEF Request
      <4>2. m \in Threads /\ m # NoThread
        BY <1>1 DEF Turns, Threads, NoThread
      <4>3. Holds(m, c) /\ Holds(m, req[s].conv)
        BY <1>1, <4>1, <4>2 DEF Holds
      <4>4. req[s].conv = c
        BY <1>1, <4>1, <4>2, <4>3 DEF OneConv
      <4> QED
        BY <1>1, <4>4 DEF OneWorker
    <3> QED
      BY <1>1, <2>2, <2>5, <3>1 DEF Reserved, Live
  <2>10. Requested'
    BY <1>1, <2>4 DEF Requested, Session
  <2>11. RunningReplyOwned'
    <3> SUFFICES ASSUME up, faults = 0, NEW n \in Turns, turns'[n].status = "running"
                 PROVE  \E s \in Requests : req'[s].pc \in {"run", "exec", "done"} /\ req'[s].turn = n
      BY <1>1, <2>1 DEF RunningReplyOwned
    <3>1. n # m /\ turns[n].status = "running"
      BY <1>1, <2>1, <2>2
    <3>2. PICK s \in Requests : Working(s) /\ req[s].turn = n
      BY <3>1 DEF RunningReplyOwned, Working
    <3> QED
      BY <2>4, <3>1, <3>2 DEF Working
  <2> QED
    BY <2>6, <2>7, <2>8, <2>9, <2>10, <2>11
<1> QED
  BY <1>2, <1>3 DEF FinalizeConversationTurn

-----------------------------------------------------------------------------
(* The process *)

LEMMA ProcessStep ==
    ASSUME CInv, ProcessEnds \/ Boot
    PROVE  CInv'
<1> USE Basics DEF CInv
<1>1. UNCHANGED <<state, thread, lastTurn>> /\ up' \in BOOLEAN
  BY DEF ProcessEnds, Boot
<1>2. req' \in [Requests -> Request \cup {Idle}] /\ \A q \in Requests : req'[q] = Idle
  <2>1. CASE ProcessEnds
    BY <2>1 DEF ProcessEnds
  <2>2. CASE Boot
    <3>1. \A q \in Requests : req[q] = Idle
      BY <2>2 DEF Boot, Requested
    <3> QED
      BY <2>2, <3>1 DEF Boot, TypeOK
  <2> QED
    BY <2>1, <2>2
<1>3. /\ turns' \in [Turns -> TurnRow \cup {NoTurn}]
      /\ \A m \in Turns : /\ turns[m] = NoTurn => turns'[m] = NoTurn
                          /\ turns'[m].conv = turns[m].conv
      /\ faults' \in 0..MaxFaults
      /\ up' /\ faults' = 0 => \A m \in Turns : turns'[m].status # "running"
  <2>1. CASE UNCHANGED turns /\ faults' \in 0..MaxFaults /\ (~up' \/ faults' # 0)
    BY <2>1 DEF TypeOK
  <2>2. CASE MarkStaleMessagesFailed /\ UNCHANGED faults
    <3>1. \A m \in Turns : turns[m].status = "running" =>
              turns[m] \in TurnRow /\ [turns[m] EXCEPT !.status = "error"] \in TurnRow
      BY TurnFields DEF TurnRow
    <3> QED
      BY <2>2, <3>1 DEF MarkStaleMessagesFailed, TypeOK, TurnRow
  <2> QED
    BY <2>1, <2>2, Faults DEF ProcessEnds, Boot, NoFault, Fault, TypeOK
<1>4. TypeOK'
  BY <1>1, <1>2, <1>3 DEF TypeOK, Live
<1>5. FreshIds' /\ OneConv'
  <2>1. \A k \in Threads, d \in Convs : Holds(k, d)' => Holds(k, d)
    BY <1>1, <1>2 DEF Holds
  <2> QED
    BY <1>1, <1>3, <2>1, HandsKept
<1>6. OneWorker' /\ Reserved' /\ Requested'
  BY <1>2 DEF OneWorker, Reserved, Requested, Working
<1>7. RunningReplyOwned'
  BY <1>3 DEF RunningReplyOwned
<1> QED
  BY <1>4, <1>5, <1>6, <1>7

LEMMA Inductive == CInv /\ [Next]_vars => CInv'
<1> SUFFICES ASSUME CInv, [Next]_vars PROVE CInv'
  OBVIOUS
<1>1. CASE UNCHANGED vars
  BY <1>1
  DEF vars, CInv, TypeOK, FreshIds, OneConv, OneWorker, Reserved, Requested, RunningReplyOwned,
      Holds, Working, Session, Live
<1> QED
  BY <1>1, CreateStep, DeleteStep, GetStep, BeginStep, RunStep, FinalizeStep, ProcessStep
  DEF Next, Handler

LEMMA Invariant == Spec => []CInv
BY Initially, Inductive, PTL DEF Spec

-----------------------------------------------------------------------------
(* The theorems *)

\* Rows, handlers and ids keep their types, and no message outlives its conversation.
THEOREM ChatTypes == Spec => []TypeOK
<1>1. CInv => TypeOK
  BY DEF CInv
<1> QED
  BY <1>1, Invariant, PTL

\* However many requests, deletions and restarts there are, no two codex processes are
\* given the same thread.
THEOREM ThreadsExclude == Spec => []ThreadExclusive
<1>1. ASSUME CInv, NEW q \in Requests, NEW s \in Requests,
             req[q].pc = "exec", req[s].pc = "exec", Session(q) = Session(s)
      PROVE  q = s
  <2>1. /\ Working(q) /\ Working(s) /\ req[q] # Idle /\ req[s] # Idle
        /\ req[q].conv \in Convs /\ req[s].conv \in Convs
        /\ req[q].turn \in Turns /\ req[s].turn \in Turns
    BY <1>1, RequestFields DEF CInv, Working, Request, Reserved
  <2>2. Session(q) \in Threads /\ Session(q) # NoThread
    BY <1>1, <2>1, Basics, RequestFields DEF CInv, Request, Session, Turns, Threads, NoThread
  <2>3. Holds(Session(q), req[q].conv) /\ Holds(Session(q), req[s].conv)
    BY <1>1, <2>1, <2>2, RequestFields DEF CInv, Holds
  <2>4. req[q].conv = req[s].conv
    BY <1>1, <2>1, <2>2, <2>3 DEF CInv, OneConv
  <2> QED
    BY <1>1, <2>1, <2>4 DEF CInv, OneWorker
<1>2. CInv => ThreadExclusive
  BY <1>1 DEF ThreadExclusive
<1> QED
  BY <1>2, Invariant, PTL

\* Without failing store calls, a running reply has a handler as long as the process is up.
THEOREM RepliesOwned == Spec => []RunningReplyOwned
<1>1. CInv => RunningReplyOwned
  BY DEF CInv
<1> QED
  BY <1>1, Invariant, PTL

LEMMA ThreadChanges ==
    ASSUME CInv, [Next]_vars, NEW c \in Convs, thread[c] # NoThread, state'[c] = "live"
    PROVE  /\ thread'[c] # NoThread
           /\ thread'[c] # thread[c] =>
                 \E q \in Requests : /\ req[q].pc = "done" /\ req'[q] = Idle
                                     /\ req[q].conv = c /\ req[q].thread # thread[c]
<1>1. CASE UNCHANGED thread
  BY <1>1
<1>2. ASSUME NEW d \in Convs, DeleteConversation(d)
      PROVE  thread'[c] = thread[c]
  BY <1>2 DEF DeleteConversation, CInv, TypeOK
<1>3. ASSUME NEW q \in Requests, Finalize(q), FinalizeConversationTurn(q), thread' # thread
      PROVE  /\ thread'[c] # NoThread
             /\ thread'[c] # thread[c] =>
                   /\ req[q].pc = "done" /\ req'[q] = Idle
                   /\ req[q].conv = c /\ req[q].thread # thread[c]
  <2>1. /\ req[q].pc = "done" /\ req'[q] = Idle /\ req[q].result # NoThread
        /\ thread' = [thread EXCEPT ![req[q].conv] = req[q].result]
        /\ thread \in [Convs -> Threads]
    BY <1>3 DEF FinalizeConversationTurn, Finalize, SetThread, Leave, CInv, TypeOK
  <2>2. req[q].thread # NoThread => req[q].result = req[q].thread
    BY <2>1 DEF CInv, Requested, Session
  <2> QED
    BY <2>1, <2>2
<1>4. ASSUME NEW q \in Requests, Handler(q), thread' # thread
      PROVE  Finalize(q) /\ FinalizeConversationTurn(q)
  BY <1>4 DEF Handler, BeginConversationTurn, RunFailsEarly, StartCodex, RunReturns,
              FinalizeConversationTurn
<1>5. CASE \/ \E d \in Convs : CreateConversation(d)
           \/ \E q \in Requests, d \in Convs : GetConversation(q, d)
           \/ ProcessEnds \/ Boot \/ UNCHANGED vars
  BY <1>1, <1>5 DEF CreateConversation, GetConversation, ProcessEnds, Boot, vars
<1> QED
  BY <1>1, <1>2, <1>3, <1>4, <1>5 DEF Next

\* A conversation keeps a thread to resume, whatever becomes of a turn.
THEOREM ThreadsKept == Spec => ThreadKept
<1>1. CInv /\ [Next]_vars =>
          [\A c \in Convs : thread[c] # NoThread /\ state'[c] = "live" => thread'[c] # NoThread]_vars
  BY ThreadChanges
<1> QED
  BY <1>1, Invariant, PTL DEF Spec, ThreadKept

\* Only a turn that was given an outdated thread id moves its conversation to another one.
THEOREM ResumesKeepThread == Spec => ResumeKeepsThread
<1>1. CInv /\ [Next]_vars =>
          [\A c \in Convs :
              thread[c] # NoThread /\ state'[c] = "live" /\ thread'[c] # thread[c] =>
                  \E q \in Requests : /\ req[q].pc = "done" /\ req'[q] = Idle
                                      /\ req[q].conv = c /\ req[q].thread # thread[c]]_vars
  BY ThreadChanges
<1> QED
  BY <1>1, Invariant, PTL DEF Spec, ResumeKeepsThread

-----------------------------------------------------------------------------
(* The safety part of the refinement *)

OpenReplies == [m \in Turns |-> IF turns[m].status = "running" THEN turns[m].conv ELSE NoConv]

LEMMA LedgerInit == Init => Ledger!Init
BY Basics DEF Init, Ledger!Init

\* Steps that close some replies and open none.
LEMMA LedgerCloses ==
    ASSUME \A m \in Turns : turns'[m].status = "running" => turns'[m] = turns[m]
    PROVE  \E S \in SUBSET Turns : Ledger!Close(S)
<1> DEFINE S == {m \in Turns : turns'[m].status # "running"}
<1>1. S \in SUBSET Turns /\ Ledger!Close(S)
  BY DEF Ledger!Close
<1> QED
  BY <1>1 DEF Ledger!Close

LEMMA LedgerStep ==
    ASSUME CInv, [Next]_vars
    PROVE  [Ledger!Next]_OpenReplies
<1> USE Basics DEF CInv, OpenReplies
<1>1. CASE UNCHANGED turns
  BY <1>1
<1>2. CASE \A m \in Turns : turns'[m].status = "running" => turns'[m] = turns[m]
  BY <1>2, LedgerCloses DEF Ledger!Next, Ledger!Close
<1>3. ASSUME NEW q \in Requests, BeginConversationTurn(q), turns' # turns
      PROVE  Ledger!Next
  <2> DEFINE m == lastTurn + 1
             c == req[q].conv
  <2>1. /\ Admit(c) /\ m \in Turns /\ req[q].pc = "read"
        /\ turns' = [turns EXCEPT ![m] = [conv |-> c, status |-> "running"]]
    BY <1>3 DEF BeginConversationTurn
  <2>2. c \in Convs /\ turns[m] = NoTurn /\ turns \in [Turns -> TurnRow \cup {NoTurn}]
    BY <2>1, RequestFields DEF Request, FreshIds, TypeOK, Turns
  <2>3. Ledger!Open(m, c)
    BY <2>1, <2>2 DEF Ledger!Open, Admit, Active
  <2> QED
    BY <2>1, <2>2, <2>3 DEF Ledger!Next, Ledger!Open
<1>4. ASSUME NEW q \in Requests, FinalizeConversationTurn(q), turns' # turns
      PROVE  \A m \in Turns : turns'[m].status = "running" => turns'[m] = turns[m]
  <2>1. req[q].status \in {"ok", "error"} /\ turns' = [turns EXCEPT ![req[q].turn].status = req[q].status]
        /\ req[q].turn \in Turns /\ turns[req[q].turn] \in TurnRow
    BY <1>4, RequestFields, TurnFields
    DEF FinalizeConversationTurn, Finalize, Request, Reserved, Working
  <2> QED
    BY <2>1 DEF TypeOK, TurnRow
<1>5. ASSUME (\E d \in Convs : DeleteConversation(d)) \/ Boot
      PROVE  \A m \in Turns : turns'[m].status = "running" => turns'[m] = turns[m]
  BY <1>5, TurnFields DEF DeleteConversation, Boot, MarkStaleMessagesFailed, TurnRow
<1>6. CASE \/ \E d \in Convs : CreateConversation(d)
           \/ \E q \in Requests, d \in Convs : GetConversation(q, d)
           \/ \E q \in Requests : RunFailsEarly(q) \/ StartCodex(q) \/ RunReturns(q)
           \/ ProcessEnds \/ UNCHANGED vars
  BY <1>1, <1>6
  DEF CreateConversation, GetConversation, RunFailsEarly, StartCodex, RunReturns, ProcessEnds, vars
<1> QED
  BY <1>1, <1>2, <1>3, <1>4, <1>5, <1>6 DEF Next, Handler

\* The replies that are running form a ledger with one open entry per conversation.
THEOREM ChatKeepsLedger == Spec => Ledger!Safety
<1>1. CInv /\ [Next]_vars => [Ledger!Next]_OpenReplies
  BY LedgerStep
<1> QED
  BY <1>1, LedgerInit, Invariant, PTL DEF Spec, Ledger!Safety, OpenReplies
=============================================================================
