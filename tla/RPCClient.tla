----------------------------- MODULE RPCClient ------------------------------
(***************************************************************************)
(* The JSON-RPC client of internal/codex/jsonrpc.go and the App Server     *)
(* process it talks to (internal/codex/appserver.go).                      *)
(*                                                                         *)
(* Method s has one call at a time.  Requests are numbered, and a result   *)
(* is the number of its request, so that a wrong delivery can be seen; the *)
(* number is not on the wire, where there is only the id.  The server's    *)
(* own requests carry ids of its choice, which may be pending here.  Lines *)
(* without an id (notifications, anything that is not JSON) touch no call  *)
(* and are left out.                                                       *)
(***************************************************************************)
EXTENDS Integers, Sequences

CONSTANTS
    Methods,    \* initialize and the account methods
    Closers,    \* callers of Close(): AppServer.Close and reap
    MaxId,      \* bound on the requests of one client: a call beyond it fails
    ServerIds,  \* ids that the App Server gives to requests of its own
    PipeCap     \* bound on the lines in the stdout pipe

ASSUME RPCAssumption ==
    /\ MaxId \in Nat
    /\ PipeCap \in Nat
    /\ ServerIds \subseteq 1..MaxId
    /\ "reader" \notin Closers

VARIABLES
    closed,     \* RPCClient.closed
    done,       \* RPCClient.done is closed
    pending,    \* ids in RPCClient.pending
    nextID,
    call,       \* per method: where its Call is
    chan,       \* per id: what its reply channel holds
    reader,     \* the read loop: the reply it is about to send, if any
    failing,    \* per caller of failAll: where it is, and the ids it has yet to fail
    child,      \* the process: up, killed, exited, reaped (Wait has returned)
    asked,      \* requests the child has not answered
    stdout      \* lines the client has not read

vars == <<closed, done, pending, nextID, call, chan, reader, failing, child, asked, stdout>>
childVars == <<child, asked, stdout>>

Ids == 1..MaxId
NoId == 0
Failers == {"reader"} \cup Closers
Error == 0
Empty == -1
NoResult == -2                  \* of a message that is no answer at all
Replies == Ids \cup {Error, NoResult}  \* a result is the number of the request it answers

Idle == [pc |-> "idle", id |-> NoId, nr |-> 0]
Answered == [Idle EXCEPT !.pc = "answered"]
Failed == [Idle EXCEPT !.pc = "failed"]
CallState == [pc : {"idle", "start", "checked", "registered", "waiting", "answered", "failed"},
              id : Ids \cup {NoId}, nr : 0..MaxId]
Ended(s) == call[s] \in {Answered, Failed}
Response == [id : Ids, reply : Replies]
TooLong == [id |-> NoId, reply |-> Error]   \* a line beyond the scanner's 8 MB

Scanning == [pc |-> "scan"]
Sending(id, r) == [pc |-> "send", id |-> id, reply |-> r]
Reader == {Scanning, [pc |-> "ending"]} \cup [pc : {"send"}, id : Ids, reply : Replies]

NotFailing == [pc |-> "idle", left |-> {}]

-----------------------------------------------------------------------------
(* Call *)

Invoke(s) ==
    /\ call[s] = Idle
    /\ call' = [call EXCEPT ![s].pc = "start"]
    /\ UNCHANGED <<closed, done, pending, nextID, chan, reader, failing, childVars>>

CheckClosed(s) ==
    /\ call[s].pc = "start"
    /\ call' = [call EXCEPT ![s] = IF closed THEN Failed ELSE [@ EXCEPT !.pc = "checked"]]
    /\ UNCHANGED <<closed, done, pending, nextID, chan, reader, failing, childVars>>

\* Mutant: the smallest id that is not in use.
SmallestId == CHOOSE i \in 1..(MaxId + 1) : i \notin pending /\ \A j \in 1..(i - 1) : j \in pending

\* Mutant: the counter is read before it is incremented.
PostIncrement == nextID

FreshId == nextID + 1

\* register.  The client may have been closed and emptied since the check.
Register(s) ==
    /\ call[s].pc = "checked"
    /\ nextID < MaxId
    /\ nextID' = nextID + 1
    /\ pending' = pending \cup {FreshId}
    /\ chan' = [chan EXCEPT ![FreshId] = Empty]
    /\ call' = [call EXCEPT ![s].pc = "registered", ![s].id = FreshId, ![s].nr = nextID']
    /\ UNCHANGED <<closed, done, reader, failing, childVars>>

\* The bound: out of numbers, a call ends as if its context were done.
OutOfNumbers(s) ==
    /\ call[s].pc = "checked"
    /\ nextID = MaxId
    /\ call' = [call EXCEPT ![s] = Failed]
    /\ UNCHANGED <<closed, done, pending, nextID, chan, reader, failing, childVars>>

\* unregister, and the return with an error.
Fails(s) ==
    /\ pending' = pending \ {call[s].id}
    /\ call' = [call EXCEPT ![s] = Failed]

\* write fails when the process has gone or its stdin has been closed; while it is being
\* killed, the line may still get into the pipe.  To a process that is up it may block, the
\* pipe being full, and looks at no context then.
Write(s) ==
    /\ call[s].pc = "registered"
    /\ \/ /\ child \in {"up", "killed"}
          /\ asked' = asked \cup {[id |-> call[s].id, reply |-> call[s].nr]}
          /\ call' = [call EXCEPT ![s].pc = "waiting"]
          /\ UNCHANGED pending
       \/ child # "up" /\ Fails(s) /\ UNCHANGED asked
    /\ UNCHANGED <<closed, done, nextID, chan, reader, failing, child, stdout>>

\* The select; with several cases ready it takes any of them.
Receive(s) ==
    LET id == call[s].id IN
    /\ call[s].pc = "waiting"
    /\ chan[id] # Empty
    /\ call' = [call EXCEPT ![s] = IF chan[id] = Error THEN Failed ELSE Answered]
    /\ chan' = [chan EXCEPT ![id] = Empty]
    /\ UNCHANGED <<closed, done, pending, nextID, reader, failing, childVars>>

StreamEnded(s) ==
    /\ call[s].pc = "waiting"
    /\ done
    /\ Fails(s)
    /\ UNCHANGED <<closed, done, nextID, chan, reader, failing, childVars>>

\* The caller's context is done, at any time.
Cancelled(s) ==
    /\ call[s].pc = "waiting"
    /\ Fails(s)
    /\ UNCHANGED <<closed, done, nextID, chan, reader, failing, childVars>>

-----------------------------------------------------------------------------
(* The read loop *)

\* Mutant: the entry is looked up and left for the caller to delete.
LookUp(id) == UNCHANGED pending

TakePending(id) == pending' = pending \ {id}

\* Scan and the first half of dispatch: the entry is taken under the mutex, whether the
\* line is an answer or a request of the server's with the same id.
Dispatch ==
    LET line == Head(stdout) IN
    /\ reader = Scanning
    /\ stdout # <<>>
    /\ stdout' = Tail(stdout)
    /\ \/ /\ line.id \in pending
          /\ TakePending(line.id)
          /\ reader' = Sending(line.id, line.reply)
       \/ /\ line.id \notin pending
          /\ reader' = IF line = TooLong THEN [pc |-> "ending"] ELSE Scanning
          /\ UNCHANGED pending
    /\ UNCHANGED <<closed, done, nextID, call, chan, failing, child, asked>>

\* The second half: the send, to a channel of capacity 1.
Deliver ==
    /\ reader.pc = "send"
    /\ chan[reader.id] = Empty
    /\ chan' = [chan EXCEPT ![reader.id] = reader.reply]
    /\ reader' = Scanning
    /\ UNCHANGED <<closed, done, pending, nextID, call, failing, childVars>>

\* The end of the stream: the child and its output are gone, or Wait has closed the pipe.
EndOfStream ==
    /\ reader = Scanning
    /\ stdout = <<>>
    /\ child \in {"exited", "reaped"}
    /\ reader' = [pc |-> "ending"]
    /\ UNCHANGED <<closed, done, pending, nextID, call, chan, failing, childVars>>

-----------------------------------------------------------------------------
(* failAll: by the read loop as it ends, and by Close *)

\* Close is called by AppServer.Close after the kill, and by reap after the exit.
MayFail(a) == IF a = "reader" THEN reader.pc = "ending" ELSE child # "up"

\* closed.Store(true)
FailAll(a) ==
    /\ failing[a].pc = "idle"
    /\ MayFail(a)
    /\ closed' = TRUE
    /\ failing' = [failing EXCEPT ![a].pc = "swap"]
    /\ UNCHANGED <<done, pending, nextID, call, chan, reader, childVars>>

SwapPending(a) ==
    /\ failing[a].pc = "swap"
    /\ failing' = [failing EXCEPT ![a] = [pc |-> "send", left |-> pending]]
    /\ pending' = {}
    /\ UNCHANGED <<closed, done, nextID, call, chan, reader, childVars>>

FailOne(a) ==
    \E id \in failing[a].left :
        /\ chan[id] = Empty
        /\ chan' = [chan EXCEPT ![id] = Error]
        /\ failing' = [failing EXCEPT ![a].left = @ \ {id}]
        /\ UNCHANGED <<closed, done, pending, nextID, call, reader, childVars>>

\* Mutant: nobody closes the channel.
DoneForgotten(a) == UNCHANGED done

CloseDone(a) == done' = (done \/ a = "reader")

FailedAll(a) ==
    /\ failing[a].pc = "send"
    /\ failing[a].left = {}
    /\ failing' = [failing EXCEPT ![a].pc = "over"]
    /\ CloseDone(a)
    /\ UNCHANGED <<closed, pending, nextID, call, chan, reader, childVars>>

-----------------------------------------------------------------------------
(* The child process *)

\* Requests are answered in any order, with a result or an error, or never.
Answer ==
    /\ child \in {"up", "killed"}
    /\ Len(stdout) < PipeCap
    /\ \E m \in asked : \E r \in {m.reply, Error} :
          /\ stdout' = Append(stdout, [id |-> m.id, reply |-> r])
          /\ asked' = asked \ {m}
    /\ UNCHANGED <<closed, done, pending, nextID, call, chan, reader, failing, child>>

\* A request of the server's own ("a server-originated request"), to be dropped.
ServerRequest ==
    /\ child \in {"up", "killed"}
    /\ Len(stdout) < PipeCap
    /\ \E id \in ServerIds : stdout' = Append(stdout, [id |-> id, reply |-> NoResult])
    /\ UNCHANGED <<closed, done, pending, nextID, call, chan, reader, failing, child, asked>>

\* The scanner gives up on such a line, and the read loop ends with the process alive.
Oversize ==
    /\ child \in {"up", "killed"}
    /\ Len(stdout) < PipeCap
    /\ stdout' = Append(stdout, TooLong)
    /\ UNCHANGED <<closed, done, pending, nextID, call, chan, reader, failing, child, asked>>

\* The root context is cancelled, or Close is called: the process group is killed and
\* stdin closed.
Kill ==
    /\ child = "up"
    /\ child' = "killed"
    /\ UNCHANGED <<closed, done, pending, nextID, call, chan, reader, failing, asked, stdout>>

\* By the kill, or of its own accord.
Exit ==
    /\ child \in {"up", "killed"}
    /\ child' = "exited"
    /\ asked' = {}
    /\ UNCHANGED <<closed, done, pending, nextID, call, chan, reader, failing, stdout>>

\* cmd.Wait closes the read end of the pipe: what has not been read is lost.
Wait ==
    /\ child = "exited"
    /\ child' = "reaped"
    /\ stdout' = <<>>
    /\ UNCHANGED <<closed, done, pending, nextID, call, chan, reader, failing, asked>>

-----------------------------------------------------------------------------
Init ==
    /\ closed = FALSE
    /\ done = FALSE
    /\ pending = {}
    /\ nextID = 0
    /\ call = [s \in Methods |-> Idle]
    /\ chan = [i \in Ids |-> Empty]
    /\ reader = Scanning
    /\ failing = [a \in Failers |-> NotFailing]
    /\ child = "up"
    /\ asked = {}
    /\ stdout = <<>>

Proceed(s) == CheckClosed(s) \/ Register(s) \/ OutOfNumbers(s) \/ Receive(s) \/ StreamEnded(s)
ReadLoop == Dispatch \/ Deliver \/ EndOfStream
Failing(a) == FailAll(a) \/ SwapPending(a) \/ FailOne(a) \/ FailedAll(a)

\* What happens between two calls is the caller's (module AccountCache).
Step ==
    \/ \E s \in Methods : Proceed(s) \/ Write(s) \/ Cancelled(s)
    \/ ReadLoop
    \/ \E a \in Failers : Failing(a)
    \/ Answer \/ ServerRequest \/ Oversize \/ Kill \/ Exit \/ Wait

\* Goroutines go on, a killed process dies and is reaped.  Nobody has to answer or to
\* read its stdin, and no deadline is counted on.
RPCFairness ==
    /\ \A s \in Methods : WF_vars(Proceed(s) \/ (child # "up" /\ Write(s)))
    /\ WF_vars(ReadLoop)
    /\ \A a \in Failers : WF_vars(Failing(a))
    /\ WF_vars(child = "killed" /\ Exit)
    /\ WF_vars(Wait)

-----------------------------------------------------------------------------
RPCTypeOK ==
    /\ closed \in BOOLEAN
    /\ done \in BOOLEAN
    /\ pending \in SUBSET Ids
    /\ nextID \in 0..MaxId
    /\ call \in [Methods -> CallState]
    /\ chan \in [Ids -> Replies \cup {Empty}]
    /\ reader \in Reader
    /\ failing \in [Failers -> [pc : {"idle", "swap", "send", "over"}, left : SUBSET Ids]]
    /\ child \in {"up", "killed", "exited", "reaped"}
    /\ asked \in SUBSET Response
    /\ stdout \in Seq(Response \cup {TooLong})
    /\ Len(stdout) <= PipeCap

InCall(s) == call[s].pc \in {"registered", "waiting"}
Senders(id) ==
    {a \in Failers : id \in failing[a].left}
    \cup (IF reader.pc = "send" /\ reader.id = id THEN {"dispatch"} ELSE {})

\* Every reply channel has one sender at most, ever: an entry of the map is taken by
\* dispatch or by one failAll, and whoever took it finds the channel empty.  A second
\* send would block the read loop, and with it every other call, for good.
OneSender ==
    \A id \in Ids :
        /\ \A a, b \in Senders(id) : a = b
        /\ Senders(id) # {} => chan[id] = Empty /\ id \notin pending
        /\ id \in pending => chan[id] = Empty

\* A call that waits for its reply is known to somebody who will send one, whatever
\* became of the client between the check of closed and register.
NoOrphan ==
    \A s \in Methods : InCall(s) =>
        LET id == call[s].id IN id \in pending \/ Senders(id) # {} \/ chan[id] # Empty

ReplyOnce == OneSender /\ NoOrphan

\* A call gets the answer to its own request or an error: the late answer to a call that
\* was cancelled reaches no later call.  Only a request of the server's own that has the
\* same id is taken for the answer, an empty one (dispatch looks at no method); it reaches
\* no call with another id.
OwnAnswer ==
    \A s \in Methods :
        call[s].pc = "waiting" =>
            \/ chan[call[s].id] \in {Empty, Error, call[s].nr}
            \/ chan[call[s].id] = NoResult /\ call[s].id \in ServerIds
=============================================================================
