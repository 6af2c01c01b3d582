------------------------------ MODULE RPCProofs ------------------------------
(***************************************************************************)
(* What holds of the JSON-RPC client under the account snapshot for any    *)
(* set of methods and of callers of Close, any number of requests and any  *)
(* size of the pipe.                                                       *)
(***************************************************************************)
EXTENDS AccountCache, TLAPS

-----------------------------------------------------------------------------
(* The inductive invariant.  An id is used once: it goes from the counter   *)
(* to one call and, through the map or a request, to one sender.            *)

Used(id) == id \in 1..nextID

\* A call that is registered has an id, and no other call has it.
CallIds ==
    /\ \A s \in Methods : InCall(s) => Used(call[s].id) /\ call[s].nr = call[s].id
    /\ \A s, t \in Methods : InCall(s) /\ InCall(t) /\ call[s].id = call[t].id => s = t

\* What may be said to the call with that id: the answer, an error, or a request of the
\* server's own.
ReplyTo(id) == {id, Error} \cup (IF id \in ServerIds THEN {NoResult} ELSE {})

IdsUsed ==
    /\ \A id \in pending : Used(id)
    /\ \A m \in asked : Used(m.id) /\ m.reply = m.id
    /\ \A i \in 1..Len(stdout) : stdout[i] = TooLong \/ stdout[i].reply \in ReplyTo(stdout[i].id)
    /\ reader.pc = "send" => Used(reader.id) /\ reader.reply \in ReplyTo(reader.id)
    /\ \A a \in Failers : \A id \in failing[a].left : Used(id)
    /\ \A id \in Ids : chan[id] \in ReplyTo(id) \cup {Empty}

\* The three that may send to an id exclude each other, and find its channel empty.
FailersAlone ==
    /\ \A a \in Failers : failing[a].pc \in {"idle", "swap"} => failing[a].left = {}
    /\ \A a, b \in Failers : \A id \in failing[a].left : id \in failing[b].left => a = b
    /\ \A a \in Failers : \A id \in failing[a].left : chan[id] = Empty /\ id \notin pending

ReaderAlone ==
    reader.pc = "send" =>
        /\ chan[reader.id] = Empty
        /\ reader.id \notin pending
        /\ \A a \in Failers : reader.id \notin failing[a].left

PendingEmpty == \A id \in pending : chan[id] = Empty

Known(id) ==
    \/ id \in pending
    \/ chan[id] # Empty
    \/ reader.pc = "send" /\ reader.id = id
    \/ \E a \in Failers : id \in failing[a].left

CallsKnown == \A s \in Methods : InCall(s) => Known(call[s].id)

IInv == TypeOK /\ CallIds /\ IdsUsed /\ FailersAlone /\ ReaderAlone /\ PendingEmpty /\ CallsKnown

-----------------------------------------------------------------------------
LEMMA CallStates ==
    /\ Idle \in CallState /\ Idle.pc = "idle"
    /\ Answered \in CallState /\ Answered.pc = "answered"
    /\ Failed \in CallState /\ Failed.pc = "failed"
    /\ [Idle EXCEPT !.pc = "start"] \in CallState
    /\ [Idle EXCEPT !.pc = "start"].pc = "start"
BY RPCAssumption DEF Idle, Answered, Failed, CallState, NoId

LEMMA Initially == AccountInit => IInv
<1> SUFFICES ASSUME AccountInit PROVE IInv
  OBVIOUS
<1> USE RPCAssumption, CallStates DEF AccountInit, Init
<1>1. TypeOK
  <2>1. chan \in [Ids -> Replies \cup {Empty}] /\ reader \in Reader
    BY DEF Reader, Scanning
  <2>2. failing \in [Failers -> [pc : {"idle", "swap", "send", "over"}, left : SUBSET Ids]]
    BY DEF NotFailing
  <2>3. stdout \in Seq(Response \cup {TooLong}) /\ Len(stdout) <= PipeCap
    OBVIOUS
  <2>4. call \in [Methods -> CallState] /\ asked \in SUBSET Response
    OBVIOUS
  <2>5. pending \in SUBSET Ids /\ nextID \in 0..MaxId
    OBVIOUS
  <2>6. closed \in BOOLEAN /\ done \in BOOLEAN /\ child \in {"up", "killed", "exited", "reaped"}
    OBVIOUS
  <2>7. app \in {"starting", "ready", "none"} /\ fresh \in BOOLEAN
        /\ mutex \in Requests \cup {Nobody} /\ wait \in SUBSET Requests
    OBVIOUS
  <2> HIDE DEF AccountInit, Init
  <2> QED
    BY <2>1, <2>2, <2>3, <2>4, <2>5, <2>6, <2>7 DEF TypeOK, RPCTypeOK
<1>2. CallIds /\ CallsKnown
  BY DEF CallIds, CallsKnown, InCall
<1>3. IdsUsed /\ FailersAlone
  BY DEF IdsUsed, FailersAlone, NotFailing, Scanning, Empty
<1>4. ReaderAlone /\ PendingEmpty
  BY DEF ReaderAlone, PendingEmpty, Scanning
<1> QED
  BY <1>1, <1>2, <1>3, <1>4 DEF IInv

-----------------------------------------------------------------------------
(* Call *)

\* A step that only moves calls out of the way of replies.
LEMMA CallsMove ==
    ASSUME IInv, UNCHANGED <<pending, nextID, chan, reader, failing, asked, stdout>>,
           \A s \in Methods : InCall(s)' =>
               InCall(s) /\ call'[s].id = call[s].id /\ call'[s].nr = call[s].nr
    PROVE  (CallIds /\ IdsUsed /\ FailersAlone /\ ReaderAlone /\ PendingEmpty /\ CallsKnown)'
<1> USE DEF IInv
<1>2. CallIds'
  BY DEF CallIds, Used
<1>3. IdsUsed'
  BY DEF IdsUsed, Used
<1>4. FailersAlone' /\ ReaderAlone' /\ PendingEmpty'
  BY DEF FailersAlone, ReaderAlone, PendingEmpty
<1>5. CallsKnown'
  BY DEF CallsKnown, Known
<1> QED
  BY <1>2, <1>3, <1>4, <1>5

LEMMA FailsStep ==
    ASSUME IInv, NEW s \in Methods, InCall(s), Fails(s),
           UNCHANGED <<nextID, chan, reader, failing, asked, stdout>>
    PROVE  (CallIds /\ IdsUsed /\ FailersAlone /\ ReaderAlone /\ PendingEmpty /\ CallsKnown)'
<1> USE CallStates DEF IInv, Fails
<1>1. \A t \in Methods : InCall(t)' => t # s /\ call'[t] = call[t] /\ InCall(t)
  BY DEF InCall, TypeOK, RPCTypeOK
<1>2. CallIds'
  BY <1>1 DEF CallIds, Used
<1>3. IdsUsed'
  BY DEF IdsUsed, Used
<1>4. FailersAlone' /\ ReaderAlone' /\ PendingEmpty'
  BY DEF FailersAlone, ReaderAlone, PendingEmpty
<1>5. CallsKnown'
  BY <1>1 DEF CallsKnown, Known, CallIds
<1> QED
  BY <1>2, <1>3, <1>4, <1>5

LEMMA RegisterStep ==
    ASSUME IInv, NEW s \in Methods, Register(s)
    PROVE  (RPCTypeOK /\ CallIds /\ IdsUsed /\ FailersAlone /\ ReaderAlone /\ PendingEmpty /\ CallsKnown)'
<1> DEFINE new == nextID + 1
<1>1. /\ new \in Ids /\ nextID \in Nat /\ nextID' \in 0..MaxId /\ nextID' = new
      /\ pending' = pending \cup {new}
      /\ UNCHANGED <<closed, done, reader, failing, child, asked, stdout>>
  BY RPCAssumption DEF IInv, TypeOK, RPCTypeOK, Ids, Register, FreshId, childVars
<1>2. /\ call' \in [Methods -> CallState]
      /\ call'[s] = [pc |-> "registered", id |-> new, nr |-> new]
      /\ \A t \in Methods : t # s => call'[t] = call[t]
  BY <1>1 DEF IInv, TypeOK, RPCTypeOK, Ids, Register, FreshId, CallState
<1>3. /\ chan' \in [Ids -> Replies \cup {Empty}] /\ chan'[new] = Empty
      /\ \A id \in Ids : id # new => chan'[id] = chan[id]
  BY <1>1 DEF IInv, TypeOK, RPCTypeOK, Register, FreshId
<1>4. RPCTypeOK'
  BY <1>1, <1>2, <1>3 DEF IInv, TypeOK, RPCTypeOK
<1> HIDE DEF new
<1>5. new \notin 1..nextID /\ new \in 1..nextID' /\ \A id : id \in 1..nextID => id \in 1..nextID'
  BY <1>1 DEF new
<1>6. CallIds'
  <2>1. \A t \in Methods : InCall(t) => call[t].id \in 1..nextID /\ call[t].nr = call[t].id
    BY DEF IInv, CallIds, Used
  <2>2. \A t \in Methods : InCall(t)' => t = s \/ (InCall(t) /\ call'[t] = call[t])
    BY <1>2 DEF InCall
  <2> QED
    BY <1>2, <1>5, <2>1, <2>2 DEF IInv, CallIds, Used
<1>7. IdsUsed'
  BY <1>1, <1>3, <1>5 DEF IInv, IdsUsed, Used
<1>8. FailersAlone' /\ ReaderAlone' /\ PendingEmpty'
  <2>1. pending \subseteq Ids /\ \A a \in Failers : failing[a].left \subseteq Ids
    BY DEF IInv, TypeOK, RPCTypeOK
  <2>2. reader.pc = "send" => reader.id \in Ids
    BY DEF IInv, TypeOK, RPCTypeOK, Reader, Scanning
  <2> QED
    BY <1>1, <1>3, <1>5, <2>1, <2>2
    DEF IInv, IdsUsed, Used, FailersAlone, ReaderAlone, PendingEmpty
<1>9. CallsKnown'
  <2>1. \A t \in Methods : InCall(t)' => t = s \/ (InCall(t) /\ call'[t] = call[t])
    BY <1>2 DEF InCall
  <2>2. \A t \in Methods : InCall(t) => Known(call[t].id) /\ call[t].id # new
    BY <1>5 DEF IInv, CallsKnown, CallIds, Used
  <2>3. \A t \in Methods : InCall(t) => call[t].id \in Ids
    BY RPCAssumption DEF IInv, CallIds, Used, TypeOK, RPCTypeOK, Ids
  <2> SUFFICES ASSUME NEW t \in Methods, InCall(t)' PROVE Known(call[t].id)'
    BY DEF CallsKnown
  <2>4. CASE t = s
    BY <1>1, <1>2, <2>4 DEF Known
  <2>5. CASE t # s
    <3>1. Known(call[t].id) /\ call'[t] = call[t] /\ call[t].id \in Ids /\ call[t].id # new
      BY <2>1, <2>2, <2>3, <2>5
    <3>2. chan'[call[t].id] = chan[call[t].id]
      BY <1>3, <3>1
    <3> QED
      BY <1>1, <3>1, <3>2 DEF Known
  <2> QED
    BY <2>4, <2>5
<1> QED
  BY <1>4, <1>6, <1>7, <1>8, <1>9

LEMMA WriteStep ==
    ASSUME IInv, NEW s \in Methods, Write(s)
    PROVE  (RPCTypeOK /\ CallIds /\ IdsUsed /\ FailersAlone /\ ReaderAlone /\ PendingEmpty /\ CallsKnown)'
<1>1. InCall(s) /\ call[s].id \in Ids /\ call[s].nr = call[s].id /\ call[s].id \in 1..nextID
  BY RPCAssumption DEF Write, InCall, IInv, CallIds, Used, TypeOK, RPCTypeOK, Ids
<1>2. UNCHANGED <<closed, done, nextID, chan, reader, failing, child, stdout>>
  BY DEF Write
<1>3. CASE /\ asked' = asked \cup {[id |-> call[s].id, reply |-> call[s].nr]}
           /\ call' = [call EXCEPT ![s].pc = "waiting"]
           /\ UNCHANGED pending
  <2>1. /\ call' \in [Methods -> CallState]
        /\ \A t \in Methods : InCall(t)' =>
               InCall(t) /\ call'[t].id = call[t].id /\ call'[t].nr = call[t].nr
    BY <1>1, <1>3 DEF IInv, TypeOK, RPCTypeOK, CallState, InCall
  <2>2. asked' \in SUBSET Response
    BY <1>1, <1>3 DEF IInv, TypeOK, RPCTypeOK, Response, Replies
  <2>3. RPCTypeOK'
    BY <1>2, <1>3, <2>1, <2>2 DEF IInv, TypeOK, RPCTypeOK
  <2>4. CallIds'
    BY <1>2, <2>1 DEF IInv, CallIds, Used
  <2>5. IdsUsed'
    BY <1>1, <1>2, <1>3 DEF IInv, IdsUsed, Used
  <2>6. FailersAlone' /\ ReaderAlone' /\ PendingEmpty'
    BY <1>2, <1>3 DEF IInv, FailersAlone, ReaderAlone, PendingEmpty
  <2>7. CallsKnown'
    BY <1>2, <1>3, <2>1 DEF IInv, CallsKnown, Known
  <2> QED
    BY <2>3, <2>4, <2>5, <2>6, <2>7
<1>4. CASE Fails(s) /\ UNCHANGED asked
  <2>1. RPCTypeOK'
    BY <1>2, <1>4, CallStates DEF Fails, IInv, TypeOK, RPCTypeOK
  <2> QED
    BY <1>1, <1>2, <1>4, <2>1, FailsStep
<1> QED
  BY <1>2, <1>3, <1>4 DEF Write

LEMMA ReceiveStep ==
    ASSUME IInv, NEW s \in Methods, Receive(s)
    PROVE  (RPCTypeOK /\ CallIds /\ IdsUsed /\ FailersAlone /\ ReaderAlone /\ PendingEmpty /\ CallsKnown)'
<1> DEFINE id == call[s].id
<1>1. InCall(s) /\ id \in Ids /\ chan[id] # Empty
  BY RPCAssumption DEF Receive, InCall, IInv, CallIds, Used, TypeOK, RPCTypeOK, Ids
<1>2. UNCHANGED <<closed, done, pending, nextID, reader, failing, child, asked, stdout>>
  BY DEF Receive, childVars
<1>3. /\ chan' \in [Ids -> Replies \cup {Empty}] /\ chan'[id] = Empty
      /\ \A i \in Ids : i # id => chan'[i] = chan[i]
  BY <1>1 DEF Receive, IInv, TypeOK, RPCTypeOK
<1>4. /\ call' \in [Methods -> CallState]
      /\ \A t \in Methods : InCall(t)' => t # s /\ InCall(t) /\ call'[t] = call[t]
  BY CallStates DEF Receive, InCall, IInv, TypeOK, RPCTypeOK
<1> HIDE DEF id
<1>5. RPCTypeOK'
  BY <1>2, <1>3, <1>4 DEF IInv, TypeOK, RPCTypeOK
<1>6. CallIds'
  BY <1>2, <1>4 DEF IInv, CallIds, Used
<1>7. IdsUsed'
  BY <1>2, <1>3 DEF IInv, IdsUsed, Used
<1>8. FailersAlone' /\ ReaderAlone' /\ PendingEmpty'
  <2>1. pending \subseteq Ids /\ \A a \in Failers : failing[a].left \subseteq Ids
    BY DEF IInv, TypeOK, RPCTypeOK
  <2>2. reader.pc = "send" => reader.id \in Ids
    BY DEF IInv, TypeOK, RPCTypeOK, Reader, Scanning
  <2> QED
    BY <1>2, <1>3, <2>1, <2>2 DEF IInv, FailersAlone, ReaderAlone, PendingEmpty
<1>9. CallsKnown'
  <2> SUFFICES ASSUME NEW t \in Methods, InCall(t)' PROVE Known(call[t].id)'
    BY DEF CallsKnown
  <2>1. InCall(t) /\ call'[t] = call[t] /\ call[t].id \in Ids /\ call[t].id # id
    BY <1>1, <1>4, RPCAssumption DEF id, IInv, CallIds, Used, TypeOK, RPCTypeOK, Ids
  <2>2. Known(call[t].id) /\ chan'[call[t].id] = chan[call[t].id]
    BY <1>3, <2>1 DEF IInv, CallsKnown
  <2> QED
    BY <1>2, <2>1, <2>2 DEF Known
<1> QED
  BY <1>5, <1>6, <1>7, <1>8, <1>9

LEMMA CallStep ==
    ASSUME IInv, NEW s \in Methods, Proceed(s) \/ Write(s) \/ Cancelled(s)
    PROVE  (RPCTypeOK /\ CallIds /\ IdsUsed /\ FailersAlone /\ ReaderAlone /\ PendingEmpty /\ CallsKnown)'
<1>1. CASE CheckClosed(s) \/ OutOfNumbers(s)
  <2>1. /\ UNCHANGED <<closed, done, pending, nextID, chan, reader, failing, child, asked, stdout>>
        /\ call' = [call EXCEPT ![s] = call'[s]]
        /\ call'[s] \in CallState /\ call'[s].pc \in {"checked", "failed"}
    <3>1. call \in [Methods -> CallState] /\ call[s] \in CallState
      BY DEF IInv, TypeOK, RPCTypeOK
    <3>2. [call[s] EXCEPT !.pc = "checked"] \in CallState
      BY <3>1 DEF CallState
    <3>3. CASE CheckClosed(s)
      BY <3>1, <3>2, <3>3, CallStates DEF CheckClosed, childVars, CallState
    <3>4. CASE OutOfNumbers(s)
      BY <3>1, <3>4, CallStates DEF OutOfNumbers, childVars
    <3> QED
      BY <1>1, <3>3, <3>4
  <2>2. \A t \in Methods : InCall(t)' =>
            InCall(t) /\ call'[t].id = call[t].id /\ call'[t].nr = call[t].nr
    BY <2>1 DEF InCall, IInv, TypeOK, RPCTypeOK
  <2>3. RPCTypeOK'
    BY <2>1 DEF IInv, TypeOK, RPCTypeOK
  <2> QED
    BY <2>1, <2>2, <2>3, CallsMove
<1>2. CASE Register(s)
  BY <1>2, RegisterStep
<1>3. CASE Write(s)
  BY <1>3, WriteStep
<1>4. CASE Receive(s)
  BY <1>4, ReceiveStep
<1>5. CASE StreamEnded(s) \/ Cancelled(s)
  <2>1. /\ InCall(s) /\ Fails(s)
        /\ UNCHANGED <<closed, done, nextID, chan, reader, failing, child, asked, stdout>>
    BY <1>5 DEF StreamEnded, Cancelled, InCall, childVars
  <2>2. RPCTypeOK'
    BY <2>1, CallStates DEF Fails, IInv, TypeOK, RPCTypeOK
  <2> QED
    BY <2>1, <2>2, FailsStep
<1> QED
  BY <1>1, <1>2, <1>3, <1>4, <1>5 DEF Proceed

-----------------------------------------------------------------------------
(* The read loop *)

LEMMA DispatchStep ==
    ASSUME IInv, Dispatch
    PROVE  (RPCTypeOK /\ CallIds /\ IdsUsed /\ FailersAlone /\ ReaderAlone /\ PendingEmpty /\ CallsKnown)'
<1> DEFINE line == Head(stdout)
<1>1. /\ stdout # <<>> /\ stdout' = Tail(stdout) /\ reader.pc # "send"
      /\ UNCHANGED <<closed, done, nextID, call, chan, failing, child, asked>>
  BY DEF Dispatch, Scanning
<1>2. stdout \in Seq(Response \cup {TooLong}) /\ Len(stdout) <= PipeCap /\ PipeCap \in Nat
  BY RPCAssumption DEF IInv, TypeOK, RPCTypeOK
<1>3. /\ stdout' \in Seq(Response \cup {TooLong}) /\ Len(stdout') = Len(stdout) - 1
      /\ Len(stdout) \in Nat /\ Len(stdout') <= PipeCap
      /\ line = stdout[1] /\ 1 \in 1..Len(stdout)
      /\ \A i \in 1..Len(stdout') : i + 1 \in 1..Len(stdout) /\ stdout'[i] = stdout[i + 1]
  BY <1>1, <1>2
<1>4. line = TooLong \/ line.reply \in ReplyTo(line.id)
  BY <1>3 DEF IInv, IdsUsed
<1> HIDE DEF line
<1>5. CASE /\ line.id \in pending
           /\ pending' = pending \ {line.id}
           /\ reader' = Sending(line.id, line.reply)
  <2>1. /\ line.id \in Ids /\ Used(line.id) /\ line.reply \in ReplyTo(line.id)
        /\ chan[line.id] = Empty
        /\ \A a \in Failers : line.id \notin failing[a].left
    <3>1. line.id \in Ids /\ Used(line.id)
      BY <1>5 DEF IInv, TypeOK, RPCTypeOK, IdsUsed
    <3>2. line # TooLong
      BY <3>1, RPCAssumption DEF TooLong, NoId, Ids
    <3> QED
      BY <1>4, <1>5, <3>1, <3>2 DEF IInv, FailersAlone, PendingEmpty
  <2>2. reader' \in Reader /\ reader'.pc = "send" /\ reader'.id = line.id /\ reader'.reply = line.reply
    BY <1>5, <2>1 DEF Sending, Reader, Replies, ReplyTo
  <2>3. RPCTypeOK'
    BY <1>1, <1>3, <1>5, <2>2 DEF IInv, TypeOK, RPCTypeOK
  <2>4. CallIds'
    BY <1>1 DEF IInv, CallIds, Used, InCall
  <2>5. IdsUsed'
    BY <1>1, <1>3, <1>5, <2>1, <2>2 DEF IInv, IdsUsed, Used
  <2>6. FailersAlone' /\ ReaderAlone' /\ PendingEmpty'
    BY <1>1, <1>5, <2>1, <2>2 DEF IInv, FailersAlone, ReaderAlone, PendingEmpty
  <2>7. CallsKnown'
    BY <1>1, <1>5, <2>2 DEF IInv, CallsKnown, Known, InCall
  <2> QED
    BY <2>3, <2>4, <2>5, <2>6, <2>7
<1>6. CASE UNCHANGED pending /\ reader' \in {[pc |-> "ending"], Scanning}
  <2>1. reader' \in Reader /\ reader'.pc # "send"
    BY <1>6 DEF Reader, Scanning
  <2>2. RPCTypeOK'
    BY <1>1, <1>3, <1>6, <2>1 DEF IInv, TypeOK, RPCTypeOK
  <2>3. CallIds'
    BY <1>1 DEF IInv, CallIds, Used, InCall
  <2>4. IdsUsed'
    BY <1>1, <1>3, <1>6, <2>1 DEF IInv, IdsUsed, Used
  <2>5. FailersAlone' /\ ReaderAlone' /\ PendingEmpty'
    BY <1>1, <1>6, <2>1 DEF IInv, FailersAlone, ReaderAlone, PendingEmpty
  <2>6. CallsKnown'
    BY <1>1, <1>6 DEF IInv, CallsKnown, Known, InCall
  <2> QED
    BY <2>2, <2>3, <2>4, <2>5, <2>6
<1> QED
  BY <1>5, <1>6 DEF line, Dispatch, TakePending

LEMMA DeliverStep ==
    ASSUME IInv, Deliver
    PROVE  (RPCTypeOK /\ CallIds /\ IdsUsed /\ FailersAlone /\ ReaderAlone /\ PendingEmpty /\ CallsKnown)'
<1> DEFINE id == reader.id
<1>1. /\ reader.pc = "send" /\ reader' = Scanning /\ reader'.pc # "send"
      /\ UNCHANGED <<closed, done, pending, nextID, call, failing, child, asked, stdout>>
  BY DEF Deliver, Scanning, childVars
<1>2. id \in Ids /\ reader.reply \in Replies /\ reader.reply \in ReplyTo(id) /\ reader.reply # Empty
  BY <1>1, RPCAssumption
  DEF IInv, TypeOK, RPCTypeOK, Reader, Scanning, IdsUsed, ReplyTo, Replies, Ids, Error, Empty, NoResult
<1>3. /\ chan' \in [Ids -> Replies \cup {Empty}] /\ chan'[id] = reader.reply
      /\ \A i \in Ids : i # id => chan'[i] = chan[i]
  BY <1>2 DEF Deliver, IInv, TypeOK, RPCTypeOK
<1>4. /\ id \notin pending
      /\ \A a \in Failers : id \notin failing[a].left
  BY <1>1 DEF IInv, ReaderAlone
<1>5. RPCTypeOK'
  BY <1>1, <1>3 DEF IInv, TypeOK, RPCTypeOK, Reader
<1> HIDE DEF id
<1>6. CallIds'
  BY <1>1 DEF IInv, CallIds, Used, InCall
<1>7. IdsUsed'
  BY <1>1, <1>2, <1>3 DEF IInv, IdsUsed, Used
<1>8. FailersAlone' /\ ReaderAlone' /\ PendingEmpty'
  <2>1. pending \subseteq Ids /\ \A a \in Failers : failing[a].left \subseteq Ids
    BY DEF IInv, TypeOK, RPCTypeOK
  <2> QED
    BY <1>1, <1>3, <1>4, <2>1 DEF IInv, FailersAlone, ReaderAlone, PendingEmpty
<1>9. CallsKnown'
  <2> SUFFICES ASSUME NEW t \in Methods, InCall(t) PROVE Known(call[t].id)'
    BY <1>1 DEF CallsKnown, InCall
  <2>1. Known(call[t].id) /\ call[t].id \in Ids
    BY RPCAssumption DEF IInv, CallsKnown, CallIds, Used, TypeOK, RPCTypeOK, Ids
  <2> QED
    BY <1>1, <1>2, <1>3, <2>1 DEF Known, id
<1> QED
  BY <1>5, <1>6, <1>7, <1>8, <1>9

LEMMA EndOfStreamStep ==
    ASSUME IInv, EndOfStream
    PROVE  (RPCTypeOK /\ CallIds /\ IdsUsed /\ FailersAlone /\ ReaderAlone /\ PendingEmpty /\ CallsKnown)'
<1>1. /\ reader.pc # "send" /\ reader'.pc # "send" /\ reader' \in Reader
      /\ UNCHANGED <<closed, done, pending, nextID, call, chan, failing, child, asked, stdout>>
  BY DEF EndOfStream, Scanning, childVars, Reader
<1>2. RPCTypeOK'
  BY <1>1 DEF IInv, TypeOK, RPCTypeOK
<1>3. CallIds' /\ IdsUsed'
  BY <1>1 DEF IInv, CallIds, IdsUsed, Used, InCall
<1>4. FailersAlone' /\ ReaderAlone' /\ PendingEmpty'
  BY <1>1 DEF IInv, FailersAlone, ReaderAlone, PendingEmpty
<1>5. CallsKnown'
  BY <1>1 DEF IInv, CallsKnown, Known, InCall
<1> QED
  BY <1>2, <1>3, <1>4, <1>5

-----------------------------------------------------------------------------
(* failAll *)

LEMMA FailAllStep ==
    ASSUME IInv, NEW a \in Failers, FailAll(a) \/ FailedAll(a)
    PROVE  (RPCTypeOK /\ CallIds /\ IdsUsed /\ FailersAlone /\ ReaderAlone /\ PendingEmpty /\ CallsKnown)'
<1>1. failing \in [Failers -> [pc : {"idle", "swap", "send", "over"}, left : SUBSET Ids]]
  BY DEF IInv, TypeOK, RPCTypeOK
<1>2. /\ UNCHANGED <<pending, nextID, call, chan, reader, child, asked, stdout>>
      /\ closed' \in BOOLEAN /\ done' \in BOOLEAN
  BY DEF FailAll, FailedAll, CloseDone, childVars, IInv, TypeOK, RPCTypeOK
<1>3. failing[a].left = {}
  BY DEF FailAll, FailedAll, IInv, FailersAlone
<1>4. /\ failing' \in [Failers -> [pc : {"idle", "swap", "send", "over"}, left : SUBSET Ids]]
      /\ \A b \in Failers : failing'[b].left = failing[b].left
      /\ \A b \in Failers : b # a => failing'[b] = failing[b]
  BY <1>1 DEF FailAll, FailedAll
<1>5. RPCTypeOK'
  BY <1>2, <1>4 DEF IInv, TypeOK, RPCTypeOK
<1>6. CallIds' /\ IdsUsed'
  BY <1>2, <1>4 DEF IInv, CallIds, IdsUsed, Used, InCall
<1>7. FailersAlone' /\ ReaderAlone' /\ PendingEmpty'
  BY <1>2, <1>3, <1>4 DEF IInv, FailersAlone, ReaderAlone, PendingEmpty
<1>8. CallsKnown'
  BY <1>2, <1>4 DEF IInv, CallsKnown, Known, InCall
<1> QED
  BY <1>5, <1>6, <1>7, <1>8

LEMMA SwapStep ==
    ASSUME IInv, NEW a \in Failers, SwapPending(a)
    PROVE  (RPCTypeOK /\ CallIds /\ IdsUsed /\ FailersAlone /\ ReaderAlone /\ PendingEmpty /\ CallsKnown)'
<1>1. /\ failing \in [Failers -> [pc : {"idle", "swap", "send", "over"}, left : SUBSET Ids]]
      /\ pending \in SUBSET Ids
  BY DEF IInv, TypeOK, RPCTypeOK
<1>2. /\ pending' = {}
      /\ UNCHANGED <<closed, done, nextID, call, chan, reader, child, asked, stdout>>
  BY DEF SwapPending, childVars
<1>3. failing[a].left = {}
  BY DEF SwapPending, IInv, FailersAlone
<1>4. /\ failing' \in [Failers -> [pc : {"idle", "swap", "send", "over"}, left : SUBSET Ids]]
      /\ failing'[a] = [pc |-> "send", left |-> pending]
      /\ \A b \in Failers : b # a => failing'[b] = failing[b]
  BY <1>1 DEF SwapPending
<1>5. RPCTypeOK'
  BY <1>2, <1>4 DEF IInv, TypeOK, RPCTypeOK
<1>6. CallIds' /\ IdsUsed'
  BY <1>2, <1>4 DEF IInv, CallIds, IdsUsed, Used, InCall
<1>7. FailersAlone' /\ ReaderAlone' /\ PendingEmpty'
  BY <1>2, <1>4 DEF IInv, FailersAlone, ReaderAlone, PendingEmpty
<1>8. CallsKnown'
  BY <1>2, <1>3, <1>4 DEF IInv, CallsKnown, Known, InCall
<1> QED
  BY <1>5, <1>6, <1>7, <1>8

LEMMA FailOneStep ==
    ASSUME IInv, NEW a \in Failers, FailOne(a)
    PROVE  (RPCTypeOK /\ CallIds /\ IdsUsed /\ FailersAlone /\ ReaderAlone /\ PendingEmpty /\ CallsKnown)'
<1> PICK id \in failing[a].left :
        /\ chan' = [chan EXCEPT ![id] = Error]
        /\ failing' = [failing EXCEPT ![a].left = @ \ {id}]
        /\ UNCHANGED <<closed, done, pending, nextID, call, reader, child, asked, stdout>>
  BY DEF FailOne, childVars
<1>1. /\ failing \in [Failers -> [pc : {"idle", "swap", "send", "over"}, left : SUBSET Ids]]
      /\ chan \in [Ids -> Replies \cup {Empty}]
      /\ id \in Ids
  BY DEF IInv, TypeOK, RPCTypeOK
<1>2. /\ chan' \in [Ids -> Replies \cup {Empty}] /\ chan'[id] = Error
      /\ \A i \in Ids : i # id => chan'[i] = chan[i]
  BY <1>1 DEF Replies
<1>3. /\ failing' \in [Failers -> [pc : {"idle", "swap", "send", "over"}, left : SUBSET Ids]]
      /\ failing'[a].left = failing[a].left \ {id} /\ failing'[a].pc = failing[a].pc
      /\ \A b \in Failers : b # a => failing'[b] = failing[b]
  BY <1>1
<1>4. /\ id \notin pending
      /\ \A b \in Failers : b # a => id \notin failing[b].left
      /\ reader.pc = "send" => reader.id # id
  BY DEF IInv, FailersAlone, ReaderAlone
<1>5. RPCTypeOK'
  BY <1>2, <1>3 DEF IInv, TypeOK, RPCTypeOK
<1>6. CallIds'
  BY DEF IInv, CallIds, Used, InCall
<1>7. IdsUsed'
  BY <1>2, <1>3 DEF IInv, IdsUsed, Used, ReplyTo
<1>8. FailersAlone' /\ ReaderAlone' /\ PendingEmpty'
  <2>1. pending \subseteq Ids /\ \A b \in Failers : failing[b].left \subseteq Ids
    BY DEF IInv, TypeOK, RPCTypeOK
  <2>2. reader.pc = "send" => reader.id \in Ids
    BY DEF IInv, TypeOK, RPCTypeOK, Reader, Scanning
  <2> QED
    BY <1>2, <1>3, <1>4, <2>1, <2>2 DEF IInv, FailersAlone, ReaderAlone, PendingEmpty
<1>9. CallsKnown'
  <2> SUFFICES ASSUME NEW t \in Methods, InCall(t) PROVE Known(call[t].id)'
    BY DEF CallsKnown, InCall
  <2>1. Known(call[t].id) /\ call[t].id \in Ids
    BY RPCAssumption DEF IInv, CallsKnown, CallIds, Used, TypeOK, RPCTypeOK, Ids
  <2> QED
    BY <1>2, <1>3, <2>1 DEF Known, Error, Empty
<1> QED
  BY <1>5, <1>6, <1>7, <1>8, <1>9

-----------------------------------------------------------------------------
(* The child process *)

LEMMA AnswerStep ==
    ASSUME IInv, Answer \/ ServerRequest \/ Oversize
    PROVE  (RPCTypeOK /\ CallIds /\ IdsUsed /\ FailersAlone /\ ReaderAlone /\ PendingEmpty /\ CallsKnown)'
<1>1. /\ UNCHANGED <<closed, done, pending, nextID, call, chan, reader, failing, child>>
      /\ Len(stdout) < PipeCap /\ asked' \subseteq asked
  BY DEF Answer, ServerRequest, Oversize
<1>2. PICK line \in Response \cup {TooLong} :
          /\ stdout' = Append(stdout, line)
          /\ line = TooLong \/ line.reply \in ReplyTo(line.id)
  <2>1. CASE Oversize
    BY <2>1 DEF Oversize
  <2>2. CASE Answer
    <3>1. PICK m \in asked : \E r \in {m.reply, Error} : stdout' = Append(stdout, [id |-> m.id, reply |-> r])
      BY <2>2 DEF Answer
    <3>2. Used(m.id) /\ m.reply = m.id /\ m \in Response
      BY DEF IInv, IdsUsed, TypeOK, RPCTypeOK
    <3>3. \A r \in {m.reply, Error} : [id |-> m.id, reply |-> r] \in Response /\ r \in ReplyTo(m.id)
      BY <3>2 DEF Response, Replies, ReplyTo
    <3> QED
      BY <3>1, <3>2, <3>3
  <2>3. CASE ServerRequest
    <3>1. PICK id \in ServerIds : stdout' = Append(stdout, [id |-> id, reply |-> NoResult])
      BY <2>3 DEF ServerRequest
    <3>2. [id |-> id, reply |-> NoResult] \in Response /\ NoResult \in ReplyTo(id)
      BY RPCAssumption DEF Response, Replies, ReplyTo, Ids
    <3> QED
      BY <3>1, <3>2
  <2> QED
    BY <2>1, <2>2, <2>3
<1>3. stdout \in Seq(Response \cup {TooLong}) /\ PipeCap \in Nat
  BY RPCAssumption DEF IInv, TypeOK, RPCTypeOK
<1>4. /\ stdout' \in Seq(Response \cup {TooLong}) /\ Len(stdout') = Len(stdout) + 1
      /\ Len(stdout') <= PipeCap /\ stdout'[Len(stdout) + 1] = line
      /\ \A i \in 1..Len(stdout') : i = Len(stdout) + 1 \/ (i \in 1..Len(stdout) /\ stdout'[i] = stdout[i])
  BY <1>1, <1>2, <1>3
<1>5. RPCTypeOK'
  BY <1>1, <1>4 DEF IInv, TypeOK, RPCTypeOK
<1>6. IdsUsed'
  BY <1>1, <1>2, <1>4 DEF IInv, IdsUsed, Used
<1>7. CallIds' /\ CallsKnown'
  BY <1>1 DEF IInv, CallIds, Used, InCall, CallsKnown, Known
<1>8. FailersAlone' /\ ReaderAlone' /\ PendingEmpty'
  BY <1>1 DEF IInv, FailersAlone, ReaderAlone, PendingEmpty
<1> QED
  BY <1>5, <1>6, <1>7, <1>8

LEMMA ChildStep ==
    ASSUME IInv, Kill \/ Exit \/ Wait
    PROVE  (RPCTypeOK /\ CallIds /\ IdsUsed /\ FailersAlone /\ ReaderAlone /\ PendingEmpty /\ CallsKnown)'
<1>1. /\ UNCHANGED <<closed, done, pending, nextID, call, chan, reader, failing>>
      /\ child' \in {"up", "killed", "exited", "reaped"}
      /\ asked' \subseteq asked
      /\ stdout' \in {stdout, <<>>}
  BY DEF Kill, Exit, Wait
<1>2. /\ stdout' \in Seq(Response \cup {TooLong}) /\ Len(stdout') <= PipeCap
      /\ (\A i \in 1..Len(stdout') : FALSE) \/ stdout' = stdout
  <2>1. CASE stdout' = stdout
    BY <2>1 DEF IInv, TypeOK, RPCTypeOK
  <2>2. CASE stdout' = <<>>
    BY <2>2, RPCAssumption
  <2> QED
    BY <1>1, <2>1, <2>2
<1>3. RPCTypeOK'
  BY <1>1, <1>2 DEF IInv, TypeOK, RPCTypeOK
<1>4. IdsUsed'
  BY <1>1, <1>2 DEF IInv, IdsUsed, Used
<1>5. CallIds' /\ CallsKnown'
  BY <1>1 DEF IInv, CallIds, Used, InCall, CallsKnown, Known
<1>6. FailersAlone' /\ ReaderAlone' /\ PendingEmpty'
  BY <1>1 DEF IInv, FailersAlone, ReaderAlone, PendingEmpty
<1> QED
  BY <1>3, <1>4, <1>5, <1>6

-----------------------------------------------------------------------------
(* The account *)

LEMMA AccountCallStep ==
    ASSUME IInv, Handshake \/ HandshakeEnds \/ \E q \in Requests : FetchAccount(q) \/ Fetched(q)
    PROVE  IInv'
<1> USE CallStates
<1>1. call \in [Methods -> CallState] /\ Initialize \in Methods
  BY AccountAssumption DEF IInv, TypeOK, RPCTypeOK
<1>2. CASE Handshake
  <2>1. /\ UNCHANGED <<closed, done, pending, nextID, chan, reader, failing, child, asked, stdout>>
        /\ UNCHANGED <<app, fresh, mutex, wait>>
    BY <1>2 DEF Handshake, Invoke, childVars, cacheVars
  <2>2. /\ call' \in [Methods -> CallState]
        /\ \A t \in Methods : InCall(t)' => InCall(t) /\ call'[t] = call[t]
    BY <1>1, <1>2 DEF Handshake, Invoke, InCall
  <2>3. TypeOK'
    BY <2>1, <2>2 DEF IInv, TypeOK, RPCTypeOK
  <2> QED
    BY <2>1, <2>2, <2>3, CallsMove DEF IInv
<1>3. CASE HandshakeEnds
  <2>1. /\ UNCHANGED <<closed, done, pending, nextID, chan, reader, failing, asked, stdout>>
        /\ UNCHANGED <<fresh, mutex, wait>>
        /\ app' \in {"ready", "none"} /\ child' \in {child, "killed"}
    BY <1>3 DEF HandshakeEnds, cacheVars
  <2>2. /\ call' \in [Methods -> CallState]
        /\ \A t \in Methods : InCall(t)' => InCall(t) /\ call'[t] = call[t]
    BY <1>1, <1>3 DEF HandshakeEnds, InCall
  <2>3. TypeOK'
    BY <2>1, <2>2 DEF IInv, TypeOK, RPCTypeOK
  <2> QED
    BY <2>1, <2>2, <2>3, CallsMove DEF IInv
<1>4. ASSUME NEW q \in Requests, FetchAccount(q) \/ Fetched(q)
      PROVE  IInv'
  <2>1. /\ UNCHANGED <<closed, done, pending, nextID, chan, reader, failing, child, asked, stdout>>
        /\ UNCHANGED app
        /\ fresh' \in BOOLEAN /\ mutex' \in Requests \cup {Nobody} /\ wait' \in SUBSET Requests
    BY <1>4 DEF FetchAccount, Fetched, rest, childVars, IInv, TypeOK
  <2>2. /\ call' \in [Methods -> CallState]
        /\ \A t \in Methods : InCall(t)' => InCall(t) /\ call'[t] = call[t]
    BY <1>1, <1>4 DEF FetchAccount, Fetched, InCall
  <2>3. TypeOK'
    BY <2>1, <2>2 DEF IInv, TypeOK, RPCTypeOK
  <2> QED
    BY <2>1, <2>2, <2>3, CallsMove DEF IInv
<1> QED
  BY <1>2, <1>3, <1>4

LEMMA CacheStep ==
    ASSUME IInv, UNCHANGED vars, TypeOK'
    PROVE  IInv'
<1>1. (CallIds /\ IdsUsed)'
  BY DEF IInv, vars, CallIds, IdsUsed, Used, InCall
<1>2. (FailersAlone /\ ReaderAlone /\ PendingEmpty /\ CallsKnown)'
  BY DEF IInv, vars, FailersAlone, ReaderAlone, PendingEmpty, CallsKnown, Known, InCall
<1> QED
  BY <1>1, <1>2 DEF IInv

LEMMA Inductive == IInv /\ [AccountNext]_accountVars => IInv'
<1> SUFFICES ASSUME IInv, [AccountNext]_accountVars PROVE IInv'
  OBVIOUS
<1>1. ASSUME Step, UNCHANGED <<app, cacheVars>>
      PROVE  IInv'
  <2>1. (RPCTypeOK /\ CallIds /\ IdsUsed /\ FailersAlone /\ ReaderAlone /\ PendingEmpty /\ CallsKnown)'
    BY <1>1, CallStep, DispatchStep, DeliverStep, EndOfStreamStep, FailAllStep, SwapStep, FailOneStep,
       AnswerStep, ChildStep
    DEF Step, ReadLoop, Failing
  <2> QED
    BY <1>1, <2>1 DEF IInv, TypeOK, cacheVars
<1>2. CASE Handshake \/ HandshakeEnds \/ \E q \in Requests : FetchAccount(q) \/ Fetched(q)
  BY <1>2, AccountCallStep
<1>3. ASSUME NEW q \in Requests, GetAccount(q) \/ CacheHit(q)
      PROVE  IInv'
  <2>1. UNCHANGED <<vars, app, fresh, mutex>> /\ wait' \in SUBSET Requests
    BY <1>3 DEF GetAccount, CacheHit, IInv, TypeOK
  <2>2. RPCTypeOK'
    BY <2>1 DEF IInv, TypeOK, RPCTypeOK, vars
  <2> QED
    BY <2>1, <2>2, CacheStep DEF IInv, TypeOK
<1>4. CASE Expire
  <2>1. UNCHANGED <<vars, app, mutex, wait>> /\ fresh' = FALSE
    BY <1>4 DEF Expire
  <2>2. RPCTypeOK'
    BY <2>1 DEF IInv, TypeOK, RPCTypeOK, vars
  <2> QED
    BY <2>1, <2>2, CacheStep DEF IInv, TypeOK
<1>5. CASE UNCHANGED accountVars
  <2>1. RPCTypeOK'
    BY <1>5 DEF IInv, TypeOK, RPCTypeOK, vars, accountVars
  <2> QED
    BY <1>5, <2>1, CacheStep DEF IInv, TypeOK, accountVars, cacheVars
<1> QED
  BY <1>1, <1>2, <1>3, <1>4, <1>5 DEF AccountNext, Serve

LEMMA Invariant == AccountSpec => []IInv
<1> QED
  BY Initially, Inductive, PTL DEF AccountSpec

-----------------------------------------------------------------------------
(* The theorems *)

\* The variables of the client and of the snapshot keep their types.
THEOREM AccountTypes == AccountSpec => []TypeOK
<1>1. IInv => TypeOK
  BY DEF IInv
<1> QED
  BY <1>1, Invariant, PTL

\* dispatch and failAll never send twice to one reply channel, and a call that waits is
\* always known to one of them, for any number of calls, closers and requests.
THEOREM OneReply == AccountSpec => []ReplyOnce
<1>1. ASSUME IInv PROVE OneSender
  <2> SUFFICES ASSUME NEW id \in Ids
               PROVE  /\ \A a, b \in Senders(id) : a = b
                      /\ Senders(id) # {} => chan[id] = Empty /\ id \notin pending
                      /\ id \in pending => chan[id] = Empty
    BY DEF OneSender
  <2>1. (\E a \in Failers : id \in failing[a].left) => ~(reader.pc = "send" /\ reader.id = id)
    BY <1>1 DEF IInv, ReaderAlone
  <2>2. \A a, b \in Senders(id) : a = b
    BY <1>1, <2>1 DEF Senders, IInv, FailersAlone
  <2>3. Senders(id) # {} => chan[id] = Empty /\ id \notin pending
    BY <1>1 DEF Senders, IInv, FailersAlone, ReaderAlone
  <2>4. id \in pending => chan[id] = Empty
    BY <1>1 DEF IInv, PendingEmpty
  <2> QED
    BY <2>2, <2>3, <2>4
<1>2. ASSUME IInv PROVE NoOrphan
  BY <1>2 DEF NoOrphan, Senders, IInv, CallsKnown, Known
<1>3. IInv => ReplyOnce
  BY <1>1, <1>2 DEF ReplyOnce
<1> QED
  BY <1>3, Invariant, PTL

\* What a call finds in its channel answers its own request, or is an error, or is a
\* request of the server's own with the id of just this call, whatever ids the server
\* picks for those: nothing late or misdirected is ever delivered.
THEOREM AnswersMatch == AccountSpec => []OwnAnswer
<1>1. ASSUME IInv, NEW s \in Methods, call[s].pc = "waiting"
      PROVE  \/ chan[call[s].id] \in {Empty, Error, call[s].nr}
             \/ chan[call[s].id] = NoResult /\ call[s].id \in ServerIds
  <2>1. InCall(s) /\ call[s].id \in Ids /\ call[s].nr = call[s].id
    BY <1>1, RPCAssumption DEF InCall, IInv, CallIds, Used, TypeOK, RPCTypeOK, Ids
  <2> QED
    BY <1>1, <2>1 DEF IInv, IdsUsed, ReplyTo
<1>2. IInv => OwnAnswer
  BY <1>1 DEF OwnAnswer
<1> QED
  BY <1>2, Invariant, PTL

\* Whatever the JSON-RPC client and the child process do, loadAccount is a probe that at
\* most one request makes at a time, and once per time window.
THEOREM AccountImplementsProbe == AccountSpec => ImplementsProbe
<1>1. AccountInit => Probe!Init
  BY DEF AccountInit, Probe!Init
<1>2. [AccountNext]_accountVars => [Probe!Next]_(Probe!probeVars)
  <2> SUFFICES ASSUME [AccountNext]_accountVars PROVE [Probe!Next]_(Probe!probeVars)
    OBVIOUS
  <2> USE DEF Probe!Next, Probe!probeVars
  <2>1. ASSUME NEW q \in Requests, GetAccount(q) \/ Serve(q)
        PROVE  Probe!Ask(q) \/ Probe!Hit(q) \/ Probe!Miss(q) \/ Probe!Probed(q)
    BY <2>1
    DEF GetAccount, Serve, CacheHit, FetchAccount, Fetched, Fresh,
        Probe!Ask, Probe!Hit, Probe!Miss, Probe!Probed
  <2>2. CASE Expire
    BY <2>2 DEF Expire, Probe!Expire
  <2>3. CASE UNCHANGED cacheVars
    BY <2>3 DEF cacheVars
  <2>4. CASE Handshake \/ HandshakeEnds
    BY <2>3, <2>4 DEF Handshake, HandshakeEnds
  <2> QED
    BY <2>1, <2>2, <2>3, <2>4 DEF AccountNext, accountVars
<1> QED
  BY <1>1, <1>2, PTL DEF AccountSpec, ImplementsProbe, Probe!Spec
=============================================================================
