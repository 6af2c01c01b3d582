---------------------------- MODULE AccountCache ----------------------------
(***************************************************************************)
(* The account snapshot: StartAppServer, then loadAccount and fetchAccount *)
(* of internal/httpapi/account.go over the JSON-RPC client.                *)
(***************************************************************************)
EXTENDS RPCClient

CONSTANTS
    Requests,       \* concurrent GET /account
    Initialize,     \* the method of the handshake
    Nobody

ASSUME AccountAssumption == Initialize \in Methods /\ Nobody \notin Requests

VARIABLES
    app,        \* Server.appServer: starting, ready, or none
    fresh,      \* accountCachedAt lies within ACCOUNT_CACHE_TTL
    mutex,      \* holder of accountMu
    wait        \* requests at accountMu

cacheVars == <<fresh, mutex, wait>>
accountVars == <<vars, app, cacheVars>>

Pieces == Methods \ {Initialize}
rest == <<closed, done, pending, nextID, chan, reader, failing, childVars>>

-----------------------------------------------------------------------------
(* StartAppServer, before the HTTP server is started *)

Handshake ==
    /\ app = "starting"
    /\ Invoke(Initialize)
    /\ UNCHANGED <<app, cacheVars>>

\* The handshake went well if the call was answered and `initialized` could be sent; the
\* process is closed otherwise, and the account stays unavailable.  (Its two lines always
\* fit into the pipe.)
HandshakeEnds ==
    /\ app = "starting"
    /\ Ended(Initialize)
    /\ \/ /\ call[Initialize] = Answered /\ ~closed
          /\ app' = "ready"
          /\ UNCHANGED child
       \/ /\ app' = "none"
          /\ child' = IF child = "up" THEN "killed" ELSE child
    /\ call' = [call EXCEPT ![Initialize] = Idle]
    /\ UNCHANGED <<closed, done, pending, nextID, chan, reader, failing, asked, stdout, cacheVars>>

-----------------------------------------------------------------------------
(* loadAccount *)

\* Without an App Server the request is answered at once.
GetAccount(q) ==
    /\ app = "ready"
    /\ q \notin wait
    /\ mutex # q
    /\ wait' = wait \cup {q}
    /\ UNCHANGED <<vars, app, fresh, mutex>>

\* Mutant: the cache is looked at before the mutex is taken only.
NeverFresh == FALSE

Fresh == fresh

CacheHit(q) ==
    /\ q \in wait
    /\ mutex = Nobody
    /\ Fresh
    /\ wait' = wait \ {q}
    /\ UNCHANGED <<vars, app, fresh, mutex>>

\* fetchAccount starts one goroutine per method.
FetchAccount(q) ==
    /\ q \in wait
    /\ mutex = Nobody
    /\ ~Fresh
    /\ mutex' = q
    /\ wait' = wait \ {q}
    /\ call' = [s \in Methods |-> IF s \in Pieces THEN [Idle EXCEPT !.pc = "start"] ELSE call[s]]
    /\ UNCHANGED <<rest, app, fresh>>

\* wg.Wait, the snapshot, the unlock.  A snapshot with errors in it is cached as well.
Fetched(q) ==
    /\ mutex = q
    /\ \A s \in Pieces : Ended(s)
    /\ fresh' = TRUE
    /\ mutex' = Nobody
    /\ call' = [s \in Methods |-> IF s \in Pieces THEN Idle ELSE call[s]]
    /\ UNCHANGED <<rest, app, wait>>

\* ACCOUNT_CACHE_TTL passes.
Expire ==
    /\ fresh
    /\ fresh' = FALSE
    /\ UNCHANGED <<vars, app, mutex, wait>>

-----------------------------------------------------------------------------
AccountInit ==
    /\ Init
    /\ app = "starting"
    /\ fresh = FALSE
    /\ mutex = Nobody
    /\ wait = {}

Serve(q) == CacheHit(q) \/ FetchAccount(q) \/ Fetched(q)

AccountNext ==
    \/ Step /\ UNCHANGED <<app, cacheVars>>
    \/ Handshake \/ HandshakeEnds
    \/ \E q \in Requests : GetAccount(q) \/ Serve(q)
    \/ Expire

AccountSpec == AccountInit /\ [][AccountNext]_accountVars

Fairness ==
    /\ RPCFairness
    /\ WF_accountVars(Handshake \/ HandshakeEnds)
    /\ \A q \in Requests : WF_accountVars(Serve(q))

FairSpec == AccountSpec /\ Fairness

-----------------------------------------------------------------------------
TypeOK ==
    /\ RPCTypeOK
    /\ app \in {"starting", "ready", "none"}
    /\ fresh \in BOOLEAN
    /\ mutex \in Requests \cup {Nobody}
    /\ wait \in SUBSET Requests

\* No write blocks for good on the stdin of a process that is up and does not read.
WritesReturn ==
    \A s \in Methods : []<>~(child = "up" /\ call[s].pc = "registered")

\* When the App Server dies, is stopped or breaks the stream, no request is left waiting
\* for it: again and again no call is open, without any deadline, also none that
\* registered after the others were failed.  (A call that blocks in write is beyond
\* failAll and its own context.)
DeadServerFreesRequests == WritesReturn => (closed ~> \A s \in Methods : call[s] = Idle)

Probe == INSTANCE ProbeCache
\* At most one fetch at a time and, for any number of requests, one per time window.
ImplementsProbe == Probe!Spec
=============================================================================
