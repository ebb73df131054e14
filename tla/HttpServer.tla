----------------------------- MODULE HttpServer -----------------------------
(***************************************************************************)
(* One life of the API process: cmd/api/main.go, internal/platform/httpx   *)
(* (deadlines, readiness, shutdown) and InTx, around one pool of database  *)
(* connections.  A request has two goroutines: http.TimeoutHandler waits   *)
(* for the handler or for the deadline, whichever the select sees first,   *)
(* and the handler goes on alone after a deadline.                         *)
(***************************************************************************)
EXTENDS Naturals, FiniteSets

CONSTANTS
  Requests,   \* the requests of this life, each received at most once
  Probes,     \* those of them that are GET /ready; the others are writes
  MaxConns    \* DB_MAX_CONNS

ASSUME PoolAssumption == MaxConns \in Nat \ {0} /\ Probes \subseteq Requests

VARIABLES
  main,       \* the goroutine of run
  status,     \* the exit status of the process
  signalled,  \* SIGTERM or SIGINT has arrived
  stopping,   \* readiness.stopping
  waiting,    \* the requests whose TimeoutHandler waits
  handler,    \* per request, where its handler goroutine is
  context,    \* per request, whether and why its context is cancelled
  result,     \* per request, the code its handler has buffered
  pool,       \* the requests that hold a connection
  tx,         \* per request, its transaction as the database sees it
  answer      \* per request, what the client was told, and by whom

vars == <<main, status, signalled, stopping, waiting, handler, context, result, pool, tx, answer>>

Writes == Requests \ Probes
Nobody == [by |-> "nobody", code |-> "none"]
Answer(by, code) == [by |-> by, code |-> code]

Init ==
  /\ main = "serving" /\ status = "running"
  /\ signalled = FALSE /\ stopping = FALSE
  /\ waiting = {} /\ pool = {}
  /\ handler = [r \in Requests |-> "none"]
  /\ context = [r \in Requests |-> "live"]
  /\ result = [r \in Requests |-> "none"]
  /\ tx = [r \in Requests |-> "none"]
  /\ answer = [r \in Requests |-> Nobody]

Alive == main # "exited"
Cancelled(r) == context[r] # "live"
At(r, place) == Alive /\ handler[r] = place

process == <<main, status, signalled, stopping>>

-----------------------------------------------------------------------------
(***************************************************************************)
(* The handler goroutine: authentication and authorization, then InTx.     *)
(***************************************************************************)
Goto(r, place) == handler' = [handler EXCEPT ![r] = place]

\* The handler buffers its answer and returns.
Return(r, code) ==
  /\ Goto(r, "returned")
  /\ result' = [result EXCEPT ![r] = code]

Quietly == UNCHANGED <<process, waiting, context, answer>>

Free == Cardinality(pool) < MaxConns
PoolOpen == main \in {"serving", "draining"}

\* Authenticate and require, on connections of the pool.
Authenticate(r) ==
  /\ At(r, "Authenticate")
  /\ \/ Free /\ PoolOpen /\ Goto(r, "BeginTx") /\ UNCHANGED result
     \/ Free /\ PoolOpen /\ Return(r, "REFUSED")
     \/ Return(r, "SERVICE_UNAVAILABLE")
     \/ ~PoolOpen /\ Return(r, "INTERNAL_ERROR")
  /\ Quietly /\ UNCHANGED <<pool, tx>>

BeginTx(r) ==
  /\ At(r, "BeginTx")
  /\ \/ /\ Free /\ PoolOpen /\ ~Cancelled(r)
        /\ pool' = pool \cup {r}
        /\ tx' = [tx EXCEPT ![r] = "open"]
        /\ Goto(r, "callback") /\ UNCHANGED result
     \/ Return(r, "SERVICE_UNAVAILABLE") /\ UNCHANGED <<pool, tx>>
     \/ ~PoolOpen /\ Return(r, "INTERNAL_ERROR") /\ UNCHANGED <<pool, tx>>
  /\ Quietly

\* The statements of the service: they succeed, refuse the request or panic, or the
\* connection, the database or the context fails.
Callback(r) ==
  /\ At(r, "callback")
  /\ \/ Goto(r, "Commit") /\ UNCHANGED result
     \/ /\ Goto(r, "Rollback")
        /\ \E code \in {"REFUSED", "PANIC", "SERVICE_UNAVAILABLE"} :
             result' = [result EXCEPT ![r] = code]
  /\ Quietly /\ UNCHANGED <<pool, tx>>

\* Variant: fail looks at the deadline before it looks at the outcome.
DeadlineFirst == "SERVICE_UNAVAILABLE"

\* The code of a commit that failed without an answer of the database.
Unanswered == "WRITE_OUTCOME_UNKNOWN"

\* Commit is sent; with a context already cancelled the connection is closed instead.
Commit(r) ==
  /\ At(r, "Commit")
  /\ \/ /\ ~Cancelled(r)
        /\ Goto(r, "await")
        /\ tx' = [tx EXCEPT ![r] = "sent"]
        /\ UNCHANGED <<result, pool>>
     \/ /\ Cancelled(r)
        /\ Return(r, Unanswered)
        /\ tx' = [tx EXCEPT ![r] = "dropped"]
        /\ pool' = pool \ {r}
  /\ Quietly

\* The database commits or refuses, whether or not anyone still waits for it.
Settle(r) ==
  /\ tx[r] = "sent"
  /\ \E outcome \in {"applied", "dropped"} : tx' = [tx EXCEPT ![r] = outcome]
  /\ UNCHANGED <<process, waiting, handler, context, result, pool, answer>>

\* Its answer reaches the handler, or the wait for it ends without one.
Await(r) ==
  /\ At(r, "await")
  /\ \/ tx[r] = "applied" /\ Return(r, "OK")
     \/ tx[r] = "dropped" /\ Return(r, "CONFLICT")
     \/ Return(r, Unanswered)
  /\ pool' = pool \ {r}
  /\ Quietly /\ UNCHANGED tx

\* Variant: the rollback is not deferred, a panic passes it over.
NotAfterPanic(r) == IF result[r] = "PANIC" THEN pool ELSE pool \ {r}

Returned(r) == pool \ {r}

\* The deferred rollback ends within two seconds and returns the connection to the pool.
Rollback(r) ==
  /\ At(r, "Rollback")
  /\ Goto(r, "returned")
  /\ pool' = Returned(r)
  /\ tx' = [tx EXCEPT ![r] = "dropped"]
  /\ Quietly /\ UNCHANGED result

(***************************************************************************)
(* GET /ready: the flag, the database, the flag again.                     *)
(***************************************************************************)
Load(r) ==
  /\ At(r, "Load")
  /\ \/ stopping /\ Return(r, "SERVICE_UNAVAILABLE")
     \/ ~stopping /\ Goto(r, "Ready") /\ UNCHANGED result
  /\ Quietly /\ UNCHANGED <<pool, tx>>

Ready(r) ==
  /\ At(r, "Ready")
  /\ \/ Free /\ PoolOpen /\ ~Cancelled(r) /\ Goto(r, "Reload") /\ UNCHANGED result
     \/ Return(r, "SERVICE_UNAVAILABLE")
  /\ Quietly /\ UNCHANGED <<pool, tx>>

Reload(r) ==
  /\ At(r, "Reload")
  /\ Return(r, IF stopping THEN "SERVICE_UNAVAILABLE" ELSE "OK")
  /\ Quietly /\ UNCHANGED <<pool, tx>>

-----------------------------------------------------------------------------
(***************************************************************************)
(* http.TimeoutHandler and the connection.                                 *)
(***************************************************************************)
\* A connection accepted earlier may still bring a request, until it is closed.
Receive(r) ==
  /\ main \in {"serving", "draining", "failed"} /\ handler[r] = "none"
  /\ waiting' = waiting \cup {r}
  /\ Goto(r, IF r \in Probes THEN "Load" ELSE "Authenticate")
  /\ UNCHANGED <<process, context, result, pool, tx, answer>>

Leave(r, what) ==
  /\ waiting' = waiting \ {r}
  /\ answer' = [answer EXCEPT ![r] = what]
  /\ UNCHANGED <<process, handler, result, pool, tx>>

\* The handler is done: its buffer is sent; a panic goes on to recoverPanic.
Finish(r) ==
  /\ Alive /\ r \in waiting /\ handler[r] = "returned" /\ context[r] # "closed"
  /\ Leave(r, Answer("handler", IF result[r] = "PANIC" THEN "INTERNAL_ERROR" ELSE result[r]))
  /\ UNCHANGED context

\* Variant: only /health and /ready are wrapped.
OnlyProbes == Probes

\* The requests whose handler is wrapped by requestTimeout: all of them.
Bounded == Requests

\* Ten seconds have passed: the context of the request is cancelled.
DeadlineExpires(r) ==
  /\ Alive /\ r \in waiting \cap Bounded /\ ~Cancelled(r)
  /\ context' = [context EXCEPT ![r] = "deadline"]
  /\ UNCHANGED <<process, waiting, handler, result, pool, tx, answer>>

\* The client goes away: its context is cancelled too.
Disconnect(r) ==
  /\ Alive /\ r \in waiting /\ context[r] # "closed"
  /\ context' = [context EXCEPT ![r] = "closed"]
  /\ UNCHANGED <<process, waiting, handler, result, pool, tx, answer>>

\* The select sees the cancelled context, even when the handler is done as well.
TimeOut(r) ==
  /\ Alive /\ r \in waiting /\ Cancelled(r)
  /\ Leave(r, IF context[r] = "deadline" THEN Answer("deadline", "SERVICE_UNAVAILABLE") ELSE Nobody)
  /\ UNCHANGED context

-----------------------------------------------------------------------------
(***************************************************************************)
(* The process: serve, Shutdown, the deferred Close of the pool, exit.     *)
(***************************************************************************)
requests == <<waiting, handler, context, result, pool, tx, answer>>

Signal == Alive /\ ~signalled /\ signalled' = TRUE /\ UNCHANGED <<main, status, stopping, requests>>

\* go func() { <-ctx.Done(); readiness.Stop() }()
Stop ==
  /\ Alive /\ signalled /\ ~stopping
  /\ stopping' = TRUE
  /\ UNCHANGED <<main, status, signalled, requests>>

\* Shutdown closes the listener and waits for the active connections.
Shutdown ==
  /\ main = "serving" /\ signalled
  /\ main' = "draining"
  /\ UNCHANGED <<status, signalled, stopping, requests>>

Leaving(how, code) == main' = how /\ status' = code /\ UNCHANGED <<signalled, stopping>>

\* Variant: Close instead of Shutdown, nobody is waited for.
AtOnce == TRUE

Idle == waiting = {}

Drained == main = "draining" /\ Idle /\ Leaving("closing", "ok") /\ UNCHANGED requests

\* Twenty seconds have passed: srv.Close closes the connections left.
GraceExpires ==
  /\ main = "draining" /\ waiting # {}
  /\ Leaving("closing", "error")
  /\ context' = [r \in Requests |-> IF r \in waiting THEN "closed" ELSE context[r]]
  /\ UNCHANGED <<waiting, handler, result, pool, tx, answer>>

\* srv.Serve fails by itself: serve returns without Shutdown.
ServeFails == main = "serving" /\ Leaving("failed", "error") /\ UNCHANGED requests

\* Variant: the pool is not waited for.
NotWaited == TRUE

\* pool.Close returns once every connection is back.
AllReturned == pool = {}

\* Connections of the process are closed with it: the database rolls back.
Exit(code) ==
  /\ main' = "exited" /\ status' = code
  /\ pool' = {}
  /\ tx' = [r \in Requests |-> IF tx[r] = "open" THEN "dropped" ELSE tx[r]]
  /\ UNCHANGED <<signalled, stopping, waiting, handler, context, result, answer>>

Close == main \in {"closing", "failed"} /\ AllReturned /\ Exit(status)

Crash == Alive /\ Exit("killed")

-----------------------------------------------------------------------------
Handler(r) ==
  \/ Authenticate(r) \/ BeginTx(r) \/ Callback(r) \/ Commit(r) \/ Await(r) \/ Rollback(r)
  \/ Load(r) \/ Ready(r) \/ Reload(r)

Process == Stop \/ Shutdown \/ Drained \/ GraceExpires \/ Close

Next ==
  \/ \E r \in Requests :
       Receive(r) \/ Handler(r) \/ Settle(r) \/ Finish(r) \/ DeadlineExpires(r) \/ TimeOut(r)
         \/ Disconnect(r)
  \/ Process \/ Signal \/ ServeFails \/ Crash

Spec == Init /\ [][Next]_vars

(***************************************************************************)
(* Fairness: goroutines that can run do, timers fire.  The database owes   *)
(* nothing: a handler that waits for it ends when its context does, and    *)
(* the rollback has two seconds of its own.                                *)
(***************************************************************************)
FairSpec ==
  /\ Spec
  /\ \A r \in Requests :
       /\ WF_vars(DeadlineExpires(r)) /\ WF_vars(Finish(r)) /\ WF_vars(TimeOut(r))
       /\ WF_vars(Commit(r)) /\ WF_vars(Rollback(r)) /\ WF_vars(Load(r)) /\ WF_vars(Reload(r))
       /\ WF_vars(Cancelled(r) /\ Handler(r))
  /\ WF_vars(Process)

-----------------------------------------------------------------------------
\* What the handler says of a write is true: success means that it is committed, an
\* error that names no doubt means that it never will be (InTx, fail).
AnswersTellTheTruth ==
  \A r \in Writes :
    /\ answer[r].code = "OK" => tx[r] = "applied"
    /\ answer[r].by = "handler" /\ answer[r].code \notin {"OK", "WRITE_OUTCOME_UNKNOWN"} =>
         tx[r] \in {"none", "dropped"}

\* A shutdown that drained in time has answered every request it received, except to
\* clients that went away (serve).
DrainedMeansAnswered ==
  main = "exited" /\ status = "ok" =>
    \A r \in Requests : handler[r] # "none" /\ context[r] # "closed" => answer[r] # Nobody

\* The process does not leave by itself in the middle of a transaction, not even one
\* whose request was answered long ago (the deferred pool.Close).
LeavesNoTransaction ==
  [][main' = "exited" /\ status' # "killed" =>
       \A r \in Requests : handler[r] \notin {"callback", "Commit", "await", "Rollback"}]_vars

\* Every request is answered or dropped, whatever the database does.
RequestsEnd == \A r \in Requests : r \in waiting ~> (r \notin waiting \/ ~Alive)

\* After a signal the process exits, whatever the database and the clients do.
Terminates == signalled ~> ~Alive

-----------------------------------------------------------------------------
(***************************************************************************)
(* What the documentation says and the code does not do.                   *)
(***************************************************************************)

\* A client whose write may have been committed is told so: docs/database.md maps an
\* ambiguous commit to WRITE_OUTCOME_UNKNOWN.  requestTimeout answers on its own.
DoubtIsReported ==
  \A r \in Writes :
    answer[r].code = "SERVICE_UNAVAILABLE" => tx[r] \notin {"sent", "applied"}

\* Once Shutdown has begun no probe is told that the server is ready: docs/contracts.md
\* promises 503 when shutting down.  The flag is set by a goroutine of its own.
NotReadyWhileStopping ==
  [][\A r \in Probes : result'[r] = "OK" /\ result[r] # "OK" => main # "draining"]_vars
=============================================================================
