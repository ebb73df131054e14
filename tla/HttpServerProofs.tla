-------------------------- MODULE HttpServerProofs --------------------------
(***************************************************************************)
(* Theorems about HttpServer, for any requests and any size of the pool.   *)
(***************************************************************************)
EXTENDS HttpServer, TLAPS

InTransaction == {"callback", "Commit", "await", "Rollback"}
Before == {"none", "Authenticate", "BeginTx", "Load", "Ready", "Reload"}
Failures == {"REFUSED", "PANIC", "SERVICE_UNAVAILABLE"}
Codes == Failures \cup {"none", "OK", "CONFLICT", "INTERNAL_ERROR", "WRITE_OUTCOME_UNKNOWN"}

TypeOK ==
  /\ main \in {"serving", "draining", "closing", "failed", "exited"}
  /\ status \in {"running", "ok", "error", "killed"}
  /\ waiting \subseteq Requests /\ pool \subseteq Requests
  /\ handler \in [Requests -> Before \cup InTransaction \cup {"returned"}]
  /\ context \in [Requests -> {"live", "deadline", "closed"}]
  /\ result \in [Requests -> Codes]
  /\ tx \in [Requests -> {"none", "open", "sent", "applied", "dropped"}]
  /\ answer \in [Requests -> [by : {"nobody", "handler", "deadline"}, code : Codes]]

\* How far the handler of r is and what the database has of its transaction: what it
\* is about to answer is true.
Corresponds(r) ==
  /\ handler[r] \in Before => tx[r] = "none" /\ result[r] = "none"
  /\ handler[r] \in {"callback", "Commit", "Rollback"} =>
       tx[r] = "open" \/ (~Alive /\ tx[r] = "dropped")
  /\ handler[r] \in {"Load", "Ready", "Reload"} => r \in Probes
  /\ handler[r] = "await" => tx[r] \in {"sent", "applied", "dropped"}
  /\ handler[r] = "Rollback" => result[r] \in Failures
  /\ handler[r] = "returned" /\ r \in Writes =>
       /\ result[r] = "OK" => tx[r] = "applied"
       /\ result[r] \notin {"OK", Unanswered} => tx[r] \in {"none", "dropped"}

\* Who has been told what.
Told(r) ==
  /\ r \in waiting => handler[r] # "none" /\ answer[r] = Nobody
  /\ handler[r] = "none" => answer[r] = Nobody
  /\ answer[r].by = "handler" =>
       /\ handler[r] = "returned"
       /\ answer[r].code = IF result[r] = "PANIC" THEN "INTERNAL_ERROR" ELSE result[r]
  /\ answer[r].by = "nobody" => answer[r] = Nobody
  /\ answer[r].by = "deadline" => answer[r].code = "SERVICE_UNAVAILABLE"
  /\ handler[r] # "none" /\ r \notin waiting => context[r] = "closed" \/ answer[r] # Nobody

\* The pool knows of every transaction as long as the process lives.
PoolKnows == Alive => pool = {r \in Requests : handler[r] \in InTransaction}

\* How the process may leave.
Exits ==
  /\ status = "ok" => main \in {"closing", "exited"} /\ waiting = {}
  /\ status = "killed" => ~Alive
  /\ ~Alive /\ status # "killed" => \A r \in Requests : handler[r] \notin InTransaction

Inv ==
  /\ TypeOK
  /\ \A r \in Requests : Corresponds(r) /\ Told(r)
  /\ PoolKnows /\ Exits

-----------------------------------------------------------------------------
LEMMA InitInv == Init => Inv
<1> SUFFICES ASSUME Init PROVE Inv
  OBVIOUS
<1> USE DEF Init, Nobody, Before, InTransaction, Failures, Codes, Alive
<1>1. TypeOK
  BY DEF TypeOK
<1>2. \A r \in Requests : Corresponds(r) /\ Told(r)
  BY DEF Corresponds, Told
<1>3. PoolKnows /\ Exits
  BY DEF PoolKnows, Exits
<1> QED
  BY <1>1, <1>2, <1>3 DEF Inv

(***************************************************************************)
(* The handler of one request.                                             *)
(***************************************************************************)
\* A step of the handler of r that keeps what it has to about r keeps Inv.
LEMMA HandlerKeeps ==
  ASSUME Inv, TypeOK', NEW r \in Requests, Alive, handler[r] \notin {"none", "returned"}, Quietly,
         \A o \in Requests \ {r} :
           handler'[o] = handler[o] /\ result'[o] = result[o] /\ tx'[o] = tx[o],
         \A o \in Requests \ {r} : o \in pool' <=> o \in pool,
         handler'[r] # "none", handler[r] \in InTransaction \/ r \notin pool,
         r \in pool' <=> handler'[r] \in InTransaction,
         Corresponds(r)'
  PROVE  Inv'
<1> USE DEF Quietly, process, Alive
<1>1. \A o \in Requests : Corresponds(o)'
  BY DEF Inv, Corresponds
<1>2. \A o \in Requests : Told(o)'
  <2> TAKE o \in Requests
  <2>1. Told(o)
    BY DEF Inv
  <2>2. answer[r].by # "handler"
    BY DEF Inv, Told
  <2>3. CASE o = r
    BY <2>1, <2>2, <2>3 DEF Told
  <2>4. CASE o # r
    BY <2>1, <2>4 DEF Told
  <2> QED
    BY <2>3, <2>4
<1>3. PoolKnows'
  <2>1. pool' \subseteq Requests
    BY DEF TypeOK
  <2>2. pool = {o \in Requests : handler[o] \in InTransaction}
    BY DEF Inv, PoolKnows
  <2> QED
    BY <2>1, <2>2 DEF PoolKnows
<1>4. Exits'
  BY DEF Inv, Exits
<1> QED
  BY <1>1, <1>2, <1>3, <1>4 DEF Inv

LEMMA HandlerTypes ==
  ASSUME TypeOK, NEW r \in Requests, Handler(r)
  PROVE  TypeOK'
<1> USE DEF TypeOK, Quietly, process, Goto, Return, Codes, Failures, Before, InTransaction
<1>1. CASE Authenticate(r)
  BY <1>1 DEF Authenticate
<1>2. CASE BeginTx(r)
  BY <1>2 DEF BeginTx
<1>3. CASE Callback(r)
  BY <1>3 DEF Callback
<1>4. CASE Commit(r)
  BY <1>4 DEF Commit, Unanswered
<1>5. CASE Await(r)
  BY <1>5 DEF Await, Unanswered
<1>6. CASE Rollback(r)
  BY <1>6 DEF Rollback, Returned
<1>7. CASE Load(r)
  BY <1>7 DEF Load
<1>8. CASE Ready(r)
  BY <1>8 DEF Ready
<1>9. CASE Reload(r)
  BY <1>9 DEF Reload
<1> QED
  BY <1>1, <1>2, <1>3, <1>4, <1>5, <1>6, <1>7, <1>8, <1>9 DEF Handler

\* What a step of the handler of r leaves alone.
LEMMA HandlerFrame ==
  ASSUME TypeOK, NEW r \in Requests, Handler(r)
  PROVE  /\ Alive /\ handler[r] \notin {"none", "returned"} /\ Quietly
         /\ \A o \in Requests \ {r} :
              handler'[o] = handler[o] /\ result'[o] = result[o] /\ tx'[o] = tx[o]
         /\ \A o \in Requests \ {r} : o \in pool' <=> o \in pool
<1> USE DEF TypeOK, At, Goto, Return
<1>1. CASE Authenticate(r)
  BY <1>1 DEF Authenticate
<1>2. CASE BeginTx(r)
  BY <1>2 DEF BeginTx
<1>3. CASE Callback(r)
  BY <1>3 DEF Callback
<1>4. CASE Commit(r)
  BY <1>4 DEF Commit
<1>5. CASE Await(r)
  BY <1>5 DEF Await
<1>6. CASE Rollback(r)
  BY <1>6 DEF Rollback, Returned
<1>7. CASE Load(r)
  BY <1>7 DEF Load
<1>8. CASE Ready(r)
  BY <1>8 DEF Ready
<1>9. CASE Reload(r)
  BY <1>9 DEF Reload
<1> QED
  BY <1>1, <1>2, <1>3, <1>4, <1>5, <1>6, <1>7, <1>8, <1>9 DEF Handler

LEMMA HandlerInv ==
  ASSUME Inv, NEW r \in Requests, Handler(r)
  PROVE  Inv'
<1>1. TypeOK /\ TypeOK' /\ Corresponds(r)
  BY HandlerTypes DEF Inv
<1>2. /\ Alive /\ handler[r] \notin {"none", "returned"} /\ Quietly
      /\ \A o \in Requests \ {r} :
           handler'[o] = handler[o] /\ result'[o] = result[o] /\ tx'[o] = tx[o]
      /\ \A o \in Requests \ {r} : o \in pool' <=> o \in pool
  BY <1>1, HandlerFrame
<1>3. r \in pool <=> handler[r] \in InTransaction
  BY <1>2 DEF Inv, PoolKnows
<1>4. /\ handler'[r] # "none"
      /\ r \in pool' <=> handler'[r] \in InTransaction
      /\ Corresponds(r)'
  <2> USE <1>1, <1>2, <1>3 DEF TypeOK, At, Goto, Return, Corresponds, Before, InTransaction,
        Failures, Writes, Unanswered, Quietly, process, Alive
  <2>1. CASE Authenticate(r)
    BY <2>1 DEF Authenticate
  <2>2. CASE BeginTx(r)
    BY <2>2 DEF BeginTx
  <2>3. CASE Callback(r)
    BY <2>3 DEF Callback
  <2>4. CASE Commit(r)
    BY <2>4 DEF Commit
  <2>5. CASE Await(r)
    BY <2>5 DEF Await
  <2>6. CASE Rollback(r)
    BY <2>6 DEF Rollback, Returned
  <2>7. CASE Load(r)
    BY <2>7 DEF Load
  <2>8. CASE Ready(r)
    BY <2>8 DEF Ready
  <2>9. CASE Reload(r)
    BY <2>9 DEF Reload
  <2> QED
    BY <2>1, <2>2, <2>3, <2>4, <2>5, <2>6, <2>7, <2>8, <2>9 DEF Handler
<1> QED
  BY ONLY Inv, <1>1, <1>2, <1>3, <1>4, HandlerKeeps

-----------------------------------------------------------------------------
(***************************************************************************)
(* The database, the clients and the timers.                               *)
(***************************************************************************)
LEMMA SettleInv == ASSUME Inv, NEW r \in Requests, Settle(r) PROVE Inv'
<1> USE DEF Settle, process, Inv, TypeOK
<1>1. TypeOK'
  OBVIOUS
<1>2. \A o \in Requests : Corresponds(o)' /\ Told(o)'
  BY DEF Corresponds, Told, Before, Alive
<1>3. PoolKnows' /\ Exits'
  BY DEF PoolKnows, Exits, Alive
<1> QED
  BY <1>1, <1>2, <1>3

LEMMA ReceiveInv == ASSUME Inv, NEW r \in Requests, Receive(r) PROVE Inv'
<1> USE DEF Receive, process, Inv, TypeOK, Goto, Before, InTransaction
<1>1. TypeOK'
  OBVIOUS
<1>2. \A o \in Requests : Corresponds(o)' /\ Told(o)'
  BY DEF Corresponds, Told, Alive, Writes
<1>3. PoolKnows' /\ Exits'
  BY DEF PoolKnows, Exits, Alive
<1> QED
  BY <1>1, <1>2, <1>3

LEMMA FinishInv == ASSUME Inv, NEW r \in Requests, Finish(r) PROVE Inv'
<1> USE DEF Finish, Leave, Answer, process, Inv
<1>1. TypeOK'
  BY DEF TypeOK, Codes, Failures
<1>2. \A o \in Requests : Corresponds(o)' /\ Told(o)'
  BY DEF Corresponds, Told, Alive, Nobody, TypeOK
<1>3. PoolKnows' /\ Exits'
  BY DEF PoolKnows, Exits, Alive
<1> QED
  BY <1>1, <1>2, <1>3

LEMMA DeadlineInv == ASSUME Inv, NEW r \in Requests, DeadlineExpires(r) PROVE Inv'
<1> USE DEF DeadlineExpires, process, Inv, Cancelled
<1>1. TypeOK'
  BY DEF TypeOK
<1>2. \A o \in Requests : Corresponds(o)' /\ Told(o)'
  BY DEF Corresponds, Told, Alive, TypeOK
<1>3. PoolKnows' /\ Exits'
  BY DEF PoolKnows, Exits, Alive
<1> QED
  BY <1>1, <1>2, <1>3

LEMMA DisconnectInv == ASSUME Inv, NEW r \in Requests, Disconnect(r) PROVE Inv'
<1> USE DEF Disconnect, process, Inv
<1>1. TypeOK'
  BY DEF TypeOK
<1>2. \A o \in Requests : Corresponds(o)' /\ Told(o)'
  BY DEF Corresponds, Told, Alive, TypeOK
<1>3. PoolKnows' /\ Exits'
  BY DEF PoolKnows, Exits, Alive
<1> QED
  BY <1>1, <1>2, <1>3

LEMMA TimeOutInv == ASSUME Inv, NEW r \in Requests, TimeOut(r) PROVE Inv'
<1> USE DEF TimeOut, Leave, Answer, process, Inv, Cancelled
<1>1. TypeOK'
  BY DEF TypeOK, Codes, Failures, Nobody
<1>2. \A o \in Requests : Corresponds(o)' /\ Told(o)'
  BY DEF Corresponds, Told, Alive, Nobody, TypeOK
<1>3. PoolKnows' /\ Exits'
  BY DEF PoolKnows, Exits, Alive
<1> QED
  BY <1>1, <1>2, <1>3

(***************************************************************************)
(* The process.                                                            *)
(***************************************************************************)
\* A step of the process alone, that does not end it.
LEMMA ProcessKeeps ==
  ASSUME Inv, UNCHANGED <<waiting, handler, result, pool, tx, answer>>, TypeOK', Alive, Alive',
         \A r \in Requests : context'[r] = context[r] \/ context'[r] = "closed",
         Exits'
  PROVE  Inv'
<1>1. \A o \in Requests : Corresponds(o)' /\ Told(o)'
  BY DEF Inv, Corresponds, Told, TypeOK
<1>2. PoolKnows'
  BY DEF Inv, PoolKnows
<1> QED
  BY <1>1, <1>2 DEF Inv

LEMMA ExitInv ==
  ASSUME Inv, Alive, NEW code \in {"running", "ok", "error", "killed"}, Exit(code),
         code = "ok" => waiting = {},
         code # "killed" => pool = {}
  PROVE  Inv'
<1> USE DEF Exit, Inv, Alive
<1>1. TypeOK'
  BY DEF TypeOK
<1>2. \A o \in Requests : Corresponds(o)' /\ Told(o)'
  BY DEF Corresponds, Told, TypeOK, Before
<1>3. PoolKnows' /\ Exits'
  BY DEF PoolKnows, Exits, TypeOK
<1> QED
  BY <1>1, <1>2, <1>3

LEMMA ProcessInv ==
  ASSUME Inv, Process \/ Signal \/ ServeFails \/ Crash
  PROVE  Inv'
<1> USE DEF requests, Leaving
<1>1. CASE Signal
  BY <1>1, ProcessKeeps DEF Signal, Inv, TypeOK, Exits, Alive
<1>2. CASE Stop
  BY <1>2, ProcessKeeps DEF Stop, Inv, TypeOK, Exits, Alive
<1>3. CASE Shutdown
  BY <1>3, ProcessKeeps DEF Shutdown, Inv, TypeOK, Exits, Alive
<1>4. CASE Drained
  BY <1>4, ProcessKeeps DEF Drained, Inv, TypeOK, Exits, Alive, Idle
<1>5. CASE GraceExpires
  BY <1>5, ProcessKeeps DEF GraceExpires, Inv, TypeOK, Exits, Alive
<1>6. CASE ServeFails
  BY <1>6, ProcessKeeps DEF ServeFails, Inv, TypeOK, Exits, Alive
<1>7. CASE Close
  <2>1. Alive /\ Exit(status) /\ pool = {}
    BY <1>7 DEF Close, AllReturned, Alive
  <2>2. status \in {"running", "ok", "error", "killed"} /\ (status = "ok" => waiting = {})
    BY DEF Inv, TypeOK, Exits
  <2> QED
    BY <2>1, <2>2, ExitInv
<1>8. CASE Crash
  BY <1>8, ExitInv DEF Crash
<1> QED
  BY <1>1, <1>2, <1>3, <1>4, <1>5, <1>6, <1>7, <1>8 DEF Process

LEMMA StepInv == ASSUME Inv, [Next]_vars PROVE Inv'
<1>1. ASSUME NEW r \in Requests,
             Receive(r) \/ Handler(r) \/ Settle(r) \/ Finish(r) \/ DeadlineExpires(r)
               \/ TimeOut(r) \/ Disconnect(r)
      PROVE  Inv'
  BY <1>1, ReceiveInv, HandlerInv, SettleInv, FinishInv, DeadlineInv, TimeOutInv, DisconnectInv
<1>2. CASE UNCHANGED vars
  BY <1>2 DEF vars, Inv, TypeOK, Corresponds, Told, PoolKnows, Exits, Alive
<1> QED
  BY <1>1, <1>2, ProcessInv DEF Next

LEMMA Always == Spec => []Inv
<1> QED
  BY InitInv, StepInv, PTL DEF Spec

-----------------------------------------------------------------------------
\* What the process says of a write is true, whoever says it: a success is a committed
\* transaction, and an error of the handler that names no doubt is one that never will
\* be, also after the request ended or the process crashed (InTx, fail).
THEOREM AnswersAreTrue == Spec => []AnswersTellTheTruth
<1>1. ASSUME Inv PROVE AnswersTellTheTruth
  <2> SUFFICES ASSUME NEW r \in Writes
               PROVE  /\ answer[r].code = "OK" => tx[r] = "applied"
                      /\ answer[r].by = "handler"
                           /\ answer[r].code \notin {"OK", "WRITE_OUTCOME_UNKNOWN"} =>
                         tx[r] \in {"none", "dropped"}
    BY DEF AnswersTellTheTruth
  <2>1. r \in Requests /\ Corresponds(r) /\ Told(r)
    BY <1>1 DEF Writes, Inv
  <2>2. answer[r] \in [by : {"nobody", "handler", "deadline"}, code : Codes]
    BY <1>1, <2>1 DEF Inv, TypeOK
  <2> QED
    BY <2>1, <2>2 DEF Corresponds, Told, Nobody, Unanswered, Failures
<1> QED
  BY Always, <1>1, PTL

\* A shutdown within its twenty seconds has answered every request whose client waited
\* for an answer (serve, Server.Shutdown).
THEOREM ShutdownAnswers == Spec => []DrainedMeansAnswered
<1>1. ASSUME Inv PROVE DrainedMeansAnswered
  BY <1>1 DEF Inv, DrainedMeansAnswered, Exits, Told
<1> QED
  BY Always, <1>1, PTL

\* Whatever ended the serving, the process waits for every transaction it has begun
\* before it exits; only a crash interrupts one (the deferred Pool.Close).
THEOREM TransactionsEndFirst == Spec => LeavesNoTransaction
<1>1. ASSUME Inv, [Next]_vars, main' = "exited", status' # "killed", NEW r \in Requests
      PROVE  handler[r] \notin {"callback", "Commit", "await", "Rollback"}
  <2>1. CASE ~Alive
    <3>1. UNCHANGED status
      BY <1>1, <2>1 DEF Next, vars, Process, Receive, Settle, Finish, DeadlineExpires, TimeOut,
           Disconnect, Leave, process, Signal, Stop, Shutdown, Drained, GraceExpires, ServeFails,
           Close, Crash, Alive, Handler, Authenticate, BeginTx, Callback, Commit, Await, Rollback,
           Load, Ready, Reload, At
    <3> QED
      BY <3>1, <1>1, <2>1 DEF Inv, Exits, InTransaction
  <2>2. CASE Alive
    <3>1. Close
      BY <1>1, <2>2 DEF Next, vars, Process, Receive, Settle, Finish, DeadlineExpires, TimeOut,
           Disconnect, Leave, Leaving, process, Signal, Stop, Shutdown, Drained, GraceExpires,
           ServeFails, Crash, Exit, Alive, Handler, Authenticate, BeginTx, Callback, Commit,
           Await, Rollback, Load, Ready, Reload, Quietly
    <3> QED
      BY <3>1, <2>2, <1>1 DEF Inv, PoolKnows, Close, AllReturned, InTransaction
  <2> QED
    BY <2>1, <2>2
<1>2. Inv /\ [Next]_vars =>
        [main' = "exited" /\ status' # "killed" =>
           \A r \in Requests : handler[r] \notin {"callback", "Commit", "await", "Rollback"}]_vars
  BY <1>1
<1> QED
  BY Always, <1>2, PTL DEF Spec, LeavesNoTransaction
=============================================================================
