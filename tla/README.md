# GoWork in TLA+

GoWork is a maintenance work-order API in Go over PostgreSQL: accounts with roles, assets,
work orders with a lifecycle, and an audit log of every accepted write. This directory holds
TLA+ models of it, TLC configurations that check them on small instances, and proofs that
TLAPS checks for every instance. `PROJECT.json` maps every definition to the lines of `src/`
it stands for, lists the runs, one mutant of the code per property, the hazards and the
theorems.

    tlc -workers 2 -config Assignment.cfg MCGoWork.tla
    tlapm GoWorkProofs.tla

## The system

| Part | State it keeps | Operations | Met by |
|---|---|---|---|
| Users (`internal/users`) | accounts: role, active, address, name, password | Create, Patch, Get, List | assignments read and share-lock accounts; every request reads its actor |
| First administrator (`internal/auth/bootstrap.go`) | the same table | Bootstrap (a command) | the administration lock |
| Assets (`internal/assets`) | code, status, description | Create, Patch, Delete, Get, List | order creation share-locks the asset |
| Work orders (`internal/workorders`) | asset, status, assignee, creator, description | Create, Patch, Assign, Status, Get, List | accounts and assets, see above |
| Access (`internal/rbac`, the handlers' `require`) | the seeded catalog of permissions, which never changes | Check on the pool, Check again in the transaction | every request |
| Transactions (`internal/platform/database/transaction.go`) | sessions, row locks, the advisory lock, uncommitted writes | begin, rollback, commit, unknown outcome | every mutation |
| Audit writer (`internal/audit`, the services) | audit rows | one row per action, in the transaction of the write | every mutation |
| Authentication (`internal/auth`) | the signing secret; tokens live with the clients | Login, Authenticate | accounts, clocks of the replicas |
| HTTP process (`cmd/api`, `internal/platform/httpx`, the pool) | goroutines, contexts, buffered answers, connections, readiness | deadline, panic recovery, readiness, signal, drain, exit | every request |
| Times of a row (defaults and UPDATE statements) | created_at, updated_at, completed_at | insert, update | transactions that wait for a row lock |
| Audit reader (`internal/auditlog`) | none; the rows are the writers' | List, Sanitize | the transactions of the writers, whose start orders the rows |
| Demo seed (`internal/auth/seed.go`, `cmd/seed`) | the accounts and their audit rows | SeedDemo (a command) | the administration lock, bootstraps, changes of accounts |
| Handlers (`*/handler.go`) and bodies (`platform/httpx/decode.go`) | one request: its place on its path, the members read so far | decode, filter, validate, answer, fail | every request; the account may be disabled meanwhile |
| Configuration, migrations, docs pages, query glue | none | pure checks, constant answers | see Not modelled |

Requests run concurrently and meet only in the database; there is no cache and no shared
memory between them but the connection pool and the readiness flag. What is hard:

- rules that span tables and that no constraint states: an order at work has an active
  technician, an unfinished order has an asset in service, an administrator always remains;
- the permission of a caller that is revoked between the check and the write;
- rows read before a lock and written after it;
- commits that fail, and commits whose outcome nobody knows;
- deadlines that answer for a handler that is still at work;
- locks taken by many requests in many orders;
- answers assembled from several statements, and lists read page by page while rows are added;
- rows ordered by the start of a transaction that ends in another order;
- requests with several faults, whose first one decides what a client learns;
- clocks that disagree, claims in whole seconds, comparisons that take a while.

What makes each part correct: for the services, that concurrent transactions amount to
the atomic rules of `docs/contracts.md`, one after the other, and that the audit trail tells
what the tables show; for the reads, that an answer is right for one state of the tables; for
authentication, that an answer is right for the account at one moment and that a token lives
as long as promised; for the audit log, that pages miss nothing and that what is written can be
shown and nothing else is; for the seed, that it is all or nothing and makes no second root; for
the handlers, that only right requests are served, that a refusal names a real fault, and that
whoever may not act learns nothing; for the process, that an answer is true, that everybody is answered, and
that the process exits.

## Modules

| Module | What it is |
|---|---|
| `Rbac`, `Lifecycle` | the pure rules: catalog, scope, status transitions, guards, audit actions |
| `Store` | PostgreSQL as `InTx` uses it: committed rows, buffered writes, locks, commit and its failures, `InsertAudit` |
| `Access` | the requests, authentication and authorization before and inside the transaction, `ShareUser` |
| `UserService`, `AssetService`, `WorkOrderService` | the transactions of the services, one action per SQL statement or decision |
| `GoWork` | the three services over one database; all their properties |
| `GoWorkAtomic` | the abstract specification: every accepted write is one step. `GoWork` is shown to implement it |
| `Reads` | Get and List as REPEATABLE READ transactions while the writes of `GoWorkAtomic` commit |
| `HttpServer` | one life of the API process around the pool and `InTx` |
| `Tokens` | Login and bearer tokens on replicas whose clocks differ |
| `Timestamps` | now() and clock_timestamp() around a lock wait |
| `AuditLog` | extends `Timestamps`: its transactions insert audit rows, a client lists them page by page through `Sanitize` |
| `DemoSeed` | extends `GoWork`: a session may also run the demo seed |
| `DemoSeedAtomic` | extends `GoWorkAtomic`: the seed as one step. `DemoSeed` is shown to implement it |
| `Decoding` | DecodeObject, one member at a time, and what a whole body means |
| `Endpoints` | extends `Decoding`, `Rbac` and `Lifecycle`: the path of a request through its handler, and the answers |
| `MCGoWork`, `MCReads`, `MCAuditLog`, `MCDemoSeed`, `MCEndpoints` | the small instances |
| `GoWorkProofs` | theorems: types, locks, lost updates, the trail, authorization, the order of the locks |
| `SerializableProofs` | extends it: the refinement of `GoWorkAtomic`, what follows from it, and what the transactions record and answer |
| `DemoSeedProofs` | the theorems about `DemoSeed`, to which it applies the results about `GoWork` |
| `ReadsProofs`, `HttpServerProofs`, `TokensProofs`, `HistoryProofs`, `EndpointsProofs` | the theorems about `Reads`, `HttpServer`, `Tokens`, `AuditLog` with `Timestamps`, `Endpoints` with `Decoding` |

`Store` keeps one record of every request in service ("session"). `pc[s]` is the name of its
next statement, which is the name of the query in `internal/platform/database/sqlc` or of the
Go function (`Check`, `Change`). `row[s]` is what the locking SELECT returned (the code's
`old`), `next[s]` what the UPDATE or INSERT wrote, `acts[s]` the audit actions chosen,
`logged[s]` how many are inserted. Nothing of a session shows in the tables before its commit.
A locking statement is enabled when PostgreSQL would grant the lock, and then reads the
committed row, as READ COMMITTED does after a wait. `FOR UPDATE` excludes all, `FOR SHARE` and
the key-share lock of a foreign-key check only `FOR UPDATE`. The advisory lock of user
administration, the claimed entry of the unique index on asset codes, and the key-share lock an
audit row takes on its actor are locks like the others. Any statement may fail (`Abort`), a
commit may be lost (`CommitLost`), in which case the backend applies or drops it later
(`Resolve`), keeping its locks.

`AuditLog` turns the reader round: one row, its writers and the instants are `Timestamps`, and
`log` is the table of audit rows, each stamped with `begun[s]`. `walk` is the client: the next page
it asks for and the entries it is owed. A snapshot is a record from its fields to the kind of each
value, which is all that Sanitize looks at.

`DemoSeed` adds to a session the account its seed is at (`turn`), the accounts and audit rows it
has inserted (`made`, `audited`) and the administrator it found or made (`admin`); `origin` records
who created each account, as the actor of its audit row does.

`Endpoints` keeps the request in service (`call`), how many steps of `Path(route)` it has passed
(`stage`), and the decoder's variables. `Path` is the order of the checks in the handler, from the
authentication to the call of the service. `past` remembers whether the account was active while
the request was in service; it serves the properties only. A service is one step that succeeds or
returns one of its errors: what it does is the business of the other modules. `Scoped` are the calls
of a technician that a service may forbid although the account is active and has the permission: an
asset none of his orders is about, an order of another, a list filtered by an assignee. Whether
this very row is his is decided in `Reads` and `GoWork`.

`Variant` operators next to a definition are the plausible mistakes that the mutants put in
its place; no specification uses them.

## Runs

Every property of a passing run has a mutant of the modelled code that TLC finds to break it.

| Run | Instance | What it shows |
|---|---|---|
| `assignment` | 3 accounts, 1 order, 2 requests at a time | An assignment and a deactivation never both succeed (`ActiveAssignee`); the lifecycle only moves forward; audit actions name the change and are all there; ownership is decided before the lifecycle |
| `retirement` | 2 accounts, 2 asset ids, 2 orders | Retirement or deletion and creation of orders never both succeed (`AssetInService`); the service's check is as strong as the foreign key; the caller stays authorized |
| `administration` | 4 accounts | An administrator remains whoever deactivates whom; the LAST_ADMIN answer is unreachable, as milestone 4 says; waits for locks never form a cycle (`NoWaitCycle`) and somebody can always go on (`NoDeadlock`); once requests stop arriving, those in service end (`Drains`, under fairness) |
| `composition` | all kinds of requests, from racing bootstraps on | Types, phases, an audit trail equal to the tables after lost commits too, no lost update; `Serializable` |
| `reads` | 2 accounts, 2 assets, 3 orders, 1 read | Every answer (rows, total, pages, 403, 404) is right for one state of the tables the read lived through |
| `process` | 1 write, 1 probe, 1 connection | Answers are true; a drain answers everyone; the process leaves no transaction; requests end; it exits after a signal |
| `login` | 1 account, 2 passwords, 1 token, 1 rotation of the secret | Answers fit one moment; a token lives no longer than lifetime, tolerance and clock difference, and no shorter than its lifetime |
| `admission` | every route, 900 calls | A body is judged as a whole wherever its faults are (`DecodingExact`); what reaches a service is right in every part (`ServedCallsAreGood`); a refusal names a fault the call or its account really had, under the status of the contract, and an active account with the permission is forbidden only, as a technician, an asset, an order or a list that may be another's (`RefusalsAreTrue`); whoever may not act learns nothing, and from the status endpoint only whether the body is an object (`StrangersLearnNothing`) |
| `history` | 2 writers of one row, 1 walking client, a log with rows of every kind | A list is right for one state it lived through (`ListAnswersOneState`); a client that pages to the end has seen all that was there when it began (`WalksMissNothing`); what services write is shown whole, and nothing but public fields is (`WritersAreShown`, `OnlyPublicFields`); updated_at follows the order of the changes (`UpdatedAtGrows`) and a later change is listed above one already answered (`ListedInRealTime`) |
| `seed` | 4 accounts, 2 sessions, an empty system | A seed is one step of `DemoSeedAtomic` (`SeededWhole`); success means three usable accounts; one account at most has no creator (`OneRoot`); the unique address never refuses what the seed looked up; the trail equals the tables |
| `doubt` (violation) | 1 write | see Findings |
| `probe` (violation) | 1 probe | see Findings |

### Bounds

Two sessions are enough for a race between two transactions, and every property of the
services is about pairs of them: a check and the write that invalidates it. Where more matters
the theorems hold for any number: of the invariants and action properties of `GoWork`, `Reads`,
`HttpServer`, `Tokens`, `AuditLog`, `DemoSeed` and `Endpoints`, all but `NoDeadlock` are proved, for any number of
sessions, rows and requests. Ids are few: `Room`
bounds insertions by the ids left, `Gone` marks a deleted asset so that its id never comes
back, as UUIDs do not. The fields of a row that no rule reads (name, location, title, ...) are
functions into a set of one or two `Values`, which is what telling a change from none needs.
Accounts are integers because their order, the order of UUIDs, is the order they are locked in.
`InitUsers`, `InitAssets` and `InitOrders` start a run in a state earlier requests lead to.

`Reads`: `Overlap = 3` bounds how many states of the tables one read may live through: the
first, and a change before and after each of the two statements that look at data. One session
is enough because reads do not write. Pages 0 and 100001 are the first refused ones, 100 the
highest limit.

`HttpServer`: each request is received at most once, so an instance is one life of the
process; `MaxConns = 1` makes a write and a probe fight for the pool. Time is not counted: a
deadline, the rollback's two seconds and the grace period may fire whenever they are armed.

`Tokens`: `Horizon` ends time, `MaxTokens` and `MaxSecrets` bound logins and rotations. A
lifetime of 4 ticks, a tolerance of 3, clocks 2 apart and seconds of 2 ticks keep the proportions in which
rounding, tolerance and skew can each decide. `docs/execution.md` runs replicas.

`AuditLog`: `Horizon` 1, two instants, which is what telling before from after needs: a
transaction that begins at 0 and writes at 1, one that begins at 1 and commits first. The two
writers are interchangeable. `Ids` gives the rows of each action the ids they may get, below and
above those that are there, because ids break the ties of the order and are random in the code.
`InitLog` has rows of all three kinds with fields of older versions and one that Sanitize refuses.
`Overlap` bounds the states one list lives through, as in `Reads`; `Leavers` are the readers whose
accounts are disabled at times; `Queries` has the filters one by one and together, and limits and
pages at their bounds.

`DemoSeed`: four accounts are the three of the seed and one that a bootstrap or an administrator
made; four addresses are the three of the seed and another. Two sessions race a seed with a
seed, a bootstrap or a change; three were explored while the model was written and showed nothing
more.

`Endpoints`: one request at a time, because requests share nothing but the account, which
`SetActive` changes at any moment. Each route gets a right call and calls wrong in one part, from
an administrator and a technician; PATCH of a user gets every object of up to two members of eleven
kinds, closed, open or followed by text, and objects of three.

`CHECK_DEADLOCK FALSE` stands only in the `HttpServer` configurations, where the process exits.
In the others a session that can go nowhere would be reported.

### Fairness

`GoWork!FairSpec` is weak fairness of each session's statements: a statement that can run
eventually runs. Nothing is assumed of arrivals, failures or lost commits (a lost commit is
resolved because the backend notices). Lock waits get no strong fairness, since PostgreSQL lets
new share locks pass a waiting FOR UPDATE; this is why `Drains` is about requests that stop
arriving and is not a promise that every request ends under load. `HttpServer!FairSpec` is weak
fairness of goroutines that can run and of timers. The database owes nothing: a handler that
waits for it goes on only because its context is cancelled, and the rollback ends because it
has a context of its own. The safety properties use specifications without fairness.

## Findings

- `doubt`: `http.TimeoutHandler` answers 503 SERVICE_UNAVAILABLE at the deadline while COMMIT
  is in flight or done; `docs/database.md` says that an ambiguous commit answers
  WRITE_OUTCOME_UNKNOWN. What the handler itself says is always true (`AnswersTellTheTruth`).
- `probe`: the goroutine that stops readiness is not waited for, so a probe may be told 200
  while the server drains; `docs/contracts.md` says 503 when shutting down.
- `docs/database.md` gives now() for updated_at where the statements have
  clock_timestamp(). The code is the better of the two: with now(), a transaction that began
  early and got the lock late would set updated_at back (the mutant of `history`).

## Proofs

TLAPS checks the theorems for all values of the constants that satisfy the named assumptions.
TLC evaluates the assumptions on every run. None of them is about behaviour:

- `Store!IdsAssumption`, `RowsAssumption`, `Access!RequestsAssumption`, `GoWork!AnswersAssumption`,
  and `IdsAssumption`, `ReadsAssumption` of `Reads`: ids of different kinds differ, accounts are
  finitely many and ordered, the initial tables and the requests are well formed.
- `AuditLog!LogAssumption`: the rows that are there at the beginning have distinct ids, carry the
  types and snapshots that the CHECK constraints and the primary key of migration 000007 admit,
  and are not younger than the clock, which starts at 0.
- `DemoSeed!DemoAssumption`: the three demo addresses, literals in the code, are different and are
  addresses.
- `Endpoints!CallsAssumption`: calls and bodies are well formed. `Timestamps!TimeAssumption`,
  `HttpServer!PoolAssumption`, `Tokens!DurationAssumption` and `NullAssumption`: numbers are numbers
  and the pool has a connection. `Tokens!SkewAssumption`, used for `Lifetime` alone: the clocks of
  the replicas agree within the tolerance less the second that the claims lose.

The proofs about a module follow one pattern: an inductive invariant, a lemma per action (or per kind
of action) that it is kept, and theorems that need nothing but the invariant and one step.

### The services (`GoWorkProofs`, `SerializableProofs`)

`GoWorkProofs`:

- `TypesAlways`. `TypeOK` is not inductive alone: a statement reads `req[s].target` or
  writes `PatchedUser(row[s], ...)`, and what those are depends on the phase (`PhaseOK`), which is a
  fact about typed values. Together they are, one lemma per statement.
- `UpdatesKept`, `TrailKept`: no lost update, and the trail equals the tables. `Inv` adds to the
  types that conflicting locks are never held together (`Exclusive`), that the row a mutation read is
  locked FOR UPDATE (`RowsLocked`), that an id being inserted belongs to no other session and no row
  (`InsertsApart`), and that a write does not leave `InsertAudit` without an audit row
  (`Audited`). Without any of these a commit of another session could change the row under its
  reader, or apply a write without its audit. The statements are first classified into six kinds by
  what they do to locks, rows and tables (`StepKind`).
- `WriterAuthorized`: the permission checked in a transaction still holds when its write is
  there. `Guarded`: a mutation of assets or orders holds a share lock on its actor or has still to take
  it; a mutation of accounts holds the administration lock from its first statement on; only such a
  mutation writes accounts; after the check the actor is active and permitted. A commit that changed
  an actor past its check would need a lock that conflicts with one the actor's transaction holds.
- `WaitsNeverCycle`: the deadlock argument, for any number of transactions. A step in a transaction
  follows the order of the code (`Following`, `StepFollows`) and adds to its locks what its statement
  wants; hence `InOrder`, which tells from a lock where its holder may be. Who waits waits for somebody
  at a statement of greater `Depth`, or for somebody who waits for nobody (`WaitsDeeper`); depths are
  bounded. Two facts are less obvious: an audit row never waits for the key lock of its actor
  (`AuditNeverWaits`), because the actor is share-locked already, or the administration lock is held;
  and two patches of accounts never wait for each other's rows (`OneAdministrates`).

`SerializableProofs`:

- `TransactionsAtomic`: `GoWork` implements `GoWorkAtomic`. Every statement but an applied commit
  is a stutter, and an applied commit is one accepted request on the tables of that moment. That
  needs `Sound`: on top of the invariants above, whatever a transaction has checked before it wrote
  (an address free, no administrator yet, no active orders of an account, an asset in service or
  unreferenced, an order the caller may change, an assignee who is active) is so on the tables as they
  are now (`Decided`). Each part is kept by others' commits for a reason of its own, a row
  lock, the claimed code or the administration lock, and each fails without it. One lemma per
  operation then shows that `Sound` at the commit is the guard of the atomic rule.
- `AssigneesStayActive`, `AssetsStayInService`, `AdministratorStays`, `OrdersMove` follow from the
  refinement: they are proved about the atomic rules, where they concern two rows and one step. The
  first two suppose that they hold of the initial tables, which no constraint of the database says.

`SerializableProofs`, second half: `Careful` adds what the audit actions of a write are and how many are inserted
(`Recorded`), and what a deactivation counted before its guard (`Counted`). From it:

- `AuditsComplete` and `AuditsName`: at a commit every action has its row, and the actions tell
  what changed.
- `LastAdminRests`: GuardDeactivation never gets to LAST_ADMIN, since the caller itself is an active
  administrator and is refused before. `ForeignKeyRests`: the check of references before a deletion
  is as strong as the foreign key.
- `OwnershipDecides`: a technician who does not own an order learns nothing of its lifecycle.

### The demo seed (`DemoSeedProofs`)

A session of `DemoSeed` serves requests or runs a seed. The proofs about the services are not repeated:
`Services` is the instance of `SerializableProofs` in which a session that seeds is shown as idle,
with no request, key or lock (`ServedPc`, `ServedReq`, `ServedKey`, `ServedHeld`). Seen that way

- every step of a request in `DemoSeed` is a step of `GoWork` (`ServeIsNext`, a lemma per
  statement): hiding the locks of seeds can only make more locks grantable;
- every step of a seed comes from outside (`Outside` in `SerializableProofs`): an idle session answers,
  or adds accounts and their audit rows, and then no request is past the administration
  lock. `OutsideSound` shows that such steps keep `Sound`.

The invariant is `SeedSound`: the services are `Sound`, one transaction at most holds the administration
lock (`AdministrationOnce`), and every seed has its `Story`: where it is (`Place`), that its
uncommitted accounts are demo accounts of different ids which no row has (`MadeRows`), that
each account it is done with was inserted by it or is in the tables as the code asks, and what it
saw missing is missing still (`Lookups`), who creates the others and what the audit rows say
(`Actors`). Others keep it because a commit that changes an account holds the administration lock
(`ServedAccounts`), which a seed holds until it ends; without the lock `Lookups` fails first.

- `SeedsAtomic`: `DemoSeed` implements `DemoSeedAtomic`. At the commit the inserted accounts are exactly
  the missing ones (`SeedMissing`). It supposes that addresses differ in the initial tables, which the
  unique index of migration 000004 says, and shows that they always do (`EmailsDiffer`).
- `SeedLookups`: the looked-up stays true. It needs nothing but `SeedSound`.
- `SeedOneRoot`: adds to the invariant that the account nobody created is an administrator, so that
  "no administrator" under the lock means "no root" (`OneOrigin`). It supposes that of the initial tables.
  The account that nobody created comes from a bootstrap or a seed, which make administrators only.
- `SeedTrail`, `SeedWriterAuthorized`, `SeedAssigneesStayActive`, `SeedAssetsStayInService`,
  `SeedAdministratorStays`: what is proved of the services alone holds beside seeds.

### The other components

- `ReadsProofs!AnswersOfOneState`: whatever commits around a read, its answer is right for one of
  the states it lived through. The invariant (`ReadOK`) says that the snapshot of a read that
  has begun is one of those and that its permission held in one where it was checked. The rest is about pages: the
  listing is a bijection from ranks to rows, and a page is the interval of ranks that OFFSET and LIMIT
  cut out, so that rows, total and number of pages are those of the set of rows.
- `HttpServerProofs`: `AnswersAreTrue`, `ShutdownAnswers`, `TransactionsEndFirst`. The invariant ties
  the place of a handler to its context, its connection and its transaction (`Corresponds`), says what
  a client may have been told at each place (`Told`), that the pool knows exactly the
  transactions (`PoolKnows`), and what the process has waited for when it exits (`Exits`).
- `TokensProofs`: `OneMoment`, `Expiry`, `Lifetime`. Tokens in circulation are genuine, and a session
  remembers only rows that its account really had.
- `HistoryProofs`: `Growing`, updated_at never goes back, since the clock is read under the row lock.
  `AuditKeepsTime`: the log with its readers is the model of times underneath, so `Growing` holds
  of it. `AuditInv`: rows of the log are well formed and have their own ids, a transaction has the row
  it locked, a list has checked and counted in states it lived through, and what a walk is still owed
  lies beyond the pages it has had, by rank. From it `ListsAreAtomic`, `WalksAreComplete` (rows
  may be added before the walk's page at any time, and only push what is owed further down),
  `WrittenIsListed`, `ListsArePublic`, and `RealTimeOrder`, which compares the starts of two transactions
  of which one was answered before the other began.
- `EndpointsProofs`: `DecodingIsExact`, for bodies of any length and any set of fields: the
  invariant is about the members read so far, their keys distinct and remembered, none bad, the flag
  right. `ServedCallsGood`, `RefusalsTrue` and `StrangersDoNotLearn`: `HandlingInv` says what a call has
  shown by being where it is on its path (`Shown`), that what `past` holds of the account is so, and
  which answers are true (`Truthful`) and silent (`Discreet`). `Ordered` is the fact about each route's path
  that all three rest on: the permission comes before the parts it protects.

### Only model-checked

- Liveness (`Drains`, `RequestsEnd`, `Terminates`): the proof system does not reach it under fairness.
- `NoDeadlock`: it says ENABLED. `WaitsNeverCycle` proves its core, that locks are never the reason.

## What the models leave out

Which values a field takes (lengths, patterns, UUIDs: `Endpoints` knows only good and bad ones),
normalization of addresses and codes, password hashing, text filters and the priority filter in
`Reads`, work-order numbers, the grammar of JSON, URLs and headers, logging, request identifiers,
the layout of responses. A request in `GoWork` and `Reads` is one that passed the handlers, which
`Endpoints` shows to be right. The catalog of permissions is a constant: V1 has no operation that
changes it. The indexes, CHECK constraints and foreign keys are modelled where a statement can
meet them.

## Not modelled

- Configuration (`platform/config`, `cmd/probe`): validation of environment variables and one
  HTTP GET. No state, and nothing to interleave.
- Migrations (`platform/migrations`, `cmd/migrate`): golang-migrate does the work; what the
  migrations create is modelled where it is used.
- Documentation pages (`docs/serve.go`): two constant responses.
- Generated query glue (`sqlc/db.go`, `models.go`): generated from the statements, which are
  modelled in the modules of the services that run them.
- Of the HTTP process: routing, request identifiers, encoding and the options of connections.
- Of authentication: hashing, the signature itself and the grammar of addresses and headers.

## Plan

Done, in this order: the rules, the store, the three services and their composition, the
atomic specification and the refinement, the reads, the process, tokens, row times; the audit log,
the demo seed with its refinement, the bodies and the handlers. Proved: every invariant and action
property of these that a run checks but `NoDeadlock`, and both refinements, `Serializable` and
`SeededWhole`.

What would come next is outside the provers' reach (liveness, ENABLED) or outside the code: an
operation that changes the catalog of permissions, should the service get one, has to take
locks that `Guarded` can rest on.
