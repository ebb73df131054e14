------------------------------ MODULE DemoSeed ------------------------------
(***************************************************************************)
(* The demo seed (internal/auth/seed.go, cmd/seed) beside the services: a  *)
(* session may also be a run of the command.  It takes the administration  *)
(* lock, looks for each demo account, inserts the missing ones with their  *)
(* audit rows, and commits once.                                           *)
(***************************************************************************)
EXTENDS GoWork

CONSTANTS
  Environments,   \* the values of APP_ENV that commands are run with
  DemoEmail       \* per role, the address of its demo account

(***************************************************************************)
(* The addresses are three literals of internal/auth/seed.go.              *)
(***************************************************************************)
ASSUME DemoAssumption ==
  /\ DemoEmail \in [Roles -> Emails] /\ "demo" \in Values
  /\ \A role, other \in Roles : DemoEmail[role] = DemoEmail[other] => role = other

VARIABLES
  turn,     \* per session, the demo account its seed is at
  admin,    \* per session, adminID: who creates the other accounts
  made,     \* per session, the accounts its seed has inserted
  audited,  \* per session, the new_value and the actor of its audit rows
  origin    \* per account, the actor of the audit row of its creation

seeds == <<turn, admin, made, audited>>
seedVars == <<vars, seeds, origin>>

Demo == [i \in 1..3 |->
  LET role == <<"ADMIN", "MANAGER", "TECHNICIAN">>[i] IN
    [role |-> role, active |-> TRUE, email |-> DemoEmail[role], name |-> "demo",
     password |-> "demo"]]

SeedRequest == [op |-> "SeedDemo", actor |-> Null]

Nothing == [u \in {} |-> Null]

DemoStatements == {"LockDemo", "GetLoginUser", "DemoAdministrator", "InsertDemo", "AuditDemo",
                   "CommitDemo", "LimboDemo"}

SeedInit ==
  /\ Init
  /\ turn = [s \in Sessions |-> 1]
  /\ admin = [s \in Sessions |-> Null]
  /\ made = [s \in Sessions |-> Nothing]
  /\ audited = [s \in Sessions |-> Nothing]
  /\ origin = [u \in Users |-> Null]

\* A statement of the seed that leaves its other state alone.
Continue(s, statement) ==
  /\ Goto(s, statement)
  /\ UNCHANGED <<tables, req, key, wait, row, next, acts, logged, seen, reply, origin>>

Read(s, statement) == Continue(s, statement) /\ UNCHANGED <<held, made, audited>>

Finish(s, answer) ==
  /\ End(s, answer)
  /\ turn' = [turn EXCEPT ![s] = 1]
  /\ admin' = [admin EXCEPT ![s] = Null]
  /\ made' = [made EXCEPT ![s] = Nothing]
  /\ audited' = [audited EXCEPT ![s] = Nothing]

Drop(s, answer) == Finish(s, answer) /\ UNCHANGED <<tables, origin>>

(***************************************************************************)
(* The command refuses any environment but two before it opens a           *)
(* transaction.                                                            *)
(***************************************************************************)
RunSeed(s) ==
  /\ At(s, "idle")
  /\ \E environment \in Environments :
       \/ /\ environment \in {"development", "test"}
          /\ req' = [req EXCEPT ![s] = SeedRequest]
          /\ reply' = [reply EXCEPT ![s] = Null]
          /\ Goto(s, "LockDemo")
          /\ UNCHANGED <<tables, key, wait, held, row, next, acts, logged, seen, seeds, origin>>
       \/ environment \notin {"development", "test"} /\ Drop(s, "ENVIRONMENT")

\* Variant: the seed does not wait for the administration lock.
UnlockedSeed(s) == UNCHANGED held

LocksSeed(s) == Lock(s, Administration, AdministrationMode)

LockDemo(s) ==
  /\ At(s, "LockDemo") /\ LocksSeed(s)
  /\ Continue(s, "GetLoginUser") /\ UNCHANGED seeds

\* An account in use is never overwritten: it is the demo account, or a conflict.
Fits(u, account) == users[u].role = account.role /\ users[u].active

\* On to the next account.
After(i) == IF i = Len(Demo) THEN "CommitDemo" ELSE "GetLoginUser"

GetLoginUser(s) ==
  /\ At(s, "GetLoginUser")
  /\ LET i == turn[s]
         found == {u \in Users : users[u] # Null /\ users[u].email = Demo[i].email}
     IN \/ \E u \in found :
             \/ ~Fits(u, Demo[i]) /\ Drop(s, "DEMO_CONFLICT")
             \/ /\ Fits(u, Demo[i])
                /\ admin' = IF i = 1 THEN [admin EXCEPT ![s] = u] ELSE admin
                /\ turn' = [turn EXCEPT ![s] = i + 1]
                /\ Read(s, After(i))
        \/ /\ found = {}
           /\ Read(s, IF i = 1 THEN "DemoAdministrator" ELSE "InsertDemo")
           /\ UNCHANGED <<turn, admin>>

\* Variant: the demo administrator is added beside any other.
NobodyAdministers == FALSE

\* HasAdministrator.
SomebodyAdministers == AdministratorExists

DemoAdministrator(s) ==
  /\ At(s, "DemoAdministrator")
  /\ \/ SomebodyAdministers /\ Drop(s, "ALREADY_BOOTSTRAPPED")
     \/ /\ ~SomebodyAdministers
        /\ Read(s, "InsertDemo") /\ UNCHANGED <<turn, admin>>

Extend(f, u, value) == [x \in DOMAIN f \cup {u} |-> IF x = u THEN value ELSE f[x]]

\* InsertUser; the unique index refuses an address in use.
InsertDemo(s) ==
  /\ At(s, "InsertDemo")
  /\ \/ EmailTaken(Demo[turn[s]].email, {}) /\ Drop(s, "EMAIL_CONFLICT")
     \/ /\ ~EmailTaken(Demo[turn[s]].email, {})
        /\ \E u \in Fresh(users) :
             /\ \A t \in Sessions : u \notin DOMAIN made[t]
             /\ made' = [made EXCEPT ![s] = Extend(@, u, Demo[turn[s]])]
             /\ key' = [key EXCEPT ![s] = u]
        /\ Goto(s, "AuditDemo")
        /\ UNCHANGED <<tables, req, wait, held, row, next, acts, logged, seen, reply, origin,
                       turn, admin, audited>>

\* USER_BOOTSTRAPPED has no actor, USER_CREATED has the administrator.
DemoActor(s) == IF turn[s] = 1 THEN Null ELSE admin[s]

\* audit.UserCreated; the foreign key of the actor share-locks its key.
AuditDemo(s) ==
  /\ At(s, "AuditDemo")
  /\ LET u == key[s]
         actor == DemoActor(s)
     IN /\ IF actor = Null THEN UNCHANGED held ELSE Lock(s, RowLock(actor), "KEY SHARE")
        /\ audited' = [audited EXCEPT ![s] =
                         Extend(@, u, [actor |-> actor, value |-> UserSnapshot(made[s][u])])]
        /\ admin' = IF turn[s] = 1 THEN [admin EXCEPT ![s] = u] ELSE admin
        /\ turn' = [turn EXCEPT ![s] = @ + 1]
        /\ key' = [key EXCEPT ![s] = Null]
        /\ Goto(s, After(turn[s]))
        /\ UNCHANGED <<tables, req, wait, row, next, acts, logged, seen, reply, origin, made>>

ApplySeed(s) ==
  /\ users' = [u \in Users |-> IF u \in DOMAIN made[s] THEN made[s][u] ELSE users[u]]
  /\ trail' = [k \in Keys |-> IF k \in DOMAIN audited[s] THEN audited[s][k].value ELSE trail[k]]
  /\ origin' = [u \in Users |-> IF u \in DOMAIN audited[s] THEN audited[s][u].actor
                                                          ELSE origin[u]]
  /\ UNCHANGED <<assets, orders>>

CommitDemo(s) ==
  /\ At(s, "CommitDemo")
  /\ \/ ApplySeed(s) /\ Finish(s, Ok)
     \/ /\ Goto(s, "LimboDemo")
        /\ reply' = [reply EXCEPT ![s] = "WRITE_OUTCOME_UNKNOWN"]
        /\ UNCHANGED <<tables, req, key, wait, held, row, next, acts, logged, seen, seeds, origin>>

\* A commit whose answer was lost is applied or dropped later.
ResolveDemo(s) ==
  /\ At(s, "LimboDemo")
  /\ (ApplySeed(s) /\ Finish(s, reply[s])) \/ Drop(s, reply[s])

\* Any statement fails, or the command reaches its thirty seconds.
FailDemo(s) == pc[s] \in DemoStatements \ {"LimboDemo"} /\ Drop(s, "FAILED")

SeedStep(s) ==
  \/ RunSeed(s) \/ LockDemo(s) \/ GetLoginUser(s) \/ DemoAdministrator(s) \/ InsertDemo(s)
  \/ AuditDemo(s) \/ CommitDemo(s) \/ ResolveDemo(s) \/ FailDemo(s)

\* A request of the services; an account it creates has its actor for origin.
Serve(s) ==
  /\ pc[s] \notin DemoStatements
  /\ Receive(s) \/ Step(s) \/ CommitLost(s) \/ Abort(s)
  /\ origin' = [u \in Users |-> IF users[u] = Null /\ users'[u] # Null THEN req[s].actor
                                                                      ELSE origin[u]]
  /\ UNCHANGED seeds

SeedNext == \E s \in Sessions : SeedStep(s) \/ Serve(s)

SeedSpec == SeedInit /\ [][SeedNext]_seedVars

-----------------------------------------------------------------------------
\* A seed is one step: it adds what is missing of the demo accounts or nothing, changes
\* no account, and adds its administrator only to a system that never had one, whatever
\* the bootstraps, the other seeds and the changes of accounts beside it (SeedDemo).
Whole == INSTANCE DemoSeedAtomic WITH users <- users, assets <- assets, orders <- orders

SeededWhole == Whole!SeedSpec

\* Every account was created by an administrator, but for one that was bootstrapped:
\* neither two seeds, nor a seed beside a bootstrap, make a second root.
OneRoot ==
  LET accounts == {u \in Users : users[u] # Null}
      roots == {u \in accounts : origin[u] = Null}
  IN /\ Cardinality(roots) <= 1
     /\ \A u \in accounts \ roots :
          users[origin[u]] # Null /\ users[origin[u]].role = "ADMIN"

\* What a seed has looked up stays so: the unique index never refuses an address that it
\* saw free, and when it reports success its three accounts are there and can log in,
\* though it may have found them long before (the administration lock).
LookupsStayTrue ==
  [][\A s \in Sessions :
       /\ pc[s] = "InsertDemo" => reply'[s] # "EMAIL_CONFLICT"
       /\ pc[s] = "CommitDemo" /\ reply'[s] = Ok =>
            \A i \in DOMAIN Demo : \E u \in Users :
              /\ users'[u] # Null /\ users'[u].active
              /\ users'[u].email = Demo[i].email /\ users'[u].role = Demo[i].role]_seedVars
=============================================================================
