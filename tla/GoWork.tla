------------------------------- MODULE GoWork -------------------------------
(***************************************************************************)
(* The three services composed over one database: requests of any kind     *)
(* interleave statement by statement.                                      *)
(***************************************************************************)
EXTENDS UserService, AssetService, WorkOrderService

\* One statement of the transaction that session s runs.
Step(s) ==
  \/ ShareUser(s) \/ CheckActor(s)
  \/ UserStep(s) \/ AssetStep(s) \/ WorkOrderStep(s)
  \/ InsertAudit(s) \/ Commit(s) \/ Resolve(s)

Next == \E s \in Sessions : Receive(s) \/ Step(s) \/ CommitLost(s) \/ Abort(s)

Spec == Init /\ [][Next]_vars

(***************************************************************************)
(* Fairness: a statement that can run is eventually run.  Nothing is       *)
(* assumed about arrivals or failures, and lock waits get no strong        *)
(* fairness: PostgreSQL lets new share locks pass a waiting FOR UPDATE.    *)
(***************************************************************************)
FairSpec == Spec /\ \A s \in Sessions : WF_vars(Step(s))

-----------------------------------------------------------------------------
(***************************************************************************)
(* The type of every variable.                                             *)
(***************************************************************************)
Statements ==
  {"idle", "ShareUser", "Check", "LockUserAdministration", "HasAdministrator",
   "InsertUser", "LockUser", "CountActiveAdmins", "UserHasActiveOrders", "UpdateUser",
   "InsertAsset", "LockAsset", "PatchAsset", "AssetHasOpenOrders", "AssetHasOrders",
   "DeleteAsset", "ShareAsset", "InsertWorkOrder", "LockWorkOrder", "Change",
   "ShareTarget", "InsertAudit", "Commit", "Limbo"}

Actions ==
  {"USER_BOOTSTRAPPED", "USER_CREATED", "USER_UPDATED", "ASSET_CREATED", "ASSET_UPDATED",
   "ASSET_DELETED", "WORK_ORDER_CREATED", "WORK_ORDER_ASSIGNED",
   "WORK_ORDER_STATUS_CHANGED", "WORK_ORDER_UPDATED"}

\* The last two are the answers of the demo seed, which is another use of a session.
Answers ==
  {Ok, "FAILED", "WRITE_OUTCOME_UNKNOWN", "UNAUTHENTICATED", "FORBIDDEN", "VALIDATION_ERROR",
   "USER_NOT_FOUND", "EMAIL_CONFLICT", "ALREADY_BOOTSTRAPPED", "SELF_DEACTIVATION",
   "LAST_ADMIN", "USER_HAS_ACTIVE_WORK_ORDERS", "ASSET_NOT_FOUND", "ASSET_CODE_CONFLICT",
   "ASSET_IN_USE", "ASSET_HAS_OPEN_WORK_ORDERS", "ASSET_NOT_AVAILABLE",
   "FOREIGN_KEY_VIOLATION", "WORK_ORDER_NOT_FOUND", "WORK_ORDER_TERMINAL",
   "INVALID_STATUS_TRANSITION", "INVALID_ASSIGNMENT_STATE", "ALREADY_ASSIGNED",
   "INVALID_ASSIGNEE", "ENVIRONMENT", "DEMO_CONFLICT"}

ASSUME AnswersAssumption == Null \notin Answers

Snapshots == [name: Values, email: Emails, role: Roles, active: BOOLEAN] \cup AssetRow \cup OrderRow

TypeOK ==
  /\ users \in [Users -> UserRow \cup {Null}]
  /\ assets \in [Assets -> AssetRow \cup {Null, Gone}]
  /\ orders \in [Orders -> OrderRow \cup {Null}]
  /\ trail \in [Keys -> Snapshots \cup {Null, Gone}]
  /\ pc \in [Sessions -> Statements]
  /\ req \in [Sessions -> AllRequests \cup {Null}]
  /\ key \in [Sessions -> Keys \cup {Null}]
  /\ wait \in [Sessions -> SUBSET Users]
  /\ held \in [Sessions -> SUBSET (Resources \X Modes)]
  /\ row \in [Sessions -> Rows \cup {Null}]
  /\ next \in [Sessions -> Rows \cup {Null, Gone}]
  /\ acts \in [Sessions -> Seq(Actions)]
  /\ logged \in [Sessions -> Nat]
  /\ seen \in [Sessions -> Nat]
  /\ reply \in [Sessions -> Answers \cup {Null}]

(***************************************************************************)
(* Where a transaction is, what it serves and what it has read and written *)
(* belong together.                                                        *)
(***************************************************************************)
UserOps == {"CreateUser", "PatchUser", "Bootstrap"}
AssetOps == {"CreateAsset", "PatchAsset", "DeleteAsset"}
MutateOps == {"PatchOrder", "AssignOrder", "StatusOrder"}
Ops == UserOps \cup AssetOps \cup MutateOps \cup {"CreateOrder"}

\* The operations that run a statement.
Serving(statement) ==
  CASE statement = "ShareUser"              -> Ops \ UserOps
    [] statement = "Check"                  -> Ops \ {"Bootstrap"}
    [] statement = "LockUserAdministration" -> UserOps
    [] statement = "HasAdministrator"       -> {"Bootstrap"}
    [] statement = "InsertUser"             -> {"CreateUser", "Bootstrap"}
    [] statement \in {"LockUser", "CountActiveAdmins", "UserHasActiveOrders", "UpdateUser"} ->
         {"PatchUser"}
    [] statement = "InsertAsset"            -> {"CreateAsset"}
    [] statement = "LockAsset"              -> {"PatchAsset", "DeleteAsset"}
    [] statement \in {"PatchAsset", "AssetHasOpenOrders"} -> {"PatchAsset"}
    [] statement \in {"AssetHasOrders", "DeleteAsset"}    -> {"DeleteAsset"}
    [] statement \in {"ShareAsset", "InsertWorkOrder"}    -> {"CreateOrder"}
    [] statement \in {"LockWorkOrder", "Change"}          -> MutateOps
    [] statement = "ShareTarget"            -> {"AssignOrder"}
    [] OTHER                                -> Ops

\* The statements after the row lock and before the write.
Holding == {"CountActiveAdmins", "UserHasActiveOrders", "UpdateUser", "PatchAsset",
            "AssetHasOpenOrders", "AssetHasOrders", "DeleteAsset", "Change", "ShareTarget"}
Closing == {"InsertAudit", "Commit", "Limbo"}
Opening == Statements \ (Holding \cup Closing)

RowFor(k, r) ==
  \/ k \in Users  /\ r \in UserRow
  \/ k \in Assets /\ r \in AssetRow
  \/ k \in Orders /\ r \in OrderRow

Phase(s) ==
  /\ pc[s] = "idle" => req[s] = Null /\ held[s] = {}
  /\ pc[s] # "idle" => req[s] # Null /\ req[s].op \in Serving(pc[s])
  /\ pc[s] \in Opening => key[s] = Null /\ row[s] = Null
  /\ pc[s] \in Opening \cup Holding => next[s] = Null /\ logged[s] = 0
  /\ pc[s] \in Holding => row[s] # Null /\ key[s] = req[s].id
  /\ row[s] # Null => RowFor(key[s], row[s])
  /\ next[s] # Null => RowFor(key[s], next[s]) \/ (key[s] \in Assets /\ next[s] = Gone)
  /\ pc[s] = "InsertAudit" \/ logged[s] > 0 => next[s] # Null

\* Every transaction is in a phase its request leads to, with the row it locked and
\* the row it wrote of the kind that request is about.
PhaseOK == \A s \in Sessions : Phase(s)

\* The type invariant: every variable has its type, and every transaction the request,
\* the locked row and the written row that the statement it is about to run expects.
Typed == TypeOK /\ PhaseOK

-----------------------------------------------------------------------------
(***************************************************************************)
(* Invariants across tables, which no SQL constraint states.               *)
(***************************************************************************)

\* An order that is assigned or in progress belongs to an active technician: an
\* assignment and a deactivation that overlap never both succeed (Assign against
\* users.Patch).
ActiveAssignee ==
  \A o \in Orders :
    orders[o] # Null /\ orders[o].status \in {"ASSIGNED", "IN_PROGRESS"} =>
      /\ orders[o].assignee \in Users
      /\ users[orders[o].assignee] # Null
      /\ users[orders[o].assignee].active
      /\ users[orders[o].assignee].role = "TECHNICIAN"

\* An order that is not finished is about an asset in service: creation and
\* retirement or deletion that overlap never both succeed (workorders.Create
\* against assets.Patch and assets.Delete).
AssetInService ==
  \A o \in Orders :
    orders[o] # Null /\ orders[o].status \in {"OPEN", "ASSIGNED", "IN_PROGRESS"} =>
      /\ assets[orders[o].asset] \notin {Null, Gone}
      /\ assets[orders[o].asset].status \in {"ACTIVE", "MAINTENANCE"}

\* The services' own checks keep the history of an asset: a deletion never gets as
\* far as the foreign key (assets.Delete).
ForeignKeyNeverFires == \A s \in Sessions : reply[s] # "FOREIGN_KEY_VIOLATION"

HasActiveAdmin == \E u \in Users : users[u] # Null /\ users[u].active /\ users[u].role = "ADMIN"

\* Once there is an active administrator there always is one, however many
\* administrators deactivate each other at once (GuardDeactivation under the
\* administration lock).
AdministratorRemains == [][HasActiveAdmin => HasActiveAdmin']_vars

\* With the seeded catalog the count of administrators never decides: the caller is
\* an active administrator other than the target (milestone 4 calls it defensive).
LastAdminIsDefensive == \A s \in Sessions : reply[s] # "LAST_ADMIN"

-----------------------------------------------------------------------------
(***************************************************************************)
(* Invariants of the transactions in flight.                               *)
(***************************************************************************)

\* Until it commits, a write belongs to an account that is active and permitted: a
\* deactivation cannot commit in between (lockActor, mutate, the administration lock).
WriterStaysAuthorized ==
  \A s \in Sessions :
    next[s] # Null /\ req[s].actor # Null =>
      /\ users[req[s].actor].active
      /\ Permission(req[s]) \in RolePermissions(users[req[s].actor].role)

\* What a mutation read under its row lock is still the committed row when it writes:
\* no update is lost, and old_value of the audit is what new_value replaces.
NoLostUpdate ==
  \A s \in Sessions : row[s] # Null => row[s] = Row(key[s])

\* The audit actions of an order mutation name exactly what it changes.
AuditNamesChange ==
  \A s \in Sessions :
    next[s] # Null /\ key[s] \in Orders /\ row[s] # Null =>
      LET named(action) == \E i \in 1..Len(acts[s]) : acts[s][i] = action IN
        /\ named("WORK_ORDER_STATUS_CHANGED") <=> next[s].status # row[s].status
        /\ named("WORK_ORDER_ASSIGNED") <=> next[s].assignee # row[s].assignee
        /\ named("WORK_ORDER_UPDATED") <=> next[s].meta # row[s].meta

\* A transaction that reaches its commit has inserted every audit row of its write.
AuditComplete ==
  \A s \in Sessions : pc[s] \in {"Commit", "Limbo"} => logged[s] = Len(acts[s])

\* The new_value of an entity's latest audit is the entity as the tables have it.
TrailMatchesTables == \A k \in Keys : trail[k] = Snapshot(k, Row(k))

\* Some transaction can always go on (accounts, then assets, then orders are locked; the
\* administration lock before all).
NoDeadlock ==
  (\E s \in Sessions : pc[s] # "idle") => ENABLED (\E s \in Sessions : Step(s))

\* The locks that the next statement of a transaction takes, on rows that are there.
OnRows(keys, mode) == {<<RowLock(k), mode>> : k \in {x \in keys : Row(x) \notin {Null, Gone}}}

Wants(s) ==
  LET r == req[s] IN
  CASE pc[s] = "LockUserAdministration"      -> {<<Administration, "UPDATE">>}
    [] pc[s] = "ShareUser"   -> OnRows({u \in wait[s] : \A v \in wait[s] : u <= v}, "SHARE")
    [] pc[s] \in {"LockUser", "LockAsset", "LockWorkOrder"} -> OnRows({r.id}, "UPDATE")
    [] pc[s] = "ShareAsset"                  -> OnRows({r.asset}, "SHARE")
    [] pc[s] = "ShareTarget"                 -> OnRows({r.target}, "SHARE")
    [] pc[s] = "InsertAsset"                 -> {<<CodeLock(r.code), "UPDATE">>}
    [] pc[s] = "DeleteAsset"                 -> {<<CodeLock(row[s].code), "UPDATE">>}
    [] pc[s] = "InsertAudit" /\ r.actor # Null -> OnRows({r.actor}, "KEY SHARE")
    [] OTHER                                 -> {}

WaitsFor(s, t) ==
  s # t /\ \E w \in Wants(s), m \in Modes : <<w[1], m>> \in held[t] /\ Conflict(w[2], m)

\* Waits for locks never form a cycle: in every group of transactions one waits for none of
\* the group (the order of the statements in the services).
NoWaitCycle ==
  \A group \in (SUBSET Sessions) \ {{}} : \E s \in group : \A t \in group : ~WaitsFor(s, t)

-----------------------------------------------------------------------------
(***************************************************************************)
(* What a step may do.                                                     *)
(***************************************************************************)

\* The lifecycle over whole commits: a finished order never changes, the status
\* moves along the documented edges, and the assignee changes by assignment only,
\* before the work starts.
OrdersMoveForward ==
  [][\A o \in Orders :
       orders[o] # Null /\ orders'[o] # orders[o] =>
         /\ orders[o].status \notin {"COMPLETED", "CANCELLED"}
         /\ <<orders[o].status, orders'[o].status>> \in
              {<<"OPEN", "OPEN">>, <<"OPEN", "ASSIGNED">>, <<"OPEN", "CANCELLED">>,
               <<"ASSIGNED", "ASSIGNED">>, <<"ASSIGNED", "IN_PROGRESS">>,
               <<"ASSIGNED", "CANCELLED">>, <<"IN_PROGRESS", "IN_PROGRESS">>,
               <<"IN_PROGRESS", "COMPLETED">>, <<"IN_PROGRESS", "CANCELLED">>}
         /\ orders'[o].assignee # orders[o].assignee => orders'[o].status = "ASSIGNED"]_vars

\* A technician learns nothing about the state of an order that is not theirs: the
\* ownership is decided before the lifecycle (mutate).
LifecycleAnswers ==
  {"WORK_ORDER_TERMINAL", "INVALID_STATUS_TRANSITION", "INVALID_ASSIGNMENT_STATE",
   "ALREADY_ASSIGNED"}
OwnershipFirst ==
  [][\A s \in Sessions :
       reply'[s] # reply[s] /\ reply'[s] \in LifecycleAnswers
         /\ users[req[s].actor].role = "TECHNICIAN" =>
           orders[req[s].id].assignee = req[s].actor]_vars

-----------------------------------------------------------------------------
(***************************************************************************)
(* Liveness.                                                               *)
(***************************************************************************)

AllIdle == \A s \in Sessions : pc[s] = "idle"

\* When requests stop arriving, the ones in service all end: no lock wait lasts for
\* ever.
Drains == []<><<\E s \in Sessions : Receive(s)>>_vars \/ []<>AllIdle

-----------------------------------------------------------------------------
(***************************************************************************)
(* Refinement: seen through the committed tables, every behaviour of the   *)
(* transactions is one of the atomic services; the commit (or the late     *)
(* resolution of a lost one) is the step, everything else stutters.        *)
(***************************************************************************)
Atomic == INSTANCE GoWorkAtomic WITH users <- users, assets <- assets, orders <- orders

\* The transactions implement the atomic services: READ COMMITTED with these row
\* locks is as good as running the requests one at a time.
Serializable == Atomic!Spec
=============================================================================
