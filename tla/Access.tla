------------------------------- MODULE Access -------------------------------
(***************************************************************************)
(* How a request enters: the handlers' authentication and authorization    *)
(* on the pool, before any transaction, and the second check inside the    *)
(* transaction (internal/auth/handler.go, the handlers' require, and       *)
(* rbac.Check).  Between the two the actor may be deactivated.             *)
(***************************************************************************)
EXTENDS Store

(***************************************************************************)
(* Requests that pass the validation of their fields.  Null in a patch     *)
(* means the field is absent.                                              *)
(***************************************************************************)
Or(S) == S \cup {Null}

CreateUserRequests == [op: {"CreateUser"}, actor: Users, role: Roles, email: Emails,
                       name: Values, password: Values]
PatchUserRequests == [op: {"PatchUser"}, actor: Users, id: Users, email: Or(Emails),
                      name: Or(Values), password: Or(Values), active: Or(BOOLEAN)]
BootstrapRequests == [op: {"Bootstrap"}, actor: {Null}, role: {"ADMIN"}, email: Emails,
                      name: Values, password: Values]
CreateAssetRequests == [op: {"CreateAsset"}, actor: Users, code: Codes,
                        status: AssetStatuses, meta: [AssetFields -> Values]]
PatchAssetRequests == [op: {"PatchAsset"}, actor: Users, id: Assets,
                       status: Or(AssetStatuses), meta: [AssetFields -> Or(Values)]]
DeleteAssetRequests == [op: {"DeleteAsset"}, actor: Users, id: Assets]
CreateOrderRequests == [op: {"CreateOrder"}, actor: Users, asset: Assets,
                        meta: [OrderFields -> Values]]
PatchOrderRequests == [op: {"PatchOrder"}, actor: Users, id: Orders,
                       meta: [OrderFields -> Or(Values)]]
AssignOrderRequests == [op: {"AssignOrder"}, actor: Users, id: Orders, target: Users]
StatusOrderRequests == [op: {"StatusOrder"}, actor: Users, id: Orders, target: OrderStatuses]

UserRequests == CreateUserRequests \cup PatchUserRequests \cup BootstrapRequests
AssetRequests == CreateAssetRequests \cup PatchAssetRequests \cup DeleteAssetRequests
OrderRequests == CreateOrderRequests \cup PatchOrderRequests \cup AssignOrderRequests
                   \cup StatusOrderRequests
AllRequests == UserRequests \cup AssetRequests \cup OrderRequests

ASSUME RequestsAssumption == Requests \subseteq AllRequests /\ Null \notin AllRequests

\* The permission of each route; a status request chooses it by its target.
Permission(r) ==
  CASE r.op = "CreateUser"  -> "user:create"
    [] r.op = "PatchUser"   -> "user:update"
    [] r.op = "CreateAsset" -> "asset:create"
    [] r.op = "PatchAsset"  -> "asset:update"
    [] r.op = "DeleteAsset" -> "asset:delete"
    [] r.op = "CreateOrder" -> "work_order:create"
    [] r.op = "PatchOrder"  -> "work_order:update"
    [] r.op = "AssignOrder" -> "work_order:assign"
    [] r.op = "StatusOrder" -> StatusPermission(r.target)

\* rbac.Check: the account and the permission rows as they are now.
Check(u, permission) ==
  CASE users[u] = Null -> "UNAUTHENTICATED"
    [] users[u] # Null /\ ~users[u].active -> "UNAUTHENTICATED"
    [] users[u] # Null /\ users[u].active
         /\ permission \notin RolePermissions(users[u].role) -> "FORBIDDEN"
    [] OTHER -> Ok

(***************************************************************************)
(* The transaction opens with the administration lock (accounts) or with   *)
(* share locks on accounts (assets and orders).                            *)
(***************************************************************************)

\* Variant: account changes no longer take the administration lock.
NoAdministrationLock(op) ==
  CASE op = "PatchUser" -> "Check"
    [] op \in {"CreateUser", "Bootstrap"} -> "LockUserAdministration"
    [] OTHER -> "ShareUser"

FirstStatement(op) ==
  IF op \in {"CreateUser", "PatchUser", "Bootstrap"} THEN "LockUserAdministration"
  ELSE "ShareUser"

\* The accounts a mutation share-locks before anything else, in ascending order.
ToShare(r) ==
  CASE r.op = "AssignOrder" -> {r.actor, r.target}
    [] r.op \in {"CreateUser", "PatchUser", "Bootstrap"} -> {}
    [] OTHER -> {r.actor}

\* Variant: a deletion skips the row lock.
DeletesUnlocked(op) ==
  CASE op = "CreateUser"  -> "InsertUser"
    [] op = "PatchUser"   -> "LockUser"
    [] op = "CreateAsset" -> "InsertAsset"
    [] op = "PatchAsset"  -> "LockAsset"
    [] op = "DeleteAsset" -> "DeleteAsset"
    [] op = "CreateOrder" -> "ShareAsset"
    [] op \in {"PatchOrder", "AssignOrder", "StatusOrder"} -> "LockWorkOrder"

AfterCheck(op) ==
  CASE op = "CreateUser"  -> "InsertUser"
    [] op = "PatchUser"   -> "LockUser"
    [] op = "CreateAsset" -> "InsertAsset"
    [] op \in {"PatchAsset", "DeleteAsset"} -> "LockAsset"
    [] op = "CreateOrder" -> "ShareAsset"
    [] op \in {"PatchOrder", "AssignOrder", "StatusOrder"} -> "LockWorkOrder"

\* A bound: an insert needs an id nobody has used or is about to use.
RoomIn(table, ops, r) ==
  r.op \in ops => Cardinality({t \in Sessions : req[t] # Null /\ req[t].op \in ops})
                    < Cardinality({k \in DOMAIN table : table[k] = Null})

Room(r) ==
  /\ RoomIn(users, {"CreateUser", "Bootstrap"}, r)
  /\ RoomIn(assets, {"CreateAsset"}, r)
  /\ RoomIn(orders, {"CreateOrder"}, r)

(***************************************************************************)
(* A request arrives.  Authentication and the permission check are         *)
(* separate reads of the account: an account deactivated between them is   *)
(* told either 401 or 403.  Only accounts that exist hold tokens; the      *)
(* bootstrap command has no actor.  The status endpoint refuses a target   *)
(* that no request may ask for.                                            *)
(***************************************************************************)
Refusals(r) ==
  CASE r.actor = Null -> {}
    [] r.actor # Null /\ ~users[r.actor].active -> {"UNAUTHENTICATED", "FORBIDDEN"}
    [] r.actor # Null /\ users[r.actor].active /\ Check(r.actor, Permission(r)) # Ok ->
         {Check(r.actor, Permission(r))}
    [] OTHER -> IF r.op = "StatusOrder" /\ r.target \notin StatusTargets
                  THEN {"VALIDATION_ERROR"} ELSE {}

Accept(s, r) ==
  /\ Refusals(r) = {} /\ Room(r)
  /\ req' = [req EXCEPT ![s] = r]
  /\ Goto(s, FirstStatement(r.op))
  /\ wait' = [wait EXCEPT ![s] = ToShare(r)]
  /\ reply' = [reply EXCEPT ![s] = Null]
  /\ UNCHANGED <<tables, key, held, row, next, acts, logged, seen>>

Refuse(s, r) ==
  /\ \E code \in Refusals(r) : reply' = [reply EXCEPT ![s] = code]
  /\ UNCHANGED <<tables, pc, req, key, wait, held, row, next, acts, logged, seen>>

Receive(s) ==
  /\ At(s, "idle")
  /\ \E r \in Requests :
       /\ r.actor # Null => users[r.actor] # Null
       /\ Accept(s, r) \/ Refuse(s, r)

\* Variant: the accounts are read without a lock.
ReadUser(s, u) == UNCHANGED held

\* FOR SHARE: an account cannot be deactivated while a mutation it is part of runs.
ShareLockUser(s, u) == Lock(s, RowLock(u), "SHARE")

(***************************************************************************)
(* ShareUser, once per account, lowest id first.  A missing account is     *)
(* passed over: the checks that follow find it missing.                    *)
(***************************************************************************)
ShareUser(s) ==
  /\ At(s, "ShareUser")
  /\ \E u \in wait[s] :
       /\ \A v \in wait[s] : u <= v
       /\ wait' = [wait EXCEPT ![s] = @ \ {u}]
       /\ IF users[u] = Null THEN UNCHANGED held ELSE ShareLockUser(s, u)
       /\ IF wait[s] = {u} THEN Goto(s, "Check") ELSE UNCHANGED pc
  /\ UNCHANGED <<tables, req, key, row, next, acts, logged, seen, reply>>

\* The second check, on what is committed once the locks are held.
CheckActor(s) ==
  /\ At(s, "Check")
  /\ LET answer == Check(req[s].actor, Permission(req[s])) IN
       \/ answer # Ok /\ Rollback(s, answer)
       \/ /\ answer = Ok
          /\ Goto(s, AfterCheck(req[s].op))
          /\ UNCHANGED <<tables, req, key, wait, held, row, next, acts, logged, seen, reply>>

(***************************************************************************)
(* Building blocks of the services.                                        *)
(***************************************************************************)

\* The value of a field after a patch that may not mention it.
Patched(new, old) == IF new = Null THEN old ELSE new

\* A locking statement read row k: remember it as old and go on.
Hold(s, k, r, statement) ==
  /\ key' = [key EXCEPT ![s] = k]
  /\ row' = [row EXCEPT ![s] = r]
  /\ Goto(s, statement)
  /\ UNCHANGED <<tables, req, wait, next, acts, logged, seen, reply>>

\* The only write of a transaction, to row k, and the audit actions it will record.
Write(s, k, r, actions) ==
  /\ key' = [key EXCEPT ![s] = k]
  /\ next' = [next EXCEPT ![s] = r]
  /\ acts' = [acts EXCEPT ![s] = actions]
  /\ Goto(s, "InsertAudit")
  /\ UNCHANGED <<tables, req, wait, row, logged, seen, reply>>

\* A statement that decides nothing but where the transaction goes next.
Proceed(s, statement) ==
  /\ Goto(s, statement)
  /\ UNCHANGED <<tables, req, key, wait, held, row, next, acts, logged, seen, reply>>
=============================================================================
