-------------------------- MODULE WorkOrderService --------------------------
(***************************************************************************)
(* Work orders: internal/workorders/service.go.  Creation share-locks the  *)
(* asset; every other mutation goes through mutate, which share-locks the  *)
(* actor (and the target of an assignment), locks the order FOR UPDATE and *)
(* decides on the row it then holds.                                       *)
(***************************************************************************)
EXTENDS Access

\* Variant: the asset is read without a lock that a retirement would respect.
ShareAssetUnlocked(s, a) == UNCHANGED held

\* FOR SHARE on the asset: it cannot be retired or deleted before the order exists.
LockSharedAsset(s, a) == Lock(s, RowLock(a), "SHARE")

ShareAsset(s) ==
  /\ At(s, "ShareAsset")
  /\ LET a == req[s].asset IN
       \/ assets[a] \in {Null, Gone} /\ Rollback(s, "ASSET_NOT_FOUND")
       \/ /\ assets[a] \notin {Null, Gone}
          /\ ~AcceptsOrders(assets[a].status)
          /\ Grantable(s, RowLock(a), "SHARE")
          /\ Rollback(s, "ASSET_NOT_AVAILABLE")
       \/ /\ assets[a] \notin {Null, Gone}
          /\ AcceptsOrders(assets[a].status)
          /\ LockSharedAsset(s, a)
          /\ Goto(s, "InsertWorkOrder")
          /\ UNCHANGED <<tables, req, key, wait, row, next, acts, logged, seen, reply>>

NewOrder(r) == [asset |-> r.asset, status |-> "OPEN", assignee |-> Null,
                creator |-> r.actor, meta |-> r.meta]

InsertWorkOrder(s) ==
  /\ At(s, "InsertWorkOrder")
  /\ \E o \in Fresh(orders) : Write(s, o, NewOrder(req[s]), <<"WORK_ORDER_CREATED">>)
  /\ UNCHANGED held

\* Variant: the order is only share-locked before it is changed.
LockWorkOrderAsShare == "SHARE"

LockWorkOrderMode == "UPDATE"

LockWorkOrder(s) ==
  /\ At(s, "LockWorkOrder")
  /\ LET id == req[s].id IN
       \/ orders[id] = Null /\ Rollback(s, "WORK_ORDER_NOT_FOUND")
       \/ /\ orders[id] # Null
          /\ Lock(s, RowLock(id), LockWorkOrderMode)
          /\ Hold(s, id, orders[id], "Change")

\* Variant: the lifecycle is looked at before the ownership.
TerminalFirst(role, actor, w) ==
  CASE Terminal(w.status) -> "WORK_ORDER_TERMINAL"
    [] ~Terminal(w.status) /\ ~AssignedScope(role, actor, w.assignee) -> "FORBIDDEN"
    [] OTHER -> Ok

\* Variant: a finished order is as writable as any other.
TerminalWritable(role, actor, w) ==
  IF AssignedScope(role, actor, w.assignee) THEN Ok ELSE "FORBIDDEN"

\* What mutate checks on the locked row before any change: scope, then lifecycle.
Mutable(role, actor, w) ==
  CASE ~AssignedScope(role, actor, w.assignee) -> "FORBIDDEN"
    [] AssignedScope(role, actor, w.assignee) /\ Terminal(w.status) -> "WORK_ORDER_TERMINAL"
    [] OTHER -> Ok

MutableBy(s) == Mutable(users[req[s].actor].role, req[s].actor, row[s])

\* The change of the request applied to the locked row, and its audit actions.
PatchedOrder(w, r) == [w EXCEPT !.meta = [f \in OrderFields |-> Patched(r.meta[f], w.meta[f])]]
AssignedOrder(w, u) == [w EXCEPT !.status = "ASSIGNED", !.assignee = u]
MovedOrder(w, status) == [w EXCEPT !.status = status]

ChangePatch(s) ==
  /\ req[s].op = "PatchOrder"
  /\ LET new == PatchedOrder(row[s], req[s]) IN
       \/ new = row[s] /\ Proceed(s, "Commit")
       \/ new # row[s] /\ Write(s, key[s], new, <<"WORK_ORDER_UPDATED">>) /\ UNCHANGED held

ChangeStatus(s) ==
  /\ req[s].op = "StatusOrder"
  /\ LET answer == Transition(row[s].status, req[s].target) IN
       \/ answer # Ok /\ Rollback(s, answer)
       \/ /\ answer = Ok
          /\ Write(s, key[s], MovedOrder(row[s], req[s].target), <<"WORK_ORDER_STATUS_CHANGED">>)
          /\ UNCHANGED held

ChangeAssign(s) ==
  /\ req[s].op = "AssignOrder"
  /\ \/ ~Assignable(row[s].status) /\ Rollback(s, "INVALID_ASSIGNMENT_STATE")
     \/ /\ Assignable(row[s].status) /\ row[s].assignee = req[s].target
        /\ Rollback(s, "ALREADY_ASSIGNED")
     \/ /\ Assignable(row[s].status) /\ row[s].assignee # req[s].target
        /\ Proceed(s, "ShareTarget")

Change(s) ==
  /\ At(s, "Change")
  /\ \/ MutableBy(s) # Ok /\ Rollback(s, MutableBy(s))
     \/ MutableBy(s) = Ok /\ (ChangePatch(s) \/ ChangeStatus(s) \/ ChangeAssign(s))

\* Who an order may be assigned to.
ValidAssignee(u) == users[u].active /\ users[u].role = "TECHNICIAN"

(***************************************************************************)
(* ShareUser on the target: already held, unless the account was missing   *)
(* when the accounts were locked; then the assignment is written.          *)
(***************************************************************************)
ShareTarget(s) ==
  /\ At(s, "ShareTarget")
  /\ LET u == req[s].target IN
       \/ users[u] = Null /\ Rollback(s, "INVALID_ASSIGNEE")
       \/ /\ users[u] # Null /\ ~ValidAssignee(u)
          /\ Grantable(s, RowLock(u), "SHARE")
          /\ Rollback(s, "INVALID_ASSIGNEE")
       \/ /\ users[u] # Null /\ ValidAssignee(u)
          /\ ShareLockUser(s, u)
          /\ Write(s, key[s], AssignedOrder(row[s], u), AssignActions(row[s].status))

WorkOrderStep(s) ==
  \/ ShareAsset(s) \/ InsertWorkOrder(s) \/ LockWorkOrder(s) \/ Change(s) \/ ShareTarget(s)
=============================================================================
