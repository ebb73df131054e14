----------------------------- MODULE Lifecycle -----------------------------
(***************************************************************************)
(* The pure rules of the domain: the work-order lifecycle of               *)
(* internal/workorders/service.go, the availability of assets of           *)
(* internal/assets/service.go and the deactivation guard of                *)
(* internal/users/service.go.  A rule answers Ok or the code of the error. *)
(***************************************************************************)
EXTENDS Integers

Ok == "OK"

OrderStatuses == {"OPEN", "ASSIGNED", "IN_PROGRESS", "COMPLETED", "CANCELLED"}
AssetStatuses == {"ACTIVE", "INACTIVE", "MAINTENANCE", "RETIRED"}

Terminal(status) == status \in {"COMPLETED", "CANCELLED"}

\* What a status request does to an order.
Transition(from, to) ==
  CASE Terminal(from) -> "WORK_ORDER_TERMINAL"
    [] \/ from \in {"OPEN", "ASSIGNED", "IN_PROGRESS"} /\ to = "CANCELLED"
       \/ from = "ASSIGNED" /\ to = "IN_PROGRESS"
       \/ from = "IN_PROGRESS" /\ to = "COMPLETED" -> Ok
    [] OTHER -> "INVALID_STATUS_TRANSITION"

\* The permission of a status request is chosen by its target status.
StatusPermission(target) ==
  IF target = "CANCELLED" THEN "work_order:cancel" ELSE "work_order:status:update"

\* The targets the status endpoint accepts.
StatusTargets == {"IN_PROGRESS", "COMPLETED", "CANCELLED"}

\* Variant: a running order may be handed to someone else.
ReassignsRunning(status) == status \in {"OPEN", "ASSIGNED", "IN_PROGRESS"}

\* Assignment is possible only before the work starts.
Assignable(status) == status \in {"OPEN", "ASSIGNED"}

\* Variant: the audit group of an assignment never names the status change.
OnlyAssigned(status) == <<"WORK_ORDER_ASSIGNED">>

\* The audit rows of an assignment: an OPEN order also changes its status.
AssignActions(status) ==
  IF status = "OPEN" THEN <<"WORK_ORDER_ASSIGNED", "WORK_ORDER_STATUS_CHANGED">>
                     ELSE <<"WORK_ORDER_ASSIGNED">>

\* UserHasActiveOrders: the orders that keep their assignee from being deactivated.
HoldsAssignee(status) == status \in {"ASSIGNED", "IN_PROGRESS"}

\* AssetHasOpenOrders: the orders that keep their asset from being retired.
HoldsAsset(status) == status \in {"OPEN", "ASSIGNED", "IN_PROGRESS"}

\* The assets an order may be created for.
AcceptsOrders(status) == status \in {"ACTIVE", "MAINTENANCE"}

\* A change of status that withdraws an asset and so must be checked against orders.
Withdraws(old, new) == old # new /\ new \in {"INACTIVE", "RETIRED"}

\* Variant: the guard looks at the orders of the target only.
OnlyOrdersBlock(self, role, activeAdmins, hasOrders) ==
  IF hasOrders THEN "USER_HAS_ACTIVE_WORK_ORDERS" ELSE Ok

\* Variant: the guard forgets that an account may not deactivate itself.
SelfAllowed(self, role, activeAdmins, hasOrders) ==
  CASE role = "ADMIN" /\ activeAdmins <= 1 -> "LAST_ADMIN"
    [] ~(role = "ADMIN" /\ activeAdmins <= 1) /\ hasOrders -> "USER_HAS_ACTIVE_WORK_ORDERS"
    [] OTHER -> Ok

\* Evaluated under the administration lock and the row lock of the target.
GuardDeactivation(self, role, activeAdmins, hasOrders) ==
  CASE self -> "SELF_DEACTIVATION"
    [] ~self /\ role = "ADMIN" /\ activeAdmins <= 1 -> "LAST_ADMIN"
    [] ~self /\ ~(role = "ADMIN" /\ activeAdmins <= 1) /\ hasOrders ->
         "USER_HAS_ACTIVE_WORK_ORDERS"
    [] OTHER -> Ok
=============================================================================
