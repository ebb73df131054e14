----------------------------- MODULE MCAuditLog -----------------------------
(***************************************************************************)
(* A small instance of AuditLog: a manager and a technician read, and the  *)
(* log starts with the bootstrap, an older row no service would write now, *)
(* a change of password and a deleted asset.                               *)
(***************************************************************************)
EXTENDS AuditLog, TLC

Readers == [u \in {"manager", "technician"} |-> IF u = "manager" THEN "MANAGER" ELSE "TECHNICIAN"]

Account == [f \in UserStrings \cup {"is_active"} |-> IF f = "is_active" THEN "bool" ELSE "string"]
With(snapshot, field, kind) ==
  [f \in DOMAIN snapshot \cup {field} |-> IF f = field THEN kind ELSE snapshot[f]]
Machine == [f \in AssetStrings |-> "string"]

Stored(id, actor, action, type, entity, old, new) ==
  [id |-> id, created_at |-> 0, actor |-> actor, action |-> action, type |-> type,
   entity |-> entity, old |-> old, new |-> new]

Older ==
  {Stored(2, Null, "USER_BOOTSTRAPPED", "user", "u1", Null, With(Account, "token", "other")),
   Stored(5, "u1", "USER_CREATED", "user", "u2", Null, With(Account, "name", "other")),
   Stored(7, "u1", "USER_UPDATED", "user", "u1", Account, With(Account, "password_changed", "bool")),
   Stored(8, "u1", "ASSET_DELETED", "asset", "a1", Machine, Null)}

Ask(reader, page, limit, actor, action, type, entity) ==
  [reader |-> reader, page |-> page, limit |-> limit, actor |-> actor, action |-> action,
   type |-> type, entity |-> entity, extra |-> FALSE]

History(page) == Ask("manager", page, 1, Null, Null, "work_order", WorkOrder)

\* The walk through the history of the order, and single lists: the first and the last
\* page of the accounts' entries, and what is refused before a transaction begins.
Looks ==
  {History(1)}
    \cup {Ask("manager", p, 2, Null, Null, "user", Null) : p \in {0, 1, 2}}
    \cup {Ask("manager", 1, 20, Null, Null, Null, "a1"),
          Ask("technician", 0, 20, Null, Null, Null, Null)}

\* Every order of a creation and two changes, of an assignment and of the older rows.
Numbers ==
  [a \in {"WORK_ORDER_CREATED", "WORK_ORDER_ASSIGNED", "WORK_ORDER_STATUS_CHANGED"} |->
     CASE a = "WORK_ORDER_CREATED" -> {4} [] a = "WORK_ORDER_ASSIGNED" -> {6} [] OTHER -> {1, 6}]

Symmetry == Permutations(Sessions)
=============================================================================
