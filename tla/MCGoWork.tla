------------------------------ MODULE MCGoWork ------------------------------
(***************************************************************************)
(* Small instances of GoWork for TLC: each run gives the tables a start    *)
(* and chooses the requests that race.                                     *)
(***************************************************************************)
EXTENDS GoWork, TLC

CONSTANTS a1, a2, o1, o2   \* two assets and two orders, as model values

Interchangeable == Permutations(Sessions)

Account(role, email) ==
  [role |-> role, active |-> TRUE, email |-> email, name |-> "v", password |-> "v"]
Machine(code, status) == [code |-> code, status |-> status, meta |-> [name |-> "v"]]
Job(asset, status, assignee) ==
  [asset |-> asset, status |-> status, assignee |-> assignee, creator |-> 1,
   meta |-> [title |-> "v", priority |-> "v"]]

PatchUserRequest(actor, id, active, email, password) ==
  [op |-> "PatchUser", actor |-> actor, id |-> id, email |-> email, name |-> Null,
   password |-> password, active |-> active]
SetActive(actor, id, active) == PatchUserRequest(actor, id, active, Null, Null)
SetStatus(actor, id, target) ==
  [op |-> "StatusOrder", actor |-> actor, id |-> id, target |-> target]
AssignTo(actor, id, target) ==
  [op |-> "AssignOrder", actor |-> actor, id |-> id, target |-> target]
SetAsset(actor, id, status) ==
  [op |-> "PatchAsset", actor |-> actor, id |-> id, status |-> status, meta |-> [name |-> Null]]
CreateFor(actor, asset) ==
  [op |-> "CreateOrder", actor |-> actor, asset |-> asset,
   meta |-> [title |-> "v", priority |-> "v"]]

(***************************************************************************)
(* Assignment against deactivation: an administrator, two technicians and  *)
(* one order.                                                              *)
(***************************************************************************)
AssignUsers == [u \in Users |-> CASE u = 1 -> Account("ADMIN", "e1")
                                  [] u = 2 -> Account("TECHNICIAN", "e2")
                                  [] u = 3 -> Account("TECHNICIAN", "e3")]
AssignAssets == [a \in Assets |-> Machine("c1", "ACTIVE")]
AssignOrders == [o \in Orders |-> Job(a1, "OPEN", Null)]
AssignRequests ==
  {SetActive(1, u, b) : u \in {2, 3}, b \in BOOLEAN}
    \cup {AssignTo(1, o1, u) : u \in {1, 2, 3}}
    \cup {SetStatus(u, o1, t) : u \in {1, 2}, t \in {"IN_PROGRESS", "COMPLETED", "CANCELLED"}}

(***************************************************************************)
(* Retirement and deletion against creation of orders: one asset with an   *)
(* id to spare, two orders to create.                                      *)
(***************************************************************************)
AssetUsers == [u \in Users |-> CASE u = 1 -> Account("ADMIN", "e1")
                                 [] u = 2 -> Account("MANAGER", "e2")]
AssetAssets == [a \in Assets |-> IF a = a1 THEN Machine("c1", "ACTIVE") ELSE Null]
NoOrders == [o \in Orders |-> Null]
RetireRequests ==
  {SetAsset(2, a1, t) : t \in {"ACTIVE", "INACTIVE", "RETIRED"}}
    \cup {[op |-> "DeleteAsset", actor |-> u, id |-> a1] : u \in {1, 2}}
    \cup {[op |-> "CreateAsset", actor |-> 2, code |-> "c1", status |-> "MAINTENANCE",
           meta |-> [name |-> "v"]]}
    \cup {CreateFor(2, a) : a \in Assets}
    \cup {SetStatus(2, o, "CANCELLED") : o \in Orders}
    \cup {SetActive(1, 2, b) : b \in BOOLEAN}

(***************************************************************************)
(* Administration of accounts: administrators that deactivate each other,  *)
(* themselves and a technician, and come back, while the work of the       *)
(* technician and the asset move on: lock waits across the services.       *)
(***************************************************************************)
AdminUsers == [u \in Users |-> CASE u = 1 -> Account("ADMIN", "e1")
                                 [] u = 2 -> Account("ADMIN", "e2")
                                 [] u = 3 -> Account("TECHNICIAN", "e3")]
AdminOrders == [o \in Orders |-> IF o = o1 THEN Job(a1, "OPEN", Null) ELSE Null]
AdminRequests ==
  {SetActive(u, v, FALSE) : u \in {1, 2}, v \in {1, 2, 3}}
    \cup {SetActive(1, 2, TRUE), SetActive(2, 1, TRUE)}
    \cup {AssignTo(2, o1, 3), SetStatus(3, o1, "IN_PROGRESS"), SetAsset(1, a1, "RETIRED"),
          CreateFor(2, a1)}

(***************************************************************************)
(* Everything at once, one request of each kind or a few.  There is no     *)
(* administrator yet: bootstraps race, and the first one does the rest.    *)
(***************************************************************************)
TeamUsers == [u \in Users |-> IF u = 2 THEN Account("TECHNICIAN", "e2") ELSE Null]
TeamRequests ==
  {SetActive(1, 2, FALSE), SetActive(1, 3, FALSE), PatchUserRequest(1, 2, TRUE, "e3", Null),
   [op |-> "CreateUser", actor |-> 1, role |-> "TECHNICIAN", email |-> "e3", name |-> "v",
    password |-> "v"],
   [op |-> "Bootstrap", actor |-> Null, role |-> "ADMIN", email |-> "e3", name |-> "v",
    password |-> "v"],
   [op |-> "CreateAsset", actor |-> 1, code |-> "c1", status |-> "ACTIVE",
    meta |-> [name |-> "v"]],
   SetAsset(1, a1, "RETIRED"), [op |-> "DeleteAsset", actor |-> 1, id |-> a1],
   CreateFor(1, a1),
   [op |-> "PatchOrder", actor |-> 1, id |-> o1, meta |-> [title |-> "w", priority |-> Null]],
   AssignTo(1, o1, 2), AssignTo(1, o1, 3),
   SetStatus(2, o1, "IN_PROGRESS"), SetStatus(2, o1, "CANCELLED"), SetStatus(1, o1, "CANCELLED")}
=============================================================================
