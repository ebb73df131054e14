------------------------------ MODULE MCReads ------------------------------
(***************************************************************************)
(* A small instance of Reads: two orders and two assets between a manager, *)
(* a technician and an administrator who changes them.                     *)
(***************************************************************************)
EXTENDS Reads

Account(role) ==
  [role |-> role, active |-> TRUE, email |-> "e", name |-> "v", password |-> "v"]
Machine(code) == [code |-> code, status |-> "ACTIVE", meta |-> [name |-> "v"]]
Job(asset, status, assignee) ==
  [asset |-> asset, status |-> status, assignee |-> assignee, creator |-> 1,
   meta |-> [title |-> "v"]]

Team == [u \in Users |-> CASE u = 1 -> Account("ADMIN") [] u = 2 -> Account("TECHNICIAN")]
Plant == [a \in Assets |-> Machine(a)]
Backlog == [o \in Orders |-> CASE o = 21 -> Job(11, "ASSIGNED", 2)
                               [] o = 22 -> Null
                               [] o = 23 -> Job(12, "OPEN", Null)]

SetActive(actor, id, active) ==
  [op |-> "PatchUser", actor |-> actor, id |-> id, email |-> Null, name |-> Null,
   password |-> Null, active |-> active]

Changes ==
  {SetActive(1, 2, b) : b \in BOOLEAN}
    \cup {[op |-> "CreateOrder", actor |-> 1, asset |-> 11, meta |-> [title |-> "v"]],
          [op |-> "AssignOrder", actor |-> 1, id |-> 23, target |-> 2],
          [op |-> "DeleteAsset", actor |-> 1, id |-> 12],
          [op |-> "StatusOrder", actor |-> 1, id |-> 21, target |-> "CANCELLED"],
          [op |-> "StatusOrder", actor |-> 1, id |-> 23, target |-> "CANCELLED"]}

ListOrders(actor, page, limit, status, assignee) ==
  [op |-> "ListOrders", actor |-> actor, page |-> page, limit |-> limit, status |-> status,
   asset |-> Null, assignee |-> assignee]

Looks ==
  {ListOrders(u, p, 1, Null, Null) : u \in {1, 2}, p \in {0, 1, 2, 100001}}
    \cup {ListOrders(2, 1, 2, Null, v) : v \in {1, 2}}
    \cup {ListOrders(1, 1, 100, "CANCELLED", Null)}
    \cup {[op |-> "GetOrder", actor |-> u, id |-> o] : u \in {1, 2}, o \in {22, 23}}
    \cup {[op |-> "GetAsset", actor |-> 2, id |-> a] : a \in {11, 12}}
    \cup {[op |-> "ListAssets", actor |-> u, page |-> 1, limit |-> 2, status |-> Null] : u \in {1, 2}}
    \cup {[op |-> "GetUser", actor |-> u, id |-> 2] : u \in {1, 2}}
    \cup {[op |-> "ListUsers", actor |-> 1, page |-> p, limit |-> 1, role |-> Null, active |-> TRUE] :
            p \in {1, 3}}
=============================================================================
