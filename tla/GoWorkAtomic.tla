---------------------------- MODULE GoWorkAtomic ----------------------------
(***************************************************************************)
(* What the services promise, without transactions: every accepted write   *)
(* happens in one step, on the state of that moment, when the rules of     *)
(* docs/contracts.md allow it.  GoWork is shown to implement this module.  *)
(***************************************************************************)
EXTENDS Rbac

CONSTANTS Users, Assets, Orders, AssetFields, OrderFields, Requests,
          InitUsers, InitAssets, InitOrders, Null, Gone

VARIABLES users, assets, orders
vars == <<users, assets, orders>>

May(u, permission) ==
  /\ users[u] # Null /\ users[u].active
  /\ permission \in RolePermissions(users[u].role)

Mine(u, o) ==
  users[u].role = "TECHNICIAN" => orders[o].assignee = u

Merge(new, old) == IF new = Null THEN old ELSE new

Unfinished == {o \in Orders : orders[o] # Null
                  /\ orders[o].status \in {"OPEN", "ASSIGNED", "IN_PROGRESS"}}

-----------------------------------------------------------------------------
AddUser(r) ==
  /\ \A u \in Users : users[u] # Null => users[u].email # r.email
  /\ \E u \in Users :
       /\ users[u] = Null
       /\ users' = [users EXCEPT ![u] = [role |-> r.role, active |-> TRUE, email |-> r.email,
                                         name |-> r.name, password |-> r.password]]
  /\ UNCHANGED <<assets, orders>>

CreateUser(r) == r.op = "CreateUser" /\ May(r.actor, "user:create") /\ AddUser(r)

Bootstrap(r) ==
  /\ r.op = "Bootstrap"
  /\ \A u \in Users : users[u] # Null => users[u].role # "ADMIN"
  /\ AddUser(r)

\* A deactivation leaves no work behind, spares the caller and one administrator.
MayDeactivate(actor, u) ==
  /\ actor # u
  /\ \A o \in Orders : orders[o] # Null /\ orders[o].assignee = u =>
                         orders[o].status \notin {"ASSIGNED", "IN_PROGRESS"}
  /\ \E v \in Users \ {u} : users[v] # Null /\ users[v].active /\ users[v].role = "ADMIN"

PatchUser(r) ==
  /\ r.op = "PatchUser" /\ May(r.actor, "user:update")
  /\ users[r.id] # Null
  /\ users[r.id].active /\ ~Merge(r.active, users[r.id].active) => MayDeactivate(r.actor, r.id)
  /\ LET email == Merge(r.email, users[r.id].email) IN
       \A u \in Users \ {r.id} : users[u] # Null => users[u].email # email
  /\ users' = [users EXCEPT ![r.id] =
                 [role |-> users[r.id].role, active |-> Merge(r.active, users[r.id].active),
                  email |-> Merge(r.email, users[r.id].email),
                  name |-> Merge(r.name, users[r.id].name),
                  password |-> Merge(r.password, users[r.id].password)]]
  /\ UNCHANGED <<assets, orders>>

-----------------------------------------------------------------------------
Present(a) == assets[a] \notin {Null, Gone}

CreateAsset(r) ==
  /\ r.op = "CreateAsset" /\ May(r.actor, "asset:create")
  /\ \A a \in Assets : Present(a) => assets[a].code # r.code
  /\ \E a \in Assets :
       /\ assets[a] = Null
       /\ assets' = [assets EXCEPT ![a] = [code |-> r.code, status |-> r.status, meta |-> r.meta]]
  /\ UNCHANGED <<users, orders>>

\* An asset leaves service only when no unfinished order needs it.
PatchAsset(r) ==
  /\ r.op = "PatchAsset" /\ May(r.actor, "asset:update")
  /\ Present(r.id)
  /\ LET status == Merge(r.status, assets[r.id].status) IN
       status \in {"INACTIVE", "RETIRED"} /\ status # assets[r.id].status =>
         \A o \in Unfinished : orders[o].asset # r.id
  /\ assets' = [assets EXCEPT ![r.id] =
                  [code |-> assets[r.id].code, status |-> Merge(r.status, assets[r.id].status),
                   meta |-> [f \in AssetFields |-> Merge(r.meta[f], assets[r.id].meta[f])]]]
  /\ UNCHANGED <<users, orders>>

DeleteAsset(r) ==
  /\ r.op = "DeleteAsset" /\ May(r.actor, "asset:delete")
  /\ Present(r.id)
  /\ \A o \in Orders : orders[o] # Null => orders[o].asset # r.id
  /\ assets' = [assets EXCEPT ![r.id] = Gone]
  /\ UNCHANGED <<users, orders>>

-----------------------------------------------------------------------------
CreateOrder(r) ==
  /\ r.op = "CreateOrder" /\ May(r.actor, "work_order:create")
  /\ Present(r.asset) /\ assets[r.asset].status \in {"ACTIVE", "MAINTENANCE"}
  /\ \E o \in Orders :
       /\ orders[o] = Null
       /\ orders' = [orders EXCEPT ![o] =
                       [asset |-> r.asset, status |-> "OPEN", assignee |-> Null,
                        creator |-> r.actor, meta |-> r.meta]]
  /\ UNCHANGED <<users, assets>>

PatchOrder(r) ==
  /\ r.op = "PatchOrder" /\ May(r.actor, "work_order:update")
  /\ r.id \in Unfinished /\ Mine(r.actor, r.id)
  /\ orders' = [orders EXCEPT ![r.id].meta =
                  [f \in OrderFields |-> Merge(r.meta[f], orders[r.id].meta[f])]]
  /\ UNCHANGED <<users, assets>>

\* Work is given to an active technician, before it starts, and never twice.
AssignOrder(r) ==
  /\ r.op = "AssignOrder" /\ May(r.actor, "work_order:assign")
  /\ r.id \in Unfinished /\ Mine(r.actor, r.id)
  /\ orders[r.id].status # "IN_PROGRESS" /\ orders[r.id].assignee # r.target
  /\ users[r.target] # Null /\ users[r.target].active /\ users[r.target].role = "TECHNICIAN"
  /\ orders' = [orders EXCEPT ![r.id].status = "ASSIGNED", ![r.id].assignee = r.target]
  /\ UNCHANGED <<users, assets>>

\* The edges of the lifecycle that a status request may take.
StatusOrder(r) ==
  /\ r.op = "StatusOrder"
  /\ r.id \in Unfinished /\ Mine(r.actor, r.id)
  /\ \/ r.target = "CANCELLED" /\ May(r.actor, "work_order:cancel")
     \/ /\ May(r.actor, "work_order:status:update")
        /\ <<orders[r.id].status, r.target>> \in
             {<<"ASSIGNED", "IN_PROGRESS">>, <<"IN_PROGRESS", "COMPLETED">>}
  /\ orders' = [orders EXCEPT ![r.id].status = r.target]
  /\ UNCHANGED <<users, assets>>

-----------------------------------------------------------------------------
Init == users = InitUsers /\ assets = InitAssets /\ orders = InitOrders

Do(r) ==
  \/ CreateUser(r) \/ Bootstrap(r) \/ PatchUser(r)
  \/ CreateAsset(r) \/ PatchAsset(r) \/ DeleteAsset(r)
  \/ CreateOrder(r) \/ PatchOrder(r) \/ AssignOrder(r) \/ StatusOrder(r)

Next == \E r \in Requests : Do(r)

Spec == Init /\ [][Next]_vars
=============================================================================
