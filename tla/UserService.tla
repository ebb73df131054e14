---------------------------- MODULE UserService ----------------------------
(***************************************************************************)
(* Accounts: internal/users/service.go (Create, Patch) and the bootstrap   *)
(* of the first administrator, internal/auth/bootstrap.go.  Every write    *)
(* holds the advisory lock of user administration; a patch also locks the  *)
(* row of its target, so that assignments cannot pass it.                  *)
(***************************************************************************)
EXTENDS Access

\* Variant: the shared form of the advisory lock.
SharedAdministration == "SHARE"

\* pg_advisory_xact_lock is exclusive.
AdministrationMode == "UPDATE"

\* LockUserAdministration: pg_advisory_xact_lock, then the checks of the operation.
LockUserAdministration(s) ==
  /\ At(s, "LockUserAdministration")
  /\ Lock(s, Administration, AdministrationMode)
  /\ Goto(s, IF req[s].op = "Bootstrap" THEN "HasAdministrator" ELSE "Check")
  /\ UNCHANGED <<tables, req, key, wait, row, next, acts, logged, seen, reply>>

\* HasAdministrator: any administrator account, active or not.
AdministratorExists == \E u \in Users : users[u] # Null /\ users[u].role = "ADMIN"

HasAdministrator(s) ==
  /\ At(s, "HasAdministrator")
  /\ \/ AdministratorExists /\ Rollback(s, "ALREADY_BOOTSTRAPPED")
     \/ ~AdministratorExists /\ Proceed(s, "InsertUser")

EmailTaken(email, other) ==
  \E u \in Users \ other : users[u] # Null /\ users[u].email = email

NewUser(r) == [role |-> r.role, active |-> TRUE, email |-> r.email,
               name |-> r.name, password |-> r.password]

\* InsertUser; the unique index refuses an address in use.
InsertUser(s) ==
  /\ At(s, "InsertUser")
  /\ \/ EmailTaken(req[s].email, {}) /\ Rollback(s, "EMAIL_CONFLICT")
     \/ /\ ~EmailTaken(req[s].email, {})
        /\ \E u \in Fresh(users) :
             Write(s, u, NewUser(req[s]),
                   IF req[s].op = "Bootstrap" THEN <<"USER_BOOTSTRAPPED">>
                                              ELSE <<"USER_CREATED">>)
        /\ UNCHANGED held

\* Variant: the target row is only share-locked.
LockUserAsShare == "SHARE"

LockUserMode == "UPDATE"

\* The row the patch asks for: absent fields keep their values.
PatchedUser(u, r) ==
  [u EXCEPT !.email = Patched(r.email, u.email), !.name = Patched(r.name, u.name),
            !.password = Patched(r.password, u.password),
            !.active = Patched(r.active, u.active)]

\* A patch that changes nothing writes nothing; a password always counts as a change.
SameUser(new, old, r) ==
  /\ new.name = old.name /\ new.email = old.email /\ new.active = old.active
  /\ r.password = Null

Deactivates(new, old) == old.active /\ ~new.active

\* LockUser; a deactivation is then checked against administrators and orders.
LockUser(s) ==
  /\ At(s, "LockUser")
  /\ LET id == req[s].id
         old == users[id]
         new == PatchedUser(old, req[s])
     IN \/ old = Null /\ Rollback(s, "USER_NOT_FOUND")
        \/ /\ old # Null
           /\ Lock(s, RowLock(id), LockUserMode)
           /\ Hold(s, id, old,
                   CASE Deactivates(new, old)     -> "CountActiveAdmins"
                     [] SameUser(new, old, req[s]) -> "Commit"
                     [] OTHER                      -> "UpdateUser")

ActiveAdmins == {u \in Users : users[u] # Null /\ users[u].active /\ users[u].role = "ADMIN"}

CountActiveAdmins(s) ==
  /\ At(s, "CountActiveAdmins")
  /\ seen' = [seen EXCEPT ![s] = Cardinality(ActiveAdmins)]
  /\ Goto(s, "UserHasActiveOrders")
  /\ UNCHANGED <<tables, req, key, wait, held, row, next, acts, logged, reply>>

HasActiveOrders(u) ==
  \E o \in Orders : orders[o] # Null /\ orders[o].assignee = u /\ HoldsAssignee(orders[o].status)

\* UserHasActiveOrders and the guard on all three facts.
UserHasActiveOrders(s) ==
  /\ At(s, "UserHasActiveOrders")
  /\ LET id == req[s].id
         guard == GuardDeactivation(req[s].actor = id, row[s].role, seen[s], HasActiveOrders(id))
     IN \/ guard # Ok /\ Rollback(s, guard)
        \/ guard = Ok /\ Proceed(s, "UpdateUser")

\* UpdateUser; the unique index refuses an address in use by another account.
UpdateUser(s) ==
  /\ At(s, "UpdateUser")
  /\ LET new == PatchedUser(row[s], req[s]) IN
       \/ EmailTaken(new.email, {key[s]}) /\ Rollback(s, "EMAIL_CONFLICT")
       \/ /\ ~EmailTaken(new.email, {key[s]})
          /\ Write(s, key[s], new, <<"USER_UPDATED">>)
          /\ UNCHANGED held

UserStep(s) ==
  \/ LockUserAdministration(s) \/ HasAdministrator(s) \/ InsertUser(s)
  \/ LockUser(s) \/ CountActiveAdmins(s) \/ UserHasActiveOrders(s) \/ UpdateUser(s)
=============================================================================
