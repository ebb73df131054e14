--------------------------- MODULE DemoSeedProofs ---------------------------
(***************************************************************************)
(* The demo seed beside the services, for every set of accounts, sessions  *)
(* and requests.  To the services a session that seeds is one that is      *)
(* idle: with seeds shown that way, every step of a request is a step of   *)
(* GoWork, and the results about the services hold of DemoSeed.            *)
(***************************************************************************)
EXTENDS DemoSeed, FiniteSetTheorems, TLAPS

Seeding(s) == pc[s] \in DemoStatements

\* What the services see of the sessions.
ServedPc == [s \in Sessions |-> IF Seeding(s) THEN "idle" ELSE pc[s]]
ServedReq == [s \in Sessions |-> IF Seeding(s) THEN Null ELSE req[s]]
ServedKey == [s \in Sessions |-> IF Seeding(s) THEN Null ELSE key[s]]
ServedHeld == [s \in Sessions |-> IF Seeding(s) THEN {} ELSE held[s]]

Services == INSTANCE SerializableProofs
              WITH pc <- ServedPc, req <- ServedReq, key <- ServedKey, held <- ServedHeld

-----------------------------------------------------------------------------
(***************************************************************************)
(* The definitions without variables mean the same in the instance.        *)
(***************************************************************************)
LEMMA SameRows ==
  /\ Services!Keys = Keys /\ Services!Rows = Rows /\ Services!UserRow = UserRow
  /\ Services!AssetRow = AssetRow /\ Services!OrderRow = OrderRow /\ Services!Roles = Roles
  /\ Services!Answers = Answers /\ Services!AllRequests = AllRequests
<1>1. Services!Roles = Roles /\ Services!AssetStatuses = AssetStatuses
        /\ Services!OrderStatuses = OrderStatuses /\ Services!Answers = Answers
        /\ Services!Keys = Keys
  BY DEF Services!Roles, Roles, Services!AssetStatuses, AssetStatuses, Services!OrderStatuses,
         OrderStatuses, Services!Answers, Answers, Services!Ok, Ok, Services!Keys, Keys
<1>2. Services!UserRow = UserRow /\ Services!AssetRow = AssetRow /\ Services!OrderRow = OrderRow
  BY <1>1 DEF Services!UserRow, UserRow, Services!AssetRow, AssetRow, Services!OrderRow, OrderRow
<1>3. Services!Rows = Rows
  BY <1>2 DEF Services!Rows, Rows
<1>4. Services!UserRequests = UserRequests
  BY <1>1
  DEF Services!UserRequests, UserRequests, Services!CreateUserRequests, CreateUserRequests,
      Services!PatchUserRequests, PatchUserRequests, Services!BootstrapRequests,
      BootstrapRequests, Services!Or, Or
<1>5. Services!AssetRequests = AssetRequests
  BY <1>1
  DEF Services!AssetRequests, AssetRequests, Services!CreateAssetRequests, CreateAssetRequests,
      Services!PatchAssetRequests, PatchAssetRequests, Services!DeleteAssetRequests,
      DeleteAssetRequests, Services!Or, Or
<1>6. Services!OrderRequests = OrderRequests
  BY <1>1
  DEF Services!OrderRequests, OrderRequests, Services!CreateOrderRequests, CreateOrderRequests,
      Services!PatchOrderRequests, PatchOrderRequests, Services!AssignOrderRequests,
      AssignOrderRequests, Services!StatusOrderRequests, StatusOrderRequests, Services!Or, Or
<1> QED
  BY <1>1, <1>2, <1>3, <1>4, <1>5, <1>6 DEF Services!AllRequests, AllRequests

\* What the services assume of the constants.
LEMMA ServicesAssumptions ==
  /\ Services!IdsAssumption /\ Services!RowsAssumption /\ Services!RequestsAssumption
  /\ Services!AnswersAssumption
<1>1. Services!IsFiniteSet(Users) = IsFiniteSet(Users)
  BY DEF Services!IsFiniteSet, IsFiniteSet
<1> QED
  BY <1>1, SameRows, IdsAssumption, RowsAssumption, RequestsAssumption, AnswersAssumption

-----------------------------------------------------------------------------
(***************************************************************************)
(* The building blocks of the services' actions, of a session that serves. *)
(***************************************************************************)
Domains ==
  /\ pc = [s \in Sessions |-> pc[s]] /\ req = [s \in Sessions |-> req[s]]
  /\ key = [s \in Sessions |-> key[s]] /\ held = [s \in Sessions |-> held[s]]

\* The locks of a session grow by one that nobody minds, or end.
Locks(s) ==
  \/ held' = held \/ (\E r, m : Lock(s, r, m))
  \/ held' = [held EXCEPT ![s] = {}]

\* A step of s that only s takes part in, and that does not make it a seed.
Within(s) ==
  /\ Domains' /\ ~Seeding(s)' /\ Locks(s)
  /\ \A t \in Sessions \ {s} :
       pc'[t] = pc[t] /\ req'[t] = req[t] /\ key'[t] = key[t] /\ held'[t] = held[t]

LEMMA ServedSame ==
  ASSUME Domains, NEW s \in Sessions, ~Seeding(s)
  PROVE  ServedPc[s] = pc[s] /\ ServedReq[s] = req[s] /\ ServedKey[s] = key[s]
           /\ ServedHeld[s] = held[s]
BY DEF ServedPc, ServedReq, ServedKey, ServedHeld

LEMMA ServedGrantable ==
  ASSUME Domains, NEW s \in Sessions, NEW r, NEW m, Grantable(s, r, m)
  PROVE  Services!Grantable(s, r, m)
BY DEF Services!Grantable, Grantable, ServedHeld, Services!Modes, Modes, Services!Conflict,
       Conflict

LEMMA ServedFresh ==
  ASSUME Domains, NEW table, NEW k \in Fresh(table), k \in Keys
  PROVE  k \in Services!Fresh(table)
BY IdsAssumption DEF Services!Fresh, Fresh, ServedKey

\* What a step within s leaves alone is left alone for the services too.
LEMMA ServedUnchanged ==
  ASSUME Domains, NEW s \in Sessions, ~Seeding(s), Within(s)
  PROVE  /\ pc' = pc => ServedPc' = ServedPc
         /\ req' = req => ServedReq' = ServedReq
         /\ key' = key => ServedKey' = ServedKey
         /\ held' = held => ServedHeld' = ServedHeld
BY DEF Domains, Within, ServedPc, ServedReq, ServedKey, ServedHeld, Seeding

LEMMA ServedChanged ==
  ASSUME Domains, NEW s \in Sessions, ~Seeding(s), Within(s)
  PROVE  /\ ServedPc' = [ServedPc EXCEPT ![s] = pc'[s]]
         /\ ServedReq' = [ServedReq EXCEPT ![s] = req'[s]]
         /\ ServedKey' = [ServedKey EXCEPT ![s] = key'[s]]
         /\ ServedHeld' = [ServedHeld EXCEPT ![s] = held'[s]]
BY DEF Domains, Within, ServedPc, ServedReq, ServedKey, ServedHeld, Seeding

LEMMA ServedGoto ==
  ASSUME Domains, NEW s \in Sessions, ~Seeding(s), Within(s), NEW x, Goto(s, x)
  PROVE  Services!Goto(s, x)
BY ServedChanged DEF Domains, Goto, Services!Goto

LEMMA ServedLock ==
  ASSUME Domains, NEW s \in Sessions, ~Seeding(s), Within(s), NEW r, NEW m, Lock(s, r, m)
  PROVE  Services!Lock(s, r, m)
<1>1. held'[s] = held[s] \cup {<<r, m>>} /\ ServedHeld[s] = held[s]
  BY ServedSame DEF Lock, Domains
<1> QED
  BY <1>1, ServedChanged, ServedGrantable DEF Lock, Services!Lock

LEMMA MoveWithin ==
  ASSUME Domains, NEW s \in Sessions, NEW x, x \notin DemoStatements, Goto(s, x), req' = req,
         key' = key \/ \E k : key' = [key EXCEPT ![s] = k],
         held' = held \/ \E r, m : Lock(s, r, m)
  PROVE  Within(s)
<1>1. pc' = [t \in Sessions |-> pc'[t]] /\ pc'[s] = x
  BY DEF Domains, Goto
<1>2. key' = [t \in Sessions |-> key'[t]] /\ \A t \in Sessions \ {s} : key'[t] = key[t]
  BY DEF Domains
<1>3. held' = [t \in Sessions |-> held'[t]] /\ \A t \in Sessions \ {s} : held'[t] = held[t]
  BY DEF Domains, Lock
<1>4. \A t \in Sessions \ {s} : pc'[t] = pc[t] /\ req'[t] = req[t]
  BY DEF Domains, Goto
<1> QED
  BY <1>1, <1>2, <1>3, <1>4 DEF Within, Locks, Domains, Seeding

LEMMA ServedEnd ==
  ASSUME Domains, NEW s \in Sessions, ~Seeding(s), NEW answer, End(s, answer)
  PROVE  Within(s) /\ Services!End(s, answer)
<1>1. Within(s)
  BY DEF Domains, End, Within, Locks, Seeding, DemoStatements
<1> QED
  BY <1>1, ServedChanged DEF Domains, End, Services!End

LEMMA ServedRollback ==
  ASSUME Domains, NEW s \in Sessions, ~Seeding(s), NEW answer, Rollback(s, answer)
  PROVE  Within(s) /\ Services!Rollback(s, answer)
BY ServedEnd DEF Rollback, Services!Rollback, tables, Services!tables

LEMMA ServedProceed ==
  ASSUME Domains, NEW s \in Sessions, ~Seeding(s), NEW x, x \notin DemoStatements, Proceed(s, x)
  PROVE  Within(s) /\ Services!Proceed(s, x)
<1>1. Within(s)
  BY MoveWithin DEF Proceed
<1> QED
  BY <1>1, ServedGoto, ServedUnchanged DEF Proceed, Services!Proceed, tables, Services!tables

LEMMA ServedHold ==
  ASSUME Domains, NEW s \in Sessions, ~Seeding(s), NEW k, NEW r, NEW x, x \notin DemoStatements,
         NEW lock, NEW m, Lock(s, lock, m), Hold(s, k, r, x)
  PROVE  Within(s) /\ Services!Lock(s, lock, m) /\ Services!Hold(s, k, r, x)
<1>1. Within(s)
  BY MoveWithin DEF Hold
<1>2. ServedKey' = [ServedKey EXCEPT ![s] = k]
  BY <1>1, ServedChanged DEF Hold, Domains
<1> QED
  BY <1>1, <1>2, ServedGoto, ServedLock, ServedUnchanged
  DEF Hold, Services!Hold, tables, Services!tables

LEMMA ServedWrite ==
  ASSUME Domains, NEW s \in Sessions, ~Seeding(s), NEW k, NEW r, NEW actions,
         Write(s, k, r, actions), held' = held \/ \E lock, m : Lock(s, lock, m)
  PROVE  Within(s) /\ Services!Write(s, k, r, actions)
<1>1. Within(s)
  BY MoveWithin DEF Write, DemoStatements
<1>2. ServedKey' = [ServedKey EXCEPT ![s] = k]
  BY <1>1, ServedChanged DEF Write, Domains
<1> QED
  BY <1>1, <1>2, ServedGoto, ServedUnchanged DEF Write, Services!Write, tables, Services!tables

-----------------------------------------------------------------------------
(***************************************************************************)
(* Every step of a request is one that the services may take.              *)
(***************************************************************************)
LEMMA ServedOp ==
  ASSUME Domains, Services!Typed, NEW s \in Sessions, ~Seeding(s), pc[s] # "idle"
  PROVE  req[s].op \in Services!Serving(pc[s]) /\ req[s].op \in Ops
<1>1. ServedPc[s] = pc[s] /\ ServedReq[s] = req[s]
  BY ServedSame
<1>2. req[s].op \in Services!Serving(pc[s])
  BY <1>1 DEF Services!Typed, Services!PhaseOK, Services!Phase
<1>3. Services!Serving(pc[s]) \subseteq Services!Ops
  BY DEF Services!Serving, Services!Ops, Services!UserOps, Services!AssetOps, Services!MutateOps
<1> QED
  BY <1>2, <1>3 DEF Services!Ops, Ops, Services!UserOps, UserOps, Services!AssetOps, AssetOps,
                    Services!MutateOps, MutateOps

LEMMA ServedCheck ==
  ASSUME NEW u, NEW permission
  PROVE  Services!Check(u, permission) = Check(u, permission)
BY DEF Services!Check, Check, Services!RolePermissions, RolePermissions, Services!Permissions,
       Permissions, Services!AdminOnlyPermissions, AdminOnlyPermissions,
       Services!SharedPermissions, SharedPermissions, Services!Ok, Ok

LEMMA ServedPermission == \A r : Services!Permission(r) = Permission(r)
BY DEF Services!Permission, Permission, Services!StatusPermission, StatusPermission

\* The requests of seeds are none of the services'.
Apart == \A s \in Sessions : Seeding(s) => req[s] = SeedRequest

LEMMA ServedRoom ==
  ASSUME Apart, NEW r, Room(r)
  PROVE  Services!Room(r)
<1>1. \A S : Services!Cardinality(S) = Cardinality(S)
  BY DEF Services!Cardinality, Cardinality
<1>2. ASSUME NEW ops, "SeedDemo" \notin ops
      PROVE  {t \in Sessions : req[t] # Null /\ req[t].op \in ops}
               = {t \in Sessions : ServedReq[t] # Null /\ ServedReq[t].op \in ops}
  BY <1>2 DEF Apart, SeedRequest, ServedReq
<1>3. ASSUME NEW table, NEW ops, "SeedDemo" \notin ops, RoomIn(table, ops, r)
      PROVE  Services!RoomIn(table, ops, r)
  BY <1>1, <1>2, <1>3 DEF Services!RoomIn, RoomIn
<1> QED
  BY <1>3 DEF Services!Room, Room

LEMMA ServedReceive ==
  ASSUME Domains, Apart, NEW s \in Sessions, ~Seeding(s), Receive(s)
  PROVE  Within(s) /\ Services!Receive(s)
<1>1. PICK r \in Requests : (r.actor # Null => users[r.actor] # Null)
                              /\ (Accept(s, r) \/ Refuse(s, r))
  BY DEF Receive
<1>2. Services!Refusals(r) = Refusals(r)
  BY ServedCheck, ServedPermission
  DEF Services!Refusals, Refusals, Services!Ok, Ok, Services!StatusTargets, StatusTargets
<1>3. Services!At(s, "idle")
  BY ServedSame DEF Receive, At, Services!At
<1>4. CASE Refuse(s, r)
  <2>1. Within(s)
    BY <1>4 DEF Refuse, Within, Locks, Domains, Seeding
  <2> QED
    BY <1>1, <1>2, <1>3, <1>4, <2>1, ServedUnchanged
    DEF Refuse, Services!Refuse, Services!Receive, tables, Services!tables
<1>5. CASE Accept(s, r)
  <2>1. Services!FirstStatement(r.op) = FirstStatement(r.op)
          /\ FirstStatement(r.op) \notin DemoStatements
    BY DEF Services!FirstStatement, FirstStatement, DemoStatements
  <2>2. Services!ToShare(r) = ToShare(r)
    BY DEF Services!ToShare, ToShare
  <2>3. pc'[s] = FirstStatement(r.op) /\ held' = held
    BY <1>5 DEF Accept, Goto, Domains
  <2>4. Within(s)
    BY <1>5, <2>1, <2>3 DEF Accept, Goto, Within, Locks, Domains, Seeding
  <2>5. ServedReq' = [ServedReq EXCEPT ![s] = r]
    BY <1>5, <2>4, ServedChanged DEF Accept, Domains
  <2>6. Services!Goto(s, FirstStatement(r.op))
    BY <1>5, <2>4, ServedGoto DEF Accept
  <2>7. Services!Room(r) /\ Services!Refusals(r) = {}
    BY <1>2, <1>5, ServedRoom DEF Accept
  <2>8. Services!Accept(s, r)
    BY <1>5, <2>1, <2>2, <2>4, <2>5, <2>6, <2>7, ServedUnchanged
    DEF Accept, Services!Accept, tables, Services!tables
  <2> QED
    BY <1>1, <1>3, <2>4, <2>8 DEF Services!Receive
<1> QED
  BY <1>1, <1>4, <1>5

LEMMA ServedShareUser ==
  ASSUME Domains, NEW s \in Sessions, ~Seeding(s), ShareUser(s)
  PROVE  Within(s) /\ Services!ShareUser(s)
<1>1. PICK u \in wait[s] :
        /\ \A v \in wait[s] : u <= v
        /\ wait' = [wait EXCEPT ![s] = @ \ {u}]
        /\ IF users[u] = Null THEN UNCHANGED held ELSE ShareLockUser(s, u)
        /\ IF wait[s] = {u} THEN Goto(s, "Check") ELSE UNCHANGED pc
  BY DEF ShareUser
<1>2. pc' = pc \/ Goto(s, "Check")
  BY <1>1
<1>3. held' = held \/ Lock(s, RowLock(u), "SHARE")
  BY <1>1 DEF ShareLockUser
<1>4. Within(s)
  <2>1. CASE pc' = pc
    <3>1. pc' = [t \in Sessions |-> pc'[t]] /\ ~Seeding(s)'
      BY <2>1 DEF Domains, Seeding
    <3>2. held' = [t \in Sessions |-> held'[t]] /\ \A t \in Sessions \ {s} : held'[t] = held[t]
      BY <1>3 DEF Domains, Lock
    <3> QED
      BY <1>3, <2>1, <3>1, <3>2 DEF ShareUser, Within, Locks, Domains
  <2>2. CASE Goto(s, "Check")
    BY <1>3, <2>2, MoveWithin DEF ShareUser, DemoStatements
  <2> QED
    BY <1>2, <2>1, <2>2
<1>5. IF users[u] = Null THEN UNCHANGED ServedHeld ELSE Services!ShareLockUser(s, u)
  BY <1>1, <1>4, ServedLock, ServedUnchanged
  DEF ShareLockUser, Services!ShareLockUser, RowLock, Services!RowLock
<1>6. IF wait[s] = {u} THEN Services!Goto(s, "Check") ELSE UNCHANGED ServedPc
  BY <1>1, <1>4, ServedGoto, ServedUnchanged
<1>7. Services!At(s, "ShareUser")
  BY ServedSame DEF ShareUser, At, Services!At
<1> QED
  BY <1>1, <1>4, <1>5, <1>6, <1>7, ServedUnchanged
  DEF ShareUser, Services!ShareUser, tables, Services!tables

LEMMA ServedCheckActor ==
  ASSUME Domains, Services!Typed, NEW s \in Sessions, ~Seeding(s), CheckActor(s)
  PROVE  Within(s) /\ Services!CheckActor(s)
<1> DEFINE answer == Check(req[s].actor, Permission(req[s]))
<1>1. Services!At(s, "Check") /\ ServedReq[s] = req[s] /\ pc[s] = "Check"
  BY ServedSame DEF CheckActor, At, Services!At
<1>2. Services!Check(req[s].actor, Services!Permission(req[s])) = answer
  BY ServedCheck, ServedPermission
<1>3. CASE answer # Ok /\ Rollback(s, answer)
  BY <1>1, <1>2, <1>3, ServedRollback DEF Services!CheckActor, Services!Ok, Ok
<1>4. CASE answer = Ok /\ Proceed(s, AfterCheck(req[s].op))
  <2>1. req[s].op \in Ops
    BY <1>1, ServedOp
  <2>2. AfterCheck(req[s].op) = Services!AfterCheck(req[s].op)
    BY DEF AfterCheck, Services!AfterCheck
  <2>3. req[s].op # "Bootstrap"
    BY <1>1, ServedOp DEF Services!Serving
  <2>4. AfterCheck(req[s].op) \notin DemoStatements
    BY <2>1, <2>3 DEF AfterCheck, DemoStatements, Ops, UserOps, AssetOps, MutateOps
  <2>5. Within(s) /\ Services!Proceed(s, AfterCheck(req[s].op))
    BY <1>4, <2>4, ServedProceed
  <2> QED
    BY <1>1, <1>2, <1>4, <2>2, <2>5 DEF Services!CheckActor, Services!Ok, Ok, Services!Proceed
<1> QED
  BY <1>3, <1>4 DEF CheckActor, Proceed

\* The statements that decide nothing but on the tables and on the session itself.
LEMMA ServedFacts ==
  ASSUME Domains, NEW s \in Sessions, ~Seeding(s)
  PROVE  /\ \A x : Services!At(s, x) <=> At(s, x)
         /\ ServedReq[s] = req[s] /\ ServedKey[s] = key[s] /\ ServedHeld[s] = held[s]
         /\ Services!Ok = Ok
BY ServedSame DEF At, Services!At, Services!Ok, Ok

LEMMA ServedLockUserAdministration ==
  ASSUME Domains, NEW s \in Sessions, ~Seeding(s), LockUserAdministration(s)
  PROVE  Within(s) /\ Services!LockUserAdministration(s)
<1> DEFINE x == IF req[s].op = "Bootstrap" THEN "HasAdministrator" ELSE "Check"
<1>1. Lock(s, Administration, AdministrationMode) /\ Goto(s, x)
  BY DEF LockUserAdministration
<1>2. Within(s)
  BY <1>1, MoveWithin DEF LockUserAdministration, DemoStatements
<1>3. Services!Lock(s, Services!Administration, Services!AdministrationMode)
  BY <1>1, <1>2, ServedLock
  DEF Administration, Services!Administration, AdministrationMode, Services!AdministrationMode
<1> QED
  BY <1>1, <1>2, <1>3, ServedGoto, ServedUnchanged, ServedFacts
  DEF LockUserAdministration, Services!LockUserAdministration, tables, Services!tables

LEMMA ServedHasAdministrator ==
  ASSUME Domains, NEW s \in Sessions, ~Seeding(s), HasAdministrator(s)
  PROVE  Within(s) /\ Services!HasAdministrator(s)
BY ServedRollback, ServedProceed, ServedFacts
DEF HasAdministrator, Services!HasAdministrator, AdministratorExists,
    Services!AdministratorExists, DemoStatements

LEMMA ServedInsertUser ==
  ASSUME Domains, Services!Typed, NEW s \in Sessions, ~Seeding(s), InsertUser(s)
  PROVE  Within(s) /\ Services!InsertUser(s)
<1>1. Services!EmailTaken(req[s].email, {}) <=> EmailTaken(req[s].email, {})
  BY DEF EmailTaken, Services!EmailTaken
<1>2. CASE EmailTaken(req[s].email, {}) /\ Rollback(s, "EMAIL_CONFLICT")
  BY <1>1, <1>2, ServedRollback, ServedFacts DEF InsertUser, Services!InsertUser
<1>3. CASE /\ ~EmailTaken(req[s].email, {})
           /\ \E u \in Fresh(users) :
                Write(s, u, NewUser(req[s]),
                      IF req[s].op = "Bootstrap" THEN <<"USER_BOOTSTRAPPED">>
                                                 ELSE <<"USER_CREATED">>)
           /\ UNCHANGED held
  <2>1. PICK u \in Fresh(users) :
          Write(s, u, NewUser(req[s]), IF req[s].op = "Bootstrap" THEN <<"USER_BOOTSTRAPPED">>
                                                                  ELSE <<"USER_CREATED">>)
    BY <1>3
  <2>2. users \in [Users -> UserRow \cup {Null}]
    BY SameRows DEF Services!Typed, Services!TypeOK
  <2>3. u \in Services!Fresh(users)
    BY <2>1, <2>2, ServedFresh DEF Fresh, Keys
  <2>4. Within(s) /\ Services!Write(s, u, NewUser(req[s]),
          IF req[s].op = "Bootstrap" THEN <<"USER_BOOTSTRAPPED">> ELSE <<"USER_CREATED">>)
    BY <1>3, <2>1, ServedWrite
  <2> QED
    BY <1>1, <1>3, <2>3, <2>4, ServedUnchanged, ServedFacts
    DEF InsertUser, Services!InsertUser, NewUser, Services!NewUser
<1> QED
  BY <1>2, <1>3 DEF InsertUser

LEMMA ServedPatchedUser ==
  /\ \A u, r : Services!PatchedUser(u, r) = PatchedUser(u, r)
  /\ \A new, old, r : Services!SameUser(new, old, r) <=> SameUser(new, old, r)
  /\ \A new, old : Services!Deactivates(new, old) <=> Deactivates(new, old)
<1>1. \A new, old : Services!Patched(new, old) = Patched(new, old)
  BY DEF Patched, Services!Patched
<1>2. \A u, r : Services!PatchedUser(u, r) = PatchedUser(u, r)
  BY <1>1 DEF PatchedUser, Services!PatchedUser
<1> QED
  BY <1>2 DEF SameUser, Services!SameUser, Deactivates, Services!Deactivates

LEMMA ServedLockUser ==
  ASSUME Domains, NEW s \in Sessions, ~Seeding(s), LockUser(s)
  PROVE  Within(s) /\ Services!LockUser(s)
<1> DEFINE id == req[s].id
           old == users[id]
           new == PatchedUser(old, req[s])
           x == CASE Deactivates(new, old)      -> "CountActiveAdmins"
                  [] SameUser(new, old, req[s]) -> "Commit"
                  [] OTHER                      -> "UpdateUser"
<1>1. CASE old = Null /\ Rollback(s, "USER_NOT_FOUND")
  BY <1>1, ServedRollback, ServedFacts DEF LockUser, Services!LockUser
<1>2. CASE old # Null /\ Lock(s, RowLock(id), LockUserMode) /\ Hold(s, id, old, x)
  <2>1. x \notin DemoStatements
    BY DEF DemoStatements
  <2> HIDE DEF x
  <2>2. Within(s) /\ Services!Lock(s, RowLock(id), LockUserMode) /\ Services!Hold(s, id, old, x)
    BY <1>2, <2>1, ServedHold
  <2>3. x = CASE Services!Deactivates(Services!PatchedUser(old, req[s]), old)
                   -> "CountActiveAdmins"
              [] Services!SameUser(Services!PatchedUser(old, req[s]), old, req[s]) -> "Commit"
              [] OTHER -> "UpdateUser"
    BY ServedPatchedUser DEF x
  <2>4. Services!RowLock(id) = RowLock(id) /\ Services!LockUserMode = LockUserMode
    BY DEF Services!RowLock, RowLock, Services!LockUserMode, LockUserMode
  <2> QED
    BY <1>2, <2>2, <2>3, <2>4, ServedFacts DEF LockUser, Services!LockUser
<1> QED
  BY <1>1, <1>2 DEF LockUser

LEMMA ServedCountActiveAdmins ==
  ASSUME Domains, NEW s \in Sessions, ~Seeding(s), CountActiveAdmins(s)
  PROVE  Within(s) /\ Services!CountActiveAdmins(s)
<1>1. Within(s)
  BY MoveWithin DEF CountActiveAdmins, DemoStatements
<1>2. Services!Cardinality(Services!ActiveAdmins) = Cardinality(ActiveAdmins)
  BY DEF Services!Cardinality, Cardinality, Services!ActiveAdmins, ActiveAdmins
<1> QED
  BY <1>1, <1>2, ServedGoto, ServedUnchanged, ServedFacts
  DEF CountActiveAdmins, Services!CountActiveAdmins, tables, Services!tables

LEMMA ServedUserHasActiveOrders ==
  ASSUME Domains, NEW s \in Sessions, ~Seeding(s), UserHasActiveOrders(s)
  PROVE  Within(s) /\ Services!UserHasActiveOrders(s)
<1> DEFINE id == req[s].id
           guard == GuardDeactivation(req[s].actor = id, row[s].role, seen[s],
                                      HasActiveOrders(id))
<1>1. Services!HasActiveOrders(id) = HasActiveOrders(id)
  BY DEF Services!HasActiveOrders, HasActiveOrders, Services!HoldsAssignee, HoldsAssignee
<1>2. Services!GuardDeactivation(req[s].actor = id, row[s].role, seen[s],
                                 Services!HasActiveOrders(id)) = guard
  BY <1>1 DEF Services!GuardDeactivation, GuardDeactivation, Services!Ok, Ok
<1>3. CASE guard # Ok /\ Rollback(s, guard)
  BY <1>2, <1>3, ServedRollback, ServedFacts
  DEF UserHasActiveOrders, Services!UserHasActiveOrders
<1>4. CASE guard = Ok /\ Proceed(s, "UpdateUser")
  BY <1>2, <1>4, ServedProceed, ServedFacts
  DEF UserHasActiveOrders, Services!UserHasActiveOrders, DemoStatements
<1> QED
  BY <1>3, <1>4 DEF UserHasActiveOrders

LEMMA ServedUpdateUser ==
  ASSUME Domains, NEW s \in Sessions, ~Seeding(s), UpdateUser(s)
  PROVE  Within(s) /\ Services!UpdateUser(s)
<1> DEFINE new == PatchedUser(row[s], req[s])
<1>1. Services!EmailTaken(new.email, {key[s]}) <=> EmailTaken(new.email, {key[s]})
  BY DEF EmailTaken, Services!EmailTaken
<1>2. Services!PatchedUser(row[s], req[s]) = new
  BY ServedPatchedUser
<1>3. CASE EmailTaken(new.email, {key[s]}) /\ Rollback(s, "EMAIL_CONFLICT")
  BY <1>1, <1>2, <1>3, ServedRollback, ServedFacts DEF UpdateUser, Services!UpdateUser
<1>4. CASE /\ ~EmailTaken(new.email, {key[s]})
           /\ Write(s, key[s], new, <<"USER_UPDATED">>) /\ UNCHANGED held
  <2>1. Within(s) /\ Services!Write(s, key[s], new, <<"USER_UPDATED">>)
    BY <1>4, ServedWrite
  <2> QED
    BY <1>1, <1>2, <1>4, <2>1, ServedUnchanged, ServedFacts DEF UpdateUser, Services!UpdateUser
<1> QED
  BY <1>3, <1>4 DEF UpdateUser

LEMMA ServedUserStep ==
  ASSUME Domains, Services!Typed, NEW s \in Sessions, ~Seeding(s), UserStep(s)
  PROVE  Within(s) /\ Services!UserStep(s)
BY ServedLockUserAdministration, ServedHasAdministrator, ServedInsertUser, ServedLockUser,
   ServedCountActiveAdmins, ServedUserHasActiveOrders, ServedUpdateUser
DEF UserStep, Services!UserStep

-----------------------------------------------------------------------------
LEMMA ServedInsertAsset ==
  ASSUME Domains, Services!Typed, NEW s \in Sessions, ~Seeding(s), InsertAsset(s)
  PROVE  Within(s) /\ Services!InsertAsset(s)
<1> DEFINE code == req[s].code
<1>1. Services!CodeTaken(code) <=> CodeTaken(code)
  BY DEF CodeTaken, Services!CodeTaken
<1>2. Services!Grantable(s, Services!CodeLock(code), "UPDATE")
  BY ServedGrantable DEF InsertAsset, CodeLock, Services!CodeLock
<1>3. CASE CodeTaken(code) /\ Rollback(s, "ASSET_CODE_CONFLICT")
  BY <1>1, <1>2, <1>3, ServedRollback, ServedFacts DEF InsertAsset, Services!InsertAsset
<1>4. CASE /\ ~CodeTaken(code) /\ Lock(s, CodeLock(code), "UPDATE")
           /\ \E a \in Fresh(assets) : Write(s, a, NewAsset(req[s]), <<"ASSET_CREATED">>)
  <2>1. PICK a \in Fresh(assets) : Write(s, a, NewAsset(req[s]), <<"ASSET_CREATED">>)
    BY <1>4
  <2>2. assets \in [Assets -> AssetRow \cup {Null, Gone}]
    BY SameRows DEF Services!Typed, Services!TypeOK
  <2>3. a \in Services!Fresh(assets)
    BY <2>1, <2>2, ServedFresh DEF Fresh, Keys
  <2>4. Within(s) /\ Services!Write(s, a, NewAsset(req[s]), <<"ASSET_CREATED">>)
    BY <1>4, <2>1, ServedWrite
  <2>5. Services!Lock(s, Services!CodeLock(code), "UPDATE")
    BY <1>4, <2>4, ServedLock DEF CodeLock, Services!CodeLock
  <2> QED
    BY <1>1, <1>2, <1>4, <2>3, <2>4, <2>5, ServedFacts
    DEF InsertAsset, Services!InsertAsset, NewAsset, Services!NewAsset
<1> QED
  BY <1>3, <1>4 DEF InsertAsset

LEMMA ServedLockAsset ==
  ASSUME Domains, NEW s \in Sessions, ~Seeding(s), LockAsset(s)
  PROVE  Within(s) /\ Services!LockAsset(s)
<1> DEFINE id == req[s].id
           x == IF req[s].op = "DeleteAsset" THEN "AssetHasOrders" ELSE "PatchAsset"
<1>1. CASE assets[id] \in {Null, Gone} /\ Rollback(s, "ASSET_NOT_FOUND")
  BY <1>1, ServedRollback, ServedFacts DEF LockAsset, Services!LockAsset
<1>2. CASE /\ assets[id] \notin {Null, Gone}
           /\ Lock(s, RowLock(id), LockAssetMode) /\ Hold(s, id, assets[id], x)
  <2>1. x \notin DemoStatements
    BY DEF DemoStatements
  <2>2. /\ Within(s) /\ Services!Lock(s, RowLock(id), LockAssetMode)
        /\ Services!Hold(s, id, assets[id], x)
    BY <1>2, <2>1, ServedHold
  <2> QED
    BY <1>2, <2>2, ServedFacts
    DEF LockAsset, Services!LockAsset, RowLock, Services!RowLock, LockAssetMode,
        Services!LockAssetMode
<1> QED
  BY <1>1, <1>2 DEF LockAsset

LEMMA ServedPatchedAsset == \A a, r : Services!PatchedAsset(a, r) = PatchedAsset(a, r)
BY DEF PatchedAsset, Services!PatchedAsset, Patched, Services!Patched

LEMMA ServedWriteAsset ==
  ASSUME Domains, NEW s \in Sessions, ~Seeding(s), WriteAsset(s)
  PROVE  Within(s) /\ Services!WriteAsset(s)
<1>1. Within(s) /\ Services!Write(s, key[s], PatchedAsset(row[s], req[s]), <<"ASSET_UPDATED">>)
  BY ServedWrite DEF WriteAsset
<1> QED
  BY <1>1, ServedPatchedAsset, ServedUnchanged, ServedFacts DEF WriteAsset, Services!WriteAsset

LEMMA ServedPatchAsset ==
  ASSUME Domains, NEW s \in Sessions, ~Seeding(s), PatchAsset(s)
  PROVE  Within(s) /\ Services!PatchAsset(s)
<1> DEFINE new == PatchedAsset(row[s], req[s])
<1>1. Services!PatchedAsset(row[s], req[s]) = new
  BY ServedPatchedAsset
<1>2. \A old, status : Services!Withdraws(old, status) <=> Withdraws(old, status)
  BY DEF Withdraws, Services!Withdraws
<1>3. CASE new = row[s] /\ Proceed(s, "Commit")
  BY <1>1, <1>3, ServedProceed, ServedFacts DEF PatchAsset, Services!PatchAsset, DemoStatements
<1>4. CASE new # row[s] /\ Withdraws(row[s].status, new.status)
             /\ Proceed(s, "AssetHasOpenOrders")
  BY <1>1, <1>2, <1>4, ServedProceed, ServedFacts
  DEF PatchAsset, Services!PatchAsset, DemoStatements
<1>5. CASE new # row[s] /\ ~Withdraws(row[s].status, new.status) /\ WriteAsset(s)
  BY <1>1, <1>2, <1>5, ServedWriteAsset, ServedFacts DEF PatchAsset, Services!PatchAsset
<1> QED
  BY <1>3, <1>4, <1>5 DEF PatchAsset

LEMMA ServedReferences ==
  ASSUME NEW a
  PROVE  /\ Services!HasOpenOrders(a) <=> HasOpenOrders(a)
         /\ Services!Referenced(a) <=> Referenced(a)
         /\ Services!HasOrders(a) <=> HasOrders(a)
BY DEF HasOpenOrders, Services!HasOpenOrders, HoldsAsset, Services!HoldsAsset, Referenced,
       Services!Referenced, HasOrders, Services!HasOrders

LEMMA ServedAssetHasOpenOrders ==
  ASSUME Domains, NEW s \in Sessions, ~Seeding(s), AssetHasOpenOrders(s)
  PROVE  Within(s) /\ Services!AssetHasOpenOrders(s)
<1>1. CASE HasOpenOrders(key[s]) /\ Rollback(s, "ASSET_HAS_OPEN_WORK_ORDERS")
  BY <1>1, ServedReferences, ServedRollback, ServedFacts
  DEF AssetHasOpenOrders, Services!AssetHasOpenOrders
<1>2. CASE ~HasOpenOrders(key[s]) /\ WriteAsset(s)
  BY <1>2, ServedReferences, ServedWriteAsset, ServedFacts
  DEF AssetHasOpenOrders, Services!AssetHasOpenOrders
<1> QED
  BY <1>1, <1>2 DEF AssetHasOpenOrders

LEMMA ServedAssetHasOrders ==
  ASSUME Domains, NEW s \in Sessions, ~Seeding(s), AssetHasOrders(s)
  PROVE  Within(s) /\ Services!AssetHasOrders(s)
<1>1. CASE HasOrders(key[s]) /\ Rollback(s, "ASSET_IN_USE")
  BY <1>1, ServedReferences, ServedRollback, ServedFacts
  DEF AssetHasOrders, Services!AssetHasOrders
<1>2. CASE ~HasOrders(key[s]) /\ Proceed(s, "DeleteAsset")
  BY <1>2, ServedReferences, ServedProceed, ServedFacts
  DEF AssetHasOrders, Services!AssetHasOrders, DemoStatements
<1> QED
  BY <1>1, <1>2 DEF AssetHasOrders

LEMMA ServedDeleteAsset ==
  ASSUME Domains, NEW s \in Sessions, ~Seeding(s), DeleteAsset(s)
  PROVE  Within(s) /\ Services!DeleteAsset(s)
<1>1. CASE Referenced(key[s]) /\ Rollback(s, "FOREIGN_KEY_VIOLATION")
  BY <1>1, ServedReferences, ServedRollback, ServedFacts DEF DeleteAsset, Services!DeleteAsset
<1>2. CASE /\ ~Referenced(key[s]) /\ Lock(s, CodeLock(row[s].code), "UPDATE")
           /\ Write(s, key[s], Gone, <<"ASSET_DELETED">>)
  <2>1. Within(s) /\ Services!Write(s, key[s], Gone, <<"ASSET_DELETED">>)
    BY <1>2, ServedWrite
  <2>2. Services!Lock(s, Services!CodeLock(row[s].code), "UPDATE")
    BY <1>2, <2>1, ServedLock DEF CodeLock, Services!CodeLock
  <2> QED
    BY <1>2, <2>1, <2>2, ServedReferences, ServedFacts DEF DeleteAsset, Services!DeleteAsset
<1> QED
  BY <1>1, <1>2 DEF DeleteAsset

LEMMA ServedAssetStep ==
  ASSUME Domains, Services!Typed, NEW s \in Sessions, ~Seeding(s), AssetStep(s)
  PROVE  Within(s) /\ Services!AssetStep(s)
BY ServedInsertAsset, ServedLockAsset, ServedPatchAsset, ServedAssetHasOpenOrders,
   ServedAssetHasOrders, ServedDeleteAsset
DEF AssetStep, Services!AssetStep

-----------------------------------------------------------------------------
LEMMA ServedShareAsset ==
  ASSUME Domains, NEW s \in Sessions, ~Seeding(s), ShareAsset(s)
  PROVE  Within(s) /\ Services!ShareAsset(s)
<1> DEFINE a == req[s].asset
<1>1. Services!AcceptsOrders(assets[a].status) <=> AcceptsOrders(assets[a].status)
  BY DEF AcceptsOrders, Services!AcceptsOrders
<1>2. CASE assets[a] \in {Null, Gone} /\ Rollback(s, "ASSET_NOT_FOUND")
  BY <1>2, ServedRollback, ServedFacts DEF ShareAsset, Services!ShareAsset
<1>3. CASE /\ assets[a] \notin {Null, Gone} /\ ~AcceptsOrders(assets[a].status)
           /\ Grantable(s, RowLock(a), "SHARE") /\ Rollback(s, "ASSET_NOT_AVAILABLE")
  <2>1. Services!Grantable(s, Services!RowLock(a), "SHARE")
    BY <1>3, ServedGrantable DEF RowLock, Services!RowLock
  <2> QED
    BY <1>1, <1>3, <2>1, ServedRollback, ServedFacts DEF ShareAsset, Services!ShareAsset
<1>4. CASE /\ assets[a] \notin {Null, Gone} /\ AcceptsOrders(assets[a].status)
           /\ LockSharedAsset(s, a) /\ Goto(s, "InsertWorkOrder")
           /\ UNCHANGED <<tables, req, key, wait, row, next, acts, logged, seen, reply>>
  <2>1. Lock(s, RowLock(a), "SHARE")
    BY <1>4 DEF LockSharedAsset
  <2>2. Within(s)
    BY <1>4, <2>1, MoveWithin DEF DemoStatements
  <2>3. Services!LockSharedAsset(s, a) /\ Services!Goto(s, "InsertWorkOrder")
    BY <1>4, <2>1, <2>2, ServedLock, ServedGoto
    DEF Services!LockSharedAsset, RowLock, Services!RowLock
  <2> QED
    BY <1>1, <1>4, <2>2, <2>3, ServedUnchanged, ServedFacts
    DEF ShareAsset, Services!ShareAsset, tables, Services!tables
<1> QED
  BY <1>2, <1>3, <1>4 DEF ShareAsset

LEMMA ServedInsertWorkOrder ==
  ASSUME Domains, Services!Typed, NEW s \in Sessions, ~Seeding(s), InsertWorkOrder(s)
  PROVE  Within(s) /\ Services!InsertWorkOrder(s)
<1>1. PICK o \in Fresh(orders) : Write(s, o, NewOrder(req[s]), <<"WORK_ORDER_CREATED">>)
  BY DEF InsertWorkOrder
<1>2. orders \in [Orders -> OrderRow \cup {Null}]
  BY SameRows DEF Services!Typed, Services!TypeOK
<1>3. o \in Services!Fresh(orders)
  BY <1>1, <1>2, ServedFresh DEF Fresh, Keys
<1>4. Within(s) /\ Services!Write(s, o, NewOrder(req[s]), <<"WORK_ORDER_CREATED">>)
  BY <1>1, ServedWrite DEF InsertWorkOrder
<1> QED
  BY <1>3, <1>4, ServedUnchanged, ServedFacts
  DEF InsertWorkOrder, Services!InsertWorkOrder, NewOrder, Services!NewOrder

LEMMA ServedLockWorkOrder ==
  ASSUME Domains, NEW s \in Sessions, ~Seeding(s), LockWorkOrder(s)
  PROVE  Within(s) /\ Services!LockWorkOrder(s)
<1> DEFINE id == req[s].id
<1>1. CASE orders[id] = Null /\ Rollback(s, "WORK_ORDER_NOT_FOUND")
  BY <1>1, ServedRollback, ServedFacts DEF LockWorkOrder, Services!LockWorkOrder
<1>2. CASE /\ orders[id] # Null /\ Lock(s, RowLock(id), LockWorkOrderMode)
           /\ Hold(s, id, orders[id], "Change")
  <2>1. /\ Within(s) /\ Services!Lock(s, RowLock(id), LockWorkOrderMode)
        /\ Services!Hold(s, id, orders[id], "Change")
    BY <1>2, ServedHold DEF DemoStatements
  <2> QED
    BY <1>2, <2>1, ServedFacts
    DEF LockWorkOrder, Services!LockWorkOrder, RowLock, Services!RowLock, LockWorkOrderMode,
        Services!LockWorkOrderMode
<1> QED
  BY <1>1, <1>2 DEF LockWorkOrder

LEMMA ServedChangePatch ==
  ASSUME Domains, NEW s \in Sessions, ~Seeding(s), ChangePatch(s)
  PROVE  Within(s) /\ Services!ChangePatch(s)
<1> DEFINE new == PatchedOrder(row[s], req[s])
<1>1. Services!PatchedOrder(row[s], req[s]) = new
  BY DEF PatchedOrder, Services!PatchedOrder, Patched, Services!Patched
<1>2. CASE new = row[s] /\ Proceed(s, "Commit")
  BY <1>1, <1>2, ServedProceed, ServedFacts
  DEF ChangePatch, Services!ChangePatch, DemoStatements
<1>3. CASE new # row[s] /\ Write(s, key[s], new, <<"WORK_ORDER_UPDATED">>) /\ UNCHANGED held
  <2>1. Within(s) /\ Services!Write(s, key[s], new, <<"WORK_ORDER_UPDATED">>)
    BY <1>3, ServedWrite
  <2> QED
    BY <1>1, <1>3, <2>1, ServedUnchanged, ServedFacts DEF ChangePatch, Services!ChangePatch
<1> QED
  BY <1>2, <1>3 DEF ChangePatch

LEMMA ServedChangeStatus ==
  ASSUME Domains, NEW s \in Sessions, ~Seeding(s), ChangeStatus(s)
  PROVE  Within(s) /\ Services!ChangeStatus(s)
<1> DEFINE answer == Transition(row[s].status, req[s].target)
           new == MovedOrder(row[s], req[s].target)
<1>1. Services!Transition(row[s].status, req[s].target) = answer
        /\ Services!MovedOrder(row[s], req[s].target) = new
  BY DEF Transition, Services!Transition, Terminal, Services!Terminal, Ok, Services!Ok,
         MovedOrder, Services!MovedOrder
<1>2. CASE answer # Ok /\ Rollback(s, answer)
  BY <1>1, <1>2, ServedRollback, ServedFacts DEF ChangeStatus, Services!ChangeStatus
<1>3. CASE answer = Ok /\ Write(s, key[s], new, <<"WORK_ORDER_STATUS_CHANGED">>)
             /\ UNCHANGED held
  <2>1. Within(s) /\ Services!Write(s, key[s], new, <<"WORK_ORDER_STATUS_CHANGED">>)
    BY <1>3, ServedWrite
  <2> QED
    BY <1>1, <1>3, <2>1, ServedUnchanged, ServedFacts DEF ChangeStatus, Services!ChangeStatus
<1> QED
  BY <1>2, <1>3 DEF ChangeStatus

LEMMA ServedChange ==
  ASSUME Domains, NEW s \in Sessions, ~Seeding(s), Change(s)
  PROVE  Within(s) /\ Services!Change(s)
<1>1. Services!MutableBy(s) = MutableBy(s)
  BY ServedFacts
  DEF MutableBy, Services!MutableBy, Mutable, Services!Mutable, AssignedScope,
      Services!AssignedScope, Terminal, Services!Terminal
<1>2. CASE MutableBy(s) # Ok /\ Rollback(s, MutableBy(s))
  BY <1>1, <1>2, ServedRollback, ServedFacts DEF Change, Services!Change
<1>3. CASE MutableBy(s) = Ok /\ (ChangePatch(s) \/ ChangeStatus(s))
  BY <1>1, <1>3, ServedChangePatch, ServedChangeStatus, ServedFacts DEF Change, Services!Change
<1>4. CASE MutableBy(s) = Ok /\ ChangeAssign(s)
  <2>1. Services!Assignable(row[s].status) <=> Assignable(row[s].status)
    BY DEF Assignable, Services!Assignable
  <2>2. Within(s) /\ Services!ChangeAssign(s)
    BY <1>4, <2>1, ServedRollback, ServedProceed, ServedFacts
    DEF ChangeAssign, Services!ChangeAssign, DemoStatements
  <2> QED
    BY <1>1, <1>4, <2>2, ServedFacts DEF Change, Services!Change
<1> QED
  BY <1>2, <1>3, <1>4 DEF Change

LEMMA ServedShareTarget ==
  ASSUME Domains, NEW s \in Sessions, ~Seeding(s), ShareTarget(s)
  PROVE  Within(s) /\ Services!ShareTarget(s)
<1> DEFINE u == req[s].target
<1>1. Services!ValidAssignee(u) <=> ValidAssignee(u)
  BY DEF ValidAssignee, Services!ValidAssignee
<1>2. CASE users[u] = Null /\ Rollback(s, "INVALID_ASSIGNEE")
  BY <1>2, ServedRollback, ServedFacts DEF ShareTarget, Services!ShareTarget
<1>3. CASE /\ users[u] # Null /\ ~ValidAssignee(u) /\ Grantable(s, RowLock(u), "SHARE")
           /\ Rollback(s, "INVALID_ASSIGNEE")
  <2>1. Services!Grantable(s, Services!RowLock(u), "SHARE")
    BY <1>3, ServedGrantable DEF RowLock, Services!RowLock
  <2> QED
    BY <1>1, <1>3, <2>1, ServedRollback, ServedFacts DEF ShareTarget, Services!ShareTarget
<1>4. CASE /\ users[u] # Null /\ ValidAssignee(u) /\ ShareLockUser(s, u)
           /\ Write(s, key[s], AssignedOrder(row[s], u), AssignActions(row[s].status))
  <2>1. Lock(s, RowLock(u), "SHARE")
    BY <1>4 DEF ShareLockUser
  <2>2. /\ Within(s)
        /\ Services!Write(s, key[s], AssignedOrder(row[s], u), AssignActions(row[s].status))
    BY <1>4, <2>1, ServedWrite
  <2>3. Services!ShareLockUser(s, u)
    BY <2>1, <2>2, ServedLock DEF Services!ShareLockUser, RowLock, Services!RowLock
  <2>4. Services!AssignedOrder(row[s], u) = AssignedOrder(row[s], u)
          /\ Services!AssignActions(row[s].status) = AssignActions(row[s].status)
    BY DEF AssignedOrder, Services!AssignedOrder, AssignActions, Services!AssignActions
  <2> QED
    BY <1>1, <1>4, <2>2, <2>3, <2>4, ServedFacts DEF ShareTarget, Services!ShareTarget
<1> QED
  BY <1>2, <1>3, <1>4 DEF ShareTarget

LEMMA ServedWorkOrderStep ==
  ASSUME Domains, Services!Typed, NEW s \in Sessions, ~Seeding(s), WorkOrderStep(s)
  PROVE  Within(s) /\ Services!WorkOrderStep(s)
BY ServedShareAsset, ServedInsertWorkOrder, ServedLockWorkOrder, ServedChange, ServedShareTarget
DEF WorkOrderStep, Services!WorkOrderStep

-----------------------------------------------------------------------------
LEMMA ServedInsertAudit ==
  ASSUME Domains, NEW s \in Sessions, ~Seeding(s), InsertAudit(s)
  PROVE  Within(s) /\ Services!InsertAudit(s)
<1> DEFINE x == IF logged[s] + 1 < AuditsToInsert(s) THEN "InsertAudit" ELSE "Commit"
           actor == req[s].actor
<1>1. Goto(s, x) /\ x \notin DemoStatements
  BY DEF InsertAudit, DemoStatements
<1>2. held' = held \/ Lock(s, RowLock(actor), "KEY SHARE")
  BY DEF InsertAudit
<1>3. Within(s)
  BY <1>1, <1>2, MoveWithin DEF InsertAudit
<1>4. IF actor = Null THEN UNCHANGED ServedHeld
                      ELSE Services!Lock(s, Services!RowLock(actor), "KEY SHARE")
  BY <1>3, ServedUnchanged, ServedLock DEF InsertAudit, RowLock, Services!RowLock
<1>5. Services!AuditsToInsert(s) = AuditsToInsert(s)
  BY DEF AuditsToInsert, Services!AuditsToInsert
<1>6. Services!Goto(s, x)
  BY <1>1, <1>3, ServedGoto
<1> QED
  BY <1>3, <1>4, <1>5, <1>6, ServedUnchanged, ServedFacts
  DEF InsertAudit, Services!InsertAudit, tables, Services!tables

LEMMA ServedApply ==
  ASSUME Domains, NEW s \in Sessions, ~Seeding(s)
  PROVE  Services!Apply(s) <=> Apply(s)
<1>1. Services!NewValue(s) = NewValue(s)
  BY ServedFacts
  DEF NewValue, Services!NewValue, Snapshot, Services!Snapshot, UserSnapshot,
      Services!UserSnapshot
<1> QED
  BY <1>1, ServedFacts DEF Apply, Services!Apply

LEMMA ServedClose ==
  ASSUME Domains, NEW s \in Sessions, ~Seeding(s),
         Commit(s) \/ Resolve(s) \/ CommitLost(s) \/ Abort(s)
  PROVE  /\ Within(s)
         /\ Services!Commit(s) \/ Services!Resolve(s) \/ Services!CommitLost(s)
              \/ Services!Abort(s)
<1>1. CASE Commit(s)
  BY <1>1, ServedEnd, ServedApply, ServedFacts DEF Commit, Services!Commit
<1>2. CASE Resolve(s)
  BY <1>2, ServedEnd, ServedApply, ServedFacts
  DEF Resolve, Services!Resolve, tables, Services!tables
<1>3. CASE CommitLost(s)
  <2>1. Within(s)
    BY <1>3, MoveWithin DEF CommitLost, DemoStatements
  <2> QED
    BY <1>3, <2>1, ServedGoto, ServedUnchanged, ServedFacts
    DEF CommitLost, Services!CommitLost, tables, Services!tables
<1>4. CASE Abort(s)
  BY <1>4, ServedRollback, ServedSame DEF Abort, Services!Abort
<1> QED
  BY <1>1, <1>2, <1>3, <1>4

\* A step of a request, with seeds or without, is a step of the services.
LEMMA ServeIsNext ==
  ASSUME Domains, Apart, Services!Typed, NEW s \in Sessions, Serve(s)
  PROVE  /\ Within(s) /\ ~Seeding(s) /\ UNCHANGED seeds
         /\ Services!Receive(s) \/ Services!Step(s) \/ Services!CommitLost(s)
              \/ Services!Abort(s)
<1>1. ~Seeding(s) /\ UNCHANGED seeds
  BY DEF Serve, Seeding
<1>2. CASE Receive(s)
  BY <1>1, <1>2, ServedReceive
<1>3. CASE ShareUser(s) \/ CheckActor(s)
  BY <1>1, <1>3, ServedShareUser, ServedCheckActor DEF Services!Step
<1>4. CASE UserStep(s) \/ AssetStep(s) \/ WorkOrderStep(s)
  BY <1>1, <1>4, ServedUserStep, ServedAssetStep, ServedWorkOrderStep DEF Services!Step
<1>5. CASE InsertAudit(s) \/ Commit(s) \/ Resolve(s) \/ CommitLost(s) \/ Abort(s)
  BY <1>1, <1>5, ServedInsertAudit, ServedClose DEF Services!Step
<1> QED
  BY <1>1, <1>2, <1>3, <1>4, <1>5 DEF Serve, Step

-----------------------------------------------------------------------------
(***************************************************************************)
(* The inductive invariant of the seeds.  From the administration lock to  *)
(* the end, nobody else changes an account: what a seed has looked up      *)
(* stays so, and what it has inserted is what was missing.                 *)
(***************************************************************************)
Working(s) == Seeding(s) /\ pc[s] # "LockDemo"

AdministrationOnce ==
  \A s, t \in Sessions :
    <<Administration, "UPDATE">> \in held[s] /\ <<Administration, "UPDATE">> \in held[t] => s = t

\* The demo accounts that a seed has dealt with.
Done(s) == {i \in 1..3 : i < turn[s] \/ (i = turn[s] /\ pc[s] = "AuditDemo")}

Inserted(s, i) == \E u \in DOMAIN made[s] : made[s][u] = Demo[i]

Found(i) == \E u \in Users : users[u] # Null /\ users[u].email = Demo[i].email /\ Fits(u, Demo[i])

AddressFree(i) == \A u \in Users : users[u] # Null => users[u].email # Demo[i].email

Unbegun(s) == turn[s] = 1 /\ admin[s] = Null /\ made[s] = Nothing /\ audited[s] = Nothing

\* Where a seed is.
Place(s) ==
  /\ turn[s] \in 1..4 /\ (turn[s] = 4 <=> pc[s] \in {"CommitDemo", "LimboDemo"})
  /\ pc[s] = "DemoAdministrator" => turn[s] = 1
  /\ IF pc[s] = "AuditDemo" THEN key[s] \in DOMAIN made[s] /\ made[s][key[s]] = Demo[turn[s]]
                            ELSE key[s] = Null

\* The rows it has inserted.
MadeRows(s) ==
  /\ DOMAIN made[s] \subseteq Users
  /\ \A u \in DOMAIN made[s] : users[u] = Null /\ \E i \in Done(s) : made[s][u] = Demo[i]
  /\ \A u, v \in DOMAIN made[s] : made[s][u] = made[s][v] => u = v

\* What it has looked up.
Lookups(s) ==
  /\ \A i \in Done(s) : Inserted(s, i) \/ Found(i)
  /\ \A i \in 1..3 : Inserted(s, i) => AddressFree(i)
  /\ pc[s] \in {"DemoAdministrator", "InsertDemo"} => AddressFree(turn[s])
  /\ Inserted(s, 1) \/ (pc[s] = "InsertDemo" /\ turn[s] = 1) => ~AdministratorExists

\* The administrator that creates the others, and the audit rows.
Actors(s) ==
  /\ turn[s] > 1 =>
       /\ admin[s] \in Users
       /\ IF admin[s] \in DOMAIN made[s] THEN made[s][admin[s]] = Demo[1]
          ELSE users[admin[s]] # Null /\ users[admin[s]].role = "ADMIN"
  /\ DOMAIN audited[s] = DOMAIN made[s] \ {key[s]}
  /\ \A u \in DOMAIN audited[s] :
       audited[s][u] = [actor |-> IF made[s][u] = Demo[1] THEN Null ELSE admin[s],
                        value |-> UserSnapshot(made[s][u])]

Story(s) ==
  /\ ~Working(s) => Unbegun(s)
  /\ Working(s) => /\ <<Administration, "UPDATE">> \in held[s]
                   /\ Place(s) /\ MadeRows(s) /\ Lookups(s) /\ Actors(s)
  /\ pc[s] = "LockDemo" => key[s] = Null
  /\ Seeding(s) => reply[s] \in {Null, "WRITE_OUTCOME_UNKNOWN"}

Notes ==
  /\ turn = [s \in Sessions |-> turn[s]] /\ admin = [s \in Sessions |-> admin[s]]
  /\ made = [s \in Sessions |-> made[s]] /\ audited = [s \in Sessions |-> audited[s]]

SeedSound ==
  /\ Domains /\ Apart /\ Notes /\ AdministrationOnce /\ Services!Sound
  /\ \A s \in Sessions : Story(s)

-----------------------------------------------------------------------------
\* The demo accounts are accounts, of three roles under three addresses.
LEMMA DemoRows ==
  /\ DOMAIN Demo = 1..3 /\ Len(Demo) = 3
  /\ \A i \in 1..3 : Demo[i] \in UserRow /\ Demo[i] # Null /\ Demo[i].active
  /\ Demo[1].role = "ADMIN" /\ Demo[2].role = "MANAGER" /\ Demo[3].role = "TECHNICIAN"
  /\ \A i, j \in 1..3 : Demo[i].email = Demo[j].email => i = j
<1>1. DOMAIN Demo = 1..3 /\ Len(Demo) = 3
  BY DEF Demo
<1>2. ASSUME NEW role \in Roles, NEW i \in 1..3,
             role = <<"ADMIN", "MANAGER", "TECHNICIAN">>[i]
      PROVE  Demo[i] = [role |-> role, active |-> TRUE, email |-> DemoEmail[role],
                        name |-> "demo", password |-> "demo"]
  BY <1>2 DEF Demo
<1>3. /\ "ADMIN" \in Roles /\ "MANAGER" \in Roles /\ "TECHNICIAN" \in Roles
      /\ 1 \in 1..3 /\ 2 \in 1..3 /\ 3 \in 1..3
      /\ <<"ADMIN", "MANAGER", "TECHNICIAN">>[1] = "ADMIN"
      /\ <<"ADMIN", "MANAGER", "TECHNICIAN">>[2] = "MANAGER"
      /\ <<"ADMIN", "MANAGER", "TECHNICIAN">>[3] = "TECHNICIAN"
  BY DEF Roles
<1>4. /\ Demo[1] = [role |-> "ADMIN", active |-> TRUE, email |-> DemoEmail["ADMIN"],
                    name |-> "demo", password |-> "demo"]
      /\ Demo[2] = [role |-> "MANAGER", active |-> TRUE, email |-> DemoEmail["MANAGER"],
                    name |-> "demo", password |-> "demo"]
      /\ Demo[3] = [role |-> "TECHNICIAN", active |-> TRUE, email |-> DemoEmail["TECHNICIAN"],
                    name |-> "demo", password |-> "demo"]
  <2>1. Demo[1] = [role |-> "ADMIN", active |-> TRUE, email |-> DemoEmail["ADMIN"],
                   name |-> "demo", password |-> "demo"]
    BY <1>2, <1>3
  <2>2. Demo[2] = [role |-> "MANAGER", active |-> TRUE, email |-> DemoEmail["MANAGER"],
                   name |-> "demo", password |-> "demo"]
    BY <1>2, <1>3
  <2>3. Demo[3] = [role |-> "TECHNICIAN", active |-> TRUE, email |-> DemoEmail["TECHNICIAN"],
                   name |-> "demo", password |-> "demo"]
    BY <1>2, <1>3
  <2> QED
    BY <2>1, <2>2, <2>3
<1>5. \A i \in 1..3 : i = 1 \/ i = 2 \/ i = 3
  OBVIOUS
<1>6. \A i \in 1..3 : Demo[i] \in UserRow /\ Demo[i].active
  <2>1. ASSUME NEW role \in Roles
        PROVE  [role |-> role, active |-> TRUE, email |-> DemoEmail[role], name |-> "demo",
                password |-> "demo"] \in UserRow
    BY DemoAssumption DEF UserRow
  <2> QED
    BY <1>3, <1>4, <1>5, <2>1
<1>7. \A i, j \in 1..3 : Demo[i].email = Demo[j].email => i = j
  BY <1>3, <1>4, <1>5, DemoAssumption
<1> QED
  BY <1>1, <1>4, <1>6, <1>7, RowsAssumption DEF Rows

-----------------------------------------------------------------------------
(***************************************************************************)
(* What the steps of a seed do to the rest: it goes on, or it stops with   *)
(* its writes or without them.                                             *)
(***************************************************************************)
Alone(s) ==
  \A t \in Sessions \ {s} :
    /\ pc'[t] = pc[t] /\ req'[t] = req[t] /\ key'[t] = key[t] /\ held'[t] = held[t]
    /\ reply'[t] = reply[t]
    /\ turn'[t] = turn[t] /\ admin'[t] = admin[t] /\ made'[t] = made[t] /\ audited'[t] = audited[t]

GoesOn(s) ==
  /\ Domains' /\ Notes' /\ Alone(s)
  /\ Seeding(s) \/ pc[s] = "idle"
  /\ Seeding(s)' /\ (req' = req \/ req'[s] = SeedRequest)
  /\ held' = held \/ \E r, m : Lock(s, r, m)
  /\ reply' = reply \/ \E answer \in Answers \cup {Null} : reply' = [reply EXCEPT ![s] = answer]
  /\ UNCHANGED <<tables, wait, row, next, acts, logged, seen, origin>>

Stops(s) ==
  /\ Seeding(s) \/ pc[s] = "idle"
  /\ \E answer \in Answers \cup {Null} : Finish(s, answer)
  /\ \/ UNCHANGED <<tables, origin>>
     \/ pc[s] \in {"CommitDemo", "LimboDemo"} /\ ApplySeed(s)

LEMMA StopsAlone ==
  ASSUME Domains, Notes, Services!TypeOK, NEW s \in Sessions, Stops(s)
  PROVE  /\ Domains' /\ Notes' /\ Alone(s) /\ pc'[s] = "idle" /\ req'[s] = Null
         /\ key'[s] = Null /\ held'[s] = {} /\ Unbegun(s)'
         /\ held' = [held EXCEPT ![s] = {}]
<1>1. PICK answer : Finish(s, answer)
  BY DEF Stops
<1>2. Domains' /\ pc'[s] = "idle" /\ req'[s] = Null /\ key'[s] = Null /\ held'[s] = {}
  BY <1>1 DEF Domains, Finish, End
<1>3. Notes' /\ Unbegun(s)'
  BY <1>1 DEF Notes, Finish, Unbegun
<1>4. reply \in [Sessions -> Services!Answers \cup {Null}]
  BY DEF Services!TypeOK
<1>5. Alone(s)
  BY <1>1, <1>4 DEF Alone, Domains, Notes, Finish, End
<1> QED
  BY <1>1, <1>2, <1>3, <1>5 DEF Finish, End

LEMMA DropStops ==
  ASSUME NEW s \in Sessions, NEW answer \in Answers, Drop(s, answer),
         Seeding(s) \/ pc[s] = "idle"
  PROVE  Stops(s)
BY DEF Drop, Stops

\* A statement that only reads, with its turn and its administrator.
LEMMA ReadGoesOn ==
  ASSUME Domains, Notes, NEW s \in Sessions, Seeding(s), NEW x \in DemoStatements, Read(s, x),
         turn' = turn \/ \E i : turn' = [turn EXCEPT ![s] = i],
         admin' = admin \/ \E u : admin' = [admin EXCEPT ![s] = u]
  PROVE  GoesOn(s)
<1>1. pc' = [pc EXCEPT ![s] = x] /\ UNCHANGED <<tables, req, key, wait, row, next, acts, logged,
                                                seen, reply, origin, held, made, audited>>
  BY DEF Read, Continue, Goto
<1>2. Domains' /\ Seeding(s)'
  BY <1>1 DEF Domains, Seeding
<1>3. Notes'
  BY <1>1 DEF Notes
<1>4. Alone(s)
  BY <1>1 DEF Alone, Domains, Notes
<1> QED
  BY <1>1, <1>2, <1>3, <1>4 DEF GoesOn

LEMMA SeedMoves ==
  ASSUME Domains, Notes, Services!TypeOK, NEW s \in Sessions, SeedStep(s)
  PROVE  GoesOn(s) \/ Stops(s)
<1>1. reply \in [Sessions -> Answers \cup {Null}]
  BY SameRows DEF Services!TypeOK
<1>2. {"ENVIRONMENT", "DEMO_CONFLICT", "ALREADY_BOOTSTRAPPED", "EMAIL_CONFLICT", Ok,
       "WRITE_OUTCOME_UNKNOWN", "FAILED"} \subseteq Answers
  BY DEF Answers
<1>3. CASE RunSeed(s)
  <2>1. pc[s] = "idle"
    BY <1>3 DEF RunSeed, At
  <2>2. CASE Drop(s, "ENVIRONMENT")
    BY <1>2, <2>1, <2>2, DropStops
  <2>3. CASE /\ req' = [req EXCEPT ![s] = SeedRequest] /\ reply' = [reply EXCEPT ![s] = Null]
             /\ Goto(s, "LockDemo")
             /\ UNCHANGED <<tables, key, wait, held, row, next, acts, logged, seen, seeds, origin>>
    <3>1. Domains' /\ Notes' /\ Seeding(s)' /\ req'[s] = SeedRequest
      BY <2>3 DEF Domains, Notes, Goto, seeds, Seeding, DemoStatements
    <3>2. Alone(s)
      BY <1>1, <2>3 DEF Domains, Goto, seeds, Alone
    <3> QED
      BY <2>1, <2>3, <3>1, <3>2 DEF GoesOn
  <2> QED
    BY <1>3, <2>2, <2>3 DEF RunSeed
<1>4. CASE LockDemo(s)
  <2>1. /\ pc' = [pc EXCEPT ![s] = "GetLoginUser"] /\ Lock(s, Administration, AdministrationMode)
        /\ Seeding(s)
        /\ UNCHANGED <<tables, req, key, wait, row, next, acts, logged, seen, reply, origin, seeds>>
    BY <1>4 DEF LockDemo, LocksSeed, Continue, Goto, At, Seeding, DemoStatements
  <2>2. Domains' /\ Notes' /\ Seeding(s)' /\ Alone(s)
    BY <2>1 DEF Domains, Notes, Lock, seeds, Seeding, DemoStatements, Alone
  <2> QED
    BY <2>1, <2>2 DEF GoesOn
<1>5. CASE GetLoginUser(s)
  <2>1. Seeding(s) /\ {"CommitDemo", "GetLoginUser", "DemoAdministrator", "InsertDemo"}
                        \subseteq DemoStatements
    BY <1>5 DEF GetLoginUser, At, Seeding, DemoStatements
  <2>2. After(turn[s]) \in DemoStatements
    BY <2>1 DEF After
  <2>3. \/ Drop(s, "DEMO_CONFLICT")
        \/ /\ Read(s, After(turn[s])) \/ Read(s, "DemoAdministrator") \/ Read(s, "InsertDemo")
           /\ turn' = turn \/ turn' = [turn EXCEPT ![s] = turn[s] + 1]
           /\ admin' = admin \/ \E u : admin' = [admin EXCEPT ![s] = u]
    BY <1>5 DEF GetLoginUser
  <2> QED
    BY <1>2, <2>1, <2>2, <2>3, DropStops, ReadGoesOn
<1>6. CASE DemoAdministrator(s)
  <2>1. Seeding(s) /\ "InsertDemo" \in DemoStatements
    BY <1>6 DEF DemoAdministrator, At, Seeding, DemoStatements
  <2> QED
    BY <1>2, <1>6, <2>1, DropStops, ReadGoesOn DEF DemoAdministrator
<1>7. CASE InsertDemo(s)
  <2>1. Seeding(s)
    BY <1>7 DEF InsertDemo, At, Seeding, DemoStatements
  <2>2. CASE Drop(s, "EMAIL_CONFLICT")
    BY <1>2, <2>1, <2>2, DropStops
  <2>3. CASE /\ \E u : /\ made' = [made EXCEPT ![s] = Extend(@, u, Demo[turn[s]])]
                       /\ key' = [key EXCEPT ![s] = u]
             /\ Goto(s, "AuditDemo")
             /\ UNCHANGED <<tables, req, wait, held, row, next, acts, logged, seen, reply, origin,
                            turn, admin, audited>>
    <3>1. Domains' /\ Notes' /\ Seeding(s)' /\ Alone(s)
      BY <2>3 DEF Domains, Notes, Goto, Seeding, DemoStatements, Alone
    <3> QED
      BY <2>1, <2>3, <3>1 DEF GoesOn
  <2> QED
    BY <1>7, <2>2, <2>3 DEF InsertDemo
<1>8. CASE AuditDemo(s)
  <2> DEFINE x == After(turn[s])
             actor == DemoActor(s)
  <2>1. /\ Seeding(s) /\ x \in DemoStatements /\ pc' = [pc EXCEPT ![s] = x]
        /\ held' = held \/ Lock(s, RowLock(actor), "KEY SHARE")
        /\ \E a : audited' = [audited EXCEPT ![s] = a]
        /\ admin' = admin \/ \E u : admin' = [admin EXCEPT ![s] = u]
        /\ turn' = [turn EXCEPT ![s] = @ + 1] /\ key' = [key EXCEPT ![s] = Null]
        /\ UNCHANGED <<tables, req, wait, row, next, acts, logged, seen, reply, origin, made>>
    BY <1>8 DEF AuditDemo, At, Seeding, DemoStatements, After, Goto
  <2>2. Domains'
    BY <2>1 DEF Domains, Lock
  <2>3. Notes' /\ Seeding(s)'
    BY <2>1 DEF Notes, Seeding, Domains
  <2>4. Alone(s)
    BY <2>1 DEF Domains, Notes, Lock, Alone
  <2> QED
    BY <2>1, <2>2, <2>3, <2>4 DEF GoesOn
<1>9. CASE CommitDemo(s)
  <2>1. Seeding(s) /\ pc[s] = "CommitDemo"
    BY <1>9 DEF CommitDemo, At, Seeding, DemoStatements
  <2>2. CASE ApplySeed(s) /\ Finish(s, Ok)
    BY <1>2, <2>1, <2>2 DEF Stops
  <2>3. CASE /\ Goto(s, "LimboDemo") /\ reply' = [reply EXCEPT ![s] = "WRITE_OUTCOME_UNKNOWN"]
             /\ UNCHANGED <<tables, req, key, wait, held, row, next, acts, logged, seen, seeds,
                            origin>>
    <3>1. Domains' /\ Notes' /\ Seeding(s)' /\ Alone(s)
      BY <1>1, <2>3 DEF Domains, Notes, Goto, Seeding, DemoStatements, seeds, Alone
    <3> QED
      BY <1>2, <2>1, <2>3, <3>1 DEF GoesOn
  <2> QED
    BY <1>9, <2>2, <2>3 DEF CommitDemo
<1>10. CASE ResolveDemo(s)
  <2>1. Seeding(s) /\ pc[s] = "LimboDemo" /\ reply[s] \in Answers \cup {Null}
    BY <1>1, <1>10 DEF ResolveDemo, At, Seeding, DemoStatements
  <2> QED
    BY <1>10, <2>1 DEF ResolveDemo, Drop, Stops
<1>11. CASE FailDemo(s)
  BY <1>2, <1>11, DropStops DEF FailDemo, Seeding
<1> QED
  BY <1>3, <1>4, <1>5, <1>6, <1>7, <1>8, <1>9, <1>10, <1>11 DEF SeedStep

-----------------------------------------------------------------------------
(***************************************************************************)
(* To the services the step of a seed comes from outside.                  *)
(***************************************************************************)
LEMMA Unseen ==
  ASSUME Domains, Domains', NEW s \in Sessions, Alone(s), Services!Typed,
         Seeding(s) \/ pc[s] = "idle",
         Seeding(s)' \/ (pc'[s] = "idle" /\ req'[s] = Null /\ key'[s] = Null /\ held'[s] = {})
  PROVE  /\ UNCHANGED <<ServedPc, ServedReq, ServedKey, ServedHeld>> /\ ServedPc[s] = "idle"
         /\ row[s] = Null /\ next[s] = Null /\ logged[s] = 0
<1>1. ServedPc[s] = "idle"
  BY DEF ServedPc
<1>2. Services!Phase(s)
  BY DEF Services!Typed, Services!PhaseOK
<1>3. ServedReq[s] = Null /\ ServedHeld[s] = {} /\ ServedKey[s] = Null
        /\ row[s] = Null /\ next[s] = Null /\ logged[s] = 0
  BY <1>1, <1>2
  DEF Services!Phase, Services!Opening, Services!Statements, Services!Holding, Services!Closing
<1>4. ASSUME NEW t \in Sessions
      PROVE  /\ ServedPc'[t] = ServedPc[t] /\ ServedReq'[t] = ServedReq[t]
             /\ ServedKey'[t] = ServedKey[t] /\ ServedHeld'[t] = ServedHeld[t]
  <2>1. CASE t = s
    BY <1>1, <1>3, <2>1 DEF ServedPc, ServedReq, ServedKey, ServedHeld
  <2>2. CASE t # s
    BY <2>2 DEF Alone, ServedPc, ServedReq, ServedKey, ServedHeld, Seeding
  <2> QED
    BY <2>1, <2>2
<1>5. UNCHANGED ServedPc /\ UNCHANGED ServedReq
  BY <1>4 DEF ServedPc, ServedReq
<1>6. UNCHANGED ServedKey /\ UNCHANGED ServedHeld
  BY <1>4 DEF ServedKey, ServedHeld
<1> QED
  BY <1>1, <1>3, <1>5, <1>6

LEMMA GoesOnOutside ==
  ASSUME SeedSound, NEW s \in Sessions, GoesOn(s)
  PROVE  Services!Outside(s) /\ Services!TypeOK' /\ Services!TrailMatchesTables'
<1>1. Domains /\ Services!Typed /\ Services!TypeOK /\ Services!TrailMatchesTables
  BY DEF SeedSound, Services!Sound, Services!Inv, Services!Typed, Services!Locked
<1>2. UNCHANGED <<ServedPc, ServedReq, ServedKey, ServedHeld>> /\ ServedPc[s] = "idle"
  BY <1>1, Unseen DEF GoesOn
<1>3. UNCHANGED <<users, assets, orders, trail, wait, row, next, acts, logged, seen>>
  BY DEF GoesOn, tables
<1>4. reply' \in [Sessions -> Services!Answers \cup {Null}]
  BY <1>1, SameRows DEF Services!TypeOK, GoesOn
<1>5. Services!TypeOK'
  BY <1>1, <1>2, <1>3, <1>4
  DEF Services!TypeOK, Services!Keys, Services!Snapshots, Services!UserRow, Services!Roles,
      Services!AssetRow, Services!OrderRow, Services!AssetStatuses, Services!OrderStatuses,
      Services!Statements, Services!AllRequests, Services!Resources, Services!Modes,
      Services!Rows, Services!Actions, Services!Answers
<1>6. Services!TrailMatchesTables'
  BY <1>1, <1>3
  DEF Services!TrailMatchesTables, Services!Snapshot, Services!Row, Services!UserSnapshot,
      Services!Keys
<1> QED
  BY <1>2, <1>3, <1>5, <1>6 DEF Services!Outside

\* A seed that holds the administration lock is alone in changing accounts.
LEMMA AloneInAdministration ==
  ASSUME SeedSound, NEW s \in Sessions, Working(s), NEW t \in Sessions
  PROVE  ~Services!Administers(t)
<1> SUFFICES ASSUME Services!Administers(t)
             PROVE  FALSE
  OBVIOUS
<1>1. <<Administration, "UPDATE">> \in held[s]
  BY DEF SeedSound, Story
<1>2. Services!HoldsAdministration(t)
  BY DEF SeedSound, Services!Sound, Services!AllGuarded, Services!Guarded
<1>3. <<Administration, "UPDATE">> \in ServedHeld[t] /\ ServedPc[t] # "idle"
  BY <1>2
  DEF Services!Administers, Services!HoldsAdministration, Services!Administration, Administration
<1>4. ~Seeding(t) /\ <<Administration, "UPDATE">> \in held[t]
  BY <1>3 DEF ServedPc, ServedHeld
<1> QED
  BY <1>1, <1>4 DEF SeedSound, AdministrationOnce, Working

\* What a seed that commits has made and audited.
LEMMA SeedWrites ==
  ASSUME SeedSound, NEW s \in Sessions, pc[s] \in {"CommitDemo", "LimboDemo"}
  PROVE  /\ Working(s) /\ Done(s) = 1..3 /\ turn[s] = 4
         /\ DOMAIN made[s] \subseteq Users /\ DOMAIN audited[s] = DOMAIN made[s]
         /\ \A u \in DOMAIN made[s] :
              /\ users[u] = Null /\ made[s][u] \in UserRow /\ made[s][u] # Null
              /\ \E i \in 1..3 : made[s][u] = Demo[i]
              /\ audited[s][u] = [actor |-> IF made[s][u] = Demo[1] THEN Null ELSE admin[s],
                                  value |-> UserSnapshot(made[s][u])]
         /\ \A u, v \in DOMAIN made[s] : made[s][u] = made[s][v] => u = v
<1>1. Working(s) /\ Story(s)
  BY DEF SeedSound, Working, Seeding, DemoStatements
<1>2. turn[s] = 4 /\ key[s] = Null /\ pc[s] # "AuditDemo"
  BY <1>1 DEF Story, Place
<1>3. Done(s) = 1..3
  BY <1>2 DEF Done
<1>4. DOMAIN made[s] \subseteq Users
  BY <1>1 DEF Story, MadeRows
<1>5. DOMAIN audited[s] = DOMAIN made[s]
  <2>1. Null \notin DOMAIN made[s]
    BY <1>4, IdsAssumption DEF Keys
  <2> QED
    BY <1>1, <1>2, <2>1 DEF Story, Actors
<1>6. \A u \in DOMAIN made[s] : users[u] = Null /\ \E i \in 1..3 : made[s][u] = Demo[i]
  BY <1>1, <1>3 DEF Story, MadeRows
<1>7. \A u \in DOMAIN made[s] : made[s][u] \in UserRow /\ made[s][u] # Null
  BY <1>6, DemoRows
<1> QED
  BY <1>1, <1>2, <1>3, <1>4, <1>5, <1>6, <1>7 DEF Story, MadeRows, Actors

\* The tables after it.
LEMMA SeedTables ==
  ASSUME SeedSound, NEW s \in Sessions, pc[s] \in {"CommitDemo", "LimboDemo"}, ApplySeed(s)
  PROVE  /\ users' \in [Users -> UserRow \cup {Null}]
         /\ \A u \in Users : users'[u] = IF u \in DOMAIN made[s] THEN made[s][u] ELSE users[u]
         /\ \A u \in Users : users[u] # Null => u \notin DOMAIN made[s] /\ users'[u] = users[u]
         /\ UNCHANGED <<assets, orders>>
         /\ trail' \in [Keys -> Snapshots \cup {Null, Gone}]
         /\ Services!TrailMatchesTables'
<1>1. Services!TypeOK /\ Services!TrailMatchesTables
  BY DEF SeedSound, Services!Sound, Services!Inv, Services!Typed, Services!Locked
<1>2. users \in [Users -> UserRow \cup {Null}]
  BY <1>1, SameRows DEF Services!TypeOK
<1>3. Services!Snapshots = Snapshots
  BY SameRows DEF Services!Snapshots, Snapshots
<1>4. trail \in [Keys -> Snapshots \cup {Null, Gone}]
  BY <1>1, <1>3, SameRows DEF Services!TypeOK
<1>5. users' = [u \in Users |-> IF u \in DOMAIN made[s] THEN made[s][u] ELSE users[u]]
  BY DEF ApplySeed
<1>6. users' \in [Users -> UserRow \cup {Null}]
  BY <1>2, <1>5, SeedWrites
<1>7. \A u \in Users : users[u] # Null => u \notin DOMAIN made[s] /\ users'[u] = users[u]
  BY <1>5, SeedWrites
<1>8. trail' = [k \in Keys |-> IF k \in DOMAIN made[s] THEN UserSnapshot(made[s][k]) ELSE trail[k]]
  <2>1. ASSUME NEW k \in DOMAIN made[s]
        PROVE  audited[s][k].value = UserSnapshot(made[s][k])
    <3>1. audited[s][k] = [actor |-> IF made[s][k] = Demo[1] THEN Null ELSE admin[s],
                           value |-> UserSnapshot(made[s][k])]
      BY SeedWrites
    <3> QED
      BY <3>1
  <2>2. DOMAIN audited[s] = DOMAIN made[s]
    BY SeedWrites
  <2> QED
    BY <2>1, <2>2 DEF ApplySeed
<1>9. \A r \in UserRow : UserSnapshot(r) \in Snapshots
  BY DEF UserSnapshot, Snapshots, UserRow
<1>10. trail' \in [Keys -> Snapshots \cup {Null, Gone}]
  BY <1>4, <1>8, <1>9, SeedWrites
<1>11. ASSUME NEW k \in Keys
       PROVE  trail'[k] = Services!Snapshot(k, Services!Row(k))'
  <2>1. trail[k] = Services!Snapshot(k, Services!Row(k))
    BY <1>1, SameRows DEF Services!TrailMatchesTables
  <2>2. CASE k \in Users
    <3>1. k \notin Assets /\ k \notin Orders
      BY <2>2, IdsAssumption
    <3>2. CASE k \in DOMAIN made[s]
      <4>1. users'[k] = made[s][k] /\ made[s][k] # Null /\ trail'[k] = UserSnapshot(made[s][k])
        BY <1>5, <1>8, <2>2, <3>2, SeedWrites
      <4>2. Services!Row(k)' = users'[k]
        BY <2>2, <3>1 DEF Services!Row
      <4> QED
        BY <2>2, <4>1, <4>2 DEF Services!Snapshot, Services!UserSnapshot, UserSnapshot
    <3>3. CASE k \notin DOMAIN made[s]
      <4>1. users'[k] = users[k] /\ trail'[k] = trail[k]
        BY <1>5, <1>8, <2>2, <3>3
      <4> QED
        BY <2>1, <2>2, <4>1 DEF Services!Snapshot, Services!Row, Services!UserSnapshot
    <3> QED
      BY <3>2, <3>3
  <2>3. CASE k \notin Users
    <3>1. trail'[k] = trail[k] /\ assets' = assets /\ orders' = orders
      BY <1>8, <2>3, SeedWrites DEF ApplySeed
    <3>2. k \in Assets \/ k \in Orders
      BY <2>3 DEF Keys
    <3> QED
      BY <2>1, <2>3, <3>1, <3>2 DEF Services!Snapshot, Services!Row
  <2> QED
    BY <2>2, <2>3
<1>12. Services!TrailMatchesTables'
  BY <1>11, SameRows DEF Services!TrailMatchesTables
<1> QED
  BY <1>5, <1>6, <1>7, <1>10, <1>12 DEF ApplySeed

LEMMA StopsOutside ==
  ASSUME SeedSound, NEW s \in Sessions, Stops(s)
  PROVE  Services!Outside(s) /\ Services!TypeOK' /\ Services!TrailMatchesTables'
<1>1. Domains /\ Notes /\ Services!Typed /\ Services!TypeOK /\ Services!TrailMatchesTables
  BY DEF SeedSound, Services!Sound, Services!Inv, Services!Typed, Services!Locked
<1>2. /\ Domains' /\ Alone(s) /\ pc'[s] = "idle" /\ req'[s] = Null /\ key'[s] = Null
      /\ held'[s] = {}
  BY <1>1, StopsAlone
<1>3. /\ UNCHANGED <<ServedPc, ServedReq, ServedKey, ServedHeld>> /\ ServedPc[s] = "idle"
      /\ row[s] = Null /\ next[s] = Null /\ logged[s] = 0
  BY <1>1, <1>2, Unseen DEF Stops
<1>4. PICK answer \in Answers \cup {Null} : Finish(s, answer)
  BY DEF Stops
<1>5. /\ wait' = [wait EXCEPT ![s] = {}] /\ row' = [row EXCEPT ![s] = Null]
      /\ next' = [next EXCEPT ![s] = Null] /\ acts' = [acts EXCEPT ![s] = <<>>]
      /\ logged' = [logged EXCEPT ![s] = 0] /\ seen' = [seen EXCEPT ![s] = 0]
      /\ reply' = [reply EXCEPT ![s] = answer]
  BY <1>4 DEF Finish, End
<1>6. row' = row /\ next' = next /\ logged' = logged
  BY <1>1, <1>3, <1>5 DEF Services!TypeOK
<1>7. /\ users' \in [Users -> UserRow \cup {Null}] /\ UNCHANGED <<assets, orders>>
      /\ trail' \in [Keys -> Snapshots \cup {Null, Gone}]
      /\ \A u \in Users : users[u] # Null => users'[u] = users[u]
      /\ users' = users \/ \A t \in Sessions : ~Services!Administers(t)
      /\ Services!TrailMatchesTables'
  <2>1. CASE UNCHANGED tables
    <3>1. Services!Snapshots = Snapshots
      BY SameRows DEF Services!Snapshots, Snapshots
    <3>2. UNCHANGED <<users, assets, orders, trail>>
      BY <2>1 DEF tables
    <3>3. Services!TrailMatchesTables'
      BY <1>1, <3>2
      DEF Services!TrailMatchesTables, Services!Snapshot, Services!Row, Services!UserSnapshot,
          Services!Keys
    <3> QED
      BY <1>1, <3>1, <3>2, <3>3, SameRows DEF Services!TypeOK
  <2>2. CASE pc[s] \in {"CommitDemo", "LimboDemo"} /\ ApplySeed(s)
    <3>1. Working(s)
      BY <2>2, SeedWrites
    <3> QED
      BY <2>2, <3>1, SeedTables, AloneInAdministration
  <2> QED
    BY <2>1, <2>2 DEF Stops
<1>8. Services!TypeOK'
  <2>1. /\ wait' \in [Sessions -> SUBSET Users] /\ acts' \in [Sessions -> Seq(Services!Actions)]
        /\ seen' \in [Sessions -> Nat] /\ reply' \in [Sessions -> Services!Answers \cup {Null}]
    BY <1>1, <1>5, SameRows DEF Services!TypeOK
  <2>2. /\ users' \in [Users -> Services!UserRow \cup {Null}]
        /\ trail' \in [Services!Keys -> Services!Snapshots \cup {Null, Gone}]
    BY <1>7, SameRows DEF Services!Snapshots, Snapshots
  <2>3. UNCHANGED <<assets, orders, ServedPc, ServedReq, ServedKey, ServedHeld, row, next, logged>>
    BY <1>3, <1>6, <1>7
  <2> QED
    BY <1>1, <2>1, <2>2, <2>3
    DEF Services!TypeOK, Services!Keys, Services!Snapshots, Services!UserRow, Services!Roles,
        Services!AssetRow, Services!OrderRow, Services!AssetStatuses, Services!OrderStatuses,
        Services!Statements, Services!AllRequests, Services!Resources, Services!Modes,
        Services!Rows, Services!Actions, Services!Answers
<1>9. \A t \in Sessions \ {s} : wait'[t] = wait[t]
  BY <1>1, <1>5 DEF Services!TypeOK
<1>10. Services!Outside(s)
  BY <1>3, <1>6, <1>7, <1>9 DEF Services!Outside
<1> QED
  BY <1>7, <1>8, <1>10

-----------------------------------------------------------------------------
(***************************************************************************)
(* The services stay sound beside seeds, and the administration lock has   *)
(* one holder.                                                             *)
(***************************************************************************)
LEMMA SeedMoved ==
  ASSUME SeedSound, NEW s \in Sessions, SeedStep(s)
  PROVE  GoesOn(s) \/ Stops(s)
<1>1. Services!TypeOK
  BY DEF SeedSound, Services!Sound, Services!Inv, Services!Typed
<1> QED
  BY <1>1, SeedMoves DEF SeedSound

LEMMA ServicesSound ==
  ASSUME SeedSound, [SeedNext]_seedVars
  PROVE  Services!Sound'
<1>1. Services!Sound /\ Services!Typed /\ Domains /\ Apart
  BY DEF SeedSound, Services!Sound, Services!Inv
<1>2. ASSUME NEW s \in Sessions, SeedStep(s)
      PROVE  Services!Sound'
  BY <1>1, <1>2, SeedMoved, GoesOnOutside, StopsOutside, ServicesAssumptions,
     Services!OutsideSound
<1>3. ASSUME NEW s \in Sessions, Serve(s)
      PROVE  Services!Sound'
  <2>1. Services!Next
    BY <1>1, <1>3, ServeIsNext DEF Services!Next
  <2> QED
    BY <1>1, <2>1, ServicesAssumptions, Services!StepSound
<1>4. CASE UNCHANGED seedVars
  <2>1. UNCHANGED Services!vars
    BY <1>4 DEF seedVars, vars, Services!vars, ServedPc, ServedReq, ServedKey, ServedHeld, Seeding
  <2> QED
    BY <1>1, <2>1, ServicesAssumptions, Services!StepSound
<1> QED
  BY <1>2, <1>3, <1>4 DEF SeedNext

LEMMA LocksOnce ==
  ASSUME Domains, AdministrationOnce, NEW s \in Sessions, Locks(s),
         \A t \in Sessions \ {s} : held'[t] = held[t]
  PROVE  AdministrationOnce'
<1> DEFINE lock == <<Administration, "UPDATE">>
<1>1. "UPDATE" \in Modes /\ Conflict("UPDATE", "UPDATE")
  BY DEF Modes, Conflict
<1>2. CASE held' = held
  BY <1>2 DEF AdministrationOnce, Administration
<1>3. CASE held' = [held EXCEPT ![s] = {}]
  BY <1>3 DEF AdministrationOnce, Domains, Administration
<1>4. ASSUME NEW r, NEW m, Lock(s, r, m)
      PROVE  AdministrationOnce'
  <2>1. held'[s] = held[s] \cup {<<r, m>>}
    BY <1>4 DEF Lock, Domains
  <2>2. ASSUME NEW t \in Sessions \ {s}, lock \in held'[s], lock \in held'[t]
        PROVE  FALSE
    <3>1. lock \in held[t]
      BY <2>2
    <3>2. lock \notin held[s]
      BY <3>1 DEF AdministrationOnce
    <3>3. <<r, m>> = lock
      BY <2>1, <2>2, <3>2
    <3>4. r = Administration /\ m = "UPDATE"
      BY <3>3
    <3> QED
      BY <1>1, <1>4, <3>1, <3>4 DEF Lock, Grantable
  <2> QED
    BY <2>2 DEF AdministrationOnce, Administration
<1> QED
  BY <1>2, <1>3, <1>4 DEF Locks

-----------------------------------------------------------------------------
(***************************************************************************)
(* The stories of the seeds: what the others do does not touch them.       *)
(***************************************************************************)
LEMMA OthersStory ==
  ASSUME NEW t \in Sessions, Story(t),
         pc'[t] = pc[t], key'[t] = key[t], held'[t] = held[t], reply'[t] = reply[t],
         turn'[t] = turn[t], admin'[t] = admin[t], made'[t] = made[t], audited'[t] = audited[t],
         users' = users \/ ~Working(t)
  PROVE  Story(t)'
<1>1. (Seeding(t)' <=> Seeding(t)) /\ (Working(t)' <=> Working(t))
  BY DEF Seeding, Working
<1>2. ~Working(t)' => Unbegun(t)'
  BY <1>1 DEF Story, Unbegun, Nothing
<1>3. Seeding(t)' => reply'[t] \in {Null, "WRITE_OUTCOME_UNKNOWN"}
  BY <1>1 DEF Story
<1>4. CASE Working(t)
  <2>1. users' = users
    BY <1>4
  <2>2. Place(t)'
    BY <1>4 DEF Story, Place, Demo
  <2>3. Done(t)' = Done(t)
    BY DEF Done
  <2>4. MadeRows(t)'
    BY <1>4, <2>1, <2>3 DEF Story, MadeRows, Demo
  <2>5. \A i : (Inserted(t, i)' <=> Inserted(t, i)) /\ (Found(i)' <=> Found(i))
                 /\ (AddressFree(i)' <=> AddressFree(i))
    BY <2>1 DEF Inserted, Found, Fits, AddressFree, Demo
  <2>6. Lookups(t)'
    BY <1>4, <2>1, <2>3, <2>5 DEF Story, Lookups, AdministratorExists
  <2>7. Actors(t)'
    <3>1. Actors(t)
      BY <1>4 DEF Story
    <3>2. \A r : UserSnapshot(r)' = UserSnapshot(r)
      BY DEF UserSnapshot
    <3>3. Demo[1]' = Demo[1]
      BY DEF Demo
    <3> QED
      BY <2>1, <3>1, <3>2, <3>3 DEF Actors
  <2> QED
    BY <1>1, <1>2, <1>3, <1>4, <2>2, <2>4, <2>6, <2>7 DEF Story, Administration
<1>5. CASE ~Working(t)
  BY <1>1, <1>2, <1>3, <1>5 DEF Story
<1> QED
  BY <1>4, <1>5

\* The commit of a request beside a working seed changes no account.
LEMMA ServedAccounts ==
  ASSUME SeedSound, NEW s \in Sessions, Serve(s), Services!Sound',
         NEW t \in Sessions, Working(t)
  PROVE  users' = users
<1>1. Domains /\ Apart /\ Services!Sound /\ Services!Typed /\ Services!AllGuarded
  BY DEF SeedSound, Services!Sound, Services!Inv
<1>2. /\ ~Seeding(s)
      /\ Services!Receive(s) \/ Services!Step(s) \/ Services!CommitLost(s) \/ Services!Abort(s)
  BY <1>1, ServeIsNext
<1>3. UNCHANGED Services!tables \/ Services!Commits(s)
  BY <1>1, <1>2, ServicesAssumptions, Services!StepFrames
<1>4. users \in [Users -> UserRow \cup {Null}] /\ users' \in [Users -> UserRow \cup {Null}]
  BY <1>1, SameRows DEF Services!Sound, Services!Inv, Services!Typed, Services!TypeOK
<1>5. ASSUME Services!Commits(s), NEW u \in Users, users'[u] # users[u]
      PROVE  FALSE
  <2>1. <<Services!Administration, "UPDATE">> \in ServedHeld[s]
    BY <1>1, <1>5, ServicesAssumptions, Services!UserEffect
  <2>2. <<Administration, "UPDATE">> \in held[s]
    BY <1>2, <2>1 DEF ServedHeld, Services!Administration, Administration
  <2>3. <<Administration, "UPDATE">> \in held[t] /\ t # s
    BY <1>2 DEF SeedSound, Story, Working
  <2> QED
    BY <2>2, <2>3 DEF SeedSound, AdministrationOnce
<1> QED
  BY <1>3, <1>4, <1>5 DEF Services!tables

-----------------------------------------------------------------------------
(***************************************************************************)
(* The seed's own steps.                                                   *)
(***************************************************************************)
LEMMA StopsStory ==
  ASSUME SeedSound, NEW s \in Sessions, Stops(s)
  PROVE  Story(s)'
<1>1. pc'[s] = "idle" /\ Unbegun(s)'
  BY StopsAlone DEF SeedSound, Services!Sound, Services!Inv, Services!Typed
<1> QED
  BY <1>1 DEF Story, Working, Seeding, DemoStatements

LEMMA RunSeedStory ==
  ASSUME SeedSound, NEW s \in Sessions, RunSeed(s), GoesOn(s)
  PROVE  Story(s)'
<1>1. Services!Typed /\ reply \in [Sessions -> Services!Answers \cup {Null}] /\ Domains
  BY DEF SeedSound, Services!Sound, Services!Inv, Services!Typed, Services!TypeOK
<1>2. pc[s] = "idle" /\ ~Working(s) /\ key[s] = Null
  <2>1. pc[s] = "idle" /\ ~Seeding(s)
    BY DEF RunSeed, At, Seeding, DemoStatements
  <2>2. ServedPc[s] = "idle" /\ ServedKey[s] = key[s] /\ Services!Phase(s)
    BY <1>1, <2>1, ServedSame DEF Services!Typed, Services!PhaseOK
  <2> QED
    BY <2>1, <2>2
    DEF Working, Services!Phase, Services!Opening, Services!Statements, Services!Holding,
        Services!Closing
<1>3. ~Drop(s, "ENVIRONMENT")
  BY <1>1 DEF Drop, Finish, End, GoesOn, Seeding, DemoStatements, Domains
<1>4. pc'[s] = "LockDemo" /\ reply'[s] = Null /\ key'[s] = Null /\ UNCHANGED seeds
  BY <1>1, <1>2, <1>3 DEF RunSeed, Goto, Domains
<1>5. Unbegun(s)'
  BY <1>2, <1>4 DEF SeedSound, Story, Unbegun, seeds, Nothing
<1> QED
  BY <1>4, <1>5 DEF Story, Working

LEMMA LockDemoStory ==
  ASSUME SeedSound, NEW s \in Sessions, LockDemo(s)
  PROVE  Story(s)'
<1>1. pc[s] = "LockDemo" /\ ~Working(s) /\ Unbegun(s) /\ key[s] = Null
        /\ reply[s] \in {Null, "WRITE_OUTCOME_UNKNOWN"}
  BY DEF LockDemo, At, SeedSound, Story, Working, Seeding, DemoStatements
<1>2. /\ pc'[s] = "GetLoginUser" /\ <<Administration, "UPDATE">> \in held'[s]
      /\ UNCHANGED <<key, reply, turn, admin, made, audited>>
  BY DEF LockDemo, LocksSeed, Lock, AdministrationMode, Continue, Goto, SeedSound, Domains, seeds
<1>3. Place(s)' /\ MadeRows(s)' /\ Lookups(s)' /\ Actors(s)'
  <2>1. /\ turn'[s] = 1 /\ made'[s] = Nothing /\ audited'[s] = Nothing /\ key'[s] = Null
        /\ DOMAIN Nothing = {}
    BY <1>1, <1>2 DEF Unbegun, Nothing
  <2>2. Done(s)' = {} /\ \A i : ~Inserted(s, i)'
    BY <1>2, <2>1 DEF Done, Inserted
  <2> QED
    BY <1>2, <2>1, <2>2 DEF Place, MadeRows, Lookups, Actors
<1>4. Working(s)' /\ Seeding(s)'
  BY <1>2 DEF Working, Seeding, DemoStatements
<1> QED
  BY <1>1, <1>2, <1>3, <1>4 DEF Story, Administration

LEMMA GetLoginUserStory ==
  ASSUME SeedSound, NEW s \in Sessions, GetLoginUser(s), ~Stops(s)
  PROVE  Story(s)'
<1> DEFINE i == turn[s]
           found == {u \in Users : users[u] # Null /\ users[u].email = Demo[i].email}
<1>1. /\ pc[s] = "GetLoginUser" /\ Working(s) /\ <<Administration, "UPDATE">> \in held[s]
      /\ Place(s) /\ MadeRows(s) /\ Lookups(s) /\ Actors(s)
      /\ reply[s] \in {Null, "WRITE_OUTCOME_UNKNOWN"}
  BY DEF GetLoginUser, At, SeedSound, Story, Working, Seeding, DemoStatements
<1>2. i \in 1..3 /\ key[s] = Null
  BY <1>1 DEF Place
<1>3. ~Drop(s, "DEMO_CONFLICT")
  BY <1>1, DropStops DEF Working, Answers
<1>4. ASSUME NEW x, Read(s, x)
      PROVE  /\ pc'[s] = x /\ UNCHANGED <<users, key, held, reply, made, audited>>
             /\ \A n : (Inserted(s, n)' <=> Inserted(s, n)) /\ (Found(n)' <=> Found(n))
                         /\ (AddressFree(n)' <=> AddressFree(n))
             /\ AdministratorExists' <=> AdministratorExists
  <2>1. pc'[s] = x /\ UNCHANGED <<users, key, held, reply, made, audited>>
    BY <1>4 DEF Read, Continue, Goto, SeedSound, Domains, tables
  <2> QED
    BY <2>1 DEF Inserted, Found, Fits, AddressFree, Demo, AdministratorExists
<1>5. CASE found = {} /\ Read(s, IF i = 1 THEN "DemoAdministrator" ELSE "InsertDemo")
             /\ UNCHANGED <<turn, admin>>
  <2>1. pc'[s] = IF i = 1 THEN "DemoAdministrator" ELSE "InsertDemo"
    BY <1>4, <1>5
  <2>2. Done(s)' = Done(s) /\ AddressFree(i)
    BY <1>1, <1>5, <2>1 DEF Done, AddressFree
  <2>3. Place(s)'
    BY <1>2, <1>4, <1>5, <2>1 DEF Place
  <2>4. MadeRows(s)'
    BY <1>1, <1>4, <1>5, <2>2 DEF MadeRows, Demo
  <2>5. Lookups(s)'
    BY <1>1, <1>4, <1>5, <2>1, <2>2 DEF Lookups
  <2>6. Actors(s)'
    <3>1. Demo[1]' = Demo[1] /\ \A r : UserSnapshot(r)' = UserSnapshot(r)
      BY DEF Demo, UserSnapshot
    <3> QED
      BY <1>1, <1>4, <1>5, <3>1 DEF Actors
  <2>7. Working(s)' /\ pc'[s] # "LockDemo"
    BY <2>1 DEF Working, Seeding, DemoStatements
  <2> QED
    BY <1>1, <1>4, <1>5, <2>3, <2>4, <2>5, <2>6, <2>7 DEF Story, Administration
<1>6. ASSUME NEW u \in found, Fits(u, Demo[i]),
             admin' = IF i = 1 THEN [admin EXCEPT ![s] = u] ELSE admin,
             turn' = [turn EXCEPT ![s] = i + 1], Read(s, After(i))
      PROVE  Story(s)'
  <2>1. pc'[s] = After(i) /\ turn'[s] = i + 1 /\ admin'[s] = IF i = 1 THEN u ELSE admin[s]
    BY <1>4, <1>6 DEF SeedSound, Notes
  <2>2. After(i) = IF i = 3 THEN "CommitDemo" ELSE "GetLoginUser"
    BY DemoRows DEF After
  <2>3. Done(s) = 1..(i - 1) /\ Done(s)' = 1..i
    BY <1>1, <1>2, <2>1, <2>2 DEF Done
  <2>4. Found(i) /\ (i = 1 => users[u].role = "ADMIN") /\ u \in Users /\ users[u] # Null
    BY <1>6, DemoRows DEF Found, Fits
  <2>5. Place(s)'
    BY <1>2, <1>4, <1>6, <2>1, <2>2 DEF Place
  <2>6. MadeRows(s)'
    BY <1>1, <1>2, <1>4, <1>6, <2>3 DEF MadeRows, Demo
  <2>7. Lookups(s)'
    BY <1>1, <1>2, <1>4, <1>6, <2>1, <2>2, <2>3, <2>4 DEF Lookups
  <2>8. Actors(s)'
    <3>1. i = 1 => DOMAIN made[s] = {}
      BY <1>1, <2>3 DEF MadeRows
    <3>2. Demo[1]' = Demo[1] /\ \A r : UserSnapshot(r)' = UserSnapshot(r)
      BY DEF Demo, UserSnapshot
    <3> QED
      BY <1>1, <1>2, <1>4, <1>6, <2>1, <2>4, <3>1, <3>2 DEF Actors
  <2>9. Working(s)' /\ pc'[s] # "LockDemo"
    BY <2>1, <2>2 DEF Working, Seeding, DemoStatements
  <2> QED
    BY <1>1, <1>4, <1>6, <2>5, <2>6, <2>7, <2>8, <2>9 DEF Story, Administration
<1> QED
  BY <1>3, <1>5, <1>6 DEF GetLoginUser

LEMMA DemoAdministratorStory ==
  ASSUME SeedSound, NEW s \in Sessions, DemoAdministrator(s), ~Stops(s)
  PROVE  Story(s)'
<1>1. /\ pc[s] = "DemoAdministrator" /\ Working(s) /\ <<Administration, "UPDATE">> \in held[s]
      /\ Place(s) /\ MadeRows(s) /\ Lookups(s) /\ Actors(s) /\ turn[s] = 1 /\ key[s] = Null
      /\ reply[s] \in {Null, "WRITE_OUTCOME_UNKNOWN"}
  BY DEF DemoAdministrator, At, SeedSound, Story, Working, Seeding, DemoStatements, Place
<1>2. ~Drop(s, "ALREADY_BOOTSTRAPPED")
  BY <1>1, DropStops DEF Working, Answers
<1>3. /\ pc'[s] = "InsertDemo" /\ ~AdministratorExists
      /\ UNCHANGED <<users, key, held, reply, turn, admin, made, audited>>
  BY <1>2 DEF DemoAdministrator, SomebodyAdministers, Read, Continue, Goto, SeedSound, Domains,
              tables
<1>4. /\ \A n : (Inserted(s, n)' <=> Inserted(s, n)) /\ (Found(n)' <=> Found(n))
                  /\ (AddressFree(n)' <=> AddressFree(n))
      /\ AdministratorExists' <=> AdministratorExists
  BY <1>3 DEF Inserted, Found, Fits, AddressFree, Demo, AdministratorExists
<1>5. Done(s)' = Done(s)
  BY <1>1, <1>3 DEF Done
<1>6. Place(s)'
  BY <1>1, <1>3 DEF Place
<1>7. MadeRows(s)'
  BY <1>1, <1>3, <1>5 DEF MadeRows, Demo
<1>8. Lookups(s)'
  BY <1>1, <1>3, <1>4, <1>5 DEF Lookups
<1>9. Actors(s)'
  <2>1. Demo[1]' = Demo[1] /\ \A r : UserSnapshot(r)' = UserSnapshot(r)
    BY DEF Demo, UserSnapshot
  <2> QED
    BY <1>1, <1>3, <2>1 DEF Actors
<1>10. Working(s)' /\ pc'[s] # "LockDemo"
  BY <1>3 DEF Working, Seeding, DemoStatements
<1> QED
  BY <1>1, <1>3, <1>6, <1>7, <1>8, <1>9, <1>10 DEF Story, Administration

LEMMA InsertDemoStory ==
  ASSUME SeedSound, NEW s \in Sessions, InsertDemo(s), ~Stops(s)
  PROVE  Story(s)'
<1> DEFINE i == turn[s]
           new == Demo[i]
<1>1. /\ pc[s] = "InsertDemo" /\ Working(s) /\ <<Administration, "UPDATE">> \in held[s]
      /\ Place(s) /\ MadeRows(s) /\ Lookups(s) /\ Actors(s)
      /\ reply[s] \in {Null, "WRITE_OUTCOME_UNKNOWN"}
  BY DEF InsertDemo, At, SeedSound, Story, Working, Seeding, DemoStatements
<1>2. i \in 1..3 /\ key[s] = Null
  BY <1>1 DEF Place
<1>3. ~Drop(s, "EMAIL_CONFLICT")
  BY <1>1, DropStops DEF Working, Answers
<1>4. PICK u \in Fresh(users) :
        /\ \A t \in Sessions : u \notin DOMAIN made[t]
        /\ made' = [made EXCEPT ![s] = Extend(made[s], u, new)]
        /\ key' = [key EXCEPT ![s] = u]
  BY <1>3 DEF InsertDemo
<1>5. /\ pc'[s] = "AuditDemo" /\ UNCHANGED <<users, held, reply, turn, admin, audited>>
      /\ key'[s] = u /\ made'[s] = Extend(made[s], u, new)
  BY <1>3, <1>4 DEF InsertDemo, Goto, tables, SeedSound, Domains, Notes
<1>6. u \in Users /\ users[u] = Null /\ u \notin DOMAIN made[s] /\ u # Null
  <2>1. users \in [Users -> Services!UserRow \cup {Null}]
    BY DEF SeedSound, Services!Sound, Services!Inv, Services!Typed, Services!TypeOK
  <2> QED
    BY <1>4, <2>1, IdsAssumption DEF Fresh, Keys
<1>7. /\ DOMAIN made'[s] = DOMAIN made[s] \cup {u} /\ made'[s][u] = new
      /\ \A v \in DOMAIN made[s] : made'[s][v] = made[s][v]
  BY <1>5, <1>6 DEF Extend
<1>8. Done(s) = 1..(i - 1) /\ Done(s)' = 1..i
  BY <1>1, <1>2, <1>5 DEF Done
<1>9. AddressFree(i) /\ \A n : (Found(n)' <=> Found(n)) /\ (AddressFree(n)' <=> AddressFree(n))
  BY <1>1, <1>5 DEF Lookups, Found, Fits, AddressFree, Demo
<1>10. \A n : Demo[n]' = Demo[n]
  BY DEF Demo
<1>11. \A v \in DOMAIN made[s] : made[s][v] # new
  <2>1. \A n \in 1..(i - 1) : Demo[n] # new
    BY <1>2, DemoRows
  <2> QED
    BY <1>1, <1>8, <2>1 DEF MadeRows
<1>12. ASSUME NEW n \in 1..3
       PROVE  Inserted(s, n)' <=> Inserted(s, n) \/ n = i
  <2>1. Demo[n] = new => n = i
    BY <1>2, DemoRows
  <2>2. Inserted(s, n)' <=> \E v \in DOMAIN made'[s] : made'[s][v] = Demo[n]
    BY <1>10 DEF Inserted
  <2> QED
    BY <1>7, <2>1, <2>2 DEF Inserted
<1>13. Place(s)'
  BY <1>2, <1>5, <1>7, <1>10 DEF Place
<1>14. MadeRows(s)'
  <2>1. DOMAIN made'[s] \subseteq Users
    BY <1>1, <1>6, <1>7 DEF MadeRows
  <2>2. \A v \in DOMAIN made'[s] : users'[v] = Null /\ \E n \in Done(s)' : made'[s][v] = Demo[n]'
    BY <1>1, <1>2, <1>5, <1>6, <1>7, <1>8, <1>10 DEF MadeRows
  <2>3. \A v, w \in DOMAIN made'[s] : made'[s][v] = made'[s][w] => v = w
    BY <1>1, <1>7, <1>11 DEF MadeRows
  <2> QED
    BY <2>1, <2>2, <2>3 DEF MadeRows
<1>15. Lookups(s)'
  <2>1. \A n \in Done(s)' : Inserted(s, n)' \/ Found(n)'
    BY <1>1, <1>2, <1>8, <1>9, <1>12 DEF Lookups
  <2>2. \A n \in 1..3 : Inserted(s, n)' => AddressFree(n)'
    BY <1>1, <1>9, <1>12 DEF Lookups
  <2>3. Inserted(s, 1)' => ~AdministratorExists'
    BY <1>1, <1>2, <1>5, <1>12 DEF Lookups, AdministratorExists
  <2> QED
    BY <1>5, <2>1, <2>2, <2>3 DEF Lookups
<1>16. Actors(s)'
  <2>1. turn[s] > 1 => admin[s] # u
    BY <1>1, <1>6 DEF Actors
  <2>2. DOMAIN audited[s] = DOMAIN made[s]
    BY <1>1, <1>2, IdsAssumption DEF Actors, MadeRows, Keys
  <2>3. \A r : UserSnapshot(r)' = UserSnapshot(r)
    BY DEF UserSnapshot
  <2>4. \A v \in DOMAIN audited[s] :
          audited[s][v] = [actor |-> IF made'[s][v] = Demo[1] THEN Null ELSE admin[s],
                           value |-> UserSnapshot(made'[s][v])]
    BY <1>1, <1>7, <2>2 DEF Actors
  <2> QED
    BY <1>1, <1>5, <1>6, <1>7, <1>10, <2>1, <2>2, <2>3, <2>4 DEF Actors
<1>17. Working(s)' /\ pc'[s] # "LockDemo"
  BY <1>5 DEF Working, Seeding, DemoStatements
<1> QED
  BY <1>1, <1>5, <1>13, <1>14, <1>15, <1>16, <1>17 DEF Story, Administration

LEMMA AuditDemoStory ==
  ASSUME SeedSound, NEW s \in Sessions, AuditDemo(s)
  PROVE  Story(s)'
<1> DEFINE i == turn[s]
           u == key[s]
           entry == [actor |-> DemoActor(s), value |-> UserSnapshot(made[s][u])]
<1>1. /\ pc[s] = "AuditDemo" /\ Working(s) /\ <<Administration, "UPDATE">> \in held[s]
      /\ Place(s) /\ MadeRows(s) /\ Lookups(s) /\ Actors(s)
      /\ reply[s] \in {Null, "WRITE_OUTCOME_UNKNOWN"}
  BY DEF AuditDemo, At, SeedSound, Story, Working, Seeding, DemoStatements
<1>2. i \in 1..3 /\ u \in DOMAIN made[s] /\ made[s][u] = Demo[i] /\ u \in Users
  BY <1>1 DEF Place, MadeRows
<1>3. /\ pc'[s] = After(i) /\ UNCHANGED <<users, reply, made>>
      /\ audited'[s] = Extend(audited[s], u, entry)
      /\ admin'[s] = IF i = 1 THEN u ELSE admin[s]
      /\ turn'[s] = i + 1 /\ key'[s] = Null
      /\ <<Administration, "UPDATE">> \in held'[s]
  BY <1>1 DEF AuditDemo, Goto, Lock, tables, SeedSound, Domains, Notes
<1>4. After(i) = IF i = 3 THEN "CommitDemo" ELSE "GetLoginUser"
  BY DemoRows DEF After
<1>5. Done(s) = 1..i /\ Done(s)' = 1..i
  BY <1>1, <1>2, <1>3, <1>4 DEF Done
<1>6. /\ \A n : (Inserted(s, n)' <=> Inserted(s, n)) /\ (Found(n)' <=> Found(n))
                  /\ (AddressFree(n)' <=> AddressFree(n))
      /\ AdministratorExists' <=> AdministratorExists
  BY <1>3 DEF Inserted, Found, Fits, AddressFree, Demo, AdministratorExists
<1>7. Place(s)'
  BY <1>2, <1>3, <1>4 DEF Place
<1>8. MadeRows(s)'
  BY <1>1, <1>3, <1>5 DEF MadeRows, Demo
<1>9. Lookups(s)'
  BY <1>1, <1>3, <1>4, <1>5, <1>6 DEF Lookups
<1>10. Actors(s)'
  <2>1. /\ DOMAIN audited[s] = DOMAIN made[s] \ {u}
        /\ DOMAIN audited'[s] = DOMAIN made[s] /\ audited'[s][u] = entry
        /\ \A v \in DOMAIN audited[s] : audited'[s][v] = audited[s][v]
    BY <1>1, <1>2, <1>3 DEF Actors, Extend
  <2>2. Null \notin DOMAIN made[s]
    BY <1>1, IdsAssumption DEF MadeRows, Keys
  <2>3. Demo[1]' = Demo[1] /\ \A r : UserSnapshot(r)' = UserSnapshot(r)
    BY DEF Demo, UserSnapshot
  <2>4. DemoActor(s) = IF made[s][u] = Demo[1] THEN Null ELSE admin'[s]
    <3>1. Demo[i] = Demo[1] <=> i = 1
      BY <1>2, DemoRows
    <3> QED
      BY <1>2, <1>3, <3>1 DEF DemoActor
  <2>5. ASSUME NEW v \in DOMAIN audited[s]
        PROVE  audited[s][v] = [actor |-> IF made[s][v] = Demo[1] THEN Null ELSE admin'[s],
                                value |-> UserSnapshot(made[s][v])]
    <3>1. audited[s][v] = [actor |-> IF made[s][v] = Demo[1] THEN Null ELSE admin[s],
                           value |-> UserSnapshot(made[s][v])]
      BY <1>1 DEF Actors
    <3>2. i = 1 => made[s][v] = Demo[1]
      BY <1>1, <1>5, <2>1 DEF MadeRows
    <3> QED
      BY <1>3, <3>1, <3>2
  <2>6. /\ admin'[s] \in Users
        /\ IF admin'[s] \in DOMAIN made[s] THEN made[s][admin'[s]] = Demo[1]
           ELSE users[admin'[s]] # Null /\ users[admin'[s]].role = "ADMIN"
    BY <1>1, <1>2, <1>3 DEF Actors
  <2>7. \A v \in DOMAIN made[s] :
          audited'[s][v] = [actor |-> IF made[s][v] = Demo[1] THEN Null ELSE admin'[s],
                            value |-> UserSnapshot(made[s][v])]
    BY <2>1, <2>4, <2>5
  <2> QED
    BY <1>3, <2>1, <2>2, <2>3, <2>6, <2>7 DEF Actors
<1>11. Working(s)' /\ pc'[s] # "LockDemo"
  BY <1>3, <1>4 DEF Working, Seeding, DemoStatements
<1> QED
  BY <1>1, <1>3, <1>7, <1>8, <1>9, <1>10, <1>11 DEF Story, Administration

LEMMA CommitDemoStory ==
  ASSUME SeedSound, NEW s \in Sessions, CommitDemo(s), ~Stops(s)
  PROVE  Story(s)'
<1>1. /\ pc[s] = "CommitDemo" /\ Working(s) /\ <<Administration, "UPDATE">> \in held[s]
      /\ Place(s) /\ MadeRows(s) /\ Lookups(s) /\ Actors(s)
  BY DEF CommitDemo, At, SeedSound, Story, Working, Seeding, DemoStatements
<1>2. ~(ApplySeed(s) /\ Finish(s, Ok))
  BY <1>1 DEF Stops, Working, Answers
<1>3. /\ pc'[s] = "LimboDemo" /\ reply'[s] = "WRITE_OUTCOME_UNKNOWN"
      /\ UNCHANGED <<users, key, held, turn, admin, made, audited>>
  <2>1. reply \in [Sessions -> Services!Answers \cup {Null}]
    BY DEF SeedSound, Services!Sound, Services!Inv, Services!Typed, Services!TypeOK
  <2> QED
    BY <1>2, <2>1 DEF CommitDemo, Goto, SeedSound, Domains, tables, seeds
<1>4. /\ \A n : (Inserted(s, n)' <=> Inserted(s, n)) /\ (Found(n)' <=> Found(n))
                  /\ (AddressFree(n)' <=> AddressFree(n))
      /\ AdministratorExists' <=> AdministratorExists
  BY <1>3 DEF Inserted, Found, Fits, AddressFree, Demo, AdministratorExists
<1>5. Done(s)' = Done(s)
  BY <1>1, <1>3 DEF Done
<1>6. Place(s)' /\ MadeRows(s)' /\ Lookups(s)'
  BY <1>1, <1>3, <1>4, <1>5 DEF Place, MadeRows, Lookups, Demo
<1>7. Actors(s)'
  <2>1. Demo[1]' = Demo[1] /\ \A r : UserSnapshot(r)' = UserSnapshot(r)
    BY DEF Demo, UserSnapshot
  <2> QED
    BY <1>1, <1>3, <2>1 DEF Actors
<1>8. Working(s)' /\ pc'[s] # "LockDemo"
  BY <1>3 DEF Working, Seeding, DemoStatements
<1> QED
  BY <1>1, <1>3, <1>6, <1>7, <1>8 DEF Story, Administration

LEMMA SeedStory ==
  ASSUME SeedSound, NEW s \in Sessions, SeedStep(s)
  PROVE  Story(s)'
<1>1. CASE Stops(s)
  BY <1>1, StopsStory
<1>2. CASE ~Stops(s)
  <2>1. GoesOn(s)
    BY <1>2, SeedMoved
  <2>2. CASE ResolveDemo(s) \/ FailDemo(s)
    <3>1. Seeding(s) /\ ~Seeding(s)'
      BY <2>2 DEF ResolveDemo, FailDemo, Drop, Finish, End, At, Seeding, DemoStatements,
                  SeedSound, Domains
    <3> QED
      BY <2>1, <3>1 DEF GoesOn
  <2> QED
    BY <1>2, <2>1, <2>2, RunSeedStory, LockDemoStory, GetLoginUserStory, DemoAdministratorStory,
       InsertDemoStory, AuditDemoStory, CommitDemoStory DEF SeedStep
<1> QED
  BY <1>1, <1>2

-----------------------------------------------------------------------------
LEMMA StepSeedSound ==
  ASSUME SeedSound, [SeedNext]_seedVars
  PROVE  SeedSound'
<1>1. Services!Sound' /\ Domains /\ Apart /\ Notes /\ AdministrationOnce /\ Services!Typed
        /\ Services!TypeOK
  BY ServicesSound DEF SeedSound, Services!Sound, Services!Inv, Services!Typed
<1>2. ASSUME NEW s \in Sessions, SeedStep(s)
      PROVE  SeedSound'
  <2>1. GoesOn(s) \/ Stops(s)
    BY <1>2, SeedMoved
  <2>2. Domains' /\ Notes' /\ Alone(s) /\ Locks(s)
    BY <1>1, <2>1, StopsAlone DEF GoesOn, Locks
  <2>3. AdministrationOnce'
    BY <1>1, <2>2, LocksOnce DEF Alone
  <2>4. Seeding(s)' => req'[s] = SeedRequest
    <3>1. CASE GoesOn(s)
      <4>1. CASE Seeding(s)
        BY <1>1, <3>1, <4>1 DEF GoesOn, Apart
      <4>2. CASE ~Seeding(s)
        <5>1. RunSeed(s)
          BY <1>2, <4>2
          DEF SeedStep, LockDemo, GetLoginUser, DemoAdministrator, InsertDemo, AuditDemo,
              CommitDemo, ResolveDemo, FailDemo, At, Seeding, DemoStatements
        <5> QED
          BY <1>1, <3>1, <5>1
          DEF RunSeed, Drop, Finish, End, GoesOn, Seeding, DemoStatements, Domains
      <4> QED
        BY <4>1, <4>2
    <3>2. CASE Stops(s)
      BY <1>1, <3>2, StopsAlone DEF Seeding, DemoStatements
    <3> QED
      BY <2>1, <3>1, <3>2
  <2>5. Apart'
    BY <1>1, <2>2, <2>4 DEF Apart, Alone, Seeding, SeedRequest
  <2>6. ASSUME NEW t \in Sessions \ {s}
        PROVE  Story(t)'
    <3>1. users' = users \/ ~Working(t)
      <4>1. CASE UNCHANGED tables
        BY <4>1 DEF tables
      <4>2. CASE pc[s] \in {"CommitDemo", "LimboDemo"}
        BY <4>2, SeedWrites DEF SeedSound, AdministrationOnce, Story
      <4> QED
        BY <2>1, <4>1, <4>2 DEF GoesOn, Stops, tables
    <3> QED
      BY <2>2, <3>1, OthersStory DEF SeedSound, Alone
  <2> QED
    BY <1>1, <1>2, <2>2, <2>3, <2>5, <2>6, SeedStory DEF SeedSound
<1>3. ASSUME NEW s \in Sessions, Serve(s)
      PROVE  SeedSound'
  <2>1. /\ Within(s) /\ ~Seeding(s) /\ UNCHANGED seeds
        /\ Services!Receive(s) \/ Services!Step(s) \/ Services!CommitLost(s) \/ Services!Abort(s)
    BY <1>1, <1>3, ServeIsNext
  <2>2. Domains' /\ Notes' /\ ~Seeding(s)' /\ AdministrationOnce'
    BY <1>1, <2>1, LocksOnce DEF Within, Notes, seeds
  <2>3. Apart'
    BY <1>1, <2>1, <2>2 DEF Apart, Within, Seeding, SeedRequest
  <2>4. Story(s)'
    <3>1. ~Working(s) /\ Unbegun(s)
      BY <2>1 DEF SeedSound, Story, Working
    <3>2. Unbegun(s)'
      BY <2>1, <3>1 DEF Unbegun, seeds, Nothing
    <3> QED
      BY <2>2, <3>2 DEF Story, Working, Seeding, DemoStatements
  <2>5. ASSUME NEW t \in Sessions \ {s}
        PROVE  Story(t)'
    <3>1. reply'[t] = reply[t]
      BY <1>1, <2>1, ServicesAssumptions, Services!OneAnswer
    <3>2. users' = users \/ ~Working(t)
      BY <1>1, <1>3, ServedAccounts
    <3> QED
      BY <2>1, <3>1, <3>2, OthersStory DEF SeedSound, Within, seeds
  <2> QED
    BY <1>1, <2>2, <2>3, <2>4, <2>5 DEF SeedSound
<1>4. CASE UNCHANGED seedVars
  <2>1. UNCHANGED <<users, pc, req, key, held, reply, turn, admin, made, audited>>
    BY <1>4 DEF seedVars, vars, seeds
  <2>2. \A s \in Sessions : Story(s)'
    BY <2>1, OthersStory DEF SeedSound
  <2>3. Domains' /\ Notes' /\ Apart' /\ AdministrationOnce'
    BY <1>1, <2>1 DEF Domains, Notes, Apart, Seeding, SeedRequest, AdministrationOnce, Administration
  <2> QED
    BY <1>1, <2>2, <2>3 DEF SeedSound
<1> QED
  BY <1>2, <1>3, <1>4 DEF SeedNext

LEMMA InitSeedSound ==
  ASSUME SeedInit
  PROVE  SeedSound
<1>1. \A s \in Sessions : ~Seeding(s)
  BY DEF SeedInit, Init, Seeding, DemoStatements
<1>2. ServedPc = pc /\ ServedReq = req /\ ServedKey = key /\ ServedHeld = held
  BY <1>1 DEF SeedInit, Init, ServedPc, ServedReq, ServedKey, ServedHeld
<1>3. Services!Init
  BY <1>2, SameRows DEF SeedInit, Init, Services!Init, Snapshot, Services!Snapshot, UserSnapshot,
                        Services!UserSnapshot
<1>4. Services!Sound
  BY <1>3, ServicesAssumptions, Services!InitSound
<1>5. Domains /\ Notes /\ Apart /\ AdministrationOnce
  BY <1>1 DEF SeedInit, Init, Domains, Notes, Apart, AdministrationOnce
<1>6. \A s \in Sessions : Story(s)
  BY <1>1 DEF SeedInit, Init, Story, Working, Unbegun, Seeding, DemoStatements
<1> QED
  BY <1>4, <1>5, <1>6 DEF SeedSound

LEMMA SeedSoundAlways == SeedSpec => []SeedSound
<1>1. SeedInit => SeedSound
  BY InitSeedSound
<1>2. SeedSound /\ [SeedNext]_seedVars => SeedSound'
  BY StepSeedSound
<1> QED
  BY <1>1, <1>2, PTL DEF SeedSpec

-----------------------------------------------------------------------------
(***************************************************************************)
(* The theorems.                                                           *)
(***************************************************************************)

\* With seeds beside the services the audit trail still ends in the row that the tables
\* have: a seed commits every account it inserts together with the audit row of its
\* creation, or neither, also when the answer of the commit is lost (SeedDemo, InTx).
THEOREM SeedTrail == SeedSpec => []TrailMatchesTables
<1>1. SeedSound => TrailMatchesTables
  <2> SUFFICES ASSUME SeedSound, NEW k \in Keys
               PROVE  trail[k] = Snapshot(k, Row(k))
    BY DEF TrailMatchesTables
  <2>1. trail[k] = Services!Snapshot(k, Services!Row(k))
    BY SameRows DEF SeedSound, Services!Sound, Services!Inv, Services!Locked,
                    Services!TrailMatchesTables
  <2>2. Services!Row(k) = Row(k)
    BY DEF Services!Row, Row
  <2> QED
    BY <2>1, <2>2 DEF Services!Snapshot, Snapshot, Services!UserSnapshot, UserSnapshot
<1> QED
  BY <1>1, SeedSoundAlways, PTL

-----------------------------------------------------------------------------
\* Nobody takes an address that a seed has seen free, or an account that it has found.
LEMMA SeedReplies ==
  ASSUME SeedSound, NEW s \in Sessions, SeedStep(s)
  PROVE  /\ pc[s] = "InsertDemo" => reply'[s] # "EMAIL_CONFLICT"
         /\ pc[s] = "CommitDemo" /\ reply'[s] = Ok => ApplySeed(s)
<1>1. reply \in [Sessions -> Answers \cup {Null}]
  BY SameRows DEF SeedSound, Services!Sound, Services!Inv, Services!Typed, Services!TypeOK
<1>2. "EMAIL_CONFLICT" # Null /\ Ok # Null /\ Ok # "FAILED" /\ Ok # "WRITE_OUTCOME_UNKNOWN"
  BY AnswersAssumption DEF Answers, Ok
<1>3. ASSUME FailDemo(s)
      PROVE  reply'[s] = "FAILED"
  BY <1>1, <1>3 DEF FailDemo, Drop, Finish, End
<1>4. ASSUME pc[s] = "InsertDemo"
      PROVE  reply'[s] # "EMAIL_CONFLICT"
  <2>1. InsertDemo(s) \/ FailDemo(s)
    BY <1>4 DEF SeedStep, RunSeed, LockDemo, GetLoginUser, DemoAdministrator, AuditDemo,
                CommitDemo, ResolveDemo, At
  <2>2. Story(s) /\ Working(s)
    BY <1>4 DEF SeedSound, Working, Seeding, DemoStatements
  <2>3. AddressFree(turn[s]) /\ reply[s] \in {Null, "WRITE_OUTCOME_UNKNOWN"}
    BY <1>4, <2>2 DEF Story, Lookups, Working
  <2>4. ~EmailTaken(Demo[turn[s]].email, {})
    BY <2>3 DEF AddressFree, EmailTaken
  <2>5. InsertDemo(s) => reply' = reply
    BY <2>4 DEF InsertDemo
  <2> QED
    BY <1>2, <1>3, <2>1, <2>3, <2>5
<1>5. ASSUME pc[s] = "CommitDemo", reply'[s] = Ok
      PROVE  ApplySeed(s)
  <2>1. CommitDemo(s) \/ FailDemo(s)
    BY <1>5 DEF SeedStep, RunSeed, LockDemo, GetLoginUser, DemoAdministrator, InsertDemo,
                AuditDemo, ResolveDemo, At
  <2> QED
    BY <1>1, <1>2, <1>3, <1>5, <2>1 DEF CommitDemo
<1> QED
  BY <1>4, <1>5

\* The accounts that a seed leaves when it commits.
LEMMA SeedLeaves ==
  ASSUME SeedSound, NEW s \in Sessions, pc[s] \in {"CommitDemo", "LimboDemo"}, ApplySeed(s),
         NEW i \in 1..3
  PROVE  \E u \in Users : /\ users'[u] # Null /\ users'[u].active
                          /\ users'[u].email = Demo[i].email /\ users'[u].role = Demo[i].role
<1>1. Working(s) /\ Done(s) = 1..3 /\ DOMAIN made[s] \subseteq Users
  BY SeedWrites
<1>2. Inserted(s, i) \/ Found(i)
  BY <1>1 DEF SeedSound, Story, Lookups
<1>3. CASE Inserted(s, i)
  <2>1. PICK u \in DOMAIN made[s] : made[s][u] = Demo[i]
    BY <1>3 DEF Inserted
  <2>2. u \in Users /\ users'[u] = Demo[i]
    BY <1>1, <2>1, SeedTables
  <2> QED
    BY <2>2, DemoRows
<1>4. CASE Found(i)
  <2>1. PICK u \in Users : users[u] # Null /\ users[u].email = Demo[i].email /\ Fits(u, Demo[i])
    BY <1>4 DEF Found
  <2>2. users'[u] = users[u]
    BY <2>1, SeedTables
  <2> QED
    BY <2>1, <2>2 DEF Fits
<1> QED
  BY <1>2, <1>3, <1>4

LEMMA StepLookups ==
  ASSUME SeedSound, SeedNext, NEW s \in Sessions
  PROVE  /\ pc[s] = "InsertDemo" => reply'[s] # "EMAIL_CONFLICT"
         /\ pc[s] = "CommitDemo" /\ reply'[s] = Ok =>
              \A i \in DOMAIN Demo : \E u \in Users :
                /\ users'[u] # Null /\ users'[u].active
                /\ users'[u].email = Demo[i].email /\ users'[u].role = Demo[i].role
<1>1. CASE SeedStep(s)
  BY <1>1, SeedReplies, SeedLeaves, DemoRows
<1>2. ASSUME ~SeedStep(s), pc[s] \in {"InsertDemo", "CommitDemo"}
      PROVE  reply'[s] # "EMAIL_CONFLICT" /\ reply'[s] # Ok
  <2>1. Seeding(s)
    BY <1>2 DEF Seeding, DemoStatements
  <2>2. reply[s] \in {Null, "WRITE_OUTCOME_UNKNOWN"}
    BY <2>1 DEF SeedSound, Story
  <2>3. PICK t \in Sessions : SeedStep(t) \/ Serve(t)
    BY DEF SeedNext
  <2>4. t # s
    BY <1>2, <2>1, <2>3 DEF Serve, Seeding
  <2>5. Domains /\ Notes /\ Apart /\ Services!Typed /\ Services!TypeOK
    BY DEF SeedSound, Services!Sound, Services!Inv, Services!Typed
  <2>6. CASE SeedStep(t)
    <3>1. Alone(t)
      BY <2>5, <2>6, SeedMoved, StopsAlone DEF GoesOn
    <3> QED
      BY <2>2, <2>4, <3>1, AnswersAssumption DEF Alone, Answers, Ok
  <2>7. CASE Serve(t)
    <3>1. Services!Receive(t) \/ Services!Step(t) \/ Services!CommitLost(t) \/ Services!Abort(t)
      BY <2>5, <2>7, ServeIsNext
    <3>2. reply'[s] = reply[s]
      BY <2>4, <2>5, <3>1, ServicesAssumptions, Services!OneAnswer
    <3> QED
      BY <2>2, <3>2, AnswersAssumption DEF Answers, Ok
  <2> QED
    BY <2>3, <2>6, <2>7
<1> QED
  BY <1>1, <1>2

\* What a seed has looked up stays so until it commits: the unique index never refuses an
\* address that GetLoginUser saw free, and when the command reports success, each demo
\* account is there, active and in its role, the ones it found included (the
\* administration lock that SeedDemo and users.Create, Patch and Bootstrap all take).
THEOREM SeedLookups == SeedSpec => LookupsStayTrue
<1> DEFINE Stay ==
      \A s \in Sessions :
        /\ pc[s] = "InsertDemo" => reply'[s] # "EMAIL_CONFLICT"
        /\ pc[s] = "CommitDemo" /\ reply'[s] = Ok =>
             \A i \in DOMAIN Demo : \E u \in Users :
               /\ users'[u] # Null /\ users'[u].active
               /\ users'[u].email = Demo[i].email /\ users'[u].role = Demo[i].role
<1>1. SeedSound /\ [SeedNext]_seedVars => [Stay]_seedVars
  BY StepLookups
<1>2. LookupsStayTrue <=> [][Stay]_seedVars
  BY DEF LookupsStayTrue
<1> QED
  BY <1>1, <1>2, SeedSoundAlways, PTL DEF SeedSpec

-----------------------------------------------------------------------------
(***************************************************************************)
(* Where accounts come from: one root, an administrator, and accounts that *)
(* administrators created.                                                 *)
(***************************************************************************)
Root(u) == users[u] # Null /\ origin[u] = Null

RootsAdminister == \A u \in Users : Root(u) => users[u].role = "ADMIN"

OneOrigin ==
  /\ RootsAdminister
  /\ \A u, v \in Users : Root(u) /\ Root(v) => u = v
  /\ \A u \in Users : users[u] # Null /\ ~Root(u) =>
       /\ origin[u] \in Users /\ users[origin[u]] # Null /\ users[origin[u]].role = "ADMIN"

\* At most one is what the cardinality says.
LEMMA RootsCounted ==
  Cardinality({u \in {x \in Users : users[x] # Null} : origin[u] = Null}) <= 1
    <=> \A u, v \in Users : Root(u) /\ Root(v) => u = v
<1> DEFINE roots == {u \in {x \in Users : users[x] # Null} : origin[u] = Null}
<1>1. IsFiniteSet(roots) /\ Cardinality(roots) \in Nat
  BY IdsAssumption, FS_Subset, FS_CardinalityType
<1>2. ASSUME Cardinality(roots) <= 1, NEW u \in Users, NEW v \in Users, Root(u), Root(v)
      PROVE  u = v
  <2>1. u \in roots /\ v \in roots
    BY <1>2 DEF Root
  <2>2. Cardinality(roots) = 0 \/ Cardinality(roots) = 1
    BY <1>1, <1>2
  <2>3. roots # {}
    BY <2>1
  <2>4. Cardinality(roots) = 1
    BY <1>1, <2>2, <2>3, FS_EmptySet
  <2>5. PICK x : roots = {x}
    BY <1>1, <2>4, FS_Singleton
  <2> QED
    BY <2>1, <2>5
<1>3. ASSUME \A u, v \in Users : Root(u) /\ Root(v) => u = v
      PROVE  Cardinality(roots) <= 1
  <2>1. CASE roots = {}
    BY <1>1, <2>1, FS_EmptySet
  <2>2. CASE roots # {}
    <3>1. PICK x : x \in roots
      BY <2>2
    <3>2. \A y \in roots : y = x
      BY <1>3, <3>1 DEF Root
    <3>3. roots = {x}
      BY <3>1, <3>2
    <3>4. Cardinality({x}) = 1
      BY FS_Singleton
    <3> QED
      BY <3>3, <3>4
  <2> QED
    BY <2>1, <2>2
<1> QED
  BY <1>2, <1>3

\* What a step does to the accounts and their origins: who is there stays, in their role
\* and with their origin; at most one account is added that nobody created, as the first
\* administrator; the others are added by an administrator.
Grows ==
  /\ \A u \in Users : users[u] # Null =>
       users'[u] # Null /\ users'[u].role = users[u].role /\ origin'[u] = origin[u]
  /\ \A u, v \in Users :
       users[u] = Null /\ Root(u)' /\ users[v] = Null /\ Root(v)' => u = v
  /\ \A u \in Users : users[u] = Null /\ Root(u)' =>
       ~AdministratorExists /\ users'[u].role = "ADMIN"
  /\ \A u \in Users : users[u] = Null /\ users'[u] # Null /\ ~Root(u)' =>
       origin'[u] \in Users /\ users'[origin'[u]] # Null /\ users'[origin'[u]].role = "ADMIN"

LEMMA GrowsKeeps ==
  ASSUME OneOrigin, Grows
  PROVE  OneOrigin'
<1>1. \A u \in Users : users[u] # Null => (Root(u)' <=> Root(u))
  BY DEF Grows, Root
<1>2. ASSUME NEW u \in Users, users[u] = Null, Root(u)', NEW v \in Users, users[v] # Null
      PROVE  ~Root(v)'
  BY <1>1, <1>2 DEF OneOrigin, RootsAdminister, Root, AdministratorExists, Grows
<1>3. RootsAdminister'
  BY <1>1 DEF OneOrigin, RootsAdminister, Grows, Root
<1>4. ASSUME NEW u \in Users, NEW v \in Users, Root(u)', Root(v)'
      PROVE  u = v
  <2>1. CASE users[u] = Null /\ users[v] = Null
    BY <1>4, <2>1 DEF Grows
  <2>2. CASE users[u] # Null /\ users[v] # Null
    BY <1>1, <1>4, <2>2 DEF OneOrigin
  <2> QED
    BY <1>2, <1>4, <2>1, <2>2
<1>5. ASSUME NEW u \in Users, users'[u] # Null, ~Root(u)'
      PROVE  origin'[u] \in Users /\ users'[origin'[u]] # Null /\ users'[origin'[u]].role = "ADMIN"
  <2>1. CASE users[u] = Null
    BY <1>5, <2>1 DEF Grows
  <2>2. CASE users[u] # Null
    BY <1>1, <1>5, <2>2 DEF OneOrigin, Grows
  <2> QED
    BY <2>1, <2>2
<1> QED
  BY <1>3, <1>4, <1>5 DEF OneOrigin

LEMMA ServeGrows ==
  ASSUME SeedSound, NEW s \in Sessions, Serve(s)
  PROVE  Grows
<1>1. Domains /\ Apart /\ Services!Sound /\ Services!Typed /\ Services!AllGuarded
  BY DEF SeedSound, Services!Sound, Services!Inv
<1>2. /\ ~Seeding(s)
      /\ Services!Receive(s) \/ Services!Step(s) \/ Services!CommitLost(s) \/ Services!Abort(s)
  BY <1>1, ServeIsNext
<1>3. UNCHANGED Services!tables \/ Services!Commits(s)
  BY <1>1, <1>2, ServicesAssumptions, Services!StepFrames
<1>4. \A u \in Users : users[u] # Null =>
        users'[u] # Null /\ users'[u].role = users[u].role /\ origin'[u] = origin[u]
  <2>1. ASSUME NEW u \in Users, users[u] # Null, Services!Commits(s)
        PROVE  users'[u] # Null /\ users'[u].role = users[u].role
    BY <1>1, <2>1, ServicesAssumptions, Services!UserEffect
  <2>2. \A u \in Users : users[u] # Null => origin'[u] = origin[u]
    BY DEF Serve
  <2> QED
    BY <1>3, <2>1, <2>2 DEF Services!tables
<1>5. ASSUME NEW u \in Users, users[u] = Null, users'[u] # Null
      PROVE  /\ origin'[u] = req[s].actor /\ \A v \in Users \ {u} : users'[v] = users[v]
             /\ \/ origin'[u] = Null /\ users'[u].role = "ADMIN" /\ ~AdministratorExists
                \/ /\ origin'[u] \in Users /\ users[origin'[u]] # Null
                   /\ users[origin'[u]].role = "ADMIN"
  <2>1. Services!Commits(s)
    BY <1>3, <1>5 DEF Services!tables
  <2>2. origin'[u] = req[s].actor
    BY <1>5 DEF Serve
  <2>3. \A v \in Users \ {u} : users'[v] = users[v]
    BY <1>1, <1>5, <2>1, ServicesAssumptions, Services!OneAccount
  <2>4. ServedReq[s] = req[s]
    BY <1>2 DEF ServedReq
  <2>5. \/ /\ ServedReq[s].actor = Null /\ users'[u].role = "ADMIN"
           /\ ~Services!AdministratorExists
        \/ /\ ServedReq[s].actor \in Users /\ users[ServedReq[s].actor] # Null
           /\ users[ServedReq[s].actor].role = "ADMIN"
    BY <1>1, <1>5, <2>1, ServicesAssumptions, Services!AccountCreated
  <2> QED
    BY <2>2, <2>3, <2>4, <2>5 DEF Services!AdministratorExists, AdministratorExists
<1>6. Null \notin Users
  BY IdsAssumption DEF Keys
<1>7. \A u, v \in Users : users[u] = Null /\ Root(u)' /\ users[v] = Null /\ Root(v)' => u = v
  BY <1>5 DEF Root
<1>8. \A u \in Users : users[u] = Null /\ Root(u)' =>
        ~AdministratorExists /\ users'[u].role = "ADMIN"
  BY <1>5, <1>6 DEF Root
<1>9. \A u \in Users : users[u] = Null /\ users'[u] # Null /\ ~Root(u)' =>
        origin'[u] \in Users /\ users'[origin'[u]] # Null /\ users'[origin'[u]].role = "ADMIN"
  BY <1>4, <1>5 DEF Root
<1> QED
  BY <1>4, <1>7, <1>8, <1>9 DEF Grows

LEMMA SeedGrows ==
  ASSUME SeedSound, NEW s \in Sessions, SeedStep(s)
  PROVE  Grows
<1>1. CASE UNCHANGED <<users, origin>>
  BY <1>1 DEF Grows, Root
<1>2. ASSUME pc[s] \in {"CommitDemo", "LimboDemo"}, ApplySeed(s)
      PROVE  Grows
  <2>1. /\ DOMAIN made[s] \subseteq Users /\ DOMAIN audited[s] = DOMAIN made[s]
        /\ Working(s) /\ turn[s] = 4
    BY <1>2, SeedWrites
  <2>2. ASSUME NEW u \in Users, u \notin DOMAIN made[s]
        PROVE  users'[u] = users[u] /\ origin'[u] = origin[u]
    BY <1>2, <2>1, <2>2 DEF ApplySeed
  <2>3. ASSUME NEW u \in DOMAIN made[s]
        PROVE  /\ users[u] = Null /\ users'[u] = made[s][u] /\ made[s][u] # Null
               /\ origin'[u] = IF made[s][u] = Demo[1] THEN Null ELSE admin[s]
    <3>1. /\ users[u] = Null /\ made[s][u] # Null
          /\ audited[s][u].actor = IF made[s][u] = Demo[1] THEN Null ELSE admin[s]
      <4>1. audited[s][u] = [actor |-> IF made[s][u] = Demo[1] THEN Null ELSE admin[s],
                             value |-> UserSnapshot(made[s][u])]
        BY <1>2, SeedWrites
      <4>2. users[u] = Null /\ made[s][u] # Null
        BY <1>2, SeedWrites
      <4> QED
        BY <4>1, <4>2
    <3>2. users'[u] = made[s][u] /\ origin'[u] = audited[s][u].actor
      BY <1>2, <2>1 DEF ApplySeed
    <3> QED
      BY <3>1, <3>2
  <2>4. /\ admin[s] \in Users
        /\ IF admin[s] \in DOMAIN made[s] THEN made[s][admin[s]] = Demo[1]
           ELSE users[admin[s]] # Null /\ users[admin[s]].role = "ADMIN"
    BY <2>1 DEF SeedSound, Story, Actors
  <2>5. users'[admin[s]] # Null /\ users'[admin[s]].role = "ADMIN" /\ admin[s] # Null
    <3>1. Demo[1].role = "ADMIN"
      BY DemoRows
    <3>2. Null \notin Users
      BY IdsAssumption DEF Keys
    <3> QED
      BY <2>2, <2>3, <2>4, <3>1, <3>2
  <2>6. \A u \in Users : users[u] # Null => u \notin DOMAIN made[s]
    BY <2>3
  <2>7. \A u \in Users : users[u] # Null =>
          users'[u] # Null /\ users'[u].role = users[u].role /\ origin'[u] = origin[u]
    BY <2>2, <2>6
  <2>8. ASSUME NEW u \in Users, users[u] = Null, users'[u] # Null
        PROVE  u \in DOMAIN made[s]
    BY <2>2, <2>8
  <2>9. ASSUME NEW u \in Users, users[u] = Null, Root(u)'
        PROVE  u \in DOMAIN made[s] /\ made[s][u] = Demo[1]
    BY <2>3, <2>5, <2>8, <2>9 DEF Root
  <2>10. \A u, v \in Users : users[u] = Null /\ Root(u)' /\ users[v] = Null /\ Root(v)' => u = v
    BY <1>2, <2>9, SeedWrites
  <2>11. ASSUME NEW u \in Users, users[u] = Null, Root(u)'
         PROVE  ~AdministratorExists /\ users'[u].role = "ADMIN"
    <3>1. Inserted(s, 1)
      BY <2>9, <2>11 DEF Inserted
    <3> QED
      BY <2>1, <2>3, <2>9, <2>11, <3>1, DemoRows DEF SeedSound, Story, Lookups
  <2>12. \A u \in Users : users[u] = Null /\ users'[u] # Null /\ ~Root(u)' =>
           origin'[u] \in Users /\ users'[origin'[u]] # Null /\ users'[origin'[u]].role = "ADMIN"
    BY <2>3, <2>4, <2>5, <2>8 DEF Root
  <2> QED
    BY <2>7, <2>10, <2>11, <2>12 DEF Grows
<1> QED
  BY <1>1, <1>2, SeedMoved DEF GoesOn, Stops, tables

\* Every account was created by an administrator, but for one administrator: neither two
\* seeds, nor a seed beside a bootstrap, make a second root (HasAdministrator under the
\* administration lock, in SeedDemo and in users.Bootstrap).  The assumption on the tables
\* at the start is that it is so there, and that the account nobody created, if there is
\* one, is an administrator.
THEOREM SeedOneRoot == SeedSpec /\ OneRoot /\ RootsAdminister => []OneRoot
<1>1. OneOrigin => OneRoot
  BY RootsCounted DEF OneOrigin, OneRoot, Root
<1>2. SeedInit /\ OneRoot /\ RootsAdminister => OneOrigin
  <2>1. SeedInit => \A u \in Users : users[u] # Null => Root(u)
    BY DEF SeedInit, Root
  <2> QED
    BY <2>1, RootsCounted DEF OneOrigin, OneRoot
<1>3. SeedSound /\ OneOrigin /\ [SeedNext]_seedVars => OneOrigin'
  <2> SUFFICES ASSUME SeedSound, OneOrigin, [SeedNext]_seedVars
               PROVE  OneOrigin'
    OBVIOUS
  <2>1. CASE SeedNext
    BY <2>1, ServeGrows, SeedGrows, GrowsKeeps DEF SeedNext
  <2>2. CASE UNCHANGED seedVars
    BY <2>2 DEF seedVars, vars, OneOrigin, RootsAdminister, Root
  <2> QED
    BY <2>1, <2>2
<1> QED
  BY <1>1, <1>2, <1>3, SeedSoundAlways, PTL DEF SeedSpec

-----------------------------------------------------------------------------
(***************************************************************************)
(* Refinement: a seed that commits adds what is missing at that moment.    *)
(***************************************************************************)
EmailsDiffer ==
  \A u, v \in Users :
    users[u] # Null /\ users[v] # Null /\ users[u].email = users[v].email => u = v

LEMMA SameEmails ==
  /\ Services!EmailsDiffer <=> EmailsDiffer
  /\ Services!EmailsDiffer' <=> EmailsDiffer'
BY DEF Services!EmailsDiffer, EmailsDiffer

\* What the seed inserted is what is missing.
LEMMA SeedMissing ==
  ASSUME SeedSound, NEW s \in Sessions, pc[s] \in {"CommitDemo", "LimboDemo"}
  PROVE  /\ Whole!Missing = {i \in 1..3 : Inserted(s, i)}
         /\ \A i \in 1..3 : Inserted(s, i) => AddressFree(i)
         /\ \A i \in 1..3 : ~Inserted(s, i) => Found(i)
         /\ Inserted(s, 1) => ~AdministratorExists
<1>1. Working(s) /\ Done(s) = 1..3
  BY SeedWrites
<1>2. Lookups(s)
  BY <1>1 DEF SeedSound, Story
<1>3. \A i \in 1..3 : Whole!Has(Demo[i]) <=> ~AddressFree(i)
  BY DEF Whole!Has, AddressFree
<1>4. \A i \in 1..3 : ~Inserted(s, i) => Found(i)
  BY <1>1, <1>2 DEF Lookups
<1>5. \A i \in 1..3 : Found(i) => ~AddressFree(i)
  BY DEF Found, AddressFree
<1>6. Whole!Missing = {i \in 1..3 : ~Whole!Has(Demo[i])}
  BY DemoRows DEF Whole!Missing
<1> QED
  BY <1>2, <1>3, <1>4, <1>5, <1>6 DEF Lookups

LEMMA SeedRefines ==
  ASSUME SeedSound, EmailsDiffer, NEW s \in Sessions, pc[s] \in {"CommitDemo", "LimboDemo"},
         ApplySeed(s)
  PROVE  Whole!SeedDemo /\ EmailsDiffer'
<1>1. /\ DOMAIN made[s] \subseteq Users
      /\ \A u \in DOMAIN made[s] : users[u] = Null /\ \E i \in 1..3 : made[s][u] = Demo[i]
      /\ \A u, v \in DOMAIN made[s] : made[s][u] = made[s][v] => u = v
  BY SeedWrites
<1>2. /\ \A i \in 1..3 : Demo[i].active
      /\ \A i, j \in 1..3 : Demo[i].email = Demo[j].email => i = j
  BY DemoRows
<1>3. \A i \in 1..3 : i \in Whole!Missing <=> Inserted(s, i)
  BY SeedMissing
<1>4. Whole!Missing \subseteq 1..3
  BY SeedMissing
<1>5. Whole!Seedable
  <2>1. ASSUME NEW u \in Users, NEW i \in 1..3, users[u] # Null, users[u].email = Demo[i].email
        PROVE  users[u].active /\ users[u].role = Demo[i].role
    <3>1. Found(i)
      BY <2>1, SeedMissing DEF AddressFree
    <3>2. PICK v \in Users : users[v] # Null /\ users[v].email = Demo[i].email /\ Fits(v, Demo[i])
      BY <3>1 DEF Found
    <3>3. u = v
      BY <2>1, <3>2 DEF EmailsDiffer
    <3> QED
      BY <3>2, <3>3 DEF Fits
  <2>2. 1 \in Whole!Missing => \A u \in Users : users[u] # Null => users[u].role # "ADMIN"
    BY SeedMissing DEF AdministratorExists
  <2>3. DOMAIN Demo = 1..3
    BY DemoRows
  <2> QED
    BY <2>1, <2>2, <2>3 DEF Whole!Seedable
<1> DEFINE id == [i \in Whole!Missing |-> CHOOSE u \in DOMAIN made[s] : made[s][u] = Demo[i]]
<1>6. \A i \in Whole!Missing : id[i] \in DOMAIN made[s] /\ made[s][id[i]] = Demo[i]
  BY <1>3, <1>4 DEF Inserted
<1>7. \A i \in Whole!Missing, u \in DOMAIN made[s] : made[s][u] = Demo[i] => id[i] = u
  BY <1>1, <1>6
<1>8. ASSUME NEW u \in DOMAIN made[s]
      PROVE  \E i \in Whole!Missing : id[i] = u
  <2>1. PICK i \in 1..3 : made[s][u] = Demo[i]
    BY <1>1
  <2>2. i \in Whole!Missing
    BY <1>3, <2>1 DEF Inserted
  <2> QED
    BY <1>7, <2>1, <2>2
<1>9. id \in [Whole!Missing -> {u \in Users : users[u] = Null}]
  BY <1>1, <1>6
<1>10. \A i, j \in Whole!Missing : id[i] = id[j] => i = j
  <2> SUFFICES ASSUME NEW i \in Whole!Missing, NEW j \in Whole!Missing, id[i] = id[j]
               PROVE  i = j
    OBVIOUS
  <2>1. Demo[i] = Demo[j]
    BY <1>6
  <2> QED
    BY <1>2, <1>4, <2>1
<1>11. Whole!IsInjective(id)
  BY <1>10 DEF Whole!IsInjective
<1>12. ASSUME NEW u \in Users
       PROVE  users'[u] = IF \E i \in Whole!Missing : id[i] = u
                            THEN Demo[CHOOSE i \in Whole!Missing : id[i] = u] ELSE users[u]
  <2>1. users'[u] = IF u \in DOMAIN made[s] THEN made[s][u] ELSE users[u]
    BY DEF ApplySeed
  <2>2. CASE u \in DOMAIN made[s]
    <3> DEFINE k == CHOOSE i \in Whole!Missing : id[i] = u
    <3>1. k \in Whole!Missing /\ id[k] = u
      BY <1>8, <2>2
    <3>2. Demo[k] = made[s][u]
      BY <1>6, <3>1
    <3> QED
      BY <1>8, <2>1, <2>2, <3>2
  <2>3. CASE u \notin DOMAIN made[s]
    BY <1>6, <2>1, <2>3
  <2> QED
    BY <2>2, <2>3
<1>13. users' = [u \in Users |-> IF \E i \in Whole!Missing : id[i] = u
                                   THEN Demo[CHOOSE i \in Whole!Missing : id[i] = u]
                                   ELSE users[u]]
  <2>1. users' = [u \in Users |-> users'[u]]
    BY DEF ApplySeed
  <2> HIDE DEF id
  <2> QED
    BY <1>12, <2>1
<1>14. UNCHANGED <<assets, orders>>
  BY DEF ApplySeed
<1>15. Whole!SeedDemo
  <2> HIDE DEF id
  <2> QED
    BY <1>5, <1>9, <1>11, <1>13, <1>14 DEF Whole!SeedDemo
<1>16. EmailsDiffer'
  <2>1. \A u \in Users : users'[u] = IF u \in DOMAIN made[s] THEN made[s][u] ELSE users[u]
    BY DEF ApplySeed
  <2>2. ASSUME NEW u \in DOMAIN made[s], NEW v \in Users, users[v] # Null
        PROVE  users[v].email # made[s][u].email
    <3>1. PICK i \in 1..3 : made[s][u] = Demo[i]
      BY <1>1
    <3>2. AddressFree(i)
      BY <3>1, SeedMissing DEF Inserted
    <3> QED
      BY <2>2, <3>1, <3>2 DEF AddressFree
  <2>3. ASSUME NEW u \in DOMAIN made[s], NEW v \in DOMAIN made[s],
               made[s][u].email = made[s][v].email
        PROVE  u = v
    <3>1. PICK i \in 1..3 : made[s][u] = Demo[i]
      BY <1>1
    <3>2. PICK j \in 1..3 : made[s][v] = Demo[j]
      BY <1>1
    <3>3. i = j
      BY <1>2, <2>3, <3>1, <3>2
    <3> QED
      BY <1>1, <3>1, <3>2, <3>3
  <2> QED
    BY <2>1, <2>2, <2>3 DEF EmailsDiffer
<1> QED
  BY <1>15, <1>16

\* The atomic services are the same in both.
LEMMA SameAtomic ==
  /\ Services!Atomic!Next => Whole!Next
  /\ UNCHANGED Services!Atomic!vars <=> UNCHANGED Whole!vars
<1>1. \A u, permission : Services!Atomic!May(u, permission) <=> Whole!May(u, permission)
  BY DEF Services!Atomic!May, Whole!May, Services!Atomic!RolePermissions, Whole!RolePermissions,
         Services!Atomic!Permissions, Whole!Permissions, Services!Atomic!AdminOnlyPermissions,
         Whole!AdminOnlyPermissions, Services!Atomic!SharedPermissions, Whole!SharedPermissions
<1>2. /\ \A u, o : Services!Atomic!Mine(u, o) <=> Whole!Mine(u, o)
      /\ \A new, old : Services!Atomic!Merge(new, old) = Whole!Merge(new, old)
      /\ Services!Atomic!Unfinished = Whole!Unfinished
      /\ \A a : Services!Atomic!Present(a) <=> Whole!Present(a)
      /\ \A a, u : Services!Atomic!MayDeactivate(a, u) <=> Whole!MayDeactivate(a, u)
  BY DEF Services!Atomic!Mine, Whole!Mine, Services!Atomic!Merge, Whole!Merge,
         Services!Atomic!Unfinished, Whole!Unfinished, Services!Atomic!Present, Whole!Present,
         Services!Atomic!MayDeactivate, Whole!MayDeactivate
<1>3. ASSUME NEW r
      PROVE  /\ Services!Atomic!CreateUser(r) => Whole!CreateUser(r)
             /\ Services!Atomic!Bootstrap(r) => Whole!Bootstrap(r)
             /\ Services!Atomic!PatchUser(r) => Whole!PatchUser(r)
  <2>1. Services!Atomic!AddUser(r) => Whole!AddUser(r)
    BY DEF Services!Atomic!AddUser, Whole!AddUser
  <2> QED
    BY <1>1, <1>2, <2>1
    DEF Services!Atomic!CreateUser, Whole!CreateUser, Services!Atomic!Bootstrap,
        Whole!Bootstrap, Services!Atomic!PatchUser, Whole!PatchUser
<1>4. ASSUME NEW r
      PROVE  /\ Services!Atomic!CreateAsset(r) => Whole!CreateAsset(r)
             /\ Services!Atomic!PatchAsset(r) => Whole!PatchAsset(r)
             /\ Services!Atomic!DeleteAsset(r) => Whole!DeleteAsset(r)
  BY <1>1, <1>2
  DEF Services!Atomic!CreateAsset, Whole!CreateAsset, Services!Atomic!PatchAsset,
      Whole!PatchAsset, Services!Atomic!DeleteAsset, Whole!DeleteAsset
<1>5. ASSUME NEW r
      PROVE  /\ Services!Atomic!CreateOrder(r) => Whole!CreateOrder(r)
             /\ Services!Atomic!PatchOrder(r) => Whole!PatchOrder(r)
             /\ Services!Atomic!AssignOrder(r) => Whole!AssignOrder(r)
             /\ Services!Atomic!StatusOrder(r) => Whole!StatusOrder(r)
  BY <1>1, <1>2
  DEF Services!Atomic!CreateOrder, Whole!CreateOrder, Services!Atomic!PatchOrder,
      Whole!PatchOrder, Services!Atomic!AssignOrder, Whole!AssignOrder,
      Services!Atomic!StatusOrder, Whole!StatusOrder
<1>6. \A r : Services!Atomic!Do(r) => Whole!Do(r)
  BY <1>3, <1>4, <1>5 DEF Services!Atomic!Do, Whole!Do
<1> QED
  BY <1>6 DEF Services!Atomic!Next, Whole!Next, Services!Atomic!vars, Whole!vars

\* To the services, requests are those of clients.
LEMMA SeedAsked ==
  ASSUME SeedSound, Services!Asked, [SeedNext]_seedVars
  PROVE  Services!Asked'
<1>1. Domains /\ Notes /\ Apart /\ Services!Sound /\ Services!Typed /\ Services!TypeOK
  BY DEF SeedSound, Services!Sound, Services!Inv, Services!Typed
<1>2. ASSUME NEW s \in Sessions, SeedStep(s)
      PROVE  Services!Asked'
  <2>1. Services!Outside(s)
    BY <1>2, SeedMoved, GoesOnOutside, StopsOutside
  <2> QED
    BY <2>1 DEF Services!Outside, Services!Asked
<1>3. ASSUME NEW s \in Sessions, Serve(s)
      PROVE  Services!Asked'
  <2>1. Services!Next
    BY <1>1, <1>3, ServeIsNext DEF Services!Next
  <2> QED
    BY <1>1, <2>1, ServicesAssumptions, Services!StepAsked
<1>4. CASE UNCHANGED seedVars
  BY <1>4 DEF seedVars, vars, Services!Asked, ServedReq, Seeding
<1> QED
  BY <1>2, <1>3, <1>4 DEF SeedNext

SeedAskedSound == SeedSound /\ Services!Asked

LEMMA SeedAskedAlways == SeedSpec => []SeedAskedSound
<1>1. SeedInit => Services!Asked
  BY DEF SeedInit, Init, Services!Asked, ServedReq
<1>2. SeedSound /\ Services!Asked /\ [SeedNext]_seedVars => Services!Asked'
  BY SeedAsked
<1> QED
  BY <1>1, <1>2, SeedSoundAlways, PTL DEF SeedSpec, SeedAskedSound

LEMMA StepSeededWhole ==
  ASSUME SeedSound, Services!Asked, EmailsDiffer, [SeedNext]_seedVars
  PROVE  EmailsDiffer' /\ [Whole!Next \/ Whole!SeedDemo]_(Whole!vars)
<1>1. Domains /\ Apart /\ Services!Sound /\ Services!Typed /\ Services!AllGuarded
  BY DEF SeedSound, Services!Sound, Services!Inv
<1>2. UNCHANGED <<users, assets, orders>> => EmailsDiffer' /\ UNCHANGED Whole!vars
  BY DEF EmailsDiffer, Whole!vars
<1>3. ASSUME NEW s \in Sessions, SeedStep(s)
      PROVE  EmailsDiffer' /\ [Whole!Next \/ Whole!SeedDemo]_(Whole!vars)
  <2>1. UNCHANGED tables \/ (pc[s] \in {"CommitDemo", "LimboDemo"} /\ ApplySeed(s))
    BY <1>3, SeedMoved DEF GoesOn, Stops, tables
  <2> QED
    BY <1>2, <2>1, SeedRefines DEF tables
<1>4. ASSUME NEW s \in Sessions, Serve(s)
      PROVE  EmailsDiffer' /\ [Whole!Next \/ Whole!SeedDemo]_(Whole!vars)
  <2>1. Services!Receive(s) \/ Services!Step(s) \/ Services!CommitLost(s) \/ Services!Abort(s)
    BY <1>1, <1>4, ServeIsNext
  <2>2. Services!Next
    BY <2>1 DEF Services!Next
  <2>3. Services!Atomic!Next \/ UNCHANGED Services!Atomic!vars
    BY <1>1, <2>2, ServicesAssumptions, Services!StepRefines
  <2>4. UNCHANGED Services!tables \/ Services!Commits(s)
    BY <1>1, <2>1, ServicesAssumptions, Services!StepFrames
  <2>5. EmailsDiffer'
    <3>1. CASE UNCHANGED Services!tables
      BY <1>2, <3>1 DEF Services!tables
    <3>2. CASE Services!Commits(s)
      BY <1>1, <3>2, SameEmails, ServicesAssumptions, Services!CommitEmails
    <3> QED
      BY <2>4, <3>1, <3>2
  <2> QED
    BY <2>3, <2>5, SameAtomic
<1>5. CASE UNCHANGED seedVars
  BY <1>2, <1>5 DEF seedVars, vars
<1> QED
  BY <1>3, <1>4, <1>5 DEF SeedNext

\* A seed beside the services is one step: when it commits, it adds exactly the demo
\* accounts that are missing then, changes no account, and adds its administrator only to
\* a system without one; every other change of the tables is one request of the services
\* done in one step (SeedDemo, InTx, the administration lock).  The assumption on the
\* tables at the start is the unique index on the addresses (000004_users.up.sql).
THEOREM SeedsAtomic == SeedSpec /\ EmailsDiffer => SeededWhole
<1>1. SeedInit => Whole!Init
  BY DEF SeedInit, Init, Whole!Init
<1>2. SeedAskedSound /\ EmailsDiffer /\ [SeedNext]_seedVars =>
        EmailsDiffer' /\ [Whole!Next \/ Whole!SeedDemo]_(Whole!vars)
  BY StepSeededWhole DEF SeedAskedSound
<1> QED
  BY <1>1, <1>2, SeedAskedAlways, PTL DEF SeedSpec, SeededWhole, Whole!SeedSpec

-----------------------------------------------------------------------------
(***************************************************************************)
(* What the services promise they promise beside seeds too.                *)
(***************************************************************************)
\* A step is one of the services, or leaves the rows that are there alone.
LEMMA SeedFrames ==
  ASSUME SeedSound, [SeedNext]_seedVars
  PROVE  \/ Services!Next
         \/ /\ UNCHANGED <<assets, orders>>
            /\ \A u \in Users : users[u] # Null => users'[u] = users[u]
<1>1. Domains /\ Apart /\ Services!Typed
  BY DEF SeedSound, Services!Sound, Services!Inv
<1>2. ASSUME NEW s \in Sessions, SeedStep(s)
      PROVE  /\ UNCHANGED <<assets, orders>>
             /\ \A u \in Users : users[u] # Null => users'[u] = users[u]
  <2>1. UNCHANGED tables \/ (pc[s] \in {"CommitDemo", "LimboDemo"} /\ ApplySeed(s))
    BY <1>2, SeedMoved DEF GoesOn, Stops, tables
  <2> QED
    BY <2>1, SeedTables DEF tables
<1>3. ASSUME NEW s \in Sessions, Serve(s)
      PROVE  Services!Next
  BY <1>1, <1>3, ServeIsNext DEF Services!Next
<1>4. CASE UNCHANGED seedVars
  BY <1>4 DEF seedVars, vars
<1> QED
  BY <1>2, <1>3, <1>4 DEF SeedNext

\* Beside seeds too, until it commits a write belongs to an account that is active and
\* permitted (rbac.Check in the transaction; SeedDemo never changes an account).
THEOREM SeedWriterAuthorized == SeedSpec => []WriterStaysAuthorized
<1>1. SeedSound => WriterStaysAuthorized
  <2> SUFFICES ASSUME SeedSound, NEW s \in Sessions, next[s] # Null, req[s].actor # Null
               PROVE  /\ users[req[s].actor].active
                      /\ Permission(req[s]) \in RolePermissions(users[req[s].actor].role)
    BY DEF WriterStaysAuthorized
  <2>1. Services!Sound
    BY DEF SeedSound
  <2>2. ServedPc[s] \in Services!Closing /\ ServedPc[s] \notin Services!Early
          /\ Services!Guarded(s)
    BY <2>1, ServicesAssumptions, Services!WriterInService
  <2>3. ~Seeding(s)
    BY <2>2 DEF ServedPc, Services!Early
  <2>4. ServedReq[s] = req[s]
    BY <2>3 DEF ServedReq
  <2>5. /\ users[req[s].actor].active
        /\ Services!Permission(req[s]) \in Services!RolePermissions(users[req[s].actor].role)
    BY <2>2, <2>4 DEF Services!Guarded, Services!Passed
  <2> QED
    BY <2>5, ServedPermission
    DEF Services!RolePermissions, RolePermissions, Services!Permissions, Permissions,
        Services!AdminOnlyPermissions, AdminOnlyPermissions, Services!SharedPermissions,
        SharedPermissions
<1> QED
  BY <1>1, SeedSoundAlways, PTL

\* Beside seeds too, an assigned or started order belongs to an active technician, if it did
\* when the program started (workorders.Assign against users.Patch).
THEOREM SeedAssigneesStayActive == SeedSpec /\ ActiveAssignee => []ActiveAssignee
<1>1. SeedAskedSound /\ ActiveAssignee /\ [SeedNext]_seedVars => ActiveAssignee'
  <2> SUFFICES ASSUME SeedAskedSound, ActiveAssignee, [SeedNext]_seedVars
               PROVE  ActiveAssignee'
    OBVIOUS
  <2>1. Services!ActiveAssignee /\ (Services!ActiveAssignee' => ActiveAssignee')
    BY DEF Services!ActiveAssignee, ActiveAssignee
  <2>2. CASE Services!Next
    BY <2>1, <2>2, ServicesAssumptions, Services!StepAssignee DEF SeedAskedSound, SeedSound
  <2>3. CASE /\ UNCHANGED <<assets, orders>>
             /\ \A u \in Users : users[u] # Null => users'[u] = users[u]
    BY <2>3 DEF ActiveAssignee
  <2> QED
    BY <2>2, <2>3, SeedFrames DEF SeedAskedSound
<1> QED
  BY <1>1, SeedAskedAlways, PTL DEF SeedSpec

\* Beside seeds too, an order that is not finished is about an asset in service, if it was
\* when the program started (workorders.Create against assets.Patch and assets.Delete).
THEOREM SeedAssetsStayInService == SeedSpec /\ AssetInService => []AssetInService
<1>1. SeedAskedSound /\ AssetInService /\ [SeedNext]_seedVars => AssetInService'
  <2> SUFFICES ASSUME SeedAskedSound, AssetInService, [SeedNext]_seedVars
               PROVE  AssetInService'
    OBVIOUS
  <2>1. Services!AssetInService /\ (Services!AssetInService' => AssetInService')
    BY DEF Services!AssetInService, AssetInService
  <2>2. CASE Services!Next
    BY <2>1, <2>2, ServicesAssumptions, Services!StepInService DEF SeedAskedSound, SeedSound
  <2>3. CASE UNCHANGED <<assets, orders>>
    BY <2>3 DEF AssetInService
  <2> QED
    BY <2>2, <2>3, SeedFrames DEF SeedAskedSound
<1> QED
  BY <1>1, SeedAskedAlways, PTL DEF SeedSpec

\* Beside seeds too, once there is an active administrator there always is one
\* (GuardDeactivation under the administration lock).
THEOREM SeedAdministratorStays == SeedSpec => AdministratorRemains
<1>1. SeedAskedSound /\ [SeedNext]_seedVars => [HasActiveAdmin => HasActiveAdmin']_vars
  <2> SUFFICES ASSUME SeedAskedSound, [SeedNext]_seedVars, HasActiveAdmin
               PROVE  HasActiveAdmin'
    OBVIOUS
  <2>1. Services!HasActiveAdmin /\ (Services!HasActiveAdmin' => HasActiveAdmin')
    BY DEF Services!HasActiveAdmin, HasActiveAdmin
  <2>2. CASE Services!Next
    BY <2>1, <2>2, ServicesAssumptions, Services!StepAdministrator DEF SeedAskedSound, SeedSound
  <2>3. CASE \A u \in Users : users[u] # Null => users'[u] = users[u]
    BY <2>3 DEF HasActiveAdmin
  <2> QED
    BY <2>2, <2>3, SeedFrames DEF SeedAskedSound
<1> QED
  BY <1>1, SeedAskedAlways, PTL DEF SeedSpec, AdministratorRemains
=============================================================================
