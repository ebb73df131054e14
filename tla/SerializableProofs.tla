------------------------- MODULE SerializableProofs -------------------------
(***************************************************************************)
(* The transactions implement the atomic services of GoWorkAtomic, what    *)
(* follows from it for the tables, and what the transactions record and    *)
(* answer, for every set of accounts, assets, orders, sessions and         *)
(* requests.                                                               *)
(***************************************************************************)
EXTENDS GoWorkProofs

(***************************************************************************)
(* The inductive invariant, on top of the ones of GoWorkProofs: what a     *)
(* transaction has checked is still so, on the tables as they are now,     *)
(* because of the locks it holds.                                          *)
(***************************************************************************)
Writing(s) == next[s] # Null

\* The row a transaction writes, and the audit actions it records for it.
Written(s) ==
  Writing(s) =>
    LET r == req[s] IN
    /\ r.op \in {"CreateUser", "Bootstrap"} =>
         key[s] \in Users /\ row[s] = Null /\ next[s] = NewUser(r)
    /\ r.op = "CreateAsset" => key[s] \in Assets /\ row[s] = Null /\ next[s] = NewAsset(r)
    /\ r.op = "CreateOrder" => key[s] \in Orders /\ row[s] = Null /\ next[s] = NewOrder(r)
    /\ r.op \in {"PatchUser", "PatchAsset", "DeleteAsset"} \cup MutateOps =>
         row[s] # Null /\ key[s] = r.id
    /\ r.op = "PatchUser" => next[s] = PatchedUser(row[s], r)
    /\ r.op = "PatchAsset" => next[s] = PatchedAsset(row[s], r)
    /\ r.op = "DeleteAsset" => next[s] = Gone
    /\ r.op = "PatchOrder" => next[s] = PatchedOrder(row[s], r)
    /\ r.op = "AssignOrder" => next[s] = AssignedOrder(row[s], r.target)
    /\ r.op = "StatusOrder" => next[s] = MovedOrder(row[s], r.target)

\* The address of an account that is written belongs to no other.
EmailFree(s) ==
  Writing(s) /\ req[s].op \in UserOps => ~EmailTaken(next[s].email, {key[s]})

\* A bootstrap past its check is the first.
NoneBefore(s) ==
  req[s].op = "Bootstrap" /\ pc[s] \notin {"LockUserAdministration", "HasAdministrator"} =>
    ~AdministratorExists

\* A deactivation past its guard spares the caller and leaves no work behind.
Spares(s) ==
  req[s].op = "PatchUser" /\ (pc[s] = "UpdateUser" \/ Writing(s))
    /\ Deactivates(PatchedUser(row[s], req[s]), row[s]) =>
      req[s].actor # req[s].id /\ ~HasActiveOrders(req[s].id)

CodeFree(s) ==
  Writing(s) /\ req[s].op = "CreateAsset" =>
    <<CodeLock(req[s].code), "UPDATE">> \in held[s] /\ ~CodeTaken(req[s].code)

\* An asset that is withdrawn has no open orders, one that is deleted no orders at all.
Unneeded(s) ==
  Writing(s) /\ req[s].op = "PatchAsset" /\ Withdraws(row[s].status, next[s].status) =>
    ~HasOpenOrders(key[s])

Unreferenced(s) ==
  req[s].op = "DeleteAsset" /\ (pc[s] = "DeleteAsset" \/ Writing(s)) => ~Referenced(key[s])

\* The asset of a new order is in service, and share-locked.
Serves(s) ==
  req[s].op = "CreateOrder" /\ (pc[s] = "InsertWorkOrder" \/ Writing(s)) =>
    /\ <<RowLock(req[s].asset), "SHARE">> \in held[s]
    /\ assets[req[s].asset] \notin {Null, Gone}
    /\ AcceptsOrders(assets[req[s].asset].status)

\* An order that is changed may be changed by the caller, and as it is.
Owned(s) ==
  req[s].op \in MutateOps /\ (pc[s] = "ShareTarget" \/ Writing(s)) => MutableBy(s) = Ok

Startable(s) ==
  req[s].op = "AssignOrder" /\ (pc[s] = "ShareTarget" \/ Writing(s)) =>
    Assignable(row[s].status) /\ row[s].assignee # req[s].target

Employs(s) ==
  Writing(s) /\ req[s].op = "AssignOrder" =>
    /\ <<RowLock(req[s].target), "SHARE">> \in held[s]
    /\ users[req[s].target] # Null /\ ValidAssignee(req[s].target)

Legal(s) ==
  Writing(s) /\ req[s].op = "StatusOrder" => Transition(row[s].status, req[s].target) = Ok

Decided(s) ==
  pc[s] # "idle" =>
    /\ Written(s) /\ EmailFree(s) /\ NoneBefore(s) /\ Spares(s) /\ CodeFree(s) /\ Unneeded(s)
    /\ Unreferenced(s) /\ Serves(s) /\ Owned(s) /\ Startable(s) /\ Employs(s) /\ Legal(s)

AllDecided == \A s \in Sessions : Decided(s)

Sound == Inv /\ AllGuarded /\ AllDecided

-----------------------------------------------------------------------------
(***************************************************************************)
(* What a step that leaves the tables alone leaves of the decisions.       *)
(***************************************************************************)
\* A decision is about the tables and the transaction's own state.
LEMMA SameDecided ==
  ASSUME UNCHANGED <<users, assets, orders>>, NEW t \in Sessions, Decided(t),
         pc'[t] = pc[t], req'[t] = req[t], key'[t] = key[t], held[t] \subseteq held'[t],
         row'[t] = row[t], next'[t] = next[t]
  PROVE  Decided(t)'
<1> SUFFICES ASSUME pc[t] # "idle"
             PROVE  Decided(t)'
  BY DEF Decided
<1>1. Written(t)' /\ EmailFree(t)' /\ NoneBefore(t)'
  BY DEF Decided, Written, EmailFree, NoneBefore, Writing, EmailTaken, AdministratorExists,
         NewUser, NewAsset, NewOrder, PatchedUser, PatchedAsset, PatchedOrder, AssignedOrder,
         MovedOrder
<1>2. Spares(t)' /\ CodeFree(t)'
  BY DEF Decided, Spares, CodeFree, Writing, HasActiveOrders, CodeTaken, CodeLock,
         Deactivates, PatchedUser
<1>3. Unneeded(t)' /\ Unreferenced(t)' /\ Serves(t)'
  BY DEF Decided, Unneeded, Unreferenced, Serves, Writing, HasOpenOrders, Referenced, RowLock
<1>4. Owned(t)' /\ Startable(t)' /\ Employs(t)' /\ Legal(t)'
  BY DEF Decided, Owned, Startable, Employs, Legal, Writing, MutableBy, ValidAssignee, RowLock
<1> QED
  BY <1>1, <1>2, <1>3, <1>4 DEF Decided

LEMMA OthersDecided ==
  ASSUME AllDecided, NEW s \in Sessions, Local(s), UNCHANGED tables, NEW t \in Sessions \ {s}
  PROVE  Decided(t)'
<1>1. UNCHANGED <<users, assets, orders>>
  BY DEF tables
<1>2. t \in Sessions /\ Decided(t)
  BY DEF AllDecided
<1>3. /\ pc'[t] = pc[t] /\ req'[t] = req[t] /\ key'[t] = key[t] /\ held[t] \subseteq held'[t]
      /\ row'[t] = row[t] /\ next'[t] = next[t]
  BY DEF Local
<1> QED
  BY <1>1, <1>2, <1>3, SameDecided

\* The statements that a check has opened the way to.
Deciding == {"UpdateUser", "DeleteAsset", "InsertWorkOrder", "ShareTarget"}

\* Before those statements nothing has been decided, but for a bootstrap.
LEMMA NotDecided ==
  ASSUME NEW s \in Sessions, next'[s] = Null, pc'[s] \notin Deciding, NoneBefore(s)'
  PROVE  Decided(s)'
BY DEF Decided, Deciding, Written, EmailFree, Spares, CodeFree, Unneeded, Unreferenced, Serves,
       Owned, Startable, Employs, Legal, Writing

LEMMA EndDecided ==
  ASSUME Typed, NEW s \in Sessions, NEW answer, End(s, answer)
  PROVE  Decided(s)'
BY DEF End, Decided, Typed, TypeOK

LEMMA RollbackDecided ==
  ASSUME Typed, NEW s \in Sessions, NEW answer, Rollback(s, answer)
  PROVE  Decided(s)'
BY EndDecided DEF Rollback

\* A bootstrap that has found no administrator stays right while accounts do.
LEMMA NoneBeforeStays ==
  ASSUME AllDecided, NEW s \in Sessions, pc[s] # "idle",
         \/ pc[s] \notin {"LockUserAdministration", "HasAdministrator"}
         \/ req[s].op # "Bootstrap",
         users' = users, req' = req
  PROVE  NoneBefore(s)'
BY DEF AllDecided, Decided, NoneBefore, AdministratorExists

-----------------------------------------------------------------------------
(***************************************************************************)
(* The steps up to the check, one lemma per statement.                     *)
(***************************************************************************)
LEMMA ReceiveDecides ==
  ASSUME Typed, AllDecided, NEW s \in Sessions, Receive(s)
  PROVE  Decided(s)'
<1>1. pc[s] = "idle" /\ next[s] = Null
  BY NotWritten DEF Receive, At, Closing
<1>2. PICK r \in Requests : Accept(s, r) \/ Refuse(s, r)
  BY DEF Receive
<1>3. CASE Refuse(s, r)
  BY <1>1, <1>3 DEF Refuse, Decided
<1>4. CASE Accept(s, r)
  <2>1. pc'[s] = FirstStatement(r.op) /\ req'[s] = r /\ next'[s] = Null
    BY <1>1, <1>4 DEF Accept, Goto, Typed, TypeOK
  <2>2. pc'[s] \notin Deciding
    BY <2>1 DEF FirstStatement, Deciding
  <2>3. NoneBefore(s)'
    BY <2>1 DEF FirstStatement, NoneBefore
  <2> QED
    BY <2>1, <2>2, <2>3, NotDecided
<1> QED
  BY <1>2, <1>3, <1>4

LEMMA ShareUserDecides ==
  ASSUME Typed, AllDecided, NEW s \in Sessions, ShareUser(s)
  PROVE  Decided(s)'
<1>1. pc[s] = "ShareUser" /\ next[s] = Null
  BY NotWritten DEF ShareUser, At, Closing
<1>2. req[s].op # "Bootstrap"
  BY <1>1, InService DEF Serving, UserOps
<1>3. pc'[s] \in {"ShareUser", "Check"} /\ req' = req /\ next'[s] = Null
  BY <1>1 DEF ShareUser, Goto, Typed, TypeOK
<1>4. pc'[s] \notin Deciding /\ NoneBefore(s)'
  BY <1>2, <1>3 DEF Deciding, NoneBefore
<1> QED
  BY <1>3, <1>4, NotDecided

LEMMA CheckActorDecides ==
  ASSUME Typed, AllDecided, NEW s \in Sessions, CheckActor(s)
  PROVE  Decided(s)'
<1>1. pc[s] = "Check" /\ next[s] = Null
  BY NotWritten DEF CheckActor, At, Closing
<1>2. CASE \E answer : Rollback(s, answer)
  BY <1>2, RollbackDecided
<1>3. CASE Proceed(s, AfterCheck(req[s].op))
  <2>1. req[s].op \in Ops \ {"Bootstrap"}
    BY <1>1, InService DEF Serving
  <2>2. pc'[s] = AfterCheck(req[s].op) /\ req' = req /\ next'[s] = Null
    BY <1>1, <1>3 DEF Proceed, Goto, Typed, TypeOK
  <2>3. pc'[s] \notin Deciding /\ NoneBefore(s)'
    BY <2>1, <2>2
    DEF AfterCheck, Ops, UserOps, AssetOps, MutateOps, Deciding, NoneBefore
  <2> QED
    BY <2>2, <2>3, NotDecided
<1> QED
  BY <1>2, <1>3 DEF CheckActor, Proceed

LEMMA AdministrationDecides ==
  ASSUME Typed, AllDecided, NEW s \in Sessions, LockUserAdministration(s) \/ HasAdministrator(s)
  PROVE  Decided(s)'
<1>1. next[s] = Null
  <2>1. pc[s] \notin Closing
    BY DEF LockUserAdministration, HasAdministrator, At, Closing
  <2> QED
    BY <2>1, NotWritten
<1>2. CASE LockUserAdministration(s)
  <2>1. /\ pc'[s] = IF req[s].op = "Bootstrap" THEN "HasAdministrator" ELSE "Check"
        /\ req' = req /\ next'[s] = Null
    BY <1>1, <1>2 DEF LockUserAdministration, Goto, Typed, TypeOK
  <2>2. pc'[s] \notin Deciding /\ NoneBefore(s)'
    BY <2>1 DEF Deciding, NoneBefore
  <2> QED
    BY <2>1, <2>2, NotDecided
<1>3. CASE HasAdministrator(s)
  <2>1. CASE ~AdministratorExists /\ Proceed(s, "InsertUser")
    <3>1. pc'[s] = "InsertUser" /\ next'[s] = Null /\ users' = users
      BY <1>1, <2>1 DEF Proceed, Goto, tables, Typed, TypeOK
    <3>2. pc'[s] \notin Deciding /\ NoneBefore(s)'
      BY <2>1, <3>1 DEF Deciding, NoneBefore, AdministratorExists
    <3> QED
      BY <3>1, <3>2, NotDecided
  <2> QED
    BY <1>3, <2>1, RollbackDecided DEF HasAdministrator
<1> QED
  BY <1>2, <1>3

-----------------------------------------------------------------------------
(***************************************************************************)
(* The statements of accounts.                                             *)
(***************************************************************************)
\* What Write leaves of the request, the locks and the tables.
LEMMA WriteKeeps ==
  ASSUME Typed, NEW s \in Sessions, NEW k, NEW r, NEW actions, Write(s, k, r, actions)
  PROVE  /\ key'[s] = k /\ next'[s] = r /\ row'[s] = row[s] /\ req'[s] = req[s]
         /\ pc'[s] = "InsertAudit" /\ users' = users /\ assets' = assets /\ orders' = orders
BY DEF Write, Goto, tables, Typed, TypeOK

\* The decisions of a transaction that changes accounts.
LEMMA UserDecided ==
  ASSUME NEW s \in Sessions, req'[s].op \in UserOps,
         Written(s)', EmailFree(s)', NoneBefore(s)', Spares(s)'
  PROVE  Decided(s)'
BY DEF UserOps, MutateOps, Decided, CodeFree, Unneeded, Unreferenced, Serves, Owned, Startable,
       Employs, Legal

LEMMA InsertUserDecides ==
  ASSUME Typed, AllDecided, NEW s \in Sessions, InsertUser(s)
  PROVE  Decided(s)'
<1>1. pc[s] = "InsertUser" /\ req[s].op \in {"CreateUser", "Bootstrap"} /\ row[s] = Null
  BY InService DEF InsertUser, At, Serving, Opening, Statements, Holding, Closing
<1>2. CASE Rollback(s, "EMAIL_CONFLICT")
  BY <1>2, RollbackDecided
<1>3. ASSUME ~EmailTaken(req[s].email, {}), NEW u \in Fresh(users), NEW actions,
             Write(s, u, NewUser(req[s]), actions)
      PROVE  Decided(s)'
  <2>1. /\ key'[s] = u /\ next'[s] = NewUser(req[s]) /\ row'[s] = Null /\ req'[s] = req[s]
        /\ pc'[s] = "InsertAudit" /\ users' = users /\ u \in Users
    BY <1>1, <1>3, WriteKeeps DEF Fresh, Typed, TypeOK
  <2>2. Written(s)' /\ Spares(s)'
    BY <1>1, <2>1 DEF Written, Spares, NewUser, MutateOps
  <2>3. EmailFree(s)'
    BY <1>3, <2>1 DEF EmailFree, EmailTaken, NewUser
  <2>4. NoneBefore(s)'
    BY <1>1, <2>1 DEF AllDecided, Decided, NoneBefore, AdministratorExists
  <2>5. req'[s].op \in UserOps
    BY <1>1, <2>1 DEF UserOps
  <2> QED
    BY <2>2, <2>3, <2>4, <2>5, UserDecided
<1> QED
  BY <1>2, <1>3 DEF InsertUser

LEMMA LockUserDecides ==
  ASSUME Typed, AllDecided, NEW s \in Sessions, LockUser(s)
  PROVE  Decided(s)'
<1> DEFINE old == users[req[s].id]
           new == PatchedUser(old, req[s])
<1>1. req[s].op = "PatchUser" /\ next[s] = Null
  BY InService, NotWritten DEF LockUser, At, Serving, Closing
<1>2. CASE Rollback(s, "USER_NOT_FOUND")
  BY <1>2, RollbackDecided
<1>3. CASE Hold(s, req[s].id, old, CASE Deactivates(new, old)      -> "CountActiveAdmins"
                                     [] SameUser(new, old, req[s]) -> "Commit"
                                     [] OTHER                      -> "UpdateUser")
  <2>1. /\ req' = req /\ row'[s] = old /\ next'[s] = Null
        /\ pc'[s] = CASE Deactivates(new, old)      -> "CountActiveAdmins"
                      [] SameUser(new, old, req[s]) -> "Commit"
                      [] OTHER                      -> "UpdateUser"
    BY <1>1, <1>3 DEF Hold, Goto, Typed, TypeOK
  <2>2. pc'[s] = "UpdateUser" => ~Deactivates(new, old)
    BY <2>1
  <2>3. Deactivates(PatchedUser(row[s], req[s]), row[s])' <=> Deactivates(new, old)
    BY <2>1 DEF Deactivates, PatchedUser
  <2>4. Spares(s)'
    BY <2>1, <2>2, <2>3 DEF Spares, Writing
  <2>5. Written(s)' /\ EmailFree(s)' /\ NoneBefore(s)' /\ req'[s].op \in UserOps
    BY <1>1, <2>1 DEF Written, EmailFree, NoneBefore, Writing, UserOps
  <2> QED
    BY <2>4, <2>5, UserDecided
<1> QED
  BY <1>2, <1>3 DEF LockUser

LEMMA UserHasActiveOrdersDecides ==
  ASSUME Typed, AllDecided, NEW s \in Sessions, UserHasActiveOrders(s)
  PROVE  Decided(s)'
<1> DEFINE id == req[s].id
           guard == GuardDeactivation(req[s].actor = id, row[s].role, seen[s],
                                      HasActiveOrders(id))
<1>1. pc[s] = "UserHasActiveOrders" /\ req[s].op = "PatchUser" /\ next[s] = Null
  BY InService, NotWritten DEF UserHasActiveOrders, At, Serving, Closing
<1>2. CASE Rollback(s, guard)
  BY <1>2, RollbackDecided
<1>3. CASE guard = Ok /\ Proceed(s, "UpdateUser")
  <2>1. req[s].actor # id /\ ~HasActiveOrders(id)
    BY <1>3 DEF GuardDeactivation, Ok
  <2>2. req' = req /\ row' = row /\ next'[s] = Null /\ orders' = orders
    BY <1>1, <1>3 DEF Proceed, tables
  <2>3. Spares(s)'
    BY <2>1, <2>2 DEF Spares, HasActiveOrders
  <2>4. Written(s)' /\ EmailFree(s)' /\ NoneBefore(s)' /\ req'[s].op \in UserOps
    BY <1>1, <2>2 DEF Written, EmailFree, NoneBefore, Writing, UserOps
  <2> QED
    BY <2>3, <2>4, UserDecided
<1> QED
  BY <1>2, <1>3 DEF UserHasActiveOrders

LEMMA UpdateUserDecides ==
  ASSUME Typed, AllDecided, NEW s \in Sessions, UpdateUser(s)
  PROVE  Decided(s)'
<1> DEFINE new == PatchedUser(row[s], req[s])
<1>1. /\ pc[s] = "UpdateUser" /\ req[s].op = "PatchUser"
      /\ key[s] = req[s].id /\ row[s] # Null
  BY InService DEF UpdateUser, At, Serving, Holding
<1>2. CASE Rollback(s, "EMAIL_CONFLICT")
  BY <1>2, RollbackDecided
<1>3. CASE ~EmailTaken(new.email, {key[s]}) /\ Write(s, key[s], new, <<"USER_UPDATED">>)
  <2>1. /\ key'[s] = key[s] /\ next'[s] = new /\ row'[s] = row[s] /\ req'[s] = req[s]
        /\ pc'[s] = "InsertAudit" /\ users' = users /\ orders' = orders
    BY <1>3, WriteKeeps
  <2>2. Written(s)' /\ NoneBefore(s)' /\ req'[s].op \in UserOps
    BY <1>1, <2>1 DEF Written, NoneBefore, PatchedUser, MutateOps, UserOps
  <2>3. EmailFree(s)'
    BY <1>3, <2>1 DEF EmailFree, EmailTaken
  <2>4. Spares(s)'
    <3>1. Spares(s)
      BY <1>1 DEF AllDecided, Decided
    <3> QED
      BY <1>1, <2>1, <3>1 DEF Spares, Deactivates, PatchedUser, HasActiveOrders
  <2> QED
    BY <2>2, <2>3, <2>4, UserDecided
<1> QED
  BY <1>2, <1>3 DEF UpdateUser

LEMMA UserDecides ==
  ASSUME Typed, AllDecided, NEW s \in Sessions, UserStep(s)
  PROVE  Decided(s)'
<1>1. CASE CountActiveAdmins(s)
  <2>1. pc[s] = "CountActiveAdmins" /\ next[s] = Null
    BY <1>1, NotWritten DEF CountActiveAdmins, At, Closing
  <2>2. pc'[s] = "UserHasActiveOrders" /\ next'[s] = Null /\ users' = users /\ req' = req
    BY <1>1, <2>1 DEF CountActiveAdmins, Goto, tables, Typed, TypeOK
  <2>3. pc'[s] \notin Deciding /\ NoneBefore(s)'
    BY <2>1, <2>2, NoneBeforeStays DEF Deciding
  <2> QED
    BY <2>2, <2>3, NotDecided
<1> QED
  BY <1>1, AdministrationDecides, InsertUserDecides, LockUserDecides,
     UserHasActiveOrdersDecides, UpdateUserDecides DEF UserStep

-----------------------------------------------------------------------------
(***************************************************************************)
(* The statements of assets.                                               *)
(***************************************************************************)
\* A granted lock is held, and the ones before it.
LEMMA LockHeld ==
  ASSUME Typed, NEW s \in Sessions, NEW r, NEW m, Lock(s, r, m)
  PROVE  <<r, m>> \in held'[s] /\ held[s] \subseteq held'[s]
BY DEF Lock, Typed, TypeOK

\* The decisions of a transaction that changes assets.
LEMMA AssetDecided ==
  ASSUME NEW s \in Sessions, req'[s].op \in AssetOps,
         Written(s)', CodeFree(s)', Unneeded(s)', Unreferenced(s)'
  PROVE  Decided(s)'
BY DEF UserOps, AssetOps, MutateOps, Decided, EmailFree, NoneBefore, Spares, Serves, Owned,
       Startable, Employs, Legal

LEMMA InsertAssetDecides ==
  ASSUME Typed, AllDecided, NEW s \in Sessions, InsertAsset(s)
  PROVE  Decided(s)'
<1>1. pc[s] = "InsertAsset" /\ req[s].op = "CreateAsset" /\ row[s] = Null
  BY InService DEF InsertAsset, At, Serving, Opening, Statements, Holding, Closing
<1>2. CASE Rollback(s, "ASSET_CODE_CONFLICT")
  BY <1>2, RollbackDecided
<1>3. ASSUME ~CodeTaken(req[s].code), Lock(s, CodeLock(req[s].code), "UPDATE"),
             NEW a \in Fresh(assets), NEW actions, Write(s, a, NewAsset(req[s]), actions)
      PROVE  Decided(s)'
  <2>1. /\ key'[s] = a /\ next'[s] = NewAsset(req[s]) /\ row'[s] = Null /\ req'[s] = req[s]
        /\ pc'[s] = "InsertAudit" /\ assets' = assets /\ a \in Assets
    BY <1>1, <1>3, WriteKeeps DEF Fresh, Typed, TypeOK
  <2>2. <<CodeLock(req[s].code), "UPDATE">> \in held'[s]
    BY <1>3, LockHeld
  <2>3. Written(s)' /\ Unneeded(s)' /\ Unreferenced(s)'
    BY <1>1, <2>1 DEF Written, Unneeded, Unreferenced, NewAsset, MutateOps
  <2>4. CodeFree(s)'
    BY <1>3, <2>1, <2>2 DEF CodeFree, CodeTaken, CodeLock
  <2>5. req'[s].op \in AssetOps
    BY <1>1, <2>1 DEF AssetOps
  <2> QED
    BY <2>3, <2>4, <2>5, AssetDecided
<1> QED
  BY <1>2, <1>3 DEF InsertAsset

LEMMA LockAssetDecides ==
  ASSUME Typed, AllDecided, NEW s \in Sessions, LockAsset(s)
  PROVE  Decided(s)'
<1>1. req[s].op \in {"PatchAsset", "DeleteAsset"} /\ next[s] = Null
  BY InService, NotWritten DEF LockAsset, At, Serving, Closing
<1>2. CASE Rollback(s, "ASSET_NOT_FOUND")
  BY <1>2, RollbackDecided
<1>3. CASE Hold(s, req[s].id, assets[req[s].id],
                IF req[s].op = "DeleteAsset" THEN "AssetHasOrders" ELSE "PatchAsset")
  <2>1. /\ pc'[s] \in {"AssetHasOrders", "PatchAsset"} /\ next'[s] = Null /\ req' = req
    BY <1>1, <1>3 DEF Hold, Goto, Typed, TypeOK
  <2>2. pc'[s] \notin Deciding /\ NoneBefore(s)'
    BY <1>1, <2>1 DEF Deciding, NoneBefore
  <2> QED
    BY <2>1, <2>2, NotDecided
<1> QED
  BY <1>2, <1>3 DEF LockAsset

LEMMA WriteAssetDecides ==
  ASSUME Typed, NEW s \in Sessions, pc[s] \in {"PatchAsset", "AssetHasOpenOrders"},
         WriteAsset(s),
         ~Withdraws(row[s].status, PatchedAsset(row[s], req[s]).status) \/ ~HasOpenOrders(key[s])
  PROVE  Decided(s)'
<1> DEFINE new == PatchedAsset(row[s], req[s])
<1>1. req[s].op = "PatchAsset" /\ key[s] = req[s].id /\ row[s] # Null
  BY InService DEF Serving, Holding
<1>2. /\ key'[s] = key[s] /\ next'[s] = new /\ row'[s] = row[s] /\ req'[s] = req[s]
      /\ pc'[s] = "InsertAudit" /\ orders' = orders
  BY WriteKeeps DEF WriteAsset
<1>3. Written(s)' /\ CodeFree(s)' /\ Unreferenced(s)' /\ req'[s].op \in AssetOps
  BY <1>1, <1>2 DEF Written, CodeFree, Unreferenced, PatchedAsset, MutateOps, AssetOps
<1>4. Unneeded(s)'
  BY <1>2 DEF Unneeded, HasOpenOrders
<1> QED
  BY <1>3, <1>4, AssetDecided

LEMMA PatchAssetDecides ==
  ASSUME Typed, AllDecided, NEW s \in Sessions, PatchAsset(s)
  PROVE  Decided(s)'
<1>1. pc[s] = "PatchAsset" /\ req[s].op = "PatchAsset" /\ next[s] = Null
  BY InService, NotWritten DEF PatchAsset, At, Serving, Closing
<1>2. ASSUME NEW statement \in {"Commit", "AssetHasOpenOrders"}, Proceed(s, statement)
      PROVE  Decided(s)'
  <2>1. pc'[s] = statement /\ next'[s] = Null /\ req' = req
    BY <1>1, <1>2 DEF Proceed, Goto, Typed, TypeOK
  <2>2. pc'[s] \notin Deciding /\ NoneBefore(s)'
    BY <1>1, <2>1 DEF Deciding, NoneBefore
  <2> QED
    BY <2>1, <2>2, NotDecided
<1>3. CASE ~Withdraws(row[s].status, PatchedAsset(row[s], req[s]).status) /\ WriteAsset(s)
  BY <1>1, <1>3, WriteAssetDecides
<1> QED
  BY <1>2, <1>3 DEF PatchAsset

LEMMA AssetHasOpenOrdersDecides ==
  ASSUME Typed, AllDecided, NEW s \in Sessions, AssetHasOpenOrders(s)
  PROVE  Decided(s)'
<1>1. CASE Rollback(s, "ASSET_HAS_OPEN_WORK_ORDERS")
  BY <1>1, RollbackDecided
<1>2. CASE ~HasOpenOrders(key[s]) /\ WriteAsset(s)
  BY <1>2, WriteAssetDecides DEF AssetHasOpenOrders, At
<1> QED
  BY <1>1, <1>2 DEF AssetHasOpenOrders

LEMMA AssetHasOrdersDecides ==
  ASSUME Typed, AllDecided, NEW s \in Sessions, AssetHasOrders(s)
  PROVE  Decided(s)'
<1>1. req[s].op = "DeleteAsset" /\ next[s] = Null
  BY InService, NotWritten DEF AssetHasOrders, At, Serving, Closing
<1>2. CASE Rollback(s, "ASSET_IN_USE")
  BY <1>2, RollbackDecided
<1>3. CASE ~HasOrders(key[s]) /\ Proceed(s, "DeleteAsset")
  <2>1. key' = key /\ next'[s] = Null /\ req' = req /\ orders' = orders
    BY <1>1, <1>3 DEF Proceed, tables
  <2>2. Unreferenced(s)'
    BY <1>3, <2>1 DEF Unreferenced, HasOrders, Referenced
  <2>3. Written(s)' /\ CodeFree(s)' /\ Unneeded(s)' /\ req'[s].op \in AssetOps
    BY <1>1, <2>1 DEF Written, CodeFree, Unneeded, Writing, AssetOps
  <2> QED
    BY <2>2, <2>3, AssetDecided
<1> QED
  BY <1>2, <1>3 DEF AssetHasOrders

LEMMA DeleteAssetDecides ==
  ASSUME Typed, AllDecided, NEW s \in Sessions, DeleteAsset(s)
  PROVE  Decided(s)'
<1>1. pc[s] = "DeleteAsset" /\ req[s].op = "DeleteAsset" /\ key[s] = req[s].id /\ row[s] # Null
  BY InService DEF DeleteAsset, At, Serving, Holding
<1>2. CASE Rollback(s, "FOREIGN_KEY_VIOLATION")
  BY <1>2, RollbackDecided
<1>3. CASE ~Referenced(key[s]) /\ Write(s, key[s], Gone, <<"ASSET_DELETED">>)
  <2>1. /\ key'[s] = key[s] /\ next'[s] = Gone /\ row'[s] = row[s] /\ req'[s] = req[s]
        /\ orders' = orders
    BY <1>3, WriteKeeps
  <2>2. Written(s)' /\ CodeFree(s)' /\ Unneeded(s)' /\ req'[s].op \in AssetOps
    BY <1>1, <2>1 DEF Written, CodeFree, Unneeded, MutateOps, AssetOps
  <2>3. Unreferenced(s)'
    BY <1>3, <2>1 DEF Unreferenced, Referenced
  <2> QED
    BY <2>2, <2>3, AssetDecided
<1> QED
  BY <1>2, <1>3 DEF DeleteAsset

LEMMA AssetDecides ==
  ASSUME Typed, AllDecided, NEW s \in Sessions, AssetStep(s)
  PROVE  Decided(s)'
BY InsertAssetDecides, LockAssetDecides, PatchAssetDecides, AssetHasOpenOrdersDecides,
   AssetHasOrdersDecides, DeleteAssetDecides DEF AssetStep

-----------------------------------------------------------------------------
(***************************************************************************)
(* The statements of work orders.                                          *)
(***************************************************************************)
\* The decisions of a transaction that changes orders.
LEMMA OrderDecided ==
  ASSUME NEW s \in Sessions, req'[s].op \in MutateOps \cup {"CreateOrder"},
         Written(s)', Serves(s)', Owned(s)', Startable(s)', Employs(s)', Legal(s)'
  PROVE  Decided(s)'
BY DEF UserOps, AssetOps, MutateOps, Decided, EmailFree, NoneBefore, Spares, CodeFree, Unneeded,
       Unreferenced

LEMMA ShareAssetDecides ==
  ASSUME Typed, AllDecided, NEW s \in Sessions, ShareAsset(s)
  PROVE  Decided(s)'
<1> DEFINE a == req[s].asset
<1>1. req[s].op = "CreateOrder" /\ next[s] = Null
  BY InService, NotWritten DEF ShareAsset, At, Serving, Closing
<1>2. CASE \E answer : Rollback(s, answer)
  BY <1>2, RollbackDecided
<1>3. CASE /\ assets[a] \notin {Null, Gone} /\ AcceptsOrders(assets[a].status)
           /\ LockSharedAsset(s, a) /\ Goto(s, "InsertWorkOrder")
           /\ UNCHANGED <<tables, req, key, wait, row, next, acts, logged, seen, reply>>
  <2>1. req' = req /\ next'[s] = Null /\ assets' = assets /\ pc'[s] = "InsertWorkOrder"
    BY <1>1, <1>3 DEF tables, Goto, Typed, TypeOK
  <2>2. <<RowLock(a), "SHARE">> \in held'[s]
    BY <1>3, LockHeld DEF LockSharedAsset
  <2>3. Serves(s)'
    BY <1>3, <2>1, <2>2 DEF Serves, RowLock
  <2>4. /\ Written(s)' /\ Owned(s)' /\ Startable(s)' /\ Employs(s)' /\ Legal(s)'
        /\ req'[s].op \in MutateOps \cup {"CreateOrder"}
    BY <1>1, <2>1 DEF Written, Owned, Startable, Employs, Legal, Writing, MutateOps
  <2> QED
    BY <2>3, <2>4, OrderDecided
<1> QED
  BY <1>2, <1>3 DEF ShareAsset

LEMMA InsertWorkOrderDecides ==
  ASSUME Typed, AllDecided, NEW s \in Sessions, InsertWorkOrder(s)
  PROVE  Decided(s)'
<1>1. pc[s] = "InsertWorkOrder" /\ req[s].op = "CreateOrder" /\ row[s] = Null
  BY InService DEF InsertWorkOrder, At, Serving, Opening, Statements, Holding, Closing
<1>2. PICK o \in Fresh(orders) : Write(s, o, NewOrder(req[s]), <<"WORK_ORDER_CREATED">>)
  BY DEF InsertWorkOrder
<1>3. /\ key'[s] = o /\ next'[s] = NewOrder(req[s]) /\ row'[s] = Null /\ req'[s] = req[s]
      /\ assets' = assets /\ o \in Orders /\ held' = held
  BY <1>1, <1>2, WriteKeeps DEF InsertWorkOrder, Fresh, Typed, TypeOK
<1>4. Serves(s)'
  <2>1. Serves(s)
    BY <1>1 DEF AllDecided, Decided
  <2> QED
    BY <1>1, <1>3, <2>1 DEF Serves, RowLock
<1>5. /\ Written(s)' /\ Owned(s)' /\ Startable(s)' /\ Employs(s)' /\ Legal(s)'
      /\ req'[s].op \in MutateOps \cup {"CreateOrder"}
  BY <1>1, <1>3 DEF Written, Owned, Startable, Employs, Legal, NewOrder, MutateOps
<1> QED
  BY <1>4, <1>5, OrderDecided

LEMMA LockWorkOrderDecides ==
  ASSUME Typed, AllDecided, NEW s \in Sessions, LockWorkOrder(s)
  PROVE  Decided(s)'
<1>1. req[s].op \in MutateOps /\ next[s] = Null
  BY InService, NotWritten DEF LockWorkOrder, At, Serving, Closing
<1>2. CASE Rollback(s, "WORK_ORDER_NOT_FOUND")
  BY <1>2, RollbackDecided
<1>3. CASE Hold(s, req[s].id, orders[req[s].id], "Change")
  <2>1. pc'[s] = "Change" /\ next'[s] = Null /\ req' = req
    BY <1>1, <1>3 DEF Hold, Goto, Typed, TypeOK
  <2>2. pc'[s] \notin Deciding /\ NoneBefore(s)'
    BY <1>1, <2>1 DEF Deciding, NoneBefore, MutateOps
  <2> QED
    BY <2>1, <2>2, NotDecided
<1> QED
  BY <1>2, <1>3 DEF LockWorkOrder

LEMMA ChangeDecides ==
  ASSUME Typed, AllDecided, NEW s \in Sessions, Change(s)
  PROVE  Decided(s)'
<1>1. /\ pc[s] = "Change" /\ req[s].op \in MutateOps /\ next[s] = Null
      /\ key[s] = req[s].id /\ row[s] # Null
  BY InService, NotWritten DEF Change, At, Serving, Closing, Holding
<1>2. CASE \E answer : Rollback(s, answer)
  BY <1>2, RollbackDecided
<1>3. CASE Proceed(s, "Commit")
  <2>1. pc'[s] = "Commit" /\ next'[s] = Null /\ req' = req
    BY <1>1, <1>3 DEF Proceed, Goto, Typed, TypeOK
  <2>2. pc'[s] \notin Deciding /\ NoneBefore(s)'
    BY <1>1, <2>1 DEF Deciding, NoneBefore, MutateOps
  <2> QED
    BY <2>1, <2>2, NotDecided
<1>4. ASSUME req[s].op = "AssignOrder", MutableBy(s) = Ok, Assignable(row[s].status),
             row[s].assignee # req[s].target, Proceed(s, "ShareTarget")
      PROVE  Decided(s)'
  <2>1. next'[s] = Null /\ req' = req /\ row' = row /\ users' = users
    BY <1>1, <1>4 DEF Proceed, tables
  <2>2. Owned(s)' /\ Startable(s)'
    BY <1>4, <2>1 DEF Owned, Startable, MutableBy
  <2>3. /\ Written(s)' /\ Serves(s)' /\ Employs(s)' /\ Legal(s)'
        /\ req'[s].op \in MutateOps \cup {"CreateOrder"}
    BY <1>4, <2>1 DEF Written, Serves, Employs, Legal, Writing, MutateOps
  <2> QED
    BY <2>2, <2>3, OrderDecided
<1>5. ASSUME MutableBy(s) = Ok, NEW new, NEW actions, Write(s, key[s], new, actions),
             \/ req[s].op = "PatchOrder" /\ new = PatchedOrder(row[s], req[s])
             \/ /\ req[s].op = "StatusOrder" /\ new = MovedOrder(row[s], req[s].target)
                /\ Transition(row[s].status, req[s].target) = Ok
      PROVE  Decided(s)'
  <2>1. /\ key'[s] = key[s] /\ next'[s] = new /\ row'[s] = row[s] /\ req'[s] = req[s]
        /\ users' = users
    BY <1>5, WriteKeeps
  <2>2. Written(s)'
    BY <1>1, <1>5, <2>1 DEF Written, MutateOps, PatchedOrder, MovedOrder
  <2>3. Owned(s)'
    BY <1>5, <2>1 DEF Owned, MutableBy
  <2>4. /\ Serves(s)' /\ Startable(s)' /\ Employs(s)' /\ Legal(s)'
        /\ req'[s].op \in MutateOps \cup {"CreateOrder"}
    BY <1>5, <2>1 DEF Serves, Startable, Employs, Legal, MutateOps
  <2> QED
    BY <2>2, <2>3, <2>4, OrderDecided
<1>6. CASE MutableBy(s) = Ok /\ ChangePatch(s)
  BY <1>3, <1>5, <1>6 DEF ChangePatch
<1>7. CASE MutableBy(s) = Ok /\ ChangeStatus(s)
  BY <1>2, <1>5, <1>7 DEF ChangeStatus
<1>8. CASE MutableBy(s) = Ok /\ ChangeAssign(s)
  BY <1>2, <1>4, <1>8 DEF ChangeAssign
<1> QED
  BY <1>2, <1>6, <1>7, <1>8 DEF Change

LEMMA ShareTargetDecides ==
  ASSUME Typed, AllDecided, NEW s \in Sessions, ShareTarget(s)
  PROVE  Decided(s)'
<1> DEFINE u == req[s].target
<1>1. pc[s] = "ShareTarget" /\ req[s].op = "AssignOrder" /\ key[s] = req[s].id /\ row[s] # Null
  BY InService DEF ShareTarget, At, Serving, Holding
<1>2. CASE Rollback(s, "INVALID_ASSIGNEE")
  BY <1>2, RollbackDecided
<1>3. ASSUME users[u] # Null, ValidAssignee(u), ShareLockUser(s, u), NEW actions,
             Write(s, key[s], AssignedOrder(row[s], u), actions)
      PROVE  Decided(s)'
  <2>1. /\ key'[s] = key[s] /\ next'[s] = AssignedOrder(row[s], u) /\ row'[s] = row[s]
        /\ req'[s] = req[s] /\ users' = users
    BY <1>3, WriteKeeps
  <2>2. <<RowLock(u), "SHARE">> \in held'[s]
    BY <1>3, LockHeld DEF ShareLockUser
  <2>3. Owned(s) /\ Startable(s)
    BY <1>1 DEF AllDecided, Decided
  <2>4. Written(s)' /\ Owned(s)' /\ Startable(s)'
    BY <1>1, <2>1, <2>3
    DEF Written, AssignedOrder, MutateOps, Owned, MutableBy, Startable
  <2>5. Employs(s)'
    BY <1>3, <2>1, <2>2 DEF Employs, ValidAssignee, RowLock
  <2>6. Serves(s)' /\ Legal(s)' /\ req'[s].op \in MutateOps \cup {"CreateOrder"}
    BY <1>1, <2>1 DEF Serves, Legal, MutateOps
  <2> QED
    BY <2>4, <2>5, <2>6, OrderDecided
<1> QED
  BY <1>2, <1>3 DEF ShareTarget

LEMMA WorkOrderDecides ==
  ASSUME Typed, AllDecided, NEW s \in Sessions, WorkOrderStep(s)
  PROVE  Decided(s)'
BY ShareAssetDecides, InsertWorkOrderDecides, LockWorkOrderDecides, ChangeDecides,
   ShareTargetDecides DEF WorkOrderStep

-----------------------------------------------------------------------------
(***************************************************************************)
(* The end of a transaction.                                               *)
(***************************************************************************)
\* From the audit to the commit a transaction decides nothing more.
LEMMA ClosingDecided ==
  ASSUME UNCHANGED <<users, assets, orders>>, NEW t \in Sessions, Decided(t),
         pc[t] \in Closing, pc'[t] \in Closing,
         req'[t] = req[t], key'[t] = key[t], held[t] \subseteq held'[t],
         row'[t] = row[t], next'[t] = next[t]
  PROVE  Decided(t)'
<1>0. pc[t] # "idle" /\ Closing \cap Deciding = {}
      /\ Closing \cap {"LockUserAdministration", "HasAdministrator"} = {}
  BY DEF Closing, Deciding
<1>1. Written(t)' /\ EmailFree(t)' /\ NoneBefore(t)'
  BY <1>0
  DEF Decided, Written, EmailFree, NoneBefore, Writing, EmailTaken, AdministratorExists,
      NewUser, NewAsset, NewOrder, PatchedUser, PatchedAsset, PatchedOrder, AssignedOrder,
      MovedOrder
<1>2. Spares(t)' /\ CodeFree(t)'
  BY <1>0 DEF Decided, Spares, CodeFree, Writing, HasActiveOrders, CodeTaken, CodeLock,
         Deactivates, PatchedUser, Deciding
<1>3. Unneeded(t)' /\ Unreferenced(t)' /\ Serves(t)'
  BY <1>0 DEF Decided, Unneeded, Unreferenced, Serves, Writing, HasOpenOrders, Referenced,
              RowLock, Deciding
<1>4. Owned(t)' /\ Startable(t)' /\ Employs(t)' /\ Legal(t)'
  BY <1>0 DEF Decided, Owned, Startable, Employs, Legal, Writing, MutableBy, ValidAssignee,
              RowLock, Deciding
<1> QED
  BY <1>1, <1>2, <1>3, <1>4 DEF Decided

LEMMA CloseDecides ==
  ASSUME Typed, AllDecided, NEW s \in Sessions,
         InsertAudit(s) \/ Commit(s) \/ Resolve(s) \/ CommitLost(s) \/ Abort(s)
  PROVE  Decided(s)'
<1>1. CASE InsertAudit(s) \/ CommitLost(s)
  <2>1. pc[s] \in Closing /\ pc'[s] \in Closing
    BY <1>1 DEF InsertAudit, CommitLost, At, Goto, Closing, Typed, TypeOK
  <2>2. held[s] \subseteq held'[s]
    BY <1>1, LockHeld DEF InsertAudit, CommitLost
  <2>3. UNCHANGED <<users, assets, orders, req, key, row, next>>
    BY <1>1 DEF InsertAudit, CommitLost, tables
  <2> QED
    BY <2>1, <2>2, <2>3, ClosingDecided DEF AllDecided
<1>2. CASE Commit(s) \/ Resolve(s) \/ Abort(s)
  BY <1>2, EndDecided DEF Commit, Resolve, Abort, Rollback
<1> QED
  BY <1>1, <1>2

-----------------------------------------------------------------------------
(***************************************************************************)
(* What a commit may do to the tables, and with which locks.               *)
(***************************************************************************)
LEMMA NoConflict ==
  ASSUME Inv, NEW s \in Sessions, NEW t \in Sessions \ {s},
         NEW r \in Resources, NEW m \in Modes, NEW n \in Modes,
         <<r, m>> \in held[s], <<r, n>> \in held[t]
  PROVE  m # "UPDATE" /\ n # "UPDATE"
BY DEF Inv, Locked, Exclusive, Conflict

Commits(s) == pc[s] \in {"Commit", "Limbo"} /\ Apply(s)

\* Only the row a transaction has written changes, and only to what it wrote.
LEMMA CommitEffect ==
  ASSUME Typed, NEW s \in Sessions, Commits(s), NEW k \in Keys, Row(k)' # Row(k)
  PROVE  next[s] # Null /\ k = key[s] /\ Row(k)' = next[s]
BY ApplyRows DEF Commits

\* The request of a transaction that has written something.
LEMMA WriterInService ==
  ASSUME Sound, NEW s \in Sessions, next[s] # Null
  PROVE  /\ pc[s] \in Closing /\ pc[s] \notin Early
         /\ req[s] \in AllRequests /\ req[s] # Null /\ req[s].op \in Ops
         /\ Decided(s) /\ Guarded(s) /\ Written(s)
<1>1. Typed
  BY DEF Sound, Inv
<1>2. pc[s] \in Closing /\ pc[s] \notin Early
  BY <1>1, NotWritten DEF Closing, Early
<1>3. pc[s] # "idle"
  BY <1>2 DEF Early
<1>4. req[s] \in AllRequests /\ req[s].op \in Ops
  BY <1>1, <1>3, InService
<1> QED
  BY <1>2, <1>3, <1>4, RequestsAssumption DEF Sound, AllDecided, AllGuarded, Decided

\* A transaction that found a row writes that row; one that found none inserts it.
LEMMA OldRow ==
  ASSUME Inv, NEW s \in Sessions, next[s] # Null
  PROVE  /\ row[s] = Row(key[s]) /\ key[s] \in Keys
         /\ row[s] # Null => <<RowLock(key[s]), "UPDATE">> \in held[s]
         /\ row[s] # Null => RowFor(key[s], row[s])
<1>1. key[s] \in Keys
  BY WrittenKey DEF Inv
<1>2. row[s] # Null => RowFor(key[s], row[s])
  BY DEF Inv, Typed, PhaseOK, Phase
<1> QED
  BY <1>1, <1>2 DEF Inv, Locked, NoLostUpdate, InsertsApart, RowsLocked

\* The table of a key.
LEMMA RowOf ==
  /\ \A u \in Users : u \in Keys /\ Row(u) = users[u] /\ Row(u)' = users'[u]
  /\ \A a \in Assets : a \in Keys /\ Row(a) = assets[a] /\ Row(a)' = assets'[a]
  /\ \A o \in Orders : o \in Keys /\ Row(o) = orders[o] /\ Row(o)' = orders'[o]
BY IdsAssumption DEF Keys, Row

\* An account changes under the administration lock, an existing one under its row lock
\* too, and it keeps its role.
LEMMA UserEffect ==
  ASSUME Sound, NEW s \in Sessions, Commits(s), NEW u \in Users, users'[u] # users[u]
  PROVE  /\ <<Administration, "UPDATE">> \in held[s] /\ users'[u] # Null
         /\ users[u] # Null => /\ <<RowLock(u), "UPDATE">> \in held[s]
                               /\ users'[u].role = users[u].role
<1>1. Inv /\ Typed
  BY DEF Sound, Inv
<1>2. next[s] # Null /\ u = key[s] /\ users'[u] = next[s]
  BY <1>1, CommitEffect, RowOf
<1>3. pc[s] \notin Early /\ Guarded(s) /\ Written(s)
  BY <1>2, WriterInService
<1>4. req[s].op \in UserOps
  BY <1>2, <1>3 DEF Guarded, WritesAccounts
<1>5. <<Administration, "UPDATE">> \in held[s]
  BY <1>3, <1>4 DEF Guarded, HoldsAdministration, Early
<1>6. ASSUME users[u] # Null
      PROVE  <<RowLock(u), "UPDATE">> \in held[s] /\ users'[u].role = users[u].role
  <2>1. row[s] = users[u] /\ row[s] \in UserRow /\ <<RowLock(u), "UPDATE">> \in held[s]
    BY <1>1, <1>2, <1>6, OldRow, RowOf DEF Typed, TypeOK
  <2>2. next[s] = PatchedUser(row[s], req[s])
    BY <1>2, <1>3, <1>4, <1>6, <2>1 DEF Written, Writing, UserOps
  <2> QED
    BY <1>2, <2>1, <2>2 DEF PatchedUser, UserRow
<1> QED
  BY <1>2, <1>5, <1>6

\* An existing asset changes under its row lock; a code appears under the lock of its
\* entry in the unique index.
LEMMA AssetEffect ==
  ASSUME Sound, NEW s \in Sessions, Commits(s), NEW a \in Assets, assets'[a] # assets[a]
  PROVE  /\ assets'[a] # Null
         /\ assets[a] # Null => assets[a] # Gone /\ <<RowLock(a), "UPDATE">> \in held[s]
         /\ assets'[a] # Gone =>
              \/ assets[a] # Null /\ assets'[a].code = assets[a].code
              \/ <<CodeLock(assets'[a].code), "UPDATE">> \in held[s]
<1>1. Inv /\ Typed
  BY DEF Sound, Inv
<1>2. next[s] # Null /\ a = key[s] /\ assets'[a] = next[s]
  BY <1>1, CommitEffect, RowOf
<1>3. Decided(s) /\ Written(s) /\ pc[s] # "idle" /\ req[s].op \in Ops
  BY <1>2, WriterInService DEF Early
<1>4. row[s] = assets[a] /\ key[s] \notin Users /\ key[s] \notin Orders
  BY <1>1, <1>2, OldRow, RowOf, IdsAssumption
<1>5. row[s] # Null => row[s] \in AssetRow /\ <<RowLock(a), "UPDATE">> \in held[s]
  BY <1>1, <1>2, <1>4, OldRow DEF RowFor
<1>6. req[s].op \in AssetOps
  <2>1. next[s] \in AssetRow \cup {Gone}
    BY <1>1, <1>2, <1>4 DEF Typed, PhaseOK, Phase, RowFor
  <2>2. CASE req[s].op \in MutateOps \cup {"PatchUser"}
    <3>1. key[s] = req[s].id /\ req[s] \in AllRequests
      BY <1>2, <1>3, <2>2, WriterInService DEF Written, Writing
    <3> QED
      BY <1>2, <1>4, <2>2, <3>1, RequestShape DEF MutateOps
  <2>3. CASE req[s].op \in {"CreateUser", "Bootstrap", "CreateOrder"}
    BY <1>2, <1>3, <1>4, <2>3 DEF Written, Writing
  <2> QED
    BY <1>3, <2>2, <2>3 DEF Ops, UserOps, AssetOps, MutateOps
<1>7. CASE req[s].op = "CreateAsset"
  <2>1. row[s] = Null /\ next[s] = NewAsset(req[s])
        /\ <<CodeLock(req[s].code), "UPDATE">> \in held[s]
    BY <1>2, <1>3, <1>7 DEF Written, Writing, Decided, CodeFree
  <2> QED
    BY <1>2, <1>4, <2>1 DEF NewAsset
<1>8. CASE req[s].op = "PatchAsset"
  <2>1. row[s] # Null /\ next[s] = PatchedAsset(row[s], req[s])
    BY <1>2, <1>3, <1>8 DEF Written, Writing
  <2>2. row[s] # Gone
    BY <1>5, <2>1, RowsAssumption DEF Rows
  <2> QED
    BY <1>2, <1>4, <1>5, <2>1, <2>2 DEF PatchedAsset, AssetRow
<1>9. CASE req[s].op = "DeleteAsset"
  <2>1. row[s] # Null /\ next[s] = Gone
    BY <1>2, <1>3, <1>9 DEF Written, Writing
  <2>2. row[s] # Gone
    BY <1>5, <2>1, RowsAssumption DEF Rows
  <2> QED
    BY <1>2, <1>4, <1>5, <2>1, <2>2
<1> QED
  BY <1>6, <1>7, <1>8, <1>9 DEF AssetOps

\* A new order is open, nobody's, and about an asset that is share-locked; an existing one
\* keeps its asset, is not reopened, and gets a new assignee only under a share lock.
LEMMA OrderEffect ==
  ASSUME Sound, NEW s \in Sessions, Commits(s), NEW o \in Orders, orders'[o] # orders[o]
  PROVE  /\ orders'[o] # Null
         /\ orders[o] = Null =>
              /\ orders'[o].status = "OPEN" /\ orders'[o].asset \in Assets
              /\ <<RowLock(orders'[o].asset), "SHARE">> \in held[s]
         /\ orders[o] # Null =>
              /\ orders'[o].asset = orders[o].asset
              /\ HoldsAsset(orders'[o].status) => HoldsAsset(orders[o].status)
              /\ \/ orders'[o].assignee = orders[o].assignee
                    /\ (HoldsAssignee(orders'[o].status) => HoldsAssignee(orders[o].status))
                 \/ orders'[o].assignee \in Users
                    /\ <<RowLock(orders'[o].assignee), "SHARE">> \in held[s]
<1>1. Inv /\ Typed
  BY DEF Sound, Inv
<1>2. next[s] # Null /\ o = key[s] /\ orders'[o] = next[s]
  BY <1>1, CommitEffect, RowOf
<1>3. Decided(s) /\ Written(s) /\ pc[s] # "idle" /\ req[s].op \in Ops /\ req[s] \in AllRequests
  BY <1>2, WriterInService DEF Early
<1>4. row[s] = orders[o] /\ key[s] \notin Users /\ key[s] \notin Assets
  BY <1>1, <1>2, OldRow, RowOf, IdsAssumption
<1>5. row[s] # Null => row[s] \in OrderRow
  BY <1>1, <1>2, <1>4, OldRow DEF RowFor
<1>6. req[s].op \in MutateOps \cup {"CreateOrder"}
  <2>1. CASE req[s].op \in {"PatchUser", "PatchAsset", "DeleteAsset"}
    <3>1. key[s] = req[s].id
      BY <1>2, <1>3, <2>1 DEF Written, Writing
    <3> QED
      BY <1>3, <1>4, <2>1, <3>1, RequestShape
  <2>2. CASE req[s].op \in {"CreateUser", "Bootstrap", "CreateAsset"}
    BY <1>2, <1>3, <1>4, <2>2 DEF Written, Writing
  <2> QED
    BY <1>3, <2>1, <2>2 DEF Ops, UserOps, AssetOps, MutateOps
<1>7. CASE req[s].op = "CreateOrder"
  <2>1. row[s] = Null /\ next[s] = NewOrder(req[s]) /\ req[s].asset \in Assets
        /\ <<RowLock(req[s].asset), "SHARE">> \in held[s]
    BY <1>2, <1>3, <1>7, RequestShape DEF Written, Writing, Decided, Serves
  <2> QED
    BY <1>2, <1>4, <2>1 DEF NewOrder
<1>8. CASE req[s].op = "PatchOrder"
  <2>1. row[s] # Null /\ next[s] = PatchedOrder(row[s], req[s])
    BY <1>2, <1>3, <1>8 DEF Written, Writing, MutateOps
  <2> QED
    BY <1>2, <1>4, <1>5, <2>1 DEF PatchedOrder, OrderRow
<1>9. CASE req[s].op = "AssignOrder"
  <2>1. row[s] # Null /\ next[s] = AssignedOrder(row[s], req[s].target) /\ req[s].target \in Users
        /\ Assignable(row[s].status) /\ <<RowLock(req[s].target), "SHARE">> \in held[s]
    BY <1>2, <1>3, <1>9, RequestShape
    DEF Written, Writing, MutateOps, Decided, Startable, Employs
  <2> QED
    BY <1>2, <1>4, <1>5, <2>1 DEF AssignedOrder, OrderRow, Assignable, HoldsAsset
<1>10. CASE req[s].op = "StatusOrder"
  <2>1. row[s] # Null /\ next[s] = MovedOrder(row[s], req[s].target)
        /\ Transition(row[s].status, req[s].target) = Ok
    BY <1>2, <1>3, <1>10 DEF Written, Writing, MutateOps, Decided, Legal
  <2>2. /\ row[s] \in OrderRow
        /\ HoldsAsset(req[s].target) => HoldsAsset(row[s].status)
        /\ HoldsAssignee(req[s].target) => HoldsAssignee(row[s].status)
    BY <1>5, <2>1 DEF Transition, Terminal, Ok, HoldsAsset, HoldsAssignee
  <2> QED
    BY <1>2, <1>4, <2>1, <2>2 DEF MovedOrder, OrderRow
<1> QED
  BY <1>6, <1>7, <1>8, <1>9, <1>10 DEF MutateOps

-----------------------------------------------------------------------------
(***************************************************************************)
(* A commit leaves standing what the others have decided.                  *)
(***************************************************************************)
LEMMA CommitSparesUsers ==
  ASSUME Sound, NEW s \in Sessions, Commits(s), NEW t \in Sessions \ {s}, pc[t] # "idle",
         pc'[t] = pc[t], req'[t] = req[t], key'[t] = key[t], row'[t] = row[t],
         next'[t] = next[t]
  PROVE  Written(t)' /\ EmailFree(t)' /\ NoneBefore(t)'
<1>1. Decided(t) /\ Guarded(t) /\ Inv /\ Typed /\ t \in Sessions
  BY DEF Sound, AllDecided, AllGuarded, Inv
<1>2. Written(t)'
  BY <1>1
  DEF Decided, Written, Writing, NewUser, NewAsset, NewOrder, PatchedUser, PatchedAsset,
      PatchedOrder, AssignedOrder, MovedOrder
<1>3. ASSUME <<Administration, "UPDATE">> \in held[t], NEW u \in Users
      PROVE  users'[u] = users[u]
  <2>1. Administration \in Resources /\ "UPDATE" \in Modes
    BY DEF Resources, Modes
  <2> QED
    BY <1>1, <1>3, <2>1, UserEffect, NoConflict
<1>4. EmailFree(t)'
  <2>1. CASE next[t] # Null /\ req[t].op \in UserOps
    <3>1. <<Administration, "UPDATE">> \in held[t] /\ ~EmailTaken(next[t].email, {key[t]})
      BY <1>1, <2>1, WriterInService
      DEF Guarded, HoldsAdministration, Early, Decided, EmailFree, Writing
    <3> QED
      BY <1>3, <3>1 DEF EmailFree, EmailTaken
  <2> QED
    BY <2>1 DEF EmailFree, Writing
<1>5. NoneBefore(t)'
  <2>1. CASE req[t].op = "Bootstrap" /\ pc[t] \notin {"LockUserAdministration", "HasAdministrator"}
    <3>1. <<Administration, "UPDATE">> \in held[t] /\ ~AdministratorExists
      BY <1>1, <2>1 DEF Guarded, HoldsAdministration, UserOps, Decided, NoneBefore
    <3> QED
      BY <1>3, <3>1 DEF NoneBefore, AdministratorExists
  <2> QED
    BY <2>1 DEF NoneBefore
<1> QED
  BY <1>2, <1>4, <1>5

\* The row lock of a transaction that changes an existing row.
LEMMA PatchLocked ==
  ASSUME Sound, NEW t \in Sessions, pc[t] # "idle",
         \/ req[t].op = "PatchUser" /\ (pc[t] = "UpdateUser" \/ next[t] # Null)
         \/ req[t].op = "PatchAsset" /\ next[t] # Null
         \/ req[t].op = "DeleteAsset" /\ (pc[t] = "DeleteAsset" \/ next[t] # Null)
  PROVE  <<RowLock(key[t]), "UPDATE">> \in held[t] /\ key[t] = req[t].id
         /\ RowLock(key[t]) \in Resources /\ "UPDATE" \in Modes /\ "SHARE" \in Modes
<1>1. Inv /\ Typed /\ Decided(t)
  BY DEF Sound, Inv, AllDecided
<1>2. row[t] # Null /\ key[t] = req[t].id
  <2>1. CASE pc[t] \in {"UpdateUser", "DeleteAsset"}
    BY <1>1, <2>1, InService DEF Holding
  <2>2. CASE next[t] # Null
    BY <1>1, <2>2 DEF Decided, Written, Writing, MutateOps
  <2> QED
    BY <2>1, <2>2
<1>3. key[t] \in Keys
  BY <1>1, <1>2, InService, RequestShape DEF Keys
<1> QED
  BY <1>1, <1>2, <1>3, RowResource DEF Inv, Locked, RowsLocked, Modes

LEMMA CommitSparesAssets ==
  ASSUME Sound, NEW s \in Sessions, Commits(s), NEW t \in Sessions \ {s}, pc[t] # "idle",
         pc'[t] = pc[t], req'[t] = req[t], key'[t] = key[t], row'[t] = row[t],
         next'[t] = next[t], held'[t] = held[t]
  PROVE  Spares(t)' /\ CodeFree(t)' /\ Unneeded(t)' /\ Unreferenced(t)'
<1>1. Decided(t) /\ Guarded(t) /\ Inv /\ Typed /\ t \in Sessions
  BY DEF Sound, AllDecided, AllGuarded, Inv
<1>2. Spares(t)'
  <2>1. CASE /\ req[t].op = "PatchUser" /\ (pc[t] = "UpdateUser" \/ next[t] # Null)
             /\ Deactivates(PatchedUser(row[t], req[t]), row[t])
    <3>1. req[t].actor # req[t].id /\ ~HasActiveOrders(req[t].id)
      BY <1>1, <2>1 DEF Decided, Spares, Writing
    <3>2. /\ <<RowLock(req[t].id), "UPDATE">> \in held[t]
          /\ RowLock(req[t].id) \in Resources /\ "UPDATE" \in Modes /\ "SHARE" \in Modes
      BY <2>1, PatchLocked
    <3>3. ASSUME NEW o \in Orders, orders'[o] # Null, orders'[o].assignee = req[t].id,
                 HoldsAssignee(orders'[o].status)
          PROVE  FALSE
      <4>1. orders'[o] # orders[o]
        BY <3>1, <3>3 DEF HasActiveOrders
      <4>2. CASE orders[o] = Null
        BY <3>3, <4>1, <4>2, OrderEffect DEF HoldsAssignee
      <4>3. CASE orders[o] # Null
        <5>1. <<RowLock(req[t].id), "SHARE">> \notin held[s]
          BY <1>1, <3>2, NoConflict
        <5> QED
          BY <3>1, <3>3, <4>1, <4>3, <5>1, OrderEffect DEF HasActiveOrders
      <4> QED
        BY <4>2, <4>3
    <3> QED
      BY <3>1, <3>3 DEF Spares, HasActiveOrders
  <2> QED
    BY <2>1 DEF Spares, Writing, Deactivates, PatchedUser
<1>3. CodeFree(t)'
  <2>1. CASE next[t] # Null /\ req[t].op = "CreateAsset"
    <3>1. <<CodeLock(req[t].code), "UPDATE">> \in held[t] /\ ~CodeTaken(req[t].code)
      BY <1>1, <2>1 DEF Decided, CodeFree, Writing
    <3>2. CodeLock(req[t].code) \in Resources /\ "UPDATE" \in Modes
      BY <2>1, WriterInService, RequestShape DEF Resources, Modes
    <3>3. ASSUME NEW a \in Assets, assets'[a] \notin {Null, Gone}, assets'[a].code = req[t].code
          PROVE  FALSE
      <4>1. assets'[a] # assets[a]
        BY <3>1, <3>3 DEF CodeTaken
      <4>2. <<CodeLock(req[t].code), "UPDATE">> \notin held[s]
        BY <1>1, <3>1, <3>2, NoConflict
      <4> QED
        BY <3>1, <3>3, <4>1, <4>2, AssetEffect DEF CodeTaken
    <3> QED
      BY <3>1, <3>3 DEF CodeFree, CodeTaken, CodeLock
  <2> QED
    BY <2>1 DEF CodeFree, Writing
<1>4. ASSUME <<RowLock(key[t]), "UPDATE">> \in held[t], RowLock(key[t]) \in Resources,
             NEW o \in Orders, orders'[o] # Null, orders'[o].asset = key[t]
      PROVE  /\ orders[o] # Null /\ orders[o].asset = key[t]
             /\ HoldsAsset(orders'[o].status) => HoldsAsset(orders[o].status)
  <2>1. CASE orders'[o] # orders[o]
    <3>1. <<RowLock(key[t]), "SHARE">> \notin held[s]
      BY <1>1, <1>4, NoConflict DEF Modes
    <3> QED
      BY <1>4, <2>1, <3>1, OrderEffect
  <2> QED
    BY <1>4, <2>1
<1>5. Unneeded(t)'
  <2>1. CASE /\ next[t] # Null /\ req[t].op = "PatchAsset"
             /\ Withdraws(row[t].status, next[t].status)
    <3>1. ~HasOpenOrders(key[t])
      BY <1>1, <2>1 DEF Decided, Unneeded, Writing
    <3> QED
      BY <1>4, <2>1, <3>1, PatchLocked DEF Unneeded, HasOpenOrders
  <2> QED
    BY <2>1 DEF Unneeded, Writing, Withdraws
<1>6. Unreferenced(t)'
  <2>1. CASE req[t].op = "DeleteAsset" /\ (pc[t] = "DeleteAsset" \/ next[t] # Null)
    <3>1. ~Referenced(key[t])
      BY <1>1, <2>1 DEF Decided, Unreferenced, Writing
    <3> QED
      BY <1>4, <2>1, <3>1, PatchLocked DEF Unreferenced, Referenced
  <2> QED
    BY <2>1 DEF Unreferenced, Writing
<1> QED
  BY <1>2, <1>3, <1>5, <1>6

LEMMA CommitSparesOrders ==
  ASSUME Sound, NEW s \in Sessions, Commits(s), NEW t \in Sessions \ {s}, pc[t] # "idle",
         pc'[t] = pc[t], req'[t] = req[t], key'[t] = key[t], row'[t] = row[t],
         next'[t] = next[t], held'[t] = held[t]
  PROVE  Serves(t)' /\ Owned(t)' /\ Startable(t)' /\ Employs(t)' /\ Legal(t)'
<1>1. Decided(t) /\ Guarded(t) /\ Inv /\ Typed /\ t \in Sessions
  BY DEF Sound, AllDecided, AllGuarded, Inv
<1>2. req[t] \in AllRequests
  BY <1>1, InService
<1>3. Startable(t)' /\ Legal(t)'
  BY <1>1 DEF Decided, Startable, Legal, Writing
<1>4. Serves(t)'
  <2>1. CASE req[t].op = "CreateOrder" /\ (pc[t] = "InsertWorkOrder" \/ next[t] # Null)
    <3> DEFINE a == req[t].asset
    <3>1. /\ <<RowLock(a), "SHARE">> \in held[t] /\ assets[a] \notin {Null, Gone}
          /\ AcceptsOrders(assets[a].status)
      BY <1>1, <2>1 DEF Decided, Serves, Writing
    <3>2. a \in Assets /\ RowLock(a) \in Resources
      BY <1>2, <2>1, RequestShape, RowOf, RowResource
    <3>3. assets'[a] = assets[a]
      BY <1>1, <3>1, <3>2, AssetEffect, NoConflict DEF Modes
    <3> QED
      BY <3>1, <3>3 DEF Serves, RowLock
  <2> QED
    BY <2>1 DEF Serves, Writing
<1>5. Owned(t)'
  <2>1. CASE req[t].op \in MutateOps /\ (pc[t] = "ShareTarget" \/ next[t] # Null)
    <3> DEFINE u == req[t].actor
    <3>1. MutableBy(t) = Ok
      BY <1>1, <2>1 DEF Decided, Owned, Writing
    <3>2. u \in Users /\ users[u] # Null
      BY <1>1, <1>2, <2>1, RequestShape, RequestsAssumption, IdsAssumption
      DEF MutateOps, Guarded, Present, Keys
    <3>3. users'[u].role = users[u].role
      BY <3>2, UserEffect
    <3>4. MutableBy(t)' = MutableBy(t)
      BY <3>3 DEF MutableBy
    <3> QED
      BY <3>1, <3>4 DEF Owned
  <2> QED
    BY <2>1 DEF Owned, Writing
<1>6. Employs(t)'
  <2>1. CASE next[t] # Null /\ req[t].op = "AssignOrder"
    <3> DEFINE u == req[t].target
    <3>1. <<RowLock(u), "SHARE">> \in held[t] /\ users[u] # Null /\ ValidAssignee(u)
      BY <1>1, <2>1 DEF Decided, Employs, Writing
    <3>2. u \in Users /\ RowLock(u) \in Resources
      BY <1>2, <2>1, RequestShape, RowOf, RowResource
    <3>3. users'[u] = users[u]
      BY <1>1, <3>1, <3>2, UserEffect, NoConflict DEF Modes
    <3> QED
      BY <3>1, <3>3 DEF Employs, ValidAssignee, RowLock
  <2> QED
    BY <2>1 DEF Employs, Writing
<1> QED
  BY <1>3, <1>4, <1>5, <1>6

LEMMA CommitDecided ==
  ASSUME Sound, NEW s \in Sessions, Commits(s), Local(s), NEW t \in Sessions \ {s}
  PROVE  Decided(t)'
<1>1. /\ pc'[t] = pc[t] /\ req'[t] = req[t] /\ key'[t] = key[t] /\ row'[t] = row[t]
      /\ next'[t] = next[t] /\ held'[t] = held[t]
  BY DEF Local
<1>2. CASE pc[t] # "idle"
  BY <1>1, <1>2, CommitSparesUsers, CommitSparesAssets, CommitSparesOrders DEF Decided
<1> QED
  BY <1>1, <1>2 DEF Decided

-----------------------------------------------------------------------------
LEMMA StepDecides ==
  ASSUME Typed, AllDecided, NEW s \in Sessions,
         Receive(s) \/ Step(s) \/ CommitLost(s) \/ Abort(s)
  PROVE  Decided(s)'
BY ReceiveDecides, ShareUserDecides, CheckActorDecides, UserDecides, AssetDecides,
   WorkOrderDecides, CloseDecides DEF Step

\* Whatever a step of a session does to the others' view, it is the commit.
LEMMA StepFrames ==
  ASSUME Typed, AllGuarded, NEW s \in Sessions,
         Receive(s) \/ Step(s) \/ CommitLost(s) \/ Abort(s)
  PROVE  Local(s) /\ (UNCHANGED tables \/ Commits(s))
<1>1. Prepares(s) \/ Advances(s) \/ Leaves(s)
  BY StepMoves
<1> QED
  BY <1>1 DEF Prepares, Advances, Leaves, Ends, Commits

LEMMA StepSound ==
  ASSUME Sound, [Next]_vars
  PROVE  Sound'
<1>1. Inv /\ Typed /\ AllGuarded /\ AllDecided
  BY DEF Sound, Inv
<1>2. Inv' /\ AllGuarded'
  BY <1>1, StepLocked, StepGuarded
<1>3. ASSUME NEW s \in Sessions, Receive(s) \/ Step(s) \/ CommitLost(s) \/ Abort(s),
             NEW t \in Sessions
      PROVE  Decided(t)'
  <2>1. CASE t = s
    BY <1>1, <1>3, <2>1, StepDecides
  <2>2. CASE t # s
    BY <1>1, <1>3, <2>2, StepFrames, OthersDecided, CommitDecided
  <2> QED
    BY <2>1, <2>2
<1>4. CASE Next
  BY <1>2, <1>3, <1>4 DEF Next, Sound, AllDecided
<1>5. CASE UNCHANGED vars
  BY <1>1, <1>2, <1>5, SameDecided DEF vars, Sound, AllDecided
<1> QED
  BY <1>4, <1>5

LEMMA InitSound ==
  ASSUME Init
  PROVE  Sound
<1>1. AllGuarded /\ AllDecided
  BY DEF Init, AllGuarded, Guarded, Present, SharesActor, HoldsAdministration, Passed,
         WritesAccounts, Early, AllDecided, Decided
<1> QED
  BY <1>1, InitTyped, InitLocked DEF Sound, Inv

LEMMA SoundAlways == Spec => []Sound
<1>1. Init => Sound
  BY InitSound
<1>2. Sound /\ [Next]_vars => Sound'
  BY StepSound
<1> QED
  BY <1>1, <1>2, PTL DEF Spec

-----------------------------------------------------------------------------
(***************************************************************************)
(* A step from outside the services, while they change no accounts: an     *)
(* idle session answers, and may add accounts with their audit rows.  The  *)
(* demo seed is one (DemoSeedProofs).                                      *)
(***************************************************************************)
Administers(t) == pc[t] \notin {"idle", "LockUserAdministration"} /\ req[t].op \in UserOps

Outside(s) ==
  /\ pc[s] = "idle"
  /\ UNCHANGED <<assets, orders, pc, req, key, held, row, next, logged>>
  /\ \A t \in Sessions \ {s} : wait'[t] = wait[t]
  /\ \A u \in Users : users[u] # Null => users'[u] = users[u]
  /\ users' = users \/ \A t \in Sessions : ~Administers(t)

\* What outside steps keep of the locks and the rows.
LEMMA OutsideLocked ==
  ASSUME Inv, AllGuarded, NEW s \in Sessions, Outside(s), TrailMatchesTables'
  PROVE  Locked'
<1>1. UNCHANGED <<assets, orders, pc, req, key, held, row, next, logged>>
        /\ \A u \in Users : users[u] # Null => users'[u] = users[u]
  BY DEF Outside
<1>2. ASSUME NEW k \in Keys, Row(k) # Null
      PROVE  Row(k)' = Row(k)
  BY <1>1, <1>2, RowOf DEF Keys
<1>3. Exclusive' /\ RowsLocked' /\ Audited'
  BY <1>1 DEF Inv, Locked, Exclusive, RowsLocked, RowLock, Audited
<1>4. NoLostUpdate'
  <2>1. ASSUME NEW t \in Sessions, row[t] # Null
        PROVE  row[t] = Row(key[t])'
    <3>1. key[t] \in Keys
      BY <2>1 DEF Inv, Typed, PhaseOK, Phase, RowFor, Keys
    <3>2. row[t] = Row(key[t])
      BY <2>1 DEF Inv, Locked, NoLostUpdate
    <3> QED
      BY <1>1, <1>2, <2>1, <3>1, <3>2
  <2> QED
    BY <1>1, <2>1 DEF NoLostUpdate
<1>5. InsertsApart'
  <2>1. ASSUME NEW t \in Sessions, next[t] # Null, row[t] = Null
        PROVE  Row(key[t])' = Null
    <3>1. key[t] \in Keys /\ Row(key[t]) = Null
      BY <2>1, WrittenKey DEF Inv, Locked, InsertsApart
    <3>2. CASE key[t] \in Users
      <4>1. Administers(t)
        BY <2>1, <3>2, NotWritten
        DEF AllGuarded, Guarded, WritesAccounts, Administers, Inv, Closing
      <4> QED
        BY <3>1, <3>2, <4>1, RowOf DEF Outside
    <3> QED
      BY <1>1, <3>1, <3>2, RowOf DEF Keys
  <2> QED
    BY <1>1, <2>1 DEF Inv, Locked, InsertsApart
<1> QED
  BY <1>3, <1>4, <1>5 DEF Locked

LEMMA OutsideGuarded ==
  ASSUME Typed, NEW s \in Sessions, Outside(s), NEW t \in Sessions, Guarded(t)
  PROVE  Guarded(t)'
<1>1. UNCHANGED <<pc, req, key, held, next>>
        /\ \A u \in Users : users[u] # Null => users'[u] = users[u]
  BY DEF Outside
<1>2. HoldsAdministration(t)' /\ WritesAccounts(t)'
  BY <1>1 DEF Guarded, HoldsAdministration, WritesAccounts, Administration
<1>3. SharesActor(t)'
  BY <1>1 DEF Outside, Guarded, SharesActor, RowLock
<1>4. CASE pc[t] = "idle"
  <2>1. req[t] = Null
    BY <1>4 DEF Typed, PhaseOK, Phase
  <2> QED
    BY <1>1, <1>2, <1>3, <1>4, <2>1 DEF Guarded, Present, Passed, Early
<1>5. CASE pc[t] # "idle"
  <2>1. req[t].actor \in Users \cup {Null} /\ req[t] # Null
    BY <1>5, InService, RequestShape, RequestsAssumption
  <2>2. req[t].actor # Null => users'[req[t].actor] = users[req[t].actor]
                                 /\ users[req[t].actor] # Null
    BY <1>1, <2>1 DEF Guarded, Present
  <2>3. Present(t)' /\ Passed(t)'
    BY <1>1, <2>2 DEF Guarded, Present, Passed
  <2> QED
    BY <1>2, <1>3, <2>3 DEF Guarded
<1> QED
  BY <1>4, <1>5

LEMMA OutsideDecided ==
  ASSUME Sound, NEW s \in Sessions, Outside(s), NEW t \in Sessions
  PROVE  Decided(t)'
<1>1. UNCHANGED <<assets, orders, pc, req, key, held, row, next>>
        /\ \A u \in Users : users[u] # Null => users'[u] = users[u]
  BY DEF Outside
<1>2. Decided(t) /\ Guarded(t) /\ Typed
  BY DEF Sound, AllDecided, AllGuarded, Inv
<1>3. CASE users' = users
  BY <1>1, <1>2, <1>3, SameDecided
<1>4. CASE pc[t] = "idle"
  BY <1>1, <1>4 DEF Decided
<1>5. CASE pc[t] # "idle" /\ ~Administers(t)
  <2>1. Written(t)'
    BY <1>1, <1>2, <1>5
    DEF Decided, Written, Writing, NewUser, NewAsset, NewOrder, PatchedUser, PatchedAsset,
        PatchedOrder, AssignedOrder, MovedOrder
  <2>2. EmailFree(t)' /\ NoneBefore(t)' /\ Spares(t)'
    <3>1. pc[t] = "LockUserAdministration" \/ req[t].op \notin UserOps
      BY <1>5 DEF Administers
    <3>2. pc[t] = "LockUserAdministration" => next[t] = Null
      BY <1>2, NotWritten DEF Closing
    <3> QED
      BY <1>1, <3>1, <3>2 DEF EmailFree, NoneBefore, Spares, Writing, UserOps
  <2>3. CodeFree(t)' /\ Unneeded(t)' /\ Unreferenced(t)' /\ Serves(t)' /\ Startable(t)' /\ Legal(t)'
    BY <1>1, <1>2, <1>5
    DEF Decided, CodeFree, CodeTaken, CodeLock, Unneeded, HasOpenOrders, Unreferenced, Referenced,
        Serves, RowLock, Startable, Legal, Writing
  <2>4. Employs(t)'
    <3>1. req[t].op = "AssignOrder" => req[t].target \in Users
      BY <1>2, <1>5, InService, RequestShape
    <3> QED
      BY <1>1, <1>2, <1>5, <3>1 DEF Decided, Employs, ValidAssignee, RowLock, Writing
  <2>5. Owned(t)'
    <3>1. req[t].op \in MutateOps => req[t].actor \in Users /\ req[t].actor # Null
      BY <1>2, <1>5, InService, RequestShape, IdsAssumption DEF MutateOps, Keys
    <3>2. req[t].op \in MutateOps => users'[req[t].actor] = users[req[t].actor]
      BY <1>1, <1>2, <1>5, <3>1, InService, RequestsAssumption DEF Guarded, Present
    <3> QED
      BY <1>1, <1>2, <1>5, <3>2 DEF Decided, Owned, MutableBy, Writing
  <2> QED
    BY <2>1, <2>2, <2>3, <2>4, <2>5 DEF Decided
<1> QED
  BY <1>3, <1>4, <1>5 DEF Outside

LEMMA OutsideSound ==
  ASSUME Sound, NEW s \in Sessions, Outside(s), TypeOK', TrailMatchesTables'
  PROVE  Sound'
<1>1. Inv /\ Typed /\ AllGuarded
  BY DEF Sound, Inv
<1>2. PhaseOK'
  BY <1>1 DEF Outside, Typed, PhaseOK, Phase, RowFor
<1>3. Locked' /\ AllGuarded' /\ AllDecided'
  BY <1>1, OutsideLocked, OutsideGuarded, OutsideDecided DEF AllGuarded, AllDecided
<1> QED
  BY <1>2, <1>3 DEF Sound, Inv, Typed

-----------------------------------------------------------------------------
(***************************************************************************)
(* Refinement: the commit of a transaction that has written something is   *)
(* its request done in one step, on the tables as they are then.           *)
(***************************************************************************)
Asked == \A s \in Sessions : req[s] # Null => req[s] \in Requests

LEMMA StepAsked ==
  ASSUME Sound, Asked, [Next]_vars
  PROVE  Asked'
<1>1. Typed /\ AllGuarded
  BY DEF Sound, Inv
<1>2. ASSUME NEW s \in Sessions, Receive(s) \/ Step(s) \/ CommitLost(s) \/ Abort(s)
      PROVE  req'[s] # Null => req'[s] \in Requests
  <2>1. CASE Receive(s)
    BY <1>1, <2>1 DEF Asked, Receive, Accept, Refuse, Typed, TypeOK
  <2>2. CASE UNCHANGED req
    BY <2>2 DEF Asked
  <2>3. CASE \E answer : End(s, answer)
    BY <1>1, <2>3 DEF End, Typed, TypeOK
  <2>4. CASE ShareUser(s) \/ CheckActor(s) \/ LockUserAdministration(s) \/ HasAdministrator(s)
    BY <2>2, <2>3, <2>4
    DEF ShareUser, CheckActor, LockUserAdministration, HasAdministrator, Proceed, Rollback
  <2>5. CASE UserStep(s)
    <3>1. UserStep(s) => pc[s] \notin Early \/ LockUserAdministration(s) \/ HasAdministrator(s)
      BY DEF UserStep, InsertUser, LockUser, CountActiveAdmins, UserHasActiveOrders, UpdateUser,
             At, Early
    <3> QED
      BY <1>1, <2>2, <2>3, <2>4, <2>5, <3>1, UserAdvances DEF Advances, Leaves, Ends
  <2>6. CASE AssetStep(s) \/ WorkOrderStep(s)
    <3>1. pc[s] \notin Early
      BY <2>6 DEF AssetStep, InsertAsset, LockAsset, PatchAsset, AssetHasOpenOrders,
                  AssetHasOrders, DeleteAsset, WorkOrderStep, ShareAsset, InsertWorkOrder,
                  LockWorkOrder, Change, ShareTarget, At, Early
    <3> QED
      BY <1>1, <2>2, <2>3, <2>6, <3>1, AssetAdvances, WorkOrderAdvances
      DEF Advances, Leaves, Ends
  <2>7. CASE InsertAudit(s) \/ Commit(s) \/ Resolve(s) \/ CommitLost(s) \/ Abort(s)
    BY <1>1, <2>2, <2>3, <2>7, CloseAdvances DEF Advances, Leaves, Ends
  <2> QED
    BY <1>2, <2>1, <2>4, <2>5, <2>6, <2>7 DEF Step
<1>3. CASE Next
  <2>1. PICK s \in Sessions : Receive(s) \/ Step(s) \/ CommitLost(s) \/ Abort(s)
    BY <1>3 DEF Next
  <2>2. \A t \in Sessions \ {s} : req'[t] = req[t]
    BY <1>1, <2>1, StepFrames DEF Local
  <2> QED
    BY <1>2, <2>1, <2>2 DEF Asked
<1>4. CASE UNCHANGED vars
  BY <1>4 DEF vars, Asked
<1> QED
  BY <1>3, <1>4

\* The tables after a commit, by the kind of the row.
LEMMA CommitTables ==
  ASSUME Typed, NEW s \in Sessions, Commits(s)
  PROVE  /\ next[s] = Null => UNCHANGED <<users, assets, orders>>
         /\ next[s] # Null /\ key[s] \in Users =>
              users' = [users EXCEPT ![key[s]] = next[s]] /\ UNCHANGED <<assets, orders>>
         /\ next[s] # Null /\ key[s] \in Assets =>
              assets' = [assets EXCEPT ![key[s]] = next[s]] /\ UNCHANGED <<users, orders>>
         /\ next[s] # Null /\ key[s] \in Orders =>
              orders' = [orders EXCEPT ![key[s]] = next[s]] /\ UNCHANGED <<users, assets>>
BY IdsAssumption DEF Commits, Apply

LEMMA SameRoles ==
  ASSUME NEW role
  PROVE  Atomic!RolePermissions(role) = RolePermissions(role)
BY DEF Atomic!RolePermissions, RolePermissions, Atomic!Permissions, Permissions,
       Atomic!AdminOnlyPermissions, AdminOnlyPermissions, Atomic!SharedPermissions,
       SharedPermissions

LEMMA UserFields ==
  ASSUME NEW u \in UserRow
  PROVE  u = [role |-> u.role, active |-> u.active, email |-> u.email, name |-> u.name,
              password |-> u.password]
BY DEF UserRow

\* The row a patch asks for, field by field.
LEMMA PatchedUserFields ==
  ASSUME NEW u \in UserRow, NEW r \in AllRequests, r.op = "PatchUser"
  PROVE  PatchedUser(u, r) =
           [role |-> u.role, active |-> Atomic!Merge(r.active, u.active),
            email |-> Atomic!Merge(r.email, u.email), name |-> Atomic!Merge(r.name, u.name),
            password |-> Atomic!Merge(r.password, u.password)]
<1>1. PICK v \in UserRow : v = PatchedUser(u, r)
  BY PatchedUserType
<1>2. /\ v.role = u.role /\ v.active = Atomic!Merge(r.active, u.active)
      /\ v.email = Atomic!Merge(r.email, u.email) /\ v.name = Atomic!Merge(r.name, u.name)
      /\ v.password = Atomic!Merge(r.password, u.password)
  BY <1>1 DEF PatchedUser, UserRow, Patched, Atomic!Merge
<1> QED
  BY <1>1, <1>2, UserFields

\* A writer may do what it has been asked to do.
LEMMA WriterMay ==
  ASSUME Sound, NEW s \in Sessions, next[s] # Null, req[s].op # "Bootstrap"
  PROVE  req[s].actor \in Users /\ Atomic!May(req[s].actor, Permission(req[s]))
<1>1. req[s] \in AllRequests /\ req[s] # Null /\ Guarded(s) /\ pc[s] \notin Early
  BY WriterInService
<1>2. req[s].actor \in Users /\ req[s].actor # Null
  BY <1>1, RequestShape, IdsAssumption DEF Keys
<1> QED
  BY <1>1, <1>2, SameRoles DEF Guarded, Present, Passed, Atomic!May

LEMMA AddUserRefines ==
  ASSUME Sound, NEW s \in Sessions, Commits(s), next[s] # Null,
         req[s].op \in {"CreateUser", "Bootstrap"}
  PROVE  Atomic!CreateUser(req[s]) \/ Atomic!Bootstrap(req[s])
<1> DEFINE r == req[s]
<1>1. Inv /\ Typed /\ Decided(s) /\ pc[s] \notin Early /\ Written(s)
  BY WriterInService DEF Sound, Inv
<1>2. key[s] \in Users /\ row[s] = Null /\ next[s] = NewUser(r)
  BY <1>1 DEF Written, Writing
<1>3. users[key[s]] = Null
  BY <1>1, <1>2, OldRow, RowOf
<1>4. users' = [users EXCEPT ![key[s]] = NewUser(r)] /\ UNCHANGED <<assets, orders>>
  BY <1>1, <1>2, CommitTables
<1>5. \A u \in Users : users[u] # Null => users[u].email # r.email
  <2>1. ~EmailTaken(next[s].email, {key[s]})
    BY <1>1 DEF Decided, EmailFree, Writing, UserOps, Early
  <2> QED
    BY <1>2, <1>3, <2>1 DEF EmailTaken, NewUser
<1>6. Atomic!AddUser(r)
  BY <1>2, <1>3, <1>4, <1>5 DEF Atomic!AddUser, NewUser
<1>7. CASE r.op = "CreateUser"
  BY <1>6, <1>7, WriterMay DEF Atomic!CreateUser, Permission
<1>8. CASE r.op = "Bootstrap"
  BY <1>1, <1>6, <1>8 DEF Atomic!Bootstrap, Decided, NoneBefore, AdministratorExists, Early
<1> QED
  BY <1>7, <1>8

LEMMA PatchUserRefines ==
  ASSUME Sound, NEW s \in Sessions, Commits(s), next[s] # Null, req[s].op = "PatchUser"
  PROVE  Atomic!PatchUser(req[s])
<1> DEFINE r == req[s]
           old == users[r.id]
           new == PatchedUser(old, r)
<1>1. Inv /\ Typed /\ Decided(s) /\ pc[s] # "idle" /\ Written(s) /\ r \in AllRequests
  BY WriterInService DEF Sound, Inv, Early
<1>2. r.id \in Users /\ row[s] # Null /\ key[s] = r.id /\ next[s] = PatchedUser(row[s], r)
  BY <1>1, RequestShape DEF Written, Writing
<1>3. old # Null /\ old \in UserRow /\ row[s] = old
  <2>1. row[s] = old
    BY <1>1, <1>2, OldRow, RowOf
  <2> QED
    BY <1>1, <1>2, <2>1 DEF Typed, TypeOK
<1>4. users' = [users EXCEPT ![r.id] = new] /\ UNCHANGED <<assets, orders>>
  BY <1>1, <1>2, <1>3, CommitTables
<1>5. new = [role |-> old.role, active |-> Atomic!Merge(r.active, old.active),
             email |-> Atomic!Merge(r.email, old.email),
             name |-> Atomic!Merge(r.name, old.name),
             password |-> Atomic!Merge(r.password, old.password)]
  BY <1>1, <1>3, PatchedUserFields
<1>6. \A u \in Users \ {r.id} :
        users[u] # Null => users[u].email # Atomic!Merge(r.email, old.email)
  <2>1. ~EmailTaken(new.email, {r.id})
    BY <1>1, <1>2, <1>3 DEF Decided, EmailFree, Writing, UserOps
  <2> QED
    BY <1>5, <2>1 DEF EmailTaken
<1>7. Atomic!May(r.actor, "user:update") /\ r.actor \in Users
  BY WriterMay DEF Permission
<1>8. ASSUME old.active, ~Atomic!Merge(r.active, old.active)
      PROVE  Atomic!MayDeactivate(r.actor, r.id)
  <2>1. r.actor # r.id /\ ~HasActiveOrders(r.id)
    BY <1>1, <1>2, <1>3, <1>5, <1>8 DEF Decided, Spares, Writing, Deactivates
  <2>2. users[r.actor] # Null /\ users[r.actor].active /\ users[r.actor].role = "ADMIN"
    <3>1. users[r.actor] # Null /\ users[r.actor].active
          /\ "user:update" \in RolePermissions(users[r.actor].role)
      BY <1>7, SameRoles DEF Atomic!May
    <3>2. users[r.actor].role \in Roles
      BY <1>1, <1>7, <3>1 DEF Typed, TypeOK, UserRow
    <3> QED
      BY <3>1, <3>2 DEF RolePermissions, SharedPermissions, Roles
  <2> QED
    BY <1>7, <2>1, <2>2 DEF Atomic!MayDeactivate, HasActiveOrders, HoldsAssignee
<1> QED
  BY <1>3, <1>4, <1>5, <1>6, <1>7, <1>8 DEF Atomic!PatchUser

\* A commit changes one account at most.
LEMMA OneAccount ==
  ASSUME Sound, NEW s \in Sessions, Commits(s), NEW u \in Users, users'[u] # users[u]
  PROVE  /\ next[s] # Null /\ u = key[s] /\ users'[u] = next[s] /\ req[s].op \in UserOps
         /\ \A v \in Users \ {u} : users'[v] = users[v]
<1>1. \A v \in Users : users'[v] # users[v] => next[s] # Null /\ v = key[s] /\ users'[v] = next[s]
  BY CommitEffect, RowOf DEF Sound, Inv
<1> QED
  BY <1>1, WriterInService DEF Guarded, WritesAccounts

\* Who creates an account: an administrator, unless it is the first one.
LEMMA AccountCreated ==
  ASSUME Sound, NEW s \in Sessions, Commits(s), NEW u \in Users, users[u] = Null,
         users'[u] # Null
  PROVE  \/ /\ req[s].actor = Null /\ users'[u].role = "ADMIN" /\ ~AdministratorExists
         \/ /\ req[s].actor \in Users /\ users[req[s].actor] # Null
            /\ users[req[s].actor].role = "ADMIN"
<1>1. /\ next[s] # Null /\ u = key[s] /\ users'[u] = next[s] /\ req[s].op \in UserOps
      /\ Inv /\ Typed /\ Decided(s) /\ Written(s) /\ pc[s] \notin Early /\ req[s] \in AllRequests
  BY OneAccount, WriterInService DEF Sound, Inv
<1>2. req[s].op # "PatchUser"
  BY <1>1, OldRow, RowOf DEF Written, Writing
<1>3. CASE req[s].op = "Bootstrap"
  <2>1. next[s] = NewUser(req[s]) /\ ~AdministratorExists
    BY <1>1, <1>3 DEF Written, Writing, Decided, NoneBefore, Early
  <2>2. req[s] \in BootstrapRequests
    BY <1>1, <1>3 DEF AllRequests, UserRequests, CreateUserRequests, PatchUserRequests,
                      AssetRequests, CreateAssetRequests, PatchAssetRequests,
                      DeleteAssetRequests, OrderRequests, CreateOrderRequests,
                      PatchOrderRequests, AssignOrderRequests, StatusOrderRequests
  <2> QED
    BY <1>1, <2>1, <2>2 DEF NewUser, BootstrapRequests
<1>4. CASE req[s].op = "CreateUser"
  <2> DEFINE a == req[s].actor
  <2>1. a \in Users /\ users[a] # Null /\ "user:create" \in RolePermissions(users[a].role)
    BY <1>1, <1>4, WriterMay, SameRoles DEF Permission, Atomic!May
  <2>2. users[a].role \in Roles
    BY <1>1, <2>1 DEF Typed, TypeOK, UserRow
  <2> QED
    BY <2>1, <2>2 DEF RolePermissions, SharedPermissions, Roles
<1> QED
  BY <1>1, <1>2, <1>3, <1>4 DEF UserOps

\* No two accounts have one address: the unique index of the table.
EmailsDiffer ==
  \A u, v \in Users :
    users[u] # Null /\ users[v] # Null /\ users[u].email = users[v].email => u = v

LEMMA CommitEmails ==
  ASSUME Sound, NEW s \in Sessions, Commits(s), EmailsDiffer
  PROVE  EmailsDiffer'
<1>1. CASE \A u \in Users : users'[u] = users[u]
  BY <1>1 DEF EmailsDiffer
<1>2. ASSUME NEW u \in Users, users'[u] # users[u]
      PROVE  EmailsDiffer'
  <2>1. /\ u = key[s] /\ users'[u] = next[s] /\ next[s] # Null /\ req[s].op \in UserOps
        /\ \A v \in Users \ {u} : users'[v] = users[v]
    BY <1>2, OneAccount
  <2>2. ~EmailTaken(next[s].email, {u})
    BY <2>1, WriterInService DEF Decided, EmailFree, Writing, Early
  <2> QED
    BY <2>1, <2>2 DEF EmailsDiffer, EmailTaken
<1> QED
  BY <1>1, <1>2

LEMMA CreateAssetRefines ==
  ASSUME Sound, NEW s \in Sessions, Commits(s), next[s] # Null, req[s].op = "CreateAsset"
  PROVE  Atomic!CreateAsset(req[s])
<1> DEFINE r == req[s]
<1>1. Inv /\ Typed /\ Decided(s) /\ pc[s] # "idle" /\ Written(s)
  BY WriterInService DEF Sound, Inv, Early
<1>2. key[s] \in Assets /\ row[s] = Null /\ next[s] = NewAsset(r)
  BY <1>1 DEF Written, Writing
<1>3. assets[key[s]] = Null
  BY <1>1, <1>2, OldRow, RowOf
<1>4. assets' = [assets EXCEPT ![key[s]] = NewAsset(r)] /\ UNCHANGED <<users, orders>>
  BY <1>1, <1>2, CommitTables
<1>5. \A a \in Assets : Atomic!Present(a) => assets[a].code # r.code
  BY <1>1 DEF Decided, CodeFree, Writing, CodeTaken, Atomic!Present
<1>6. Atomic!May(r.actor, "asset:create")
  BY WriterMay DEF Permission
<1> QED
  BY <1>2, <1>3, <1>4, <1>5, <1>6 DEF Atomic!CreateAsset, NewAsset

LEMMA AssetShape ==
  ASSUME NEW a \in AssetRow
  PROVE  a = [code |-> a.code, status |-> a.status, meta |-> a.meta]
BY DEF AssetRow

LEMMA PatchedAssetFields ==
  ASSUME NEW a \in AssetRow, NEW r \in AllRequests, r.op = "PatchAsset"
  PROVE  PatchedAsset(a, r) =
           [code |-> a.code, status |-> Atomic!Merge(r.status, a.status),
            meta |-> [f \in AssetFields |-> Atomic!Merge(r.meta[f], a.meta[f])]]
<1>1. PICK v \in AssetRow : v = PatchedAsset(a, r)
  BY PatchedAssetType
<1>2. \A new, old : Patched(new, old) = Atomic!Merge(new, old)
  BY DEF Patched, Atomic!Merge
<1>3. v.code = a.code /\ v.status = Atomic!Merge(r.status, a.status)
  BY <1>1, <1>2 DEF PatchedAsset, AssetRow
<1>4. v.meta = [f \in AssetFields |-> Atomic!Merge(r.meta[f], a.meta[f])]
  <2>1. v.meta = [f \in AssetFields |-> Patched(r.meta[f], a.meta[f])]
    BY <1>1 DEF PatchedAsset, AssetRow
  <2> QED
    BY <1>2, <2>1
<1> QED
  BY <1>1, <1>3, <1>4, AssetShape

LEMMA PatchAssetRefines ==
  ASSUME Sound, NEW s \in Sessions, Commits(s), next[s] # Null, req[s].op = "PatchAsset"
  PROVE  Atomic!PatchAsset(req[s])
<1> DEFINE r == req[s]
           old == assets[r.id]
           new == PatchedAsset(old, r)
<1>1. Inv /\ Typed /\ Decided(s) /\ pc[s] # "idle" /\ Written(s) /\ r \in AllRequests
  BY WriterInService DEF Sound, Inv, Early
<1>2. r.id \in Assets /\ row[s] # Null /\ key[s] = r.id /\ next[s] = PatchedAsset(row[s], r)
  BY <1>1, RequestShape DEF Written, Writing
<1>3. row[s] = old /\ old \in AssetRow
  BY <1>1, <1>2, OldRow, RowOf, IdsAssumption DEF RowFor
<1>4. assets' = [assets EXCEPT ![r.id] = new] /\ UNCHANGED <<users, orders>>
  BY <1>1, <1>2, <1>3, CommitTables
<1>5. new = [code |-> old.code, status |-> Atomic!Merge(r.status, old.status),
             meta |-> [f \in AssetFields |-> Atomic!Merge(r.meta[f], old.meta[f])]]
  BY <1>1, <1>3, PatchedAssetFields
<1>6. Atomic!Present(r.id)
  BY <1>3, RowsAssumption DEF Atomic!Present, Rows
<1>7. ASSUME new.status \in {"INACTIVE", "RETIRED"}, new.status # old.status,
             NEW o \in Atomic!Unfinished
      PROVE  orders[o].asset # r.id
  <2>1. ~HasOpenOrders(r.id)
    BY <1>1, <1>2, <1>3, <1>7 DEF Decided, Unneeded, Writing, Withdraws
  <2> QED
    BY <1>7, <2>1 DEF Atomic!Unfinished, HasOpenOrders, HoldsAsset
<1>8. Atomic!May(r.actor, "asset:update")
  BY WriterMay DEF Permission
<1>9. new.status = Atomic!Merge(r.status, old.status)
  BY <1>5
<1> QED
  BY <1>4, <1>5, <1>6, <1>7, <1>8, <1>9 DEF Atomic!PatchAsset

LEMMA DeleteAssetRefines ==
  ASSUME Sound, NEW s \in Sessions, Commits(s), next[s] # Null, req[s].op = "DeleteAsset"
  PROVE  Atomic!DeleteAsset(req[s])
<1> DEFINE r == req[s]
<1>1. Inv /\ Typed /\ Decided(s) /\ pc[s] # "idle" /\ Written(s) /\ r \in AllRequests
  BY WriterInService DEF Sound, Inv, Early
<1>2. r.id \in Assets /\ row[s] # Null /\ key[s] = r.id /\ next[s] = Gone
  BY <1>1, RequestShape DEF Written, Writing
<1>3. assets[r.id] \in AssetRow
  BY <1>1, <1>2, OldRow, RowOf, IdsAssumption DEF RowFor
<1>4. assets' = [assets EXCEPT ![r.id] = Gone] /\ UNCHANGED <<users, orders>>
  BY <1>1, <1>2, CommitTables
<1>5. Atomic!Present(r.id)
  BY <1>3, RowsAssumption DEF Atomic!Present, Rows
<1>6. \A o \in Orders : orders[o] # Null => orders[o].asset # r.id
  BY <1>1, <1>2 DEF Decided, Unreferenced, Writing, Referenced
<1>7. Atomic!May(r.actor, "asset:delete")
  BY WriterMay DEF Permission
<1> QED
  BY <1>4, <1>5, <1>6, <1>7 DEF Atomic!DeleteAsset

LEMMA CreateOrderRefines ==
  ASSUME Sound, NEW s \in Sessions, Commits(s), next[s] # Null, req[s].op = "CreateOrder"
  PROVE  Atomic!CreateOrder(req[s])
<1> DEFINE r == req[s]
<1>1. Inv /\ Typed /\ Decided(s) /\ pc[s] # "idle" /\ Written(s)
  BY WriterInService DEF Sound, Inv, Early
<1>2. key[s] \in Orders /\ row[s] = Null /\ next[s] = NewOrder(r)
  BY <1>1 DEF Written, Writing
<1>3. orders[key[s]] = Null
  BY <1>1, <1>2, OldRow, RowOf
<1>4. orders' = [orders EXCEPT ![key[s]] = NewOrder(r)] /\ UNCHANGED <<users, assets>>
  BY <1>1, <1>2, CommitTables
<1>5. Atomic!Present(r.asset) /\ assets[r.asset].status \in {"ACTIVE", "MAINTENANCE"}
  BY <1>1 DEF Decided, Serves, Writing, AcceptsOrders, Atomic!Present
<1>6. Atomic!May(r.actor, "work_order:create")
  BY WriterMay DEF Permission
<1> QED
  BY <1>2, <1>3, <1>4, <1>5, <1>6 DEF Atomic!CreateOrder, NewOrder

\* What every change of an order rests on: it is not finished, and the caller's to change.
LEMMA MutationRests ==
  ASSUME Sound, NEW s \in Sessions, Commits(s), next[s] # Null, req[s].op \in MutateOps
  PROVE  /\ Decided(s) /\ pc[s] # "idle" /\ Written(s) /\ req[s] \in AllRequests
         /\ req[s].id \in Orders /\ key[s] = req[s].id /\ row[s] = orders[req[s].id]
         /\ row[s] \in OrderRow /\ row[s] # Null
         /\ orders' = [orders EXCEPT ![req[s].id] = next[s]] /\ UNCHANGED <<users, assets>>
         /\ req[s].id \in Atomic!Unfinished /\ Atomic!Mine(req[s].actor, req[s].id)
         /\ Atomic!May(req[s].actor, Permission(req[s]))
<1>1. Inv /\ Typed /\ Decided(s) /\ pc[s] # "idle" /\ Written(s) /\ req[s] \in AllRequests
  BY WriterInService DEF Sound, Inv, Early
<1>2. req[s].id \in Orders /\ row[s] # Null /\ key[s] = req[s].id
  BY <1>1, RequestShape DEF Written, Writing, MutateOps
<1>3. row[s] = orders[req[s].id] /\ row[s] \in OrderRow
  BY <1>1, <1>2, OldRow, RowOf, IdsAssumption DEF RowFor
<1>4. orders' = [orders EXCEPT ![req[s].id] = next[s]] /\ UNCHANGED <<users, assets>>
  BY <1>1, <1>2, CommitTables
<1>5. /\ AssignedScope(users[req[s].actor].role, req[s].actor, row[s].assignee)
      /\ ~Terminal(row[s].status)
  BY <1>1 DEF Decided, Owned, Writing, MutableBy, Mutable, Ok
<1>6. req[s].id \in Atomic!Unfinished
  BY <1>2, <1>3, <1>5 DEF Atomic!Unfinished, Terminal, OrderRow, OrderStatuses
<1>7. Atomic!Mine(req[s].actor, req[s].id)
  BY <1>3, <1>5 DEF Atomic!Mine, AssignedScope
<1>8. Atomic!May(req[s].actor, Permission(req[s]))
  BY WriterMay DEF MutateOps
<1> QED
  BY <1>1, <1>2, <1>3, <1>4, <1>6, <1>7, <1>8

LEMMA PatchOrderRefines ==
  ASSUME Sound, NEW s \in Sessions, Commits(s), next[s] # Null, req[s].op = "PatchOrder"
  PROVE  Atomic!PatchOrder(req[s])
<1> DEFINE r == req[s]
<1>1. req[s].op \in MutateOps
  BY DEF MutateOps
<1>2. next[s] = [orders[r.id] EXCEPT !.meta =
                   [f \in OrderFields |-> Atomic!Merge(r.meta[f], orders[r.id].meta[f])]]
  <2>1. next[s] = PatchedOrder(orders[r.id], r)
    BY <1>1, MutationRests DEF Written, Writing
  <2>2. \A new, old : Patched(new, old) = Atomic!Merge(new, old)
    BY DEF Patched, Atomic!Merge
  <2> QED
    BY <2>1, <2>2 DEF PatchedOrder
<1>3. Atomic!May(r.actor, "work_order:update")
  BY <1>1, MutationRests DEF Permission
<1> QED
  BY <1>1, <1>2, <1>3, MutationRests DEF Atomic!PatchOrder

LEMMA AssignOrderRefines ==
  ASSUME Sound, NEW s \in Sessions, Commits(s), next[s] # Null, req[s].op = "AssignOrder"
  PROVE  Atomic!AssignOrder(req[s])
<1> DEFINE r == req[s]
           old == orders[r.id]
<1>1. req[s].op \in MutateOps
  BY DEF MutateOps
<1>2. next[s] = [old EXCEPT !.status = "ASSIGNED", !.assignee = r.target]
  <2>1. next[s] = AssignedOrder(old, r.target)
    BY <1>1, MutationRests DEF Written, Writing
  <2> QED
    BY <2>1 DEF AssignedOrder
<1>3. old.status # "IN_PROGRESS" /\ old.assignee # r.target
  BY <1>1, MutationRests DEF Decided, Startable, Writing, Assignable
<1>4. users[r.target] # Null /\ users[r.target].active /\ users[r.target].role = "TECHNICIAN"
  BY <1>1, MutationRests DEF Decided, Employs, Writing, ValidAssignee
<1>5. Atomic!May(r.actor, "work_order:assign")
  BY <1>1, MutationRests DEF Permission
<1>6. orders' = [orders EXCEPT ![r.id].status = "ASSIGNED", ![r.id].assignee = r.target]
  <2>1. orders' = [orders EXCEPT ![r.id] = [old EXCEPT !.status = "ASSIGNED", !.assignee = r.target]]
    BY <1>1, <1>2, MutationRests
  <2>2. old \in OrderRow /\ r.id \in Orders /\ orders \in [Orders -> OrderRow \cup {Null}]
    BY <1>1, MutationRests DEF Sound, Inv, Typed, TypeOK
  <2> QED
    BY <2>1, <2>2 DEF OrderRow
<1> QED
  BY <1>1, <1>3, <1>4, <1>5, <1>6, MutationRests DEF Atomic!AssignOrder

LEMMA StatusOrderRefines ==
  ASSUME Sound, NEW s \in Sessions, Commits(s), next[s] # Null, req[s].op = "StatusOrder"
  PROVE  Atomic!StatusOrder(req[s])
<1> DEFINE r == req[s]
<1>1. req[s].op \in MutateOps
  BY DEF MutateOps
<1>2. next[s] = [orders[r.id] EXCEPT !.status = r.target]
  <2>1. next[s] = MovedOrder(orders[r.id], r.target)
    BY <1>1, MutationRests DEF Written, Writing
  <2> QED
    BY <2>1 DEF MovedOrder
<1>3. Transition(orders[r.id].status, r.target) = Ok
  BY <1>1, MutationRests DEF Decided, Legal, Writing
<1>4. Atomic!May(r.actor, StatusPermission(r.target))
  BY <1>1, MutationRests DEF Permission
<1>5. \/ r.target = "CANCELLED" /\ Atomic!May(r.actor, "work_order:cancel")
      \/ /\ Atomic!May(r.actor, "work_order:status:update")
         /\ <<orders[r.id].status, r.target>> \in
              {<<"ASSIGNED", "IN_PROGRESS">>, <<"IN_PROGRESS", "COMPLETED">>}
  BY <1>3, <1>4 DEF Transition, Terminal, Ok, StatusPermission
<1>6. orders' = [orders EXCEPT ![r.id].status = r.target]
  BY <1>1, <1>2, MutationRests
<1> QED
  BY <1>1, <1>5, <1>6, MutationRests DEF Atomic!StatusOrder

LEMMA CommitRefines ==
  ASSUME Sound, Asked, NEW s \in Sessions, Commits(s)
  PROVE  Atomic!Next \/ UNCHANGED Atomic!vars
<1>1. CASE next[s] = Null
  <2>1. Typed
    BY DEF Sound, Inv
  <2> QED
    BY <1>1, <2>1, CommitTables DEF Atomic!vars
<1>2. CASE next[s] # Null
  <2>1. req[s] \in Requests /\ req[s].op \in Ops
    BY <1>2, WriterInService DEF Asked
  <2>2. Atomic!Do(req[s])
    <3>1. CASE req[s].op \in UserOps
      BY <1>2, <3>1, AddUserRefines, PatchUserRefines DEF UserOps, Atomic!Do
    <3>2. CASE req[s].op \in AssetOps
      BY <1>2, <3>2, CreateAssetRefines, PatchAssetRefines, DeleteAssetRefines
      DEF AssetOps, Atomic!Do
    <3>3. CASE req[s].op \in MutateOps \cup {"CreateOrder"}
      BY <1>2, <3>3, CreateOrderRefines, PatchOrderRefines, AssignOrderRefines, StatusOrderRefines
      DEF MutateOps, Atomic!Do
    <3> QED
      BY <2>1, <3>1, <3>2, <3>3 DEF Ops
  <2> QED
    BY <2>1, <2>2 DEF Atomic!Next
<1> QED
  BY <1>1, <1>2

LEMMA StepRefines ==
  ASSUME Sound, Asked, [Next]_vars
  PROVE  [Atomic!Next]_(Atomic!vars)
<1>1. Typed /\ AllGuarded
  BY DEF Sound, Inv
<1>2. CASE Next
  <2>1. PICK s \in Sessions : Receive(s) \/ Step(s) \/ CommitLost(s) \/ Abort(s)
    BY <1>2 DEF Next
  <2>2. CASE UNCHANGED tables
    BY <2>2 DEF tables, Atomic!vars
  <2>3. CASE Commits(s)
    BY <2>3, CommitRefines
  <2> QED
    BY <1>1, <2>1, <2>2, <2>3, StepFrames
<1>3. CASE UNCHANGED vars
  BY <1>3 DEF vars, Atomic!vars
<1> QED
  BY <1>2, <1>3

LEMMA AskedAlways == Spec => []Asked
<1>1. Init => Asked
  BY DEF Init, Asked
<1>2. Sound /\ Asked /\ [Next]_vars => Asked'
  BY StepAsked
<1> QED
  BY <1>1, <1>2, SoundAlways, PTL DEF Spec

\* The transactions implement the atomic services: whatever the interleaving of statements
\* and however commits fail, every change of the tables is one request, accepted by the
\* rules of the services on the tables of that moment (InTx, the row locks, the advisory
\* lock and the second check of users, assets and workorders).
THEOREM TransactionsAtomic == Spec => Serializable
<1>1. Init => Atomic!Init
  BY DEF Init, Atomic!Init
<1>2. Sound /\ Asked /\ [Next]_vars => [Atomic!Next]_(Atomic!vars)
  BY StepRefines
<1> QED
  BY <1>1, <1>2, SoundAlways, AskedAlways, PTL DEF Spec, Serializable, Atomic!Spec

-----------------------------------------------------------------------------
(***************************************************************************)
(* What follows for the tables.  A request done in one step changes one    *)
(* table only; these are the changes it can make.                          *)
(***************************************************************************)
LEMMA AtomicUsers ==
  ASSUME Typed, NEW r \in AllRequests, Atomic!Do(r), NEW u \in Users, users[u] # Null
  PROVE  /\ users'[u] # Null /\ users'[u].role = users[u].role
         /\ users[u].active /\ ~users'[u].active =>
              /\ Atomic!MayDeactivate(r.actor, u) /\ orders' = orders
              /\ \A v \in Users \ {u} : users'[v] = users[v]
<1>1. users \in [Users -> UserRow \cup {Null}] /\ users[u] \in UserRow
  BY DEF Typed, TypeOK
<1>2. CASE UNCHANGED users
  BY <1>2
<1>3. CASE Atomic!AddUser(r)
  <2>1. PICK v \in Users : users[v] = Null /\ \E x : users' = [users EXCEPT ![v] = x]
    BY <1>3 DEF Atomic!AddUser
  <2> QED
    BY <1>1, <2>1
<1>4. CASE Atomic!PatchUser(r)
  <2> DEFINE new == [role |-> users[r.id].role,
                     active |-> Atomic!Merge(r.active, users[r.id].active),
                     email |-> Atomic!Merge(r.email, users[r.id].email),
                     name |-> Atomic!Merge(r.name, users[r.id].name),
                     password |-> Atomic!Merge(r.password, users[r.id].password)]
  <2>1. users' = [users EXCEPT ![r.id] = new] /\ orders' = orders
    BY <1>4 DEF Atomic!PatchUser
  <2>2. CASE u # r.id
    BY <1>1, <2>1, <2>2
  <2>3. CASE u = r.id
    <3>1. users'[u] = new /\ \A v \in Users \ {u} : users'[v] = users[v]
      BY <1>1, <2>1, <2>3
    <3>2. new \in UserRow
      <4>1. r.op = "PatchUser"
        BY <1>4 DEF Atomic!PatchUser
      <4> QED
        BY <1>1, <2>3, <4>1, PatchedUserFields, PatchedUserType
    <3>3. new.role = users[u].role /\ new.active = Atomic!Merge(r.active, users[u].active)
      BY <2>3
    <3>4. users'[u] # Null /\ users'[u].role = users[u].role
      BY <3>1, <3>2, <3>3, RowsAssumption DEF Rows
    <3>5. users[u].active /\ ~Atomic!Merge(r.active, users[u].active) =>
            Atomic!MayDeactivate(r.actor, u)
      BY <1>4, <2>3 DEF Atomic!PatchUser
    <3> HIDE DEF new
    <3> QED
      BY <2>1, <3>1, <3>3, <3>4, <3>5
  <2> QED
    BY <2>2, <2>3
<1> QED
  BY <1>2, <1>3, <1>4
  DEF Atomic!Do, Atomic!CreateUser, Atomic!Bootstrap, Atomic!CreateAsset, Atomic!PatchAsset,
      Atomic!DeleteAsset, Atomic!CreateOrder, Atomic!PatchOrder, Atomic!AssignOrder,
      Atomic!StatusOrder

\* An asset that unfinished orders are about stays, and stays in service if it was.
LEMMA AtomicAssets ==
  ASSUME Typed, NEW r \in AllRequests, Atomic!Do(r), NEW a \in Assets, Atomic!Present(a),
         assets[a].status \in {"ACTIVE", "MAINTENANCE"},
         NEW o \in Atomic!Unfinished, orders[o].asset = a
  PROVE  Atomic!Present(a)' /\ assets'[a].status \in {"ACTIVE", "MAINTENANCE"}
<1>1. assets \in [Assets -> AssetRow \cup {Null, Gone}] /\ assets[a] \in AssetRow
  BY DEF Typed, TypeOK, Atomic!Present
<1>2. o \in Orders /\ orders[o] # Null
  BY DEF Atomic!Unfinished
<1>3. CASE UNCHANGED assets
  BY <1>3 DEF Atomic!Present
<1>4. CASE Atomic!CreateAsset(r)
  <2>1. PICK b \in Assets : assets[b] = Null /\ \E x : assets' = [assets EXCEPT ![b] = x]
    BY <1>4 DEF Atomic!CreateAsset
  <2> QED
    BY <1>1, <2>1 DEF Atomic!Present
<1>5. CASE Atomic!PatchAsset(r)
  <2> DEFINE old == assets[r.id]
             new == [code |-> old.code, status |-> Atomic!Merge(r.status, old.status),
                     meta |-> [f \in AssetFields |-> Atomic!Merge(r.meta[f], old.meta[f])]]
  <2>1. /\ assets' = [assets EXCEPT ![r.id] = new] /\ r.op = "PatchAsset"
        /\ new.status \in {"INACTIVE", "RETIRED"} /\ new.status # old.status =>
             \A x \in Atomic!Unfinished : orders[x].asset # r.id
    BY <1>5 DEF Atomic!PatchAsset
  <2>2. CASE a # r.id
    BY <1>1, <2>1, <2>2 DEF Atomic!Present
  <2>3. CASE a = r.id
    <3>1. assets'[a] = new
      BY <1>1, <2>1, <2>3
    <3>2. new \in AssetRow
      BY <1>1, <2>1, <2>3, PatchedAssetFields, PatchedAssetType
    <3>3. new.status \in AssetStatuses
      BY <3>2 DEF AssetRow
    <3>4. new.status \in {"ACTIVE", "MAINTENANCE"}
      BY <2>1, <2>3, <3>3 DEF AssetStatuses
    <3>5. new \notin {Null, Gone}
      BY <3>2, RowsAssumption DEF Rows
    <3> HIDE DEF new
    <3> QED
      BY <3>1, <3>4, <3>5 DEF Atomic!Present
  <2> QED
    BY <2>2, <2>3
<1>6. CASE Atomic!DeleteAsset(r)
  <2>1. assets' = [assets EXCEPT ![r.id] = Gone] /\ r.id # a
    BY <1>2, <1>6 DEF Atomic!DeleteAsset
  <2> QED
    BY <1>1, <2>1 DEF Atomic!Present
<1> QED
  BY <1>3, <1>4, <1>5, <1>6
  DEF Atomic!Do, Atomic!CreateUser, Atomic!Bootstrap, Atomic!PatchUser, Atomic!AddUser,
      Atomic!CreateOrder, Atomic!PatchOrder, Atomic!AssignOrder, Atomic!StatusOrder

\* The edges of the lifecycle over whole commits.
Edges == {<<"OPEN", "OPEN">>, <<"OPEN", "ASSIGNED">>, <<"OPEN", "CANCELLED">>,
          <<"ASSIGNED", "ASSIGNED">>, <<"ASSIGNED", "IN_PROGRESS">>,
          <<"ASSIGNED", "CANCELLED">>, <<"IN_PROGRESS", "IN_PROGRESS">>,
          <<"IN_PROGRESS", "COMPLETED">>, <<"IN_PROGRESS", "CANCELLED">>}

LEMMA AtomicOrders ==
  ASSUME Typed, NEW r \in AllRequests, Atomic!Do(r), NEW o \in Orders, orders'[o] # orders[o]
  PROVE  /\ orders'[o] # Null /\ UNCHANGED <<users, assets>>
         /\ orders[o] = Null =>
              /\ orders'[o].status = "OPEN" /\ Atomic!Present(orders'[o].asset)
              /\ assets[orders'[o].asset].status \in {"ACTIVE", "MAINTENANCE"}
         /\ orders[o] # Null =>
              /\ o \in Atomic!Unfinished /\ orders'[o].asset = orders[o].asset
              /\ <<orders[o].status, orders'[o].status>> \in Edges
              /\ \/ orders'[o].assignee = orders[o].assignee
                    /\ (orders'[o].status = "ASSIGNED" => orders[o].status = "ASSIGNED")
                 \/ /\ orders'[o].status = "ASSIGNED" /\ orders'[o].assignee \in Users
                    /\ users[orders'[o].assignee] # Null /\ users[orders'[o].assignee].active
                    /\ users[orders'[o].assignee].role = "TECHNICIAN"
<1>1. orders \in [Orders -> OrderRow \cup {Null}] /\ Null \notin OrderRow
  BY RowsAssumption DEF Typed, TypeOK, Rows
<1>2. orders[o] # Null => orders[o] \in OrderRow
  BY <1>1
<1>3. CASE Atomic!CreateOrder(r)
  <2> DEFINE new == [asset |-> r.asset, status |-> "OPEN", assignee |-> Null,
                     creator |-> r.actor, meta |-> r.meta]
  <2>1. PICK x \in Orders : orders[x] = Null /\ orders' = [orders EXCEPT ![x] = new]
    BY <1>3 DEF Atomic!CreateOrder
  <2>2. x = o /\ orders'[o] = new
    BY <1>1, <2>1
  <2>3. new \in OrderRow
    <3>1. r.op = "CreateOrder"
      BY <1>3 DEF Atomic!CreateOrder
    <3>2. r.asset \in Assets /\ r.actor \in Users /\ r.meta \in [OrderFields -> Values]
      BY <3>1, RequestShape
    <3> QED
      BY <3>2 DEF OrderRow, OrderStatuses
  <2> QED
    BY <1>1, <1>3, <2>1, <2>2, <2>3 DEF Atomic!CreateOrder
<1>4. CASE Atomic!PatchOrder(r)
  <2> DEFINE meta == [f \in OrderFields |-> Atomic!Merge(r.meta[f], orders[r.id].meta[f])]
  <2>1. orders' = [orders EXCEPT ![r.id].meta = meta] /\ r.id \in Atomic!Unfinished
        /\ UNCHANGED <<users, assets>> /\ r.op = "PatchOrder"
    BY <1>4 DEF Atomic!PatchOrder
  <2> HIDE DEF meta
  <2>2. o = r.id /\ orders'[o] = [orders[o] EXCEPT !.meta = meta] /\ orders[o] # Null
    BY <1>1, <2>1 DEF Atomic!Unfinished
  <2>3. /\ orders'[o].asset = orders[o].asset /\ orders'[o].status = orders[o].status
        /\ orders'[o].assignee = orders[o].assignee
    BY <1>2, <2>2 DEF OrderRow
  <2>4. orders'[o] # Null
    <3>1. PatchedOrder(orders[o], r) \in OrderRow
      BY <1>2, <2>1, <2>2, PatchedOrderType
    <3>2. \A new, old : Patched(new, old) = Atomic!Merge(new, old)
      BY DEF Patched, Atomic!Merge
    <3>3. PatchedOrder(orders[o], r) = orders'[o]
      BY <2>2, <3>2 DEF PatchedOrder, meta
    <3> QED
      BY <1>1, <3>1, <3>3
  <2> QED
    BY <2>1, <2>2, <2>3, <2>4 DEF Atomic!Unfinished, Edges
<1>5. CASE Atomic!AssignOrder(r)
  <2>1. /\ orders' = [orders EXCEPT ![r.id].status = "ASSIGNED", ![r.id].assignee = r.target]
        /\ r.id \in Atomic!Unfinished /\ UNCHANGED <<users, assets>> /\ r.op = "AssignOrder"
        /\ orders[r.id].status # "IN_PROGRESS"
        /\ users[r.target] # Null /\ users[r.target].active
        /\ users[r.target].role = "TECHNICIAN"
    BY <1>5 DEF Atomic!AssignOrder
  <2>2. o = r.id /\ r.target \in Users /\ orders[o] # Null /\ orders[o] \in OrderRow
        /\ orders[o].status \in {"OPEN", "ASSIGNED"}
    BY <1>1, <2>1, RequestShape DEF Atomic!Unfinished
  <2>3. orders'[o] \in OrderRow /\ orders'[o].status = "ASSIGNED" /\ orders'[o].assignee = r.target
        /\ orders'[o].asset = orders[o].asset
    BY <1>1, <2>1, <2>2 DEF OrderRow, OrderStatuses
  <2> QED
    BY <1>1, <2>1, <2>2, <2>3 DEF Atomic!Unfinished, Edges
<1>6. CASE Atomic!StatusOrder(r)
  <2>1. /\ orders' = [orders EXCEPT ![r.id].status = r.target]
        /\ r.id \in Atomic!Unfinished /\ UNCHANGED <<users, assets>> /\ r.op = "StatusOrder"
        /\ \/ r.target = "CANCELLED"
           \/ <<orders[r.id].status, r.target>> \in
                {<<"ASSIGNED", "IN_PROGRESS">>, <<"IN_PROGRESS", "COMPLETED">>}
    BY <1>6 DEF Atomic!StatusOrder
  <2>2. o = r.id /\ orders[o] # Null /\ orders[o] \in OrderRow /\ r.target \in OrderStatuses
        /\ orders[o].status \in {"OPEN", "ASSIGNED", "IN_PROGRESS"}
    BY <1>1, <2>1, RequestShape DEF Atomic!Unfinished
  <2>3. orders'[o] \in OrderRow /\ orders'[o].status = r.target
        /\ orders'[o].assignee = orders[o].assignee /\ orders'[o].asset = orders[o].asset
    BY <1>1, <2>1, <2>2 DEF OrderRow
  <2> QED
    BY <1>1, <2>1, <2>2, <2>3 DEF Edges
<1> QED
  BY <1>3, <1>4, <1>5, <1>6
  DEF Atomic!Do, Atomic!CreateUser, Atomic!Bootstrap, Atomic!PatchUser, Atomic!AddUser,
      Atomic!CreateAsset, Atomic!PatchAsset, Atomic!DeleteAsset

LEMMA StepDoes ==
  ASSUME Sound, Asked, [Next]_vars
  PROVE  \/ UNCHANGED <<users, assets, orders>>
         \/ \E r \in AllRequests : Atomic!Do(r)
<1>1. [Atomic!Next]_(Atomic!vars)
  BY StepRefines
<1> QED
  BY <1>1, RequestsAssumption DEF Atomic!Next, Atomic!vars

LEMMA StepAssignee ==
  ASSUME Sound, Asked, ActiveAssignee, [Next]_vars
  PROVE  ActiveAssignee'
<1>1. Typed
  BY DEF Sound, Inv
<1>2. CASE UNCHANGED <<users, assets, orders>>
  BY <1>2 DEF ActiveAssignee
<1>3. ASSUME NEW r \in AllRequests, Atomic!Do(r),
             NEW o \in Orders, orders'[o] # Null, orders'[o].status \in {"ASSIGNED", "IN_PROGRESS"}
      PROVE  /\ orders'[o].assignee \in Users /\ users'[orders'[o].assignee] # Null
             /\ users'[orders'[o].assignee].active
             /\ users'[orders'[o].assignee].role = "TECHNICIAN"
  <2>1. CASE orders'[o] = orders[o]
    <3> DEFINE u == orders[o].assignee
    <3>1. u \in Users /\ users[u] # Null /\ users[u].active /\ users[u].role = "TECHNICIAN"
      BY <1>3, <2>1 DEF ActiveAssignee
    <3>2. users'[u] # Null /\ users'[u].role = users[u].role
      BY <1>1, <1>3, <3>1, AtomicUsers
    <3>3. CASE ~users'[u].active
      <4>1. Atomic!MayDeactivate(r.actor, u) /\ users[u].active \in BOOLEAN
        BY <1>1, <1>3, <3>1, <3>3, AtomicUsers
      <4> QED
        BY <1>3, <2>1, <4>1 DEF Atomic!MayDeactivate
    <3> QED
      BY <2>1, <3>1, <3>2, <3>3
  <2>2. CASE orders'[o] # orders[o] /\ orders[o] # Null
    <3>1. UNCHANGED users
      BY <1>1, <1>3, <2>2, AtomicOrders
    <3>2. CASE /\ orders'[o].assignee = orders[o].assignee
               /\ orders'[o].status = "ASSIGNED" => orders[o].status = "ASSIGNED"
      <4>1. orders[o].status \in {"ASSIGNED", "IN_PROGRESS"}
        <5>1. <<orders[o].status, orders'[o].status>> \in Edges
          BY <1>1, <1>3, <2>2, AtomicOrders
        <5> QED
          BY <1>3, <3>2, <5>1 DEF Edges
      <4> QED
        BY <2>2, <3>1, <3>2, <4>1 DEF ActiveAssignee
    <3> QED
      BY <1>1, <1>3, <2>2, <3>1, <3>2, AtomicOrders
  <2>3. CASE orders'[o] # orders[o] /\ orders[o] = Null
    BY <1>1, <1>3, <2>3, AtomicOrders
  <2> QED
    BY <2>1, <2>2, <2>3
<1> QED
  BY <1>2, <1>3, StepDoes DEF ActiveAssignee

\* An order that is assigned or in progress belongs to an active technician, if it did when
\* the program started: an assignment and a deactivation that overlap never both succeed
\* (workorders.Assign against users.Patch).
THEOREM AssigneesStayActive == Spec /\ ActiveAssignee => []ActiveAssignee
<1>1. Sound /\ Asked /\ ActiveAssignee /\ [Next]_vars => ActiveAssignee'
  BY StepAssignee
<1> QED
  BY <1>1, SoundAlways, AskedAlways, PTL DEF Spec

LEMMA StepInService ==
  ASSUME Sound, Asked, AssetInService, [Next]_vars
  PROVE  AssetInService'
<1>1. Typed
  BY DEF Sound, Inv
<1>2. CASE UNCHANGED <<users, assets, orders>>
  BY <1>2 DEF AssetInService
<1>3. ASSUME NEW r \in AllRequests, Atomic!Do(r), NEW o \in Orders, orders'[o] # Null,
             orders'[o].status \in {"OPEN", "ASSIGNED", "IN_PROGRESS"}
      PROVE  /\ assets'[orders'[o].asset] \notin {Null, Gone}
             /\ assets'[orders'[o].asset].status \in {"ACTIVE", "MAINTENANCE"}
  <2>1. CASE orders'[o] = orders[o]
    <3>1. o \in Atomic!Unfinished /\ orders[o] \in OrderRow
      BY <1>1, <1>3, <2>1 DEF Atomic!Unfinished, Typed, TypeOK
    <3>2. PICK a \in Assets : /\ a = orders[o].asset /\ Atomic!Present(a)
                              /\ assets[a].status \in {"ACTIVE", "MAINTENANCE"}
      BY <1>3, <2>1, <3>1 DEF AssetInService, Atomic!Present, OrderRow
    <3>3. Atomic!Present(a)' /\ assets'[a].status \in {"ACTIVE", "MAINTENANCE"}
      BY <1>1, <1>3, <3>1, <3>2, AtomicAssets
    <3> QED
      BY <2>1, <3>2, <3>3 DEF Atomic!Present
  <2>2. CASE orders'[o] # orders[o] /\ orders[o] # Null
    <3>1. /\ UNCHANGED assets /\ o \in Atomic!Unfinished
          /\ orders'[o].asset = orders[o].asset
      BY <1>1, <1>3, <2>2, AtomicOrders
    <3> QED
      BY <3>1 DEF AssetInService, Atomic!Unfinished
  <2>3. CASE orders'[o] # orders[o] /\ orders[o] = Null
    BY <1>1, <1>3, <2>3, AtomicOrders DEF Atomic!Present
  <2> QED
    BY <2>1, <2>2, <2>3
<1> QED
  BY <1>2, <1>3, StepDoes DEF AssetInService

\* An order that is not finished is about an asset in service, if it was when the program
\* started: a creation and a retirement or deletion that overlap never both succeed
\* (workorders.Create against assets.Patch and assets.Delete).
THEOREM AssetsStayInService == Spec /\ AssetInService => []AssetInService
<1>1. Sound /\ Asked /\ AssetInService /\ [Next]_vars => AssetInService'
  BY StepInService
<1> QED
  BY <1>1, SoundAlways, AskedAlways, PTL DEF Spec

LEMMA StepAdministrator ==
  ASSUME Sound, Asked, HasActiveAdmin, [Next]_vars
  PROVE  HasActiveAdmin'
<1>1. Typed
  BY DEF Sound, Inv
<1>2. PICK u \in Users : users[u] # Null /\ users[u].active /\ users[u].role = "ADMIN"
  BY DEF HasActiveAdmin
<1>3. CASE UNCHANGED <<users, assets, orders>>
  BY <1>2, <1>3 DEF HasActiveAdmin
<1>4. ASSUME NEW r \in AllRequests, Atomic!Do(r)
      PROVE  HasActiveAdmin'
  <2>1. users'[u] # Null /\ users'[u].role = users[u].role
    BY <1>1, <1>2, <1>4, AtomicUsers
  <2>2. CASE users'[u].active
    BY <1>2, <2>1, <2>2 DEF HasActiveAdmin
  <2>3. CASE ~users'[u].active
    <3>1. Atomic!MayDeactivate(r.actor, u) /\ \A v \in Users \ {u} : users'[v] = users[v]
      BY <1>1, <1>2, <1>4, <2>3, AtomicUsers
    <3> QED
      BY <3>1 DEF Atomic!MayDeactivate, HasActiveAdmin
  <2> QED
    BY <2>2, <2>3
<1> QED
  BY <1>3, <1>4, StepDoes

\* Once there is an active administrator there always is one, however many of them
\* deactivate each other at once (GuardDeactivation under the administration lock).
THEOREM AdministratorStays == Spec => AdministratorRemains
<1>1. Sound /\ Asked /\ [Next]_vars => [HasActiveAdmin => HasActiveAdmin']_vars
  BY StepAdministrator
<1> QED
  BY <1>1, SoundAlways, AskedAlways, PTL DEF Spec, AdministratorRemains

\* The lifecycle over whole commits: a finished order never changes, the status moves along
\* the documented edges, and the assignee changes by assignment only, before the work starts
\* (Transition and Assign on the row that mutate has locked).
THEOREM OrdersMove == Spec => OrdersMoveForward
<1>1. ASSUME Sound, Asked, [Next]_vars,
             NEW o \in Orders, orders[o] # Null, orders'[o] # orders[o]
      PROVE  /\ orders[o].status \notin {"COMPLETED", "CANCELLED"}
             /\ <<orders[o].status, orders'[o].status>> \in Edges
             /\ orders'[o].assignee # orders[o].assignee => orders'[o].status = "ASSIGNED"
  <2>1. PICK r \in AllRequests : Atomic!Do(r)
    BY <1>1, StepDoes
  <2> QED
    BY <1>1, <2>1, AtomicOrders DEF Sound, Inv, Atomic!Unfinished
<1>2. Sound /\ Asked /\ [Next]_vars =>
        [\A o \in Orders :
           orders[o] # Null /\ orders'[o] # orders[o] =>
             /\ orders[o].status \notin {"COMPLETED", "CANCELLED"}
             /\ <<orders[o].status, orders'[o].status>> \in
                  {<<"OPEN", "OPEN">>, <<"OPEN", "ASSIGNED">>, <<"OPEN", "CANCELLED">>,
                   <<"ASSIGNED", "ASSIGNED">>, <<"ASSIGNED", "IN_PROGRESS">>,
                   <<"ASSIGNED", "CANCELLED">>, <<"IN_PROGRESS", "IN_PROGRESS">>,
                   <<"IN_PROGRESS", "COMPLETED">>, <<"IN_PROGRESS", "CANCELLED">>}
             /\ orders'[o].assignee # orders[o].assignee => orders'[o].status = "ASSIGNED"]_vars
  BY <1>1 DEF Edges
<1> QED
  BY <1>2, SoundAlways, AskedAlways, PTL DEF Spec, OrdersMoveForward

-----------------------------------------------------------------------------
(***************************************************************************)
(* What a transaction records and answers: its audit rows are complete and *)
(* name what it changes, and a guard that another one makes needless never *)
(* decides.  Two more conjuncts of the inductive invariant say it.         *)
(* Recorded: what the audit rows of a write are, and how many of them it   *)
(* has inserted.  Counted: what a deactivation has found before its guard. *)
(***************************************************************************)
Names(s) ==
  Writing(s) =>
    /\ acts[s] # <<>>
    /\ req[s].op = "PatchOrder" =>
         acts[s] = <<"WORK_ORDER_UPDATED">> /\ next[s] # row[s]
    /\ req[s].op = "StatusOrder" => acts[s] = <<"WORK_ORDER_STATUS_CHANGED">>
    /\ req[s].op = "AssignOrder" => acts[s] = AssignActions(row[s].status)

Recorded(s) ==
  /\ Names(s)
  /\ next[s] = Null => acts[s] = <<>>
  /\ pc[s] = "InsertAudit" => logged[s] < Len(acts[s])
  /\ pc[s] \in {"Commit", "Limbo"} => logged[s] = Len(acts[s])

Counted(s) ==
  /\ pc[s] = "CountActiveAdmins" => row[s].active
  /\ pc[s] = "UserHasActiveOrders" /\ row[s].role = "ADMIN" /\ req[s].actor # req[s].id =>
       seen[s] > 1

AllRecorded == \A s \in Sessions : Recorded(s)
AllCounted == \A s \in Sessions : Counted(s)

-----------------------------------------------------------------------------
(***************************************************************************)
(* The steps of a transaction, by what they do to its records.             *)
(***************************************************************************)
\* The steps of s leave the records of the others alone.
Apart(s) ==
  \A t \in Sessions \ {s} : acts'[t] = acts[t] /\ logged'[t] = logged[t] /\ seen'[t] = seen[t]

\* Nothing is written yet, and nothing is now.
Looks(s) ==
  /\ UNCHANGED <<acts, logged>> /\ next[s] = Null /\ next'[s] = Null /\ logged[s] = 0
  /\ pc'[s] \notin {"InsertAudit", "Limbo"}

\* The one write of the transaction.
Writes(s) ==
  /\ logged[s] = 0 /\ pc'[s] = "InsertAudit" /\ UNCHANGED <<logged, seen>>
  /\ \E actions \in Seq(Actions) :
       actions # <<>> /\ acts' = [acts EXCEPT ![s] = actions]
  /\ Names(s)'

\* The end of the transaction.
Clears(s) ==
  /\ pc'[s] = "idle" /\ next'[s] = Null /\ acts' = [acts EXCEPT ![s] = <<>>]
  /\ logged' = [logged EXCEPT ![s] = 0] /\ seen' = [seen EXCEPT ![s] = 0]

Records(s) == (Looks(s) /\ Apart(s)) \/ Writes(s) \/ InsertAudit(s) \/ CommitLost(s) \/ Clears(s)

LEMMA EndClears ==
  ASSUME Typed, NEW s \in Sessions, NEW answer, End(s, answer)
  PROVE  Clears(s)
BY DEF End, Clears, Typed, TypeOK

LEMMA RollbackClears ==
  ASSUME Typed, NEW s \in Sessions, NEW answer, Rollback(s, answer)
  PROVE  Clears(s)
BY EndClears DEF Rollback

LEMMA NothingLogged ==
  ASSUME Typed, NEW s \in Sessions, pc[s] \notin Closing
  PROVE  next[s] = Null /\ logged[s] = 0
<1>1. Phase(s) /\ pc[s] \in Statements
  BY DEF Typed, TypeOK, PhaseOK
<1> QED
  BY <1>1 DEF Phase, Opening, Closing

LEMMA ProceedLooks ==
  ASSUME Typed, NEW s \in Sessions, pc[s] \notin Closing,
         NEW statement, statement \notin {"InsertAudit", "Limbo"}, Proceed(s, statement)
  PROVE  Looks(s) /\ Apart(s)
BY NothingLogged DEF Proceed, Goto, Looks, Apart, Typed, TypeOK

LEMMA HoldLooks ==
  ASSUME Typed, NEW s \in Sessions, pc[s] \notin Closing, NEW k, NEW r,
         NEW statement, statement \notin {"InsertAudit", "Limbo"}, Hold(s, k, r, statement)
  PROVE  Looks(s) /\ Apart(s)
BY NothingLogged DEF Hold, Goto, Looks, Apart, Typed, TypeOK

LEMMA WriteRecords ==
  ASSUME Typed, NEW s \in Sessions, pc[s] \notin Closing, NEW k, NEW r,
         NEW actions \in Seq(Actions), actions # <<>>, Write(s, k, r, actions),
         req[s].op = "PatchOrder" => actions = <<"WORK_ORDER_UPDATED">> /\ r # row[s],
         req[s].op = "StatusOrder" => actions = <<"WORK_ORDER_STATUS_CHANGED">>,
         req[s].op = "AssignOrder" => actions = AssignActions(row[s].status)
  PROVE  Writes(s)
<1>1. /\ acts' = [acts EXCEPT ![s] = actions] /\ UNCHANGED <<logged, seen>>
      /\ req'[s] = req[s] /\ row'[s] = row[s] /\ next'[s] = r /\ pc'[s] = "InsertAudit"
  BY DEF Write, Goto, Typed, TypeOK
<1>2. acts'[s] = actions
  BY <1>1 DEF Typed, TypeOK
<1>3. Names(s)'
  BY <1>1, <1>2 DEF Names
<1> QED
  BY <1>1, <1>3, NothingLogged DEF Writes

-----------------------------------------------------------------------------
LEMMA EntryRecords ==
  ASSUME Typed, NEW s \in Sessions, Receive(s) \/ ShareUser(s) \/ CheckActor(s)
  PROVE  Records(s)
<1>1. pc[s] \notin Closing
  BY DEF Receive, ShareUser, CheckActor, At, Closing
<1>2. CASE Receive(s)
  <2>1. PICK r \in Requests : Accept(s, r) \/ Refuse(s, r)
    BY <1>2 DEF Receive
  <2>2. Looks(s) /\ Apart(s)
    BY <1>1, <1>2, <2>1, NothingLogged
    DEF Receive, At, Accept, Refuse, Goto, FirstStatement, Looks, Apart, Typed, TypeOK
  <2> QED
    BY <2>2 DEF Records
<1>3. CASE ShareUser(s)
  <2>1. Looks(s) /\ Apart(s)
    BY <1>1, <1>3, NothingLogged DEF ShareUser, At, Goto, Looks, Apart, Typed, TypeOK
  <2> QED
    BY <2>1 DEF Records
<1>4. CASE CheckActor(s)
  <2>1. AfterCheck(req[s].op) \notin {"InsertAudit", "Limbo"}
    <3>1. pc[s] = "Check" /\ req[s].op \in Ops \ {"Bootstrap"}
      BY <1>4, InService DEF CheckActor, At, Serving
    <3> QED
      BY <3>1 DEF Ops, UserOps, AssetOps, MutateOps, AfterCheck
  <2>2. Proceed(s, AfterCheck(req[s].op)) \/ \E answer : Rollback(s, answer)
    BY <1>4 DEF CheckActor, Proceed
  <2> QED
    BY <1>1, <2>1, <2>2, ProceedLooks, RollbackClears DEF Records
<1> QED
  BY <1>2, <1>3, <1>4

LEMMA UserRecords ==
  ASSUME Typed, NEW s \in Sessions, UserStep(s)
  PROVE  Records(s)
<1>1. pc[s] \notin Closing /\ pc[s] # "idle"
  BY DEF UserStep, LockUserAdministration, HasAdministrator, InsertUser, LockUser,
         CountActiveAdmins, UserHasActiveOrders, UpdateUser, At, Closing
<1>2. req[s].op \in UserOps
  BY <1>1, InService DEF UserStep, LockUserAdministration, HasAdministrator, InsertUser,
         LockUser, CountActiveAdmins, UserHasActiveOrders, UpdateUser, At, Serving, UserOps
<1>3. ASSUME NEW k, NEW r, NEW action \in Actions, Write(s, k, r, <<action>>)
      PROVE  Records(s)
  <2>1. <<action>> \in Seq(Actions) /\ <<action>> # <<>>
    OBVIOUS
  <2> QED
    BY <1>1, <1>2, <1>3, <2>1, WriteRecords DEF UserOps, Records
<1>4. CASE LockUserAdministration(s) \/ CountActiveAdmins(s)
  <2>1. Looks(s) /\ Apart(s)
    BY <1>1, <1>4, NothingLogged
    DEF LockUserAdministration, CountActiveAdmins, Goto, Looks, Apart, Typed, TypeOK
  <2> QED
    BY <2>1 DEF Records
<1>5. CASE HasAdministrator(s) \/ UserHasActiveOrders(s)
  BY <1>1, <1>5, ProceedLooks, RollbackClears DEF HasAdministrator, UserHasActiveOrders, Records
<1>6. CASE InsertUser(s)
  <2>1. \/ Rollback(s, "EMAIL_CONFLICT")
        \/ \E u \in Fresh(users), action \in {"USER_BOOTSTRAPPED", "USER_CREATED"} :
             Write(s, u, NewUser(req[s]), <<action>>)
    BY <1>6 DEF InsertUser
  <2> QED
    BY <2>1, <1>3, RollbackClears DEF Actions, Records
<1>7. CASE LockUser(s)
  <2>1. \/ Rollback(s, "USER_NOT_FOUND")
        \/ \E statement \in {"CountActiveAdmins", "Commit", "UpdateUser"} :
             Hold(s, req[s].id, users[req[s].id], statement)
    <3> DEFINE old == users[req[s].id]
               new == PatchedUser(old, req[s])
               statement == CASE Deactivates(new, old)      -> "CountActiveAdmins"
                              [] SameUser(new, old, req[s]) -> "Commit"
                              [] OTHER                      -> "UpdateUser"
    <3>1. statement \in {"CountActiveAdmins", "Commit", "UpdateUser"}
      OBVIOUS
    <3>2. Rollback(s, "USER_NOT_FOUND") \/ Hold(s, req[s].id, old, statement)
      BY <1>7 DEF LockUser
    <3> HIDE DEF statement
    <3> QED
      BY <3>1, <3>2
  <2> QED
    BY <1>1, <2>1, HoldLooks, RollbackClears DEF Records
<1>8. CASE UpdateUser(s)
  BY <1>3, <1>8, RollbackClears DEF UpdateUser, Actions, Records
<1> QED
  BY <1>4, <1>5, <1>6, <1>7, <1>8 DEF UserStep

LEMMA AssetRecords ==
  ASSUME Typed, NEW s \in Sessions, AssetStep(s)
  PROVE  Records(s)
<1>1. pc[s] \notin Closing /\ pc[s] # "idle"
  BY DEF AssetStep, InsertAsset, LockAsset, PatchAsset, AssetHasOpenOrders, AssetHasOrders,
         DeleteAsset, At, Closing
<1>2. req[s].op \in AssetOps
  BY <1>1, InService DEF AssetStep, InsertAsset, LockAsset, PatchAsset, AssetHasOpenOrders,
         AssetHasOrders, DeleteAsset, At, Serving, AssetOps
<1>3. ASSUME NEW k, NEW r, NEW action \in Actions, Write(s, k, r, <<action>>)
      PROVE  Records(s)
  <2>1. <<action>> \in Seq(Actions) /\ <<action>> # <<>>
    OBVIOUS
  <2> QED
    BY <1>1, <1>2, <1>3, <2>1, WriteRecords DEF AssetOps, Records
<1>4. CASE InsertAsset(s)
  BY <1>3, <1>4, RollbackClears DEF InsertAsset, Actions, Records
<1>5. CASE LockAsset(s)
  <2>1. \/ Rollback(s, "ASSET_NOT_FOUND")
        \/ \E statement \in {"AssetHasOrders", "PatchAsset"} :
             Hold(s, req[s].id, assets[req[s].id], statement)
    BY <1>5 DEF LockAsset
  <2> QED
    BY <1>1, <2>1, HoldLooks, RollbackClears DEF Records
<1>6. CASE PatchAsset(s)
  BY <1>1, <1>3, <1>6, ProceedLooks DEF PatchAsset, WriteAsset, Actions, Records
<1>7. CASE AssetHasOpenOrders(s)
  BY <1>3, <1>7, RollbackClears DEF AssetHasOpenOrders, WriteAsset, Actions, Records
<1>8. CASE AssetHasOrders(s)
  BY <1>1, <1>8, ProceedLooks, RollbackClears DEF AssetHasOrders, Records
<1>9. CASE DeleteAsset(s)
  BY <1>3, <1>9, RollbackClears DEF DeleteAsset, Actions, Records
<1> QED
  BY <1>4, <1>5, <1>6, <1>7, <1>8, <1>9 DEF AssetStep

LEMMA WorkOrderRecords ==
  ASSUME Typed, NEW s \in Sessions, WorkOrderStep(s)
  PROVE  Records(s)
<1>1. pc[s] \notin Closing /\ pc[s] # "idle"
  BY DEF WorkOrderStep, ShareAsset, InsertWorkOrder, LockWorkOrder, Change, ShareTarget, At,
         Closing
<1>2. CASE ShareAsset(s)
  <2>1. CASE Goto(s, "InsertWorkOrder")
               /\ UNCHANGED <<tables, req, key, wait, row, next, acts, logged, seen, reply>>
    <3>1. Looks(s) /\ Apart(s)
      BY <1>1, <2>1, NothingLogged DEF Goto, Looks, Apart, Typed, TypeOK
    <3> QED
      BY <3>1 DEF Records
  <2> QED
    BY <1>2, <2>1, RollbackClears DEF ShareAsset, Records
<1>3. CASE InsertWorkOrder(s)
  <2>1. req[s].op = "CreateOrder"
    BY <1>3, InService DEF InsertWorkOrder, At, Serving
  <2>2. PICK o \in Fresh(orders) : Write(s, o, NewOrder(req[s]), <<"WORK_ORDER_CREATED">>)
    BY <1>3 DEF InsertWorkOrder
  <2>3. <<"WORK_ORDER_CREATED">> \in Seq(Actions) /\ <<"WORK_ORDER_CREATED">> # <<>>
    BY DEF Actions
  <2> QED
    BY <1>1, <2>1, <2>2, <2>3, WriteRecords DEF Records
<1>4. CASE LockWorkOrder(s)
  BY <1>1, <1>4, HoldLooks, RollbackClears DEF LockWorkOrder, Records
<1>5. CASE Change(s)
  <2>1. CASE ChangePatch(s)
    <3>1. <<"WORK_ORDER_UPDATED">> \in Seq(Actions) /\ <<"WORK_ORDER_UPDATED">> # <<>>
      BY DEF Actions
    <3> QED
      BY <1>1, <2>1, <3>1, ProceedLooks, WriteRecords DEF ChangePatch, Records
  <2>2. CASE ChangeStatus(s)
    <3>1. /\ <<"WORK_ORDER_STATUS_CHANGED">> \in Seq(Actions)
          /\ <<"WORK_ORDER_STATUS_CHANGED">> # <<>>
      BY DEF Actions
    <3>2. \/ \E answer : Rollback(s, answer)
          \/ Write(s, key[s], MovedOrder(row[s], req[s].target),
                   <<"WORK_ORDER_STATUS_CHANGED">>)
      BY <2>2 DEF ChangeStatus
    <3> QED
      BY <1>1, <2>2, <3>1, <3>2, RollbackClears, WriteRecords DEF ChangeStatus, Records
  <2>3. CASE ChangeAssign(s)
    BY <1>1, <2>3, ProceedLooks, RollbackClears DEF ChangeAssign, Records
  <2> QED
    BY <1>5, <2>1, <2>2, <2>3, RollbackClears DEF Change, Records
<1>6. CASE ShareTarget(s)
  <2>1. req[s].op = "AssignOrder"
    BY <1>6, InService DEF ShareTarget, At, Serving
  <2>2. AssignActions(row[s].status) \in Seq(Actions) /\ AssignActions(row[s].status) # <<>>
    <3>1. /\ <<"WORK_ORDER_ASSIGNED">> \in Seq(Actions) /\ <<"WORK_ORDER_ASSIGNED">> # <<>>
          /\ <<"WORK_ORDER_ASSIGNED", "WORK_ORDER_STATUS_CHANGED">> \in Seq(Actions)
          /\ <<"WORK_ORDER_ASSIGNED", "WORK_ORDER_STATUS_CHANGED">> # <<>>
      BY DEF Actions
    <3> QED
      BY <3>1 DEF AssignActions
  <2>3. \/ Rollback(s, "INVALID_ASSIGNEE")
        \/ Write(s, key[s], AssignedOrder(row[s], req[s].target), AssignActions(row[s].status))
    BY <1>6 DEF ShareTarget
  <2> QED
    BY <1>1, <2>1, <2>2, <2>3, RollbackClears, WriteRecords DEF Records
<1> QED
  BY <1>2, <1>3, <1>4, <1>5, <1>6 DEF WorkOrderStep

LEMMA StepRecords ==
  ASSUME Typed, NEW s \in Sessions, Receive(s) \/ Step(s) \/ CommitLost(s) \/ Abort(s)
  PROVE  Records(s)
<1>1. CASE InsertAudit(s) \/ CommitLost(s)
  BY <1>1 DEF Records
<1>2. CASE Commit(s) \/ Resolve(s) \/ Abort(s)
  BY <1>2, EndClears DEF Commit, Resolve, Abort, Rollback, Records
<1> QED
  BY <1>1, <1>2, EntryRecords, UserRecords, AssetRecords, WorkOrderRecords DEF Step

-----------------------------------------------------------------------------
(***************************************************************************)
(* The audit rows.                                                         *)
(***************************************************************************)
\* A step of one session leaves the state and the records of the others alone.
LEMMA StepApart ==
  ASSUME Sound, NEW s \in Sessions, Receive(s) \/ Step(s) \/ CommitLost(s) \/ Abort(s)
  PROVE  Local(s) /\ Apart(s)
<1>1. Typed /\ AllGuarded
  BY DEF Sound, Inv
<1>2. Local(s)
  BY <1>1, StepMoves DEF Prepares, Advances, Leaves
<1>3. Apart(s)
  <2>1. CASE Writes(s)
    BY <1>1, <2>1 DEF Writes, Apart, Typed, TypeOK
  <2>2. CASE InsertAudit(s)
    BY <1>1, <2>2 DEF InsertAudit, Apart, Typed, TypeOK
  <2>3. CASE CommitLost(s)
    BY <2>3 DEF CommitLost, Apart
  <2>4. CASE Clears(s)
    BY <1>1, <2>4 DEF Clears, Apart, Typed, TypeOK
  <2> QED
    BY <1>1, <2>1, <2>2, <2>3, <2>4, StepRecords DEF Records
<1> QED
  BY <1>2, <1>3

LEMMA OthersRecorded ==
  ASSUME AllRecorded, AllCounted, NEW s \in Sessions, Local(s), Apart(s),
         NEW t \in Sessions \ {s}
  PROVE  Recorded(t)' /\ Counted(t)'
BY DEF AllRecorded, AllCounted, Local, Apart, Recorded, Counted, Names, Writing

LEMMA OwnRecorded ==
  ASSUME Typed, Typed', AllRecorded, NEW s \in Sessions, Records(s)
  PROVE  Recorded(s)'
<1>1. Recorded(s) /\ logged[s] \in Nat /\ acts[s] \in Seq(Actions)
  BY DEF AllRecorded, Typed, TypeOK
<1>2. CASE Looks(s)
  <2>1. acts[s] = <<>> /\ Len(<<>>) = 0
    BY <1>1, <1>2 DEF Looks, Recorded
  <2> QED
    BY <1>2, <2>1 DEF Looks, Recorded, Names, Writing
<1>3. CASE Writes(s)
  <2>1. PICK actions \in Seq(Actions) :
          actions # <<>> /\ acts' = [acts EXCEPT ![s] = actions]
    BY <1>3 DEF Writes
  <2>2. acts'[s] = actions /\ logged'[s] = 0 /\ Len(actions) > 0
    BY <1>3, <2>1 DEF Writes, Typed, TypeOK
  <2>3. next'[s] # Null
    BY <1>3 DEF Writes, Typed, PhaseOK, Phase
  <2> QED
    BY <1>3, <2>2, <2>3 DEF Writes, Recorded
<1>4. CASE InsertAudit(s)
  <2>1. /\ logged'[s] = logged[s] + 1 /\ logged[s] < Len(acts[s])
        /\ UNCHANGED <<req, row, next, acts>>
        /\ pc'[s] = IF logged[s] + 1 < Len(acts[s]) THEN "InsertAudit" ELSE "Commit"
    BY <1>1, <1>4 DEF InsertAudit, AuditsToInsert, At, Goto, Recorded, Typed, TypeOK
  <2> QED
    BY <1>1, <2>1 DEF Recorded, Names, Writing
<1>5. CASE CommitLost(s)
  BY <1>1, <1>5 DEF CommitLost, At, Goto, Recorded, Names, Writing, Typed, TypeOK
<1>6. CASE Clears(s)
  BY <1>6 DEF Clears, Recorded, Names, Writing, Typed, TypeOK
<1> QED
  BY <1>2, <1>3, <1>4, <1>5, <1>6 DEF Records

-----------------------------------------------------------------------------
(***************************************************************************)
(* The guard of deactivations.                                             *)
(***************************************************************************)
Counting == {"CountActiveAdmins", "UserHasActiveOrders"}

\* Two administrators are two.
LEMMA TwoAdmins ==
  ASSUME NEW u \in ActiveAdmins, NEW v \in ActiveAdmins, u # v
  PROVE  Cardinality(ActiveAdmins) > 1
<1>1. IsFiniteSet(ActiveAdmins) /\ {u, v} \subseteq ActiveAdmins
  BY IdsAssumption, FS_Subset DEF ActiveAdmins
<1>2. Cardinality({u}) = 1 /\ IsFiniteSet({u})
  BY FS_Singleton
<1>3. Cardinality({u} \cup {v}) = 2
  BY <1>2, FS_AddElement
<1>4. {u} \cup {v} = {u, v}
  OBVIOUS
<1>5. Cardinality({u, v}) <= Cardinality(ActiveAdmins)
  BY <1>1, FS_Subset
<1>6. Cardinality(ActiveAdmins) \in Nat
  BY <1>1, FS_CardinalityType
<1> QED
  BY <1>3, <1>4, <1>5, <1>6

\* A deactivation counts its caller, and its target when that is another administrator.
LEMMA CountCounted ==
  ASSUME Sound, AllCounted, NEW s \in Sessions, CountActiveAdmins(s)
  PROVE  Counted(s)'
<1>1. pc[s] = "CountActiveAdmins" /\ Typed /\ Inv /\ Counted(s) /\ Guarded(s)
  BY DEF CountActiveAdmins, At, Sound, Inv, AllCounted, AllGuarded
<1>2. /\ req[s] \in AllRequests /\ req[s].op = "PatchUser" /\ row[s] # Null
      /\ key[s] = req[s].id
  BY <1>1, InService DEF Serving, Holding
<1>3. /\ req[s].id \in Users /\ req[s].actor \in Users /\ req[s].actor # Null
  BY <1>2, RequestShape, IdsAssumption DEF Keys
<1>4. row[s] = users[req[s].id] /\ row[s].active
  BY <1>1, <1>2, <1>3, IdsAssumption DEF Inv, Locked, NoLostUpdate, Row, Counted
<1>5. /\ users[req[s].actor] # Null /\ users[req[s].actor].active
      /\ users[req[s].actor].role = "ADMIN"
  <2>1. users[req[s].actor] # Null
    BY <1>1, <1>3, InService DEF Guarded, Present, Typed, PhaseOK, Phase
  <2>2. /\ users[req[s].actor].active
        /\ "user:update" \in RolePermissions(users[req[s].actor].role)
    BY <1>1, <1>2, <1>3 DEF Guarded, Passed, Early, Permission
  <2>3. users[req[s].actor].role \in Roles
    BY <1>1, <1>3, <2>1 DEF Typed, TypeOK, UserRow
  <2> QED
    BY <2>1, <2>2, <2>3 DEF Roles, RolePermissions, SharedPermissions
<1>6. /\ pc'[s] = "UserHasActiveOrders" /\ seen'[s] = Cardinality(ActiveAdmins)
      /\ row' = row /\ req' = req
  BY <1>1 DEF CountActiveAdmins, Goto, Typed, TypeOK
<1>7. ASSUME row[s].role = "ADMIN", req[s].actor # req[s].id
      PROVE  Cardinality(ActiveAdmins) > 1
  <2>1. req[s].actor \in ActiveAdmins /\ req[s].id \in ActiveAdmins
    BY <1>2, <1>3, <1>4, <1>5, <1>7 DEF ActiveAdmins
  <2> QED
    BY <1>7, <2>1, TwoAdmins
<1> QED
  BY <1>6, <1>7 DEF Counted

LEMMA LockUserCounted ==
  ASSUME Typed, NEW s \in Sessions, LockUser(s)
  PROVE  Counted(s)'
<1> DEFINE old == users[req[s].id]
           new == PatchedUser(old, req[s])
           statement == CASE Deactivates(new, old)      -> "CountActiveAdmins"
                          [] SameUser(new, old, req[s]) -> "Commit"
                          [] OTHER                      -> "UpdateUser"
<1>1. CASE Rollback(s, "USER_NOT_FOUND")
  BY <1>1, RollbackClears DEF Clears, Counted
<1>2. CASE Hold(s, req[s].id, old, statement)
  <2>1. pc'[s] = statement /\ row'[s] = old
    BY <1>2 DEF Hold, Goto, Typed, TypeOK
  <2>2. statement = "CountActiveAdmins" => old.active
    BY DEF Deactivates
  <2>3. statement # "UserHasActiveOrders"
    OBVIOUS
  <2> HIDE DEF statement
  <2> QED
    BY <2>1, <2>2, <2>3 DEF Counted
<1> QED
  BY <1>1, <1>2 DEF LockUser

\* No other statement leads to the count.
LEMMA OwnCounted ==
  ASSUME Sound, AllCounted, NEW s \in Sessions,
         Receive(s) \/ Step(s) \/ CommitLost(s) \/ Abort(s)
  PROVE  Counted(s)'
<1>1. Typed
  BY DEF Sound, Inv
<1> SUFFICES ASSUME pc'[s] \in Counting
             PROVE  Counted(s)'
  BY DEF Counted, Counting
<1>2. ~(\E answer : End(s, answer))
  BY <1>1, EndClears DEF Clears, Counting
<1>3. ~Receive(s)
  <2>1. ASSUME Receive(s) PROVE pc'[s] \in {"idle", "ShareUser", "LockUserAdministration"}
    <3>1. PICK r \in Requests : Accept(s, r) \/ Refuse(s, r)
      BY <2>1 DEF Receive
    <3> QED
      BY <1>1, <2>1, <3>1 DEF Receive, At, Accept, Refuse, Goto, FirstStatement, Typed, TypeOK
  <2> QED
    BY <2>1 DEF Counting
<1>4. ~ShareUser(s) /\ ~InsertAudit(s) /\ ~CommitLost(s)
  BY <1>1 DEF ShareUser, InsertAudit, CommitLost, At, Goto, Counting, Typed, TypeOK
<1>5. ~CheckActor(s)
  <2>1. ASSUME CheckActor(s) PROVE FALSE
    <3>1. pc[s] = "Check" /\ req[s].op \in Ops \ {"Bootstrap"}
      BY <1>1, <2>1, InService DEF CheckActor, At, Serving
    <3>2. pc'[s] = AfterCheck(req[s].op)
      BY <1>1, <1>2, <2>1 DEF CheckActor, Rollback, Goto, Typed, TypeOK
    <3> QED
      BY <3>1, <3>2 DEF Ops, UserOps, AssetOps, MutateOps, AfterCheck, Counting
  <2> QED
    BY <2>1
<1>6. ~Commit(s) /\ ~Resolve(s) /\ ~Abort(s)
  BY <1>2 DEF Commit, Resolve, Abort, Rollback
<1>7. ~AssetStep(s)
  BY <1>1, <1>2
  DEF AssetStep, InsertAsset, LockAsset, PatchAsset, AssetHasOpenOrders, AssetHasOrders,
      DeleteAsset, WriteAsset, Write, Hold, Proceed, Rollback, Goto, Counting, Typed, TypeOK
<1>8. ~WorkOrderStep(s)
  BY <1>1, <1>2
  DEF WorkOrderStep, ShareAsset, InsertWorkOrder, LockWorkOrder, Change, ChangePatch,
      ChangeStatus, ChangeAssign, ShareTarget, Write, Hold, Proceed, Rollback, Goto, Counting,
      Typed, TypeOK
<1>9. ASSUME UserStep(s) PROVE LockUser(s) \/ CountActiveAdmins(s)
  BY <1>1, <1>2, <1>9
  DEF UserStep, LockUserAdministration, HasAdministrator, InsertUser, UserHasActiveOrders,
      UpdateUser, Write, Proceed, Rollback, Goto, Counting, Typed, TypeOK
<1> QED
  BY <1>1, <1>3, <1>4, <1>5, <1>6, <1>7, <1>8, <1>9, LockUserCounted, CountCounted DEF Step

-----------------------------------------------------------------------------
Careful == Sound /\ AllRecorded /\ AllCounted

LEMMA StepCareful ==
  ASSUME Careful, [Next]_vars
  PROVE  Careful'
<1>1. Sound /\ AllRecorded /\ AllCounted /\ Typed
  BY DEF Careful, Sound, Inv
<1>2. Sound' /\ Typed'
  BY <1>1, StepSound DEF Sound, Inv
<1>3. CASE Next
  <2>1. PICK s \in Sessions : Receive(s) \/ Step(s) \/ CommitLost(s) \/ Abort(s)
    BY <1>3 DEF Next
  <2>2. Recorded(s)' /\ Counted(s)'
    BY <1>1, <1>2, <2>1, StepRecords, OwnRecorded, OwnCounted
  <2>3. \A t \in Sessions \ {s} : Recorded(t)' /\ Counted(t)'
    BY <1>1, <2>1, StepApart, OthersRecorded
  <2> QED
    BY <1>2, <2>2, <2>3 DEF Careful, AllRecorded, AllCounted
<1>4. CASE UNCHANGED vars
  BY <1>1, <1>2, <1>4
  DEF vars, Careful, AllRecorded, AllCounted, Recorded, Counted, Names, Writing
<1> QED
  BY <1>3, <1>4

LEMMA CarefulAlways == Spec => []Careful
<1>1. Init => AllRecorded /\ AllCounted
  BY DEF Init, AllRecorded, AllCounted, Recorded, Counted, Names, Writing
<1>2. Sound /\ AllRecorded /\ AllCounted /\ [Next]_vars => AllRecorded' /\ AllCounted'
  BY StepCareful DEF Careful
<1> QED
  BY <1>1, <1>2, SoundAlways, PTL DEF Spec, Careful

-----------------------------------------------------------------------------
(***************************************************************************)
(* What the audit rows of a transaction are worth.                         *)
(***************************************************************************)
\* A transaction that reaches its commit has inserted every audit row of its write
\* (audit.Write, once per action, in the callback of InTx).
THEOREM AuditsComplete == Spec => []AuditComplete
<1>1. Careful => AuditComplete
  BY DEF Careful, AllRecorded, Recorded, AuditComplete
<1> QED
  BY <1>1, CarefulAlways, PTL

\* Whether an action is among the ones of a transaction.
Named(s, action) == \E i \in 1..Len(acts[s]) : acts[s][i] = action

LEMMA OneName ==
  ASSUME NEW s \in Sessions, NEW a, acts[s] = <<a>>, NEW action
  PROVE  Named(s, action) <=> action = a
BY DEF Named

LEMMA TwoNames ==
  ASSUME NEW s \in Sessions, NEW a, NEW b, acts[s] = <<a, b>>, NEW action
  PROVE  Named(s, action) <=> action = a \/ action = b
<1>1. Len(acts[s]) = 2 /\ 1..2 = {1, 2} /\ acts[s][1] = a /\ acts[s][2] = b
  OBVIOUS
<1> QED
  BY <1>1 DEF Named

\* A write of an existing order is one of the three mutations.
LEMMA MutatesOrder ==
  ASSUME Sound, NEW s \in Sessions, next[s] # Null, key[s] \in Orders, row[s] # Null
  PROVE  req[s].op \in MutateOps /\ row[s] \in OrderRow
<1>1. req[s] \in AllRequests /\ req[s].op \in Ops /\ Written(s)
  BY WriterInService
<1>2. RowFor(key[s], row[s])
  BY OldRow DEF Sound
<1>3. row[s] \in OrderRow
  BY <1>2, IdsAssumption DEF RowFor
<1>4. req[s].op \in MutateOps
  BY <1>1, RequestShape, IdsAssumption
  DEF Ops, UserOps, AssetOps, MutateOps, Written, Writing
<1> QED
  BY <1>3, <1>4

LEMMA ActionsNameChange ==
  ASSUME Careful, NEW s \in Sessions, next[s] # Null, key[s] \in Orders, row[s] # Null
  PROVE  /\ Named(s, "WORK_ORDER_STATUS_CHANGED") <=> next[s].status # row[s].status
         /\ Named(s, "WORK_ORDER_ASSIGNED") <=> next[s].assignee # row[s].assignee
         /\ Named(s, "WORK_ORDER_UPDATED") <=> next[s].meta # row[s].meta
<1>1. Sound /\ Recorded(s)
  BY DEF Careful, AllRecorded
<1>2. req[s].op \in MutateOps /\ row[s] \in OrderRow
  BY <1>1, MutatesOrder
<1>3. Names(s) /\ Written(s) /\ Startable(s) /\ Legal(s)
  BY <1>1, WriterInService DEF Recorded, Decided, Early
<1>4. CASE req[s].op = "PatchOrder"
  <2>1. acts[s] = <<"WORK_ORDER_UPDATED">> /\ next[s] # row[s]
    BY <1>3, <1>4 DEF Names, Writing
  <2>2. next[s] = PatchedOrder(row[s], req[s])
    BY <1>3, <1>4 DEF Written, Writing
  <2>3. next[s].status = row[s].status /\ next[s].assignee = row[s].assignee
    BY <1>2, <2>2 DEF PatchedOrder, OrderRow
  <2>4. next[s].meta # row[s].meta
    BY <1>2, <2>1, <2>2 DEF PatchedOrder, OrderRow
  <2> QED
    BY <2>1, <2>3, <2>4, OneName
<1>5. CASE req[s].op = "StatusOrder"
  <2>1. acts[s] = <<"WORK_ORDER_STATUS_CHANGED">>
    BY <1>3, <1>5 DEF Names, Writing
  <2>2. next[s] = MovedOrder(row[s], req[s].target)
    BY <1>3, <1>5 DEF Written, Writing
  <2>3. Transition(row[s].status, req[s].target) = Ok
    BY <1>3, <1>5 DEF Legal, Writing
  <2>4. row[s].status # req[s].target
    BY <2>3 DEF Transition, Terminal, Ok
  <2>5. /\ next[s].status # row[s].status /\ next[s].assignee = row[s].assignee
        /\ next[s].meta = row[s].meta
    BY <1>2, <2>2, <2>4 DEF MovedOrder, OrderRow
  <2> QED
    BY <2>1, <2>5, OneName
<1>6. CASE req[s].op = "AssignOrder"
  <2>1. acts[s] = AssignActions(row[s].status)
    BY <1>3, <1>6 DEF Names, Writing
  <2>2. next[s] = AssignedOrder(row[s], req[s].target)
    BY <1>3, <1>6 DEF Written, Writing
  <2>3. Assignable(row[s].status) /\ row[s].assignee # req[s].target
    BY <1>3, <1>6 DEF Startable, Writing
  <2>4. /\ next[s].assignee # row[s].assignee /\ next[s].meta = row[s].meta
        /\ next[s].status # row[s].status <=> row[s].status = "OPEN"
    BY <1>2, <2>2, <2>3 DEF AssignedOrder, OrderRow, Assignable
  <2>5. CASE row[s].status = "OPEN"
    BY <2>1, <2>4, <2>5, TwoNames DEF AssignActions
  <2>6. CASE row[s].status # "OPEN"
    BY <2>1, <2>4, <2>6, OneName DEF AssignActions
  <2> QED
    BY <2>5, <2>6
<1> QED
  BY <1>2, <1>4, <1>5, <1>6 DEF MutateOps

\* The audit actions of an order mutation name exactly what it changes: the status, the
\* assignee, the descriptive fields (the actions that Patch, Assign and Status give mutate).
THEOREM AuditsName == Spec => []AuditNamesChange
<1>1. Careful => AuditNamesChange
  BY ActionsNameChange DEF AuditNamesChange, Named
<1> QED
  BY <1>1, CarefulAlways, PTL

-----------------------------------------------------------------------------
(***************************************************************************)
(* The answers: which statements may give the ones that a property is      *)
(* about.                                                                  *)
(***************************************************************************)
Backstops == {"FOREIGN_KEY_VIOLATION", "LAST_ADMIN"}
Notable == Backstops \cup LifecycleAnswers

\* A step of s answers only s, and nothing notable.
Plain(s) ==
  /\ \A t \in Sessions \ {s} : reply'[t] = reply[t]
  /\ reply'[s] = reply[s] \/ reply'[s] \notin Notable

LEMMA NullPlain == Null \notin Notable
BY AnswersAssumption DEF Answers, Notable, Backstops, LifecycleAnswers

LEMMA EndAnswers ==
  ASSUME Typed, NEW s \in Sessions, NEW answer, End(s, answer)
  PROVE  reply'[s] = answer /\ \A t \in Sessions \ {s} : reply'[t] = reply[t]
BY DEF End, Typed, TypeOK

LEMMA RollbackPlain ==
  ASSUME Typed, NEW s \in Sessions, NEW answer, Rollback(s, answer), answer \notin Notable
  PROVE  Plain(s)
BY EndAnswers DEF Rollback, Plain

LEMMA SilentPlain ==
  ASSUME NEW s \in Sessions, UNCHANGED reply
  PROVE  Plain(s)
BY DEF Plain

LEMMA CheckPlain ==
  ASSUME NEW u, NEW permission
  PROVE  Check(u, permission) \notin Notable
BY DEF Check, Ok, Notable, Backstops, LifecycleAnswers

LEMMA EntryPlain ==
  ASSUME Typed, NEW s \in Sessions, Receive(s) \/ ShareUser(s) \/ CheckActor(s)
  PROVE  Plain(s)
<1>1. CASE Receive(s)
  <2>1. PICK r \in Requests : Accept(s, r) \/ Refuse(s, r)
    BY <1>1 DEF Receive
  <2>2. CASE Accept(s, r)
    <3>1. reply'[s] = Null /\ \A t \in Sessions \ {s} : reply'[t] = reply[t]
      BY <2>2 DEF Accept, Typed, TypeOK
    <3> QED
      BY <3>1, NullPlain DEF Plain
  <2>3. CASE Refuse(s, r)
    <3>1. PICK code \in Refusals(r) : reply' = [reply EXCEPT ![s] = code]
      BY <2>3 DEF Refuse
    <3>2. code \notin Notable
      BY <3>1, CheckPlain DEF Refusals, Notable, Backstops, LifecycleAnswers
    <3> QED
      BY <3>1, <3>2 DEF Plain, Typed, TypeOK
  <2> QED
    BY <2>1, <2>2, <2>3
<1>2. CASE ShareUser(s)
  BY <1>2, SilentPlain DEF ShareUser
<1>3. CASE CheckActor(s)
  <2>1. UNCHANGED reply \/ Rollback(s, Check(req[s].actor, Permission(req[s])))
    BY <1>3 DEF CheckActor
  <2> QED
    BY <2>1, CheckPlain, SilentPlain, RollbackPlain
<1> QED
  BY <1>1, <1>2, <1>3

LEMMA UserPlain ==
  ASSUME Typed, NEW s \in Sessions, UserStep(s), ~UserHasActiveOrders(s)
  PROVE  Plain(s)
BY SilentPlain, RollbackPlain
DEF UserStep, LockUserAdministration, HasAdministrator, InsertUser, LockUser, CountActiveAdmins,
    UpdateUser, Proceed, Hold, Write, Notable, Backstops, LifecycleAnswers

LEMMA AssetPlain ==
  ASSUME Typed, NEW s \in Sessions, AssetStep(s), ~DeleteAsset(s)
  PROVE  Plain(s)
BY SilentPlain, RollbackPlain
DEF AssetStep, InsertAsset, LockAsset, PatchAsset, AssetHasOpenOrders, AssetHasOrders, WriteAsset,
    Proceed, Hold, Write, Notable, Backstops, LifecycleAnswers

LEMMA WorkOrderPlain ==
  ASSUME Typed, NEW s \in Sessions, WorkOrderStep(s), ~Change(s)
  PROVE  Plain(s)
BY SilentPlain, RollbackPlain
DEF WorkOrderStep, ShareAsset, InsertWorkOrder, LockWorkOrder, ShareTarget, Hold, Write, Notable,
    Backstops, LifecycleAnswers

LEMMA ClosePlain ==
  ASSUME Typed, NEW s \in Sessions,
         InsertAudit(s) \/ Commit(s) \/ Resolve(s) \/ CommitLost(s) \/ Abort(s)
  PROVE  Plain(s)
<1>1. CASE InsertAudit(s)
  BY <1>1, SilentPlain DEF InsertAudit
<1>2. CASE Commit(s)
  BY <1>2, EndAnswers DEF Commit, Plain, Ok, Notable, Backstops, LifecycleAnswers
<1>3. CASE Resolve(s)
  BY <1>3, EndAnswers DEF Resolve, Plain
<1>4. CASE CommitLost(s)
  BY <1>4 DEF CommitLost, Plain, Notable, Backstops, LifecycleAnswers, Typed, TypeOK
<1>5. CASE Abort(s)
  BY <1>5, RollbackPlain DEF Abort, Notable, Backstops, LifecycleAnswers
<1> QED
  BY <1>1, <1>2, <1>3, <1>4, <1>5

\* The three statements whose answers are notable.
LEMMA StepAnswers ==
  ASSUME Typed, NEW s \in Sessions, Receive(s) \/ Step(s) \/ CommitLost(s) \/ Abort(s)
  PROVE  Plain(s) \/ UserHasActiveOrders(s) \/ DeleteAsset(s) \/ Change(s)
BY EntryPlain, UserPlain, AssetPlain, WorkOrderPlain, ClosePlain DEF Step

\* A step answers one session only.
LEMMA OneAnswer ==
  ASSUME Typed, NEW s \in Sessions, Receive(s) \/ Step(s) \/ CommitLost(s) \/ Abort(s),
         NEW t \in Sessions \ {s}
  PROVE  reply'[t] = reply[t]
<1>1. ASSUME NEW answer, Rollback(s, answer)
      PROVE  reply'[t] = reply[t]
  BY <1>1, EndAnswers DEF Rollback
<1>2. CASE UserHasActiveOrders(s)
  BY <1>1, <1>2 DEF UserHasActiveOrders, Proceed
<1>3. CASE DeleteAsset(s)
  BY <1>1, <1>3 DEF DeleteAsset, Write
<1>4. CASE Change(s)
  BY <1>1, <1>4 DEF Change, ChangePatch, ChangeStatus, ChangeAssign, Proceed, Write
<1> QED
  BY <1>2, <1>3, <1>4, StepAnswers DEF Plain

\* The guard refuses nobody for being the last administrator: another one asks.
LEMMA GuardPlain ==
  ASSUME Careful, NEW s \in Sessions, UserHasActiveOrders(s)
  PROVE  Plain(s)
<1> DEFINE guard == GuardDeactivation(req[s].actor = req[s].id, row[s].role, seen[s],
                                      HasActiveOrders(req[s].id))
<1>1. Typed /\ Counted(s) /\ pc[s] = "UserHasActiveOrders" /\ seen[s] \in Nat
  BY DEF Careful, Sound, Inv, Typed, TypeOK, AllCounted, UserHasActiveOrders, At
<1>2. row[s].role = "ADMIN" /\ seen[s] <= 1 => req[s].actor = req[s].id
  BY <1>1 DEF Counted
<1>3. guard \notin Notable
  BY <1>2 DEF GuardDeactivation, Ok, Notable, Backstops, LifecycleAnswers
<1>4. Rollback(s, guard) \/ UNCHANGED reply
  BY DEF UserHasActiveOrders, Proceed
<1> QED
  BY <1>1, <1>3, <1>4, RollbackPlain, SilentPlain

\* A deletion that gets as far as the statement finds no orders there.
LEMMA DeletePlain ==
  ASSUME Sound, NEW s \in Sessions, DeleteAsset(s)
  PROVE  Plain(s)
<1>1. Decided(s) /\ pc[s] = "DeleteAsset" /\ req[s].op = "DeleteAsset"
  BY InService DEF Sound, Inv, AllDecided, DeleteAsset, At, Serving
<1>2. ~Referenced(key[s])
  BY <1>1 DEF Decided, Unreferenced
<1> QED
  BY <1>2, SilentPlain DEF DeleteAsset, Write

\* A lifecycle answer is given to someone the order is in the scope of.
LEMMA ChangeAnswers ==
  ASSUME Sound, NEW s \in Sessions, Change(s)
  PROVE  /\ \A t \in Sessions \ {s} : reply'[t] = reply[t]
         /\ reply'[s] = reply[s] \/ reply'[s] \notin Backstops
         /\ reply'[s] # reply[s] /\ reply'[s] \in LifecycleAnswers =>
              AssignedScope(users[req[s].actor].role, req[s].actor, orders[req[s].id].assignee)
<1> DEFINE scope == AssignedScope(users[req[s].actor].role, req[s].actor, row[s].assignee)
           answers == {"WORK_ORDER_TERMINAL", "INVALID_STATUS_TRANSITION",
                       "INVALID_ASSIGNMENT_STATE", "ALREADY_ASSIGNED"}
<1>1. Typed /\ Inv /\ pc[s] = "Change"
  BY DEF Sound, Inv, Change, At
<1>2. row[s] = orders[req[s].id]
  <2>1. row[s] # Null /\ key[s] = req[s].id /\ key[s] \in Orders
    BY <1>1, InService, HeldOrder DEF Holding
  <2> QED
    BY <1>1, <2>1, RowOf DEF Inv, Locked, NoLostUpdate
<1>3. \/ MutableBy(s) = "FORBIDDEN"
      \/ MutableBy(s) \in {"WORK_ORDER_TERMINAL", Ok} /\ scope
  BY DEF MutableBy, Mutable
<1>4. Transition(row[s].status, req[s].target) \in
        {"WORK_ORDER_TERMINAL", "INVALID_STATUS_TRANSITION", Ok}
  BY DEF Transition
<1>5. \/ UNCHANGED reply
      \/ Rollback(s, "FORBIDDEN")
      \/ scope /\ \E answer \in answers : Rollback(s, answer)
  <2>1. CASE MutableBy(s) # Ok /\ Rollback(s, MutableBy(s))
    BY <1>3, <2>1
  <2>2. CASE MutableBy(s) = Ok /\ ChangePatch(s)
    BY <2>2 DEF ChangePatch, Proceed, Write
  <2>3. CASE MutableBy(s) = Ok /\ ChangeStatus(s)
    BY <1>3, <1>4, <2>3 DEF ChangeStatus, Write, Ok
  <2>4. CASE MutableBy(s) = Ok /\ ChangeAssign(s)
    BY <1>3, <2>4 DEF ChangeAssign, Proceed, Ok
  <2> QED
    BY <2>1, <2>2, <2>3, <2>4 DEF Change
<1>6. ASSUME NEW answer, Rollback(s, answer)
      PROVE  reply'[s] = answer /\ \A t \in Sessions \ {s} : reply'[t] = reply[t]
  BY <1>1, <1>6, EndAnswers DEF Rollback
<1>7. CASE UNCHANGED reply
  BY <1>7
<1>8. CASE Rollback(s, "FORBIDDEN")
  BY <1>6, <1>8 DEF Backstops, LifecycleAnswers
<1>9. CASE scope /\ \E answer \in answers : Rollback(s, answer)
  BY <1>2, <1>6, <1>9 DEF Backstops
<1> QED
  BY <1>5, <1>7, <1>8, <1>9

-----------------------------------------------------------------------------
LEMMA NoBackstop ==
  ASSUME Careful, [Next]_vars, \A s \in Sessions : reply[s] \notin Backstops
  PROVE  \A s \in Sessions : reply'[s] \notin Backstops
<1>1. CASE Next
  <2>1. PICK s \in Sessions : Receive(s) \/ Step(s) \/ CommitLost(s) \/ Abort(s)
    BY <1>1 DEF Next
  <2>2. Plain(s) \/ Change(s)
    BY <2>1, StepAnswers, GuardPlain, DeletePlain DEF Careful, Sound, Inv
  <2>3. CASE Plain(s)
    BY <2>3 DEF Plain, Notable
  <2>4. CASE Change(s)
    BY <2>4, ChangeAnswers DEF Careful
  <2> QED
    BY <2>2, <2>3, <2>4
<1>2. CASE UNCHANGED vars
  BY <1>2 DEF vars
<1> QED
  BY <1>1, <1>2

LEMMA NoBackstopAlways == Spec => [](\A s \in Sessions : reply[s] \notin Backstops)
<1> DEFINE Silent == \A s \in Sessions : reply[s] \notin Backstops
<1>1. Init => Silent
  BY NullPlain DEF Init, Notable
<1>2. Careful /\ Silent /\ [Next]_vars => Silent'
  BY NoBackstop
<1> HIDE DEF Silent
<1>3. Spec => []Silent
  BY <1>1, <1>2, CarefulAlways, PTL DEF Spec
<1> QED
  BY <1>3 DEF Silent

\* The foreign key of work_orders never has to refuse a deletion: nothing is added to an
\* asset between the check for orders and the statement (assets.Delete under the row lock,
\* against the share lock of workorders.Create).
THEOREM ForeignKeyRests == Spec => []ForeignKeyNeverFires
<1>1. (\A s \in Sessions : reply[s] \notin Backstops) => ForeignKeyNeverFires
  BY DEF Backstops, ForeignKeyNeverFires
<1> QED
  BY <1>1, NoBackstopAlways, PTL

\* Nobody is ever refused for being the last administrator: a caller with user:update is
\* another active one, and stays so under the administration lock (GuardDeactivation).
THEOREM LastAdminRests == Spec => []LastAdminIsDefensive
<1>1. (\A s \in Sessions : reply[s] \notin Backstops) => LastAdminIsDefensive
  BY DEF Backstops, LastAdminIsDefensive
<1> QED
  BY <1>1, NoBackstopAlways, PTL

\* A technician learns nothing about the state of an order that is not theirs: a lifecycle
\* answer comes after the decision on ownership, on the row as it is locked (mutate).
THEOREM OwnershipDecides == Spec => OwnershipFirst
<1>1. ASSUME Careful, [Next]_vars, NEW s \in Sessions, reply'[s] # reply[s],
             reply'[s] \in LifecycleAnswers, users[req[s].actor].role = "TECHNICIAN"
      PROVE  orders[req[s].id].assignee = req[s].actor
  <2>1. CASE Next
    <3>1. PICK t \in Sessions : Receive(t) \/ Step(t) \/ CommitLost(t) \/ Abort(t)
      BY <2>1 DEF Next
    <3>2. Plain(t) \/ Change(t)
      BY <1>1, <3>1, StepAnswers, GuardPlain, DeletePlain DEF Careful, Sound, Inv
    <3>3. s = t /\ Change(s)
      BY <1>1, <3>2, ChangeAnswers DEF Plain, Notable, Careful
    <3> QED
      BY <1>1, <3>3, ChangeAnswers DEF AssignedScope, Careful
  <2> QED
    BY <1>1, <2>1 DEF vars
<1>2. Careful /\ [Next]_vars =>
        [\A s \in Sessions :
           reply'[s] # reply[s] /\ reply'[s] \in LifecycleAnswers
             /\ users[req[s].actor].role = "TECHNICIAN" =>
               orders[req[s].id].assignee = req[s].actor]_vars
  BY <1>1
<1> QED
  BY <1>2, CarefulAlways, PTL DEF Spec, OwnershipFirst
=============================================================================
