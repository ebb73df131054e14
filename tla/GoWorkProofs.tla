---------------------------- MODULE GoWorkProofs ----------------------------
(***************************************************************************)
(* Theorems about GoWork, for every set of accounts, assets, orders,       *)
(* sessions and requests: the types; row locks keep updates from being     *)
(* lost, the audit rows of a write keep the trail equal to the tables, and *)
(* the permission of a caller outlives the check of it until the write is  *)
(* committed.                                                              *)
(***************************************************************************)
EXTENDS GoWork, TLAPS, FiniteSetTheorems

(***************************************************************************)
(* What a request is made of, by operation.                                *)
(***************************************************************************)
LEMMA RequestShape ==
  ASSUME NEW r \in AllRequests
  PROVE  /\ r.op \in Ops
         /\ r.actor \in Users \cup {Null}
         /\ r.op # "Bootstrap" => r.actor \in Users
         /\ r.op \in {"CreateUser", "Bootstrap"} =>
              /\ r.role \in Roles /\ r.email \in Emails
              /\ r.name \in Values /\ r.password \in Values
         /\ r.op = "PatchUser" =>
              /\ r.id \in Users /\ r.email \in Or(Emails) /\ r.name \in Or(Values)
              /\ r.password \in Or(Values) /\ r.active \in Or(BOOLEAN)
         /\ r.op = "CreateAsset" =>
              /\ r.code \in Codes /\ r.status \in AssetStatuses
              /\ r.meta \in [AssetFields -> Values]
         /\ r.op = "PatchAsset" =>
              /\ r.id \in Assets /\ r.status \in Or(AssetStatuses)
              /\ r.meta \in [AssetFields -> Or(Values)]
         /\ r.op = "DeleteAsset" => r.id \in Assets
         /\ r.op = "CreateOrder" => r.asset \in Assets /\ r.meta \in [OrderFields -> Values]
         /\ r.op = "PatchOrder" => r.id \in Orders /\ r.meta \in [OrderFields -> Or(Values)]
         /\ r.op = "AssignOrder" => r.id \in Orders /\ r.target \in Users
         /\ r.op = "StatusOrder" => r.id \in Orders /\ r.target \in OrderStatuses
<1>1. CASE r \in CreateUserRequests
  BY <1>1 DEF CreateUserRequests, Ops, UserOps
<1>2. CASE r \in PatchUserRequests
  BY <1>2 DEF PatchUserRequests, Ops, UserOps
<1>3. CASE r \in BootstrapRequests
  BY <1>3 DEF BootstrapRequests, Ops, UserOps, Roles
<1>4. CASE r \in CreateAssetRequests
  BY <1>4 DEF CreateAssetRequests, Ops, AssetOps
<1>5. CASE r \in PatchAssetRequests
  BY <1>5 DEF PatchAssetRequests, Ops, AssetOps
<1>6. CASE r \in DeleteAssetRequests
  BY <1>6 DEF DeleteAssetRequests, Ops, AssetOps
<1>7. CASE r \in CreateOrderRequests
  BY <1>7 DEF CreateOrderRequests, Ops
<1>8. CASE r \in PatchOrderRequests
  BY <1>8 DEF PatchOrderRequests, Ops, MutateOps
<1>9. CASE r \in AssignOrderRequests
  BY <1>9 DEF AssignOrderRequests, Ops, MutateOps
<1>10. CASE r \in StatusOrderRequests
  BY <1>10 DEF StatusOrderRequests, Ops, MutateOps
<1> QED
  BY <1>1, <1>2, <1>3, <1>4, <1>5, <1>6, <1>7, <1>8, <1>9, <1>10
  DEF AllRequests, UserRequests, AssetRequests, OrderRequests

(***************************************************************************)
(* The rows the services build are rows.                                   *)
(***************************************************************************)
LEMMA PatchedType ==
  ASSUME NEW S, NEW old \in S, NEW new \in Or(S)
  PROVE  Patched(new, old) \in S
BY DEF Patched, Or

LEMMA PatchedUserType ==
  ASSUME NEW u \in UserRow, NEW r \in AllRequests, r.op = "PatchUser"
  PROVE  PatchedUser(u, r) \in UserRow
<1>1. /\ Patched(r.email, u.email) \in Emails
      /\ Patched(r.name, u.name) \in Values
      /\ Patched(r.password, u.password) \in Values
      /\ Patched(r.active, u.active) \in BOOLEAN
  <2>1. /\ u.email \in Emails /\ u.name \in Values
        /\ u.password \in Values /\ u.active \in BOOLEAN
    BY DEF UserRow
  <2> QED
    BY <2>1, RequestShape, PatchedType
<1> QED
  BY <1>1 DEF PatchedUser, UserRow

LEMMA PatchedAssetType ==
  ASSUME NEW a \in AssetRow, NEW r \in AllRequests, r.op = "PatchAsset"
  PROVE  PatchedAsset(a, r) \in AssetRow
<1>1. Patched(r.status, a.status) \in AssetStatuses
  BY RequestShape, PatchedType DEF AssetRow
<1>2. [f \in AssetFields |-> Patched(r.meta[f], a.meta[f])] \in [AssetFields -> Values]
  <2>1. a.meta \in [AssetFields -> Values] /\ r.meta \in [AssetFields -> Or(Values)]
    BY RequestShape DEF AssetRow
  <2> QED
    BY <2>1, PatchedType
<1> QED
  BY <1>1, <1>2 DEF PatchedAsset, AssetRow

LEMMA PatchedOrderType ==
  ASSUME NEW w \in OrderRow, NEW r \in AllRequests, r.op = "PatchOrder"
  PROVE  PatchedOrder(w, r) \in OrderRow
<1>1. [f \in OrderFields |-> Patched(r.meta[f], w.meta[f])] \in [OrderFields -> Values]
  <2>1. w.meta \in [OrderFields -> Values] /\ r.meta \in [OrderFields -> Or(Values)]
    BY RequestShape DEF OrderRow
  <2> QED
    BY <2>1, PatchedType
<1> QED
  BY <1>1 DEF PatchedOrder, OrderRow

-----------------------------------------------------------------------------
(***************************************************************************)
(* Types.  TypeOK is inductive only together with PhaseOK: a statement     *)
(* uses the row and the request that belong to it.                         *)
(***************************************************************************)
\* Everything a phase looks at, of every session but s.
OthersKeep(s) ==
  \A t \in Sessions \ {s} :
    /\ pc'[t] = pc[t] /\ req'[t] = req[t] /\ key'[t] = key[t] /\ held'[t] = held[t]
    /\ row'[t] = row[t] /\ next'[t] = next[t] /\ logged'[t] = logged[t]

LEMMA OneSession ==
  ASSUME Typed, NEW s \in Sessions, TypeOK', Phase(s)', OthersKeep(s)
  PROVE  Typed'
<1>1. ASSUME NEW t \in Sessions PROVE Phase(t)'
  <2>1. CASE t = s
    BY <2>1
  <2>2. CASE t # s
    <3>1. Phase(t)
      BY DEF Typed, PhaseOK
    <3> QED
      BY <2>2, <3>1 DEF OthersKeep, Phase
  <2> QED
    BY <2>1, <2>2
<1> QED
  BY <1>1 DEF Typed, PhaseOK

TablesOK ==
  /\ users \in [Users -> UserRow \cup {Null}]
  /\ assets \in [Assets -> AssetRow \cup {Null, Gone}]
  /\ orders \in [Orders -> OrderRow \cup {Null}]
  /\ trail \in [Keys -> Snapshots \cup {Null, Gone}]

LEMMA EndTyped ==
  ASSUME Typed, NEW s \in Sessions, NEW answer \in Answers \cup {Null},
         End(s, answer), TablesOK'
  PROVE  Typed'
<1>1. TypeOK'
  BY DEF End, TablesOK, Typed, TypeOK, Statements
<1>2. Phase(s)'
  BY DEF End, Typed, TypeOK, Phase, Opening, Holding, Closing, Statements
<1>3. OthersKeep(s)
  BY DEF End, Typed, TypeOK, OthersKeep
<1> QED
  BY <1>1, <1>2, <1>3, OneSession

LEMMA RollbackTyped ==
  ASSUME Typed, NEW s \in Sessions, NEW answer \in Answers, Rollback(s, answer)
  PROVE  Typed'
<1>1. TablesOK'
  BY DEF Rollback, tables, Typed, TypeOK, TablesOK
<1> QED
  BY <1>1, EndTyped DEF Rollback

\* The locks of the other sessions stay as they are.
LocksFramed(s) ==
  /\ held' \in [Sessions -> SUBSET (Resources \X Modes)]
  /\ \A t \in Sessions \ {s} : held'[t] = held[t]

LEMMA LockFrames ==
  ASSUME Typed, NEW s \in Sessions, NEW r \in Resources, NEW m \in Modes,
         Lock(s, r, m) \/ UNCHANGED held
  PROVE  LocksFramed(s)
<1>1. held \in [Sessions -> SUBSET (Resources \X Modes)]
  BY DEF Typed, TypeOK
<1>2. CASE Lock(s, r, m)
  <2>1. held[s] \cup {<<r, m>>} \in SUBSET (Resources \X Modes)
    BY <1>1
  <2> QED
    BY <1>1, <1>2, <2>1 DEF Lock, LocksFramed
<1>3. CASE UNCHANGED held
  BY <1>1, <1>3 DEF LocksFramed
<1> QED
  BY <1>2, <1>3

LEMMA RowResource ==
  ASSUME NEW k \in Keys
  PROVE  RowLock(k) \in Resources
BY DEF Resources

\* A statement that moves on, with or without a new lock.
Moves(s, statement) ==
  /\ Goto(s, statement)
  /\ UNCHANGED <<tables, req, key, wait, row, next, acts, logged, reply>>
  /\ seen' \in [Sessions -> Nat]

LEMMA MovesTyped ==
  ASSUME Typed, NEW s \in Sessions, pc[s] # "idle",
         NEW statement \in Statements \ {"idle", "InsertAudit"},
         Moves(s, statement), LocksFramed(s),
         req[s].op \in Serving(statement),
         \/ pc[s] \in Opening /\ statement \in Opening
         \/ pc[s] \in Holding /\ statement \in Holding \cup {"Commit"}
  PROVE  Typed'
<1> USE DEF Moves, Goto, tables, LocksFramed
<1>1. TypeOK'
  BY DEF Typed, TypeOK
<1>2. Phase(s)'
  <2>1. Phase(s)
    BY DEF Typed, PhaseOK
  <2>2. pc'[s] = statement
    BY DEF Typed, TypeOK
  <2> QED
    BY <2>1, <2>2 DEF Phase, Opening, Holding, Closing
<1>3. OthersKeep(s)
  BY DEF Typed, TypeOK, OthersKeep
<1> QED
  BY <1>1, <1>2, <1>3, OneSession

LEMMA ProceedMoves ==
  ASSUME Typed, NEW s \in Sessions, NEW statement, Proceed(s, statement)
  PROVE  Moves(s, statement) /\ LocksFramed(s)
BY DEF Proceed, Moves, LocksFramed, Typed, TypeOK

LEMMA ProceedTyped ==
  ASSUME Typed, NEW s \in Sessions, pc[s] # "idle",
         NEW statement \in Statements \ {"idle", "InsertAudit"}, Proceed(s, statement),
         req[s].op \in Serving(statement),
         \/ pc[s] \in Opening /\ statement \in Opening
         \/ pc[s] \in Holding /\ statement \in Holding \cup {"Commit"}
  PROVE  Typed'
BY ProceedMoves, MovesTyped

LEMMA HoldTyped ==
  ASSUME Typed, NEW s \in Sessions, pc[s] \in Opening \ {"idle"},
         NEW k \in Keys, NEW r \in Rows, RowFor(k, r), k = req[s].id,
         NEW statement \in Holding \cup {"Commit"}, req[s].op \in Serving(statement),
         Hold(s, k, r, statement), LocksFramed(s)
  PROVE  Typed'
<1> USE DEF Hold, Goto, tables, LocksFramed
<1>1. TypeOK'
  BY DEF Typed, TypeOK, Statements, Holding
<1>2. Phase(s)'
  <2>1. Phase(s)
    BY DEF Typed, PhaseOK
  <2>2. pc'[s] = statement /\ key'[s] = k /\ row'[s] = r
    BY DEF Typed, TypeOK
  <2>3. r # Null
    BY RowsAssumption
  <2> QED
    BY <2>1, <2>2, <2>3 DEF Phase, RowFor, Opening, Holding, Closing
<1>3. OthersKeep(s)
  BY DEF Typed, TypeOK, OthersKeep
<1> QED
  BY <1>1, <1>2, <1>3, OneSession

LEMMA WriteTyped ==
  ASSUME Typed, NEW s \in Sessions, pc[s] \in (Opening \cup Holding) \ {"idle"},
         NEW k \in Keys, NEW r \in Rows \cup {Gone},
         RowFor(k, r) \/ (k \in Assets /\ r = Gone),
         row[s] # Null => k = key[s],
         NEW actions \in Seq(Actions), Write(s, k, r, actions), LocksFramed(s)
  PROVE  Typed'
<1> USE DEF Write, Goto, tables, LocksFramed
<1>1. TypeOK'
  BY DEF Typed, TypeOK, Statements
<1>2. Phase(s)'
  <2>1. Phase(s)
    BY DEF Typed, PhaseOK
  <2>2. pc'[s] = "InsertAudit" /\ key'[s] = k /\ next'[s] = r
    BY DEF Typed, TypeOK
  <2>3. r # Null
    BY RowsAssumption
  <2>4. req[s] # Null /\ req[s].op \in Ops
    <3>1. req[s] # Null
      BY <2>1 DEF Phase
    <3> QED
      BY <3>1, RequestShape DEF Typed, TypeOK
  <2>5. Serving("InsertAudit") = Ops
    BY DEF Serving
  <2> QED
    BY <2>1, <2>2, <2>3, <2>4, <2>5 DEF Phase, RowFor, Opening, Holding, Closing
<1>3. OthersKeep(s)
  BY DEF Typed, TypeOK, OthersKeep
<1> QED
  BY <1>1, <1>2, <1>3, OneSession

\* What a transaction in some phase knows of its request and its rows.
LEMMA InService ==
  ASSUME Typed, NEW s \in Sessions, pc[s] # "idle"
  PROVE  /\ req[s] \in AllRequests
         /\ req[s].op \in Serving(pc[s]) /\ req[s].op \in Ops
         /\ pc[s] \in Opening => row[s] = Null
         /\ pc[s] \in Holding => /\ row[s] # Null /\ key[s] = req[s].id
                                /\ row[s] \in Rows /\ RowFor(key[s], row[s])
<1>1. Phase(s) /\ TypeOK
  BY DEF Typed, PhaseOK
<1>2. req[s] \in AllRequests
  BY <1>1 DEF Phase, TypeOK
<1> QED
  BY <1>1, <1>2, RequestShape DEF Phase, TypeOK, Opening, Holding

-----------------------------------------------------------------------------
\* The arrival of a request.
LEMMA ReceiveTyped ==
  ASSUME Typed, NEW s \in Sessions, Receive(s)
  PROVE  Typed'
<1>1. PICK r \in Requests : At(s, "idle") /\ (Accept(s, r) \/ Refuse(s, r))
  BY DEF Receive
<1>2. r \in AllRequests /\ r \in Requests
  BY RequestsAssumption
<1>3. Phase(s) /\ TypeOK
  BY DEF Typed, PhaseOK
<1>4. CASE Accept(s, r)
  <2>1. FirstStatement(r.op) \in {"LockUserAdministration", "ShareUser"}
    BY DEF FirstStatement
  <2>2. r.op \in Serving(FirstStatement(r.op))
    BY <1>2, RequestShape DEF FirstStatement, Serving, UserOps
  <2>3. ToShare(r) \in SUBSET Users
    BY <1>2, RequestShape DEF ToShare
  <2>4. r # Null
    BY <1>2, RequestsAssumption
  <2>5. TypeOK'
    BY <1>2, <1>3, <1>4, <2>1, <2>3 DEF Accept, Goto, tables, TypeOK, Statements
  <2>6. Phase(s)'
    <3>1. /\ key[s] = Null /\ row[s] = Null /\ next[s] = Null /\ logged[s] = 0
      BY <1>1, <1>3 DEF At, Phase, Opening, Holding, Closing, Statements
    <3>2. /\ pc'[s] = FirstStatement(r.op) /\ req'[s] = r
          /\ key'[s] = Null /\ row'[s] = Null /\ next'[s] = Null /\ logged'[s] = 0
      BY <1>3, <1>4, <3>1 DEF Accept, Goto, TypeOK
    <3>3. pc'[s] \notin Holding /\ pc'[s] \notin {"idle", "InsertAudit"}
      BY <2>1, <3>2 DEF Holding
    <3> QED
      BY <2>2, <2>4, <3>2, <3>3 DEF Phase
  <2>7. OthersKeep(s)
    BY <1>3, <1>4 DEF Accept, Goto, TypeOK, OthersKeep
  <2> QED
    BY <2>5, <2>6, <2>7, OneSession
<1>5. CASE Refuse(s, r)
  <2>1. Refusals(r) \subseteq Answers
    BY DEF Refusals, Check, Answers, Ok
  <2>2. TypeOK'
    BY <1>3, <1>5, <2>1 DEF Refuse, tables, TypeOK
  <2>3. Phase(s)' /\ OthersKeep(s)
    BY <1>3, <1>5 DEF Refuse, OthersKeep, Phase
  <2> QED
    BY <2>2, <2>3, OneSession
<1> QED
  BY <1>1, <1>4, <1>5

LEMMA ShareUserTyped ==
  ASSUME Typed, NEW s \in Sessions, ShareUser(s)
  PROVE  Typed'
<1>1. Phase(s) /\ TypeOK /\ pc[s] = "ShareUser"
  BY DEF Typed, PhaseOK, ShareUser, At
<1>2. PICK u \in wait[s] :
        /\ wait' = [wait EXCEPT ![s] = @ \ {u}]
        /\ IF users[u] = Null THEN UNCHANGED held ELSE ShareLockUser(s, u)
        /\ IF wait[s] = {u} THEN Goto(s, "Check") ELSE UNCHANGED pc
  BY DEF ShareUser
<1>3. UNCHANGED <<tables, req, key, row, next, acts, logged, seen, reply>>
  BY DEF ShareUser
<1>4. u \in Users /\ u \in Keys
  BY <1>1, <1>2 DEF TypeOK, Keys
<1>5. LocksFramed(s)
  <2>1. RowLock(u) \in Resources /\ "SHARE" \in Modes
    BY <1>4, RowResource DEF Modes
  <2> QED
    BY <1>2, <2>1, LockFrames DEF ShareLockUser
<1>6. pc' \in [Sessions -> Statements] /\ pc'[s] \in {"ShareUser", "Check"}
      /\ \A t \in Sessions \ {s} : pc'[t] = pc[t]
  BY <1>1, <1>2 DEF Goto, TypeOK, Statements
<1>7. TypeOK'
  BY <1>1, <1>2, <1>3, <1>5, <1>6 DEF TypeOK, tables, LocksFramed
<1>8. Phase(s)'
  <2>1. req[s].op \in Serving("ShareUser") /\ req[s].op \in Serving("Check")
    BY <1>1 DEF Phase, Serving, Ops, UserOps, AssetOps, MutateOps
  <2> QED
    BY <1>1, <1>3, <1>6, <2>1 DEF Phase, Opening, Holding, Closing, Statements
<1>9. OthersKeep(s)
  BY <1>3, <1>5, <1>6 DEF OthersKeep, LocksFramed
<1> QED
  BY <1>7, <1>8, <1>9, OneSession

LEMMA CheckActorTyped ==
  ASSUME Typed, NEW s \in Sessions, CheckActor(s)
  PROVE  Typed'
<1> DEFINE answer == Check(req[s].actor, Permission(req[s]))
<1>1. pc[s] = "Check"
  BY DEF CheckActor, At
<1>2. CASE answer # Ok /\ Rollback(s, answer)
  <2>1. answer \in Answers
    BY DEF Check, Answers, Ok
  <2> QED
    BY <1>2, <2>1, RollbackTyped
<1>3. CASE Proceed(s, AfterCheck(req[s].op))
  <2>1. req[s].op \in Ops \ {"Bootstrap"}
    BY <1>1, InService DEF Serving
  <2>2. /\ AfterCheck(req[s].op) \in Opening \ {"idle"}
        /\ req[s].op \in Serving(AfterCheck(req[s].op))
    BY <2>1 DEF AfterCheck, Serving, Ops, UserOps, AssetOps, MutateOps,
                Opening, Statements, Holding, Closing
  <2>3. pc[s] \in Opening
    BY <1>1 DEF Opening, Statements, Holding, Closing
  <2> QED
    BY <1>1, <1>3, <2>2, <2>3, ProceedTyped DEF Opening, Closing
<1> QED
  BY <1>2, <1>3 DEF CheckActor, Proceed

-----------------------------------------------------------------------------
\* Accounts.
LEMMA LockUserAdministrationTyped ==
  ASSUME Typed, NEW s \in Sessions, LockUserAdministration(s)
  PROVE  Typed'
<1> DEFINE statement == IF req[s].op = "Bootstrap" THEN "HasAdministrator" ELSE "Check"
<1>1. pc[s] = "LockUserAdministration"
  BY DEF LockUserAdministration, At
<1>2. LocksFramed(s)
  <2>1. Administration \in Resources /\ AdministrationMode \in Modes
    BY DEF Resources, AdministrationMode, Modes
  <2> QED
    BY <2>1, LockFrames DEF LockUserAdministration
<1>3. Moves(s, statement)
  BY DEF LockUserAdministration, Moves, Typed, TypeOK
<1>4. req[s].op \in UserOps
  BY <1>1, InService DEF Serving
<1>5. statement \in Opening \ {"idle"} /\ req[s].op \in Serving(statement)
  BY <1>4 DEF Serving, Ops, UserOps, Opening, Statements, Holding, Closing
<1>6. pc[s] \in Opening
  BY <1>1 DEF Opening, Statements, Holding, Closing
<1> HIDE DEF statement
<1> QED
  BY <1>1, <1>2, <1>3, <1>5, <1>6, MovesTyped DEF Opening, Closing

LEMMA HasAdministratorTyped ==
  ASSUME Typed, NEW s \in Sessions, HasAdministrator(s)
  PROVE  Typed'
<1>1. pc[s] = "HasAdministrator"
  BY DEF HasAdministrator, At
<1>2. CASE Rollback(s, "ALREADY_BOOTSTRAPPED")
  BY <1>2, RollbackTyped DEF Answers
<1>3. CASE Proceed(s, "InsertUser")
  <2>1. req[s].op \in Serving("InsertUser")
    BY <1>1, InService DEF Serving
  <2>2. pc[s] \in Opening /\ "InsertUser" \in Opening
        /\ "InsertUser" \in Statements \ {"idle", "InsertAudit"}
    BY <1>1 DEF Opening, Statements, Holding, Closing
  <2> QED
    BY <1>1, <1>3, <2>1, <2>2, ProceedTyped
<1> QED
  BY <1>2, <1>3 DEF HasAdministrator

LEMMA InsertUserTyped ==
  ASSUME Typed, NEW s \in Sessions, InsertUser(s)
  PROVE  Typed'
<1> DEFINE actions == IF req[s].op = "Bootstrap" THEN <<"USER_BOOTSTRAPPED">>
                                               ELSE <<"USER_CREATED">>
<1>1. pc[s] = "InsertUser"
  BY DEF InsertUser, At
<1>2. CASE Rollback(s, "EMAIL_CONFLICT")
  BY <1>2, RollbackTyped DEF Answers
<1>3. ASSUME NEW u \in Fresh(users), Write(s, u, NewUser(req[s]), actions), UNCHANGED held
      PROVE  Typed'
  <2>1. u \in Users /\ u \in Keys
    BY DEF Fresh, Typed, TypeOK, Keys
  <2>2. NewUser(req[s]) \in UserRow
    <3>1. req[s] \in AllRequests /\ req[s].op \in {"CreateUser", "Bootstrap"}
      BY <1>1, InService DEF Serving
    <3> QED
      BY <3>1, RequestShape DEF NewUser, UserRow
  <2>3. actions \in Seq(Actions)
    BY DEF Actions
  <2>4. row[s] = Null /\ pc[s] \in Opening \ {"idle"}
    BY <1>1, InService DEF Opening, Statements, Holding, Closing
  <2>5. LocksFramed(s)
    BY <1>3 DEF LocksFramed, Typed, TypeOK
  <2> HIDE DEF actions
  <2> QED
    BY <1>3, <2>1, <2>2, <2>3, <2>4, <2>5, WriteTyped DEF Rows, RowFor
<1> QED
  BY <1>2, <1>3 DEF InsertUser

LEMMA LockUserTyped ==
  ASSUME Typed, NEW s \in Sessions, LockUser(s)
  PROVE  Typed'
<1> DEFINE id == req[s].id
           old == users[id]
           new == PatchedUser(old, req[s])
           statement == CASE Deactivates(new, old) -> "CountActiveAdmins"
                          [] SameUser(new, old, req[s]) -> "Commit"
                          [] OTHER -> "UpdateUser"
<1>1. pc[s] = "LockUser"
  BY DEF LockUser, At
<1>2. CASE Rollback(s, "USER_NOT_FOUND")
  BY <1>2, RollbackTyped DEF Answers
<1>3. CASE old # Null /\ Lock(s, RowLock(id), LockUserMode) /\ Hold(s, id, old, statement)
  <2>1. req[s] \in AllRequests /\ req[s].op = "PatchUser"
    BY <1>1, InService DEF Serving
  <2>2. id \in Users /\ id \in Keys
    BY <2>1, RequestShape DEF Keys
  <2>3. old \in UserRow /\ old \in Rows
    BY <1>3, <2>2 DEF Typed, TypeOK, Rows
  <2>4. LocksFramed(s)
    <3>1. RowLock(id) \in Resources /\ LockUserMode \in Modes
      BY <2>2, RowResource DEF LockUserMode, Modes
    <3> QED
      BY <1>3, <3>1, LockFrames
  <2>5. statement \in {"CountActiveAdmins", "Commit", "UpdateUser"}
    OBVIOUS
  <2> HIDE DEF statement
  <2>6. statement \in Holding \cup {"Commit"} /\ req[s].op \in Serving(statement)
    BY <2>1, <2>5 DEF Holding, Serving, Ops, UserOps
  <2>7. pc[s] \in Opening \ {"idle"}
    BY <1>1 DEF Opening, Statements, Holding, Closing
  <2> QED
    BY <1>3, <2>2, <2>3, <2>4, <2>6, <2>7, HoldTyped DEF RowFor
<1> QED
  BY <1>2, <1>3 DEF LockUser

LEMMA CountActiveAdminsTyped ==
  ASSUME Typed, NEW s \in Sessions, CountActiveAdmins(s)
  PROVE  Typed'
<1>1. pc[s] = "CountActiveAdmins"
  BY DEF CountActiveAdmins, At
<1>2. Cardinality(ActiveAdmins) \in Nat
  <2>1. ActiveAdmins \subseteq Users
    BY DEF ActiveAdmins
  <2> QED
    BY <2>1, IdsAssumption, FS_Subset, FS_CardinalityType
<1>3. Moves(s, "UserHasActiveOrders") /\ LocksFramed(s)
  BY <1>2 DEF CountActiveAdmins, Moves, LocksFramed, Typed, TypeOK, tables
<1>4. req[s].op \in Serving("UserHasActiveOrders")
  BY <1>1, InService DEF Serving
<1>5. "UserHasActiveOrders" \in Holding /\ pc[s] \in Holding
      /\ "UserHasActiveOrders" \in Statements \ {"idle", "InsertAudit"}
  BY <1>1 DEF Holding, Statements
<1> QED
  BY <1>1, <1>3, <1>4, <1>5, MovesTyped

LEMMA UserHasActiveOrdersTyped ==
  ASSUME Typed, NEW s \in Sessions, UserHasActiveOrders(s)
  PROVE  Typed'
<1> DEFINE guard == GuardDeactivation(req[s].actor = req[s].id, row[s].role, seen[s],
                                      HasActiveOrders(req[s].id))
<1>1. pc[s] = "UserHasActiveOrders"
  BY DEF UserHasActiveOrders, At
<1>2. CASE Rollback(s, guard)
  <2>1. guard \in Answers
    BY DEF GuardDeactivation, Answers, Ok
  <2> HIDE DEF guard
  <2> QED
    BY <1>2, <2>1, RollbackTyped
<1>3. CASE Proceed(s, "UpdateUser")
  <2>1. req[s].op \in Serving("UpdateUser")
    BY <1>1, InService DEF Serving
  <2>2. "UpdateUser" \in Holding /\ pc[s] \in Holding
        /\ "UpdateUser" \in Statements \ {"idle", "InsertAudit"}
    BY <1>1 DEF Holding, Statements
  <2> QED
    BY <1>1, <1>3, <2>1, <2>2, ProceedTyped
<1> QED
  BY <1>2, <1>3 DEF UserHasActiveOrders

LEMMA UpdateUserTyped ==
  ASSUME Typed, NEW s \in Sessions, UpdateUser(s)
  PROVE  Typed'
<1> DEFINE new == PatchedUser(row[s], req[s])
<1>1. pc[s] = "UpdateUser"
  BY DEF UpdateUser, At
<1>2. CASE Rollback(s, "EMAIL_CONFLICT")
  BY <1>2, RollbackTyped DEF Answers
<1>3. CASE Write(s, key[s], new, <<"USER_UPDATED">>) /\ UNCHANGED held
  <2>1. pc[s] \in Holding \ {"idle"}
    BY <1>1 DEF Holding
  <2>2. /\ req[s] \in AllRequests /\ req[s].op = "PatchUser"
        /\ key[s] = req[s].id /\ row[s] # Null /\ RowFor(key[s], row[s])
    BY <1>1, <2>1, InService DEF Serving
  <2>3. key[s] \in Users /\ key[s] \in Keys
    BY <2>2, RequestShape DEF Keys
  <2>4. new \in UserRow
    BY <2>2, <2>3, IdsAssumption, PatchedUserType DEF RowFor
  <2>5. LocksFramed(s)
    BY <1>3 DEF LocksFramed, Typed, TypeOK
  <2>6. <<"USER_UPDATED">> \in Seq(Actions)
    BY DEF Actions
  <2> HIDE DEF new
  <2> QED
    BY <1>3, <2>1, <2>3, <2>4, <2>5, <2>6, WriteTyped DEF Rows, RowFor
<1> QED
  BY <1>2, <1>3 DEF UpdateUser

-----------------------------------------------------------------------------
\* Assets.
LEMMA InsertAssetTyped ==
  ASSUME Typed, NEW s \in Sessions, InsertAsset(s)
  PROVE  Typed'
<1>1. pc[s] = "InsertAsset"
  BY DEF InsertAsset, At
<1>2. CASE Rollback(s, "ASSET_CODE_CONFLICT")
  BY <1>2, RollbackTyped DEF Answers
<1>3. ASSUME NEW a \in Fresh(assets), Lock(s, CodeLock(req[s].code), "UPDATE"),
             Write(s, a, NewAsset(req[s]), <<"ASSET_CREATED">>)
      PROVE  Typed'
  <2>1. a \in Assets /\ a \in Keys
    BY DEF Fresh, Typed, TypeOK, Keys
  <2>2. req[s] \in AllRequests /\ req[s].op = "CreateAsset"
    BY <1>1, InService DEF Serving
  <2>3. NewAsset(req[s]) \in AssetRow
    BY <2>2, RequestShape DEF NewAsset, AssetRow
  <2>4. LocksFramed(s)
    <3>1. CodeLock(req[s].code) \in Resources /\ "UPDATE" \in Modes
      BY <2>2, RequestShape DEF Resources, Modes
    <3> QED
      BY <1>3, <3>1, LockFrames
  <2>5. row[s] = Null /\ pc[s] \in Opening \ {"idle"}
    BY <1>1, InService DEF Opening, Statements, Holding, Closing
  <2>6. <<"ASSET_CREATED">> \in Seq(Actions)
    BY DEF Actions
  <2> QED
    BY <1>3, <2>1, <2>3, <2>4, <2>5, <2>6, WriteTyped DEF Rows, RowFor
<1> QED
  BY <1>2, <1>3 DEF InsertAsset

LEMMA LockAssetTyped ==
  ASSUME Typed, NEW s \in Sessions, LockAsset(s)
  PROVE  Typed'
<1> DEFINE id == req[s].id
           statement == IF req[s].op = "DeleteAsset" THEN "AssetHasOrders" ELSE "PatchAsset"
<1>1. pc[s] = "LockAsset"
  BY DEF LockAsset, At
<1>2. CASE Rollback(s, "ASSET_NOT_FOUND")
  BY <1>2, RollbackTyped DEF Answers
<1>3. CASE /\ assets[id] \notin {Null, Gone}
           /\ Lock(s, RowLock(id), LockAssetMode)
           /\ Hold(s, id, assets[id], statement)
  <2>1. req[s] \in AllRequests /\ req[s].op \in {"PatchAsset", "DeleteAsset"}
    BY <1>1, InService DEF Serving
  <2>2. id \in Assets /\ id \in Keys
    BY <2>1, RequestShape DEF Keys
  <2>3. assets[id] \in AssetRow /\ assets[id] \in Rows
    BY <1>3, <2>2 DEF Typed, TypeOK, Rows
  <2>4. LocksFramed(s)
    <3>1. RowLock(id) \in Resources /\ LockAssetMode \in Modes
      BY <2>2, RowResource DEF LockAssetMode, Modes
    <3> QED
      BY <1>3, <3>1, LockFrames
  <2>5. statement \in Holding /\ req[s].op \in Serving(statement)
    BY <2>1 DEF Holding, Serving
  <2>6. pc[s] \in Opening \ {"idle"}
    BY <1>1 DEF Opening, Statements, Holding, Closing
  <2> HIDE DEF statement
  <2> QED
    BY <1>3, <2>2, <2>3, <2>4, <2>5, <2>6, HoldTyped DEF RowFor
<1> QED
  BY <1>2, <1>3 DEF LockAsset

\* The row a patch or a deletion holds.
LEMMA HeldAsset ==
  ASSUME Typed, NEW s \in Sessions,
         pc[s] \in {"PatchAsset", "AssetHasOpenOrders", "AssetHasOrders", "DeleteAsset"}
  PROVE  /\ key[s] \in Assets /\ key[s] \in Keys /\ row[s] \in AssetRow
         /\ pc[s] \in Holding \ {"idle"}
<1>1. pc[s] \in Holding \ {"idle"}
  BY DEF Holding
<1>2. /\ req[s] \in AllRequests /\ req[s].op \in {"PatchAsset", "DeleteAsset"}
      /\ key[s] = req[s].id /\ RowFor(key[s], row[s])
  BY <1>1, InService DEF Serving
<1>3. key[s] \in Assets
  BY <1>2, RequestShape
<1> QED
  BY <1>1, <1>2, <1>3, IdsAssumption DEF RowFor, Keys

LEMMA WriteAssetTyped ==
  ASSUME Typed, NEW s \in Sessions, pc[s] \in {"PatchAsset", "AssetHasOpenOrders"},
         WriteAsset(s)
  PROVE  Typed'
<1> DEFINE new == PatchedAsset(row[s], req[s])
<1>1. key[s] \in Assets /\ key[s] \in Keys /\ row[s] \in AssetRow
      /\ pc[s] \in Holding \ {"idle"}
  BY HeldAsset
<1>2. req[s] \in AllRequests /\ req[s].op = "PatchAsset"
  BY InService DEF Serving
<1>3. new \in AssetRow
  BY <1>1, <1>2, PatchedAssetType
<1>4. LocksFramed(s)
  BY DEF WriteAsset, LocksFramed, Typed, TypeOK
<1>5. <<"ASSET_UPDATED">> \in Seq(Actions)
  BY DEF Actions
<1>6. Write(s, key[s], new, <<"ASSET_UPDATED">>)
  BY DEF WriteAsset
<1> HIDE DEF new
<1> QED
  BY <1>1, <1>3, <1>4, <1>5, <1>6, WriteTyped DEF Rows, RowFor

\* A step between two statements that hold the row of an asset.
LEMMA ProceedAssetTyped ==
  ASSUME Typed, NEW s \in Sessions,
         pc[s] \in {"PatchAsset", "AssetHasOpenOrders", "AssetHasOrders", "DeleteAsset"},
         NEW statement \in {"AssetHasOpenOrders", "DeleteAsset", "Commit"},
         req[s].op \in Serving(statement), Proceed(s, statement)
  PROVE  Typed'
<1>1. pc[s] \in Holding /\ pc[s] # "idle"
  BY DEF Holding
<1>2. /\ statement \in Holding \cup {"Commit"}
      /\ statement \in Statements \ {"idle", "InsertAudit"}
  BY DEF Holding, Statements
<1> QED
  BY <1>1, <1>2, ProceedTyped

LEMMA PatchAssetTyped ==
  ASSUME Typed, NEW s \in Sessions, PatchAsset(s)
  PROVE  Typed'
<1>1. pc[s] = "PatchAsset" /\ req[s].op = "PatchAsset"
  BY InService DEF PatchAsset, At, Serving
<1>2. CASE Proceed(s, "Commit") \/ Proceed(s, "AssetHasOpenOrders")
  <2>1. req[s].op \in Serving("Commit") /\ req[s].op \in Serving("AssetHasOpenOrders")
    BY <1>1 DEF Serving, Ops, AssetOps
  <2> QED
    BY <1>1, <1>2, <2>1, ProceedAssetTyped
<1>3. CASE WriteAsset(s)
  BY <1>1, <1>3, WriteAssetTyped
<1> QED
  BY <1>2, <1>3 DEF PatchAsset

LEMMA AssetHasOpenOrdersTyped ==
  ASSUME Typed, NEW s \in Sessions, AssetHasOpenOrders(s)
  PROVE  Typed'
<1>1. CASE Rollback(s, "ASSET_HAS_OPEN_WORK_ORDERS")
  BY <1>1, RollbackTyped DEF Answers
<1>2. CASE WriteAsset(s)
  BY <1>2, WriteAssetTyped DEF AssetHasOpenOrders, At
<1> QED
  BY <1>1, <1>2 DEF AssetHasOpenOrders

LEMMA AssetHasOrdersTyped ==
  ASSUME Typed, NEW s \in Sessions, AssetHasOrders(s)
  PROVE  Typed'
<1>1. pc[s] = "AssetHasOrders"
  BY DEF AssetHasOrders, At
<1>2. CASE Rollback(s, "ASSET_IN_USE")
  BY <1>2, RollbackTyped DEF Answers
<1>3. CASE Proceed(s, "DeleteAsset")
  <2>1. req[s].op \in Serving("DeleteAsset")
    BY <1>1, InService DEF Serving
  <2> QED
    BY <1>1, <1>3, <2>1, ProceedAssetTyped
<1> QED
  BY <1>2, <1>3 DEF AssetHasOrders

LEMMA DeleteAssetTyped ==
  ASSUME Typed, NEW s \in Sessions, DeleteAsset(s)
  PROVE  Typed'
<1>1. pc[s] = "DeleteAsset"
  BY DEF DeleteAsset, At
<1>2. CASE Rollback(s, "FOREIGN_KEY_VIOLATION")
  BY <1>2, RollbackTyped DEF Answers
<1>3. CASE /\ Lock(s, CodeLock(row[s].code), "UPDATE")
           /\ Write(s, key[s], Gone, <<"ASSET_DELETED">>)
  <2>1. key[s] \in Assets /\ key[s] \in Keys /\ row[s] \in AssetRow
        /\ pc[s] \in Holding \ {"idle"}
    BY <1>1, HeldAsset
  <2>2. LocksFramed(s)
    <3>1. CodeLock(row[s].code) \in Resources /\ "UPDATE" \in Modes
      BY <2>1 DEF AssetRow, Resources, Modes
    <3> QED
      BY <1>3, <3>1, LockFrames
  <2>3. <<"ASSET_DELETED">> \in Seq(Actions)
    BY DEF Actions
  <2> QED
    BY <1>3, <2>1, <2>2, <2>3, WriteTyped
<1> QED
  BY <1>2, <1>3 DEF DeleteAsset

-----------------------------------------------------------------------------
\* Work orders.
LEMMA ShareAssetTyped ==
  ASSUME Typed, NEW s \in Sessions, ShareAsset(s)
  PROVE  Typed'
<1>1. pc[s] = "ShareAsset"
  BY DEF ShareAsset, At
<1>2. CASE Rollback(s, "ASSET_NOT_FOUND") \/ Rollback(s, "ASSET_NOT_AVAILABLE")
  BY <1>2, RollbackTyped DEF Answers
<1>3. CASE /\ LockSharedAsset(s, req[s].asset)
           /\ Goto(s, "InsertWorkOrder")
           /\ UNCHANGED <<tables, req, key, wait, row, next, acts, logged, seen, reply>>
  <2>1. req[s] \in AllRequests /\ req[s].op = "CreateOrder"
    BY <1>1, InService DEF Serving
  <2>2. LocksFramed(s)
    <3>1. RowLock(req[s].asset) \in Resources /\ "SHARE" \in Modes
      BY <2>1, RequestShape, RowResource DEF Keys, Modes
    <3> QED
      BY <1>3, <3>1, LockFrames DEF LockSharedAsset
  <2>3. Moves(s, "InsertWorkOrder")
    BY <1>3 DEF Moves, Typed, TypeOK
  <2>4. req[s].op \in Serving("InsertWorkOrder")
    BY <2>1 DEF Serving
  <2>5. pc[s] \in Opening /\ "InsertWorkOrder" \in Opening
        /\ "InsertWorkOrder" \in Statements \ {"idle", "InsertAudit"}
    BY <1>1 DEF Opening, Statements, Holding, Closing
  <2> QED
    BY <1>1, <2>2, <2>3, <2>4, <2>5, MovesTyped
<1> QED
  BY <1>2, <1>3 DEF ShareAsset

LEMMA InsertWorkOrderTyped ==
  ASSUME Typed, NEW s \in Sessions, InsertWorkOrder(s)
  PROVE  Typed'
<1>1. pc[s] = "InsertWorkOrder"
  BY DEF InsertWorkOrder, At
<1>2. PICK o \in Fresh(orders) : Write(s, o, NewOrder(req[s]), <<"WORK_ORDER_CREATED">>)
  BY DEF InsertWorkOrder
<1>3. o \in Orders /\ o \in Keys
  BY DEF Fresh, Typed, TypeOK, Keys
<1>4. req[s] \in AllRequests /\ req[s].op = "CreateOrder"
  BY <1>1, InService DEF Serving
<1>5. NewOrder(req[s]) \in OrderRow
  BY <1>4, RequestShape DEF NewOrder, OrderRow, OrderStatuses
<1>6. LocksFramed(s)
  BY DEF InsertWorkOrder, LocksFramed, Typed, TypeOK
<1>7. row[s] = Null /\ pc[s] \in Opening \ {"idle"}
  BY <1>1, InService DEF Opening, Statements, Holding, Closing
<1>8. <<"WORK_ORDER_CREATED">> \in Seq(Actions)
  BY DEF Actions
<1> QED
  BY <1>2, <1>3, <1>5, <1>6, <1>7, <1>8, WriteTyped DEF Rows, RowFor

LEMMA LockWorkOrderTyped ==
  ASSUME Typed, NEW s \in Sessions, LockWorkOrder(s)
  PROVE  Typed'
<1> DEFINE id == req[s].id
<1>1. pc[s] = "LockWorkOrder"
  BY DEF LockWorkOrder, At
<1>2. CASE Rollback(s, "WORK_ORDER_NOT_FOUND")
  BY <1>2, RollbackTyped DEF Answers
<1>3. CASE /\ orders[id] # Null
           /\ Lock(s, RowLock(id), LockWorkOrderMode)
           /\ Hold(s, id, orders[id], "Change")
  <2>1. req[s] \in AllRequests /\ req[s].op \in MutateOps
    BY <1>1, InService DEF Serving
  <2>2. id \in Orders /\ id \in Keys
    BY <2>1, RequestShape DEF Keys, MutateOps
  <2>3. orders[id] \in OrderRow /\ orders[id] \in Rows
    BY <1>3, <2>2 DEF Typed, TypeOK, Rows
  <2>4. LocksFramed(s)
    <3>1. RowLock(id) \in Resources /\ LockWorkOrderMode \in Modes
      BY <2>2, RowResource DEF LockWorkOrderMode, Modes
    <3> QED
      BY <1>3, <3>1, LockFrames
  <2>5. "Change" \in Holding /\ req[s].op \in Serving("Change")
    BY <2>1 DEF Holding, Serving
  <2>6. pc[s] \in Opening \ {"idle"}
    BY <1>1 DEF Opening, Statements, Holding, Closing
  <2> QED
    BY <1>3, <2>2, <2>3, <2>4, <2>5, <2>6, HoldTyped DEF RowFor
<1> QED
  BY <1>2, <1>3 DEF LockWorkOrder

\* The row a mutation of an order holds.
LEMMA HeldOrder ==
  ASSUME Typed, NEW s \in Sessions, pc[s] \in {"Change", "ShareTarget"}
  PROVE  /\ req[s] \in AllRequests /\ req[s].op \in MutateOps
         /\ key[s] \in Orders /\ key[s] \in Keys /\ row[s] \in OrderRow
         /\ pc[s] \in Holding \ {"idle"}
<1>1. pc[s] \in Holding \ {"idle"}
  BY DEF Holding
<1>2. /\ req[s] \in AllRequests /\ req[s].op \in MutateOps
      /\ key[s] = req[s].id /\ RowFor(key[s], row[s])
  BY <1>1, InService DEF Serving, MutateOps
<1>3. key[s] \in Orders
  BY <1>2, RequestShape DEF MutateOps
<1> QED
  BY <1>1, <1>2, <1>3, IdsAssumption DEF RowFor, Keys

LEMMA WriteOrderTyped ==
  ASSUME Typed, NEW s \in Sessions, pc[s] \in {"Change", "ShareTarget"},
         NEW w \in OrderRow, NEW actions \in Seq(Actions),
         Write(s, key[s], w, actions), LocksFramed(s)
  PROVE  Typed'
BY HeldOrder, WriteTyped DEF Rows, RowFor

LEMMA ChangeTyped ==
  ASSUME Typed, NEW s \in Sessions, Change(s)
  PROVE  Typed'
<1>1. pc[s] = "Change"
  BY DEF Change, At
<1>2. /\ req[s] \in AllRequests /\ req[s].op \in MutateOps
      /\ row[s] \in OrderRow /\ pc[s] \in Holding \ {"idle"}
  BY <1>1, HeldOrder
<1>3. CASE Rollback(s, MutableBy(s))
  <2>1. MutableBy(s) \in Answers
    BY DEF MutableBy, Mutable, Answers, Ok
  <2> QED
    BY <1>3, <2>1, RollbackTyped
<1>4. CASE ChangePatch(s)
  <2>1. CASE Proceed(s, "Commit")
    <3>1. req[s].op \in Serving("Commit")
      BY <1>2 DEF Serving, Ops
    <3> QED
      BY <1>2, <2>1, <3>1, ProceedTyped DEF Statements
  <2>2. CASE Write(s, key[s], PatchedOrder(row[s], req[s]), <<"WORK_ORDER_UPDATED">>)
             /\ UNCHANGED held
    <3>1. PatchedOrder(row[s], req[s]) \in OrderRow
      BY <1>2, <1>4, PatchedOrderType DEF ChangePatch
    <3>2. <<"WORK_ORDER_UPDATED">> \in Seq(Actions) /\ LocksFramed(s)
      BY <2>2 DEF Actions, LocksFramed, Typed, TypeOK
    <3> QED
      BY <1>1, <2>2, <3>1, <3>2, WriteOrderTyped
  <2> QED
    BY <1>4, <2>1, <2>2 DEF ChangePatch
<1>5. CASE ChangeStatus(s)
  <2> DEFINE answer == Transition(row[s].status, req[s].target)
  <2>1. CASE Rollback(s, answer)
    <3>1. answer \in Answers
      BY DEF Transition, Answers, Ok
    <3> HIDE DEF answer
    <3> QED
      BY <2>1, <3>1, RollbackTyped
  <2>2. CASE /\ Write(s, key[s], MovedOrder(row[s], req[s].target),
                      <<"WORK_ORDER_STATUS_CHANGED">>)
             /\ UNCHANGED held
    <3>1. MovedOrder(row[s], req[s].target) \in OrderRow
      BY <1>2, <1>5, RequestShape DEF ChangeStatus, MovedOrder, OrderRow
    <3>2. <<"WORK_ORDER_STATUS_CHANGED">> \in Seq(Actions) /\ LocksFramed(s)
      BY <2>2 DEF Actions, LocksFramed, Typed, TypeOK
    <3> QED
      BY <1>1, <2>2, <3>1, <3>2, WriteOrderTyped
  <2> QED
    BY <1>5, <2>1, <2>2 DEF ChangeStatus
<1>6. CASE ChangeAssign(s)
  <2>1. CASE Rollback(s, "INVALID_ASSIGNMENT_STATE") \/ Rollback(s, "ALREADY_ASSIGNED")
    BY <2>1, RollbackTyped DEF Answers
  <2>2. CASE Proceed(s, "ShareTarget")
    <3>1. req[s].op \in Serving("ShareTarget")
      BY <1>6 DEF ChangeAssign, Serving
    <3>2. "ShareTarget" \in Holding /\ "ShareTarget" \in Statements \ {"idle", "InsertAudit"}
      BY DEF Holding, Statements
    <3> QED
      BY <1>2, <2>2, <3>1, <3>2, ProceedTyped
  <2> QED
    BY <1>6, <2>1, <2>2 DEF ChangeAssign
<1> QED
  BY <1>3, <1>4, <1>5, <1>6 DEF Change

LEMMA ShareTargetTyped ==
  ASSUME Typed, NEW s \in Sessions, ShareTarget(s)
  PROVE  Typed'
<1> DEFINE u == req[s].target
           actions == AssignActions(row[s].status)
<1>1. pc[s] = "ShareTarget"
  BY DEF ShareTarget, At
<1>2. CASE Rollback(s, "INVALID_ASSIGNEE")
  BY <1>2, RollbackTyped DEF Answers
<1>3. CASE ShareLockUser(s, u) /\ Write(s, key[s], AssignedOrder(row[s], u), actions)
  <2>1. req[s] \in AllRequests /\ req[s].op = "AssignOrder" /\ row[s] \in OrderRow
    BY <1>1, HeldOrder, InService DEF Serving
  <2>2. u \in Users
    BY <2>1, RequestShape
  <2>3. AssignedOrder(row[s], u) \in OrderRow
    BY <2>1, <2>2 DEF AssignedOrder, OrderRow, OrderStatuses
  <2>4. LocksFramed(s)
    <3>1. RowLock(u) \in Resources /\ "SHARE" \in Modes
      BY <2>2, RowResource DEF Keys, Modes
    <3> QED
      BY <1>3, <3>1, LockFrames DEF ShareLockUser
  <2>5. actions \in Seq(Actions)
    <3>1. /\ <<"WORK_ORDER_ASSIGNED">> \in Seq(Actions)
          /\ <<"WORK_ORDER_ASSIGNED", "WORK_ORDER_STATUS_CHANGED">> \in Seq(Actions)
      BY DEF Actions
    <3> QED
      BY <3>1 DEF AssignActions
  <2> HIDE DEF u, actions
  <2> QED
    BY <1>1, <1>3, <2>3, <2>4, <2>5, WriteOrderTyped
<1> QED
  BY <1>2, <1>3 DEF ShareTarget

-----------------------------------------------------------------------------
\* The end of a transaction.
LEMMA InsertAuditTyped ==
  ASSUME Typed, NEW s \in Sessions, InsertAudit(s)
  PROVE  Typed'
<1>1. Phase(s) /\ TypeOK /\ pc[s] = "InsertAudit"
  BY DEF Typed, PhaseOK, InsertAudit, At
<1>2. req[s] \in AllRequests /\ req[s].op \in Ops
  BY <1>1, InService
<1>3. LocksFramed(s)
  <2>1. CASE req[s].actor = Null
    BY <2>1 DEF InsertAudit, LocksFramed, Typed, TypeOK
  <2>2. CASE req[s].actor # Null
    <3>1. RowLock(req[s].actor) \in Resources /\ "KEY SHARE" \in Modes
      BY <1>2, <2>2, RequestShape, RowResource DEF Keys, Modes
    <3> QED
      BY <2>2, <3>1, LockFrames DEF InsertAudit
  <2> QED
    BY <2>1, <2>2
<1>4. pc' \in [Sessions -> Statements] /\ pc'[s] \in {"InsertAudit", "Commit"}
      /\ \A t \in Sessions \ {s} : pc'[t] = pc[t]
  BY <1>1 DEF InsertAudit, Goto, TypeOK, Statements
<1>5. logged' \in [Sessions -> Nat] /\ \A t \in Sessions \ {s} : logged'[t] = logged[t]
  <2>1. logged \in [Sessions -> Nat] /\ logged' = [logged EXCEPT ![s] = logged[s] + 1]
    BY <1>1 DEF InsertAudit, TypeOK
  <2>2. logged[s] + 1 \in Nat
    BY <2>1
  <2> QED
    BY <2>1, <2>2, Zenon
<1>6. UNCHANGED <<tables, req, key, wait, row, next, acts, seen, reply>>
  BY DEF InsertAudit
<1>7. TypeOK'
  BY <1>1, <1>3, <1>4, <1>5, <1>6 DEF TypeOK, tables, LocksFramed
<1>8. Phase(s)'
  <2>1. req[s].op \in Serving("InsertAudit") /\ req[s].op \in Serving("Commit")
    BY <1>2 DEF Serving
  <2> QED
    BY <1>1, <1>4, <1>6, <2>1 DEF Phase, RowFor, Opening, Holding, Closing
<1>9. OthersKeep(s)
  BY <1>3, <1>4, <1>5, <1>6 DEF OthersKeep, LocksFramed
<1> QED
  BY <1>7, <1>8, <1>9, OneSession

LEMMA ApplyTyped ==
  ASSUME Typed, NEW s \in Sessions, Apply(s)
  PROVE  TablesOK'
<1>1. Phase(s) /\ TypeOK
  BY DEF Typed, PhaseOK
<1>2. CASE next[s] = Null
  <2>1. UNCHANGED tables
    BY <1>1, <1>2 DEF Apply, tables, Phase, TypeOK
  <2> QED
    BY <1>1, <2>1 DEF tables, TablesOK, TypeOK
<1>3. CASE next[s] # Null
  <2>1. /\ key[s] \in Users => next[s] \in UserRow
        /\ key[s] \in Assets => next[s] \in AssetRow \cup {Gone}
        /\ key[s] \in Orders => next[s] \in OrderRow
        /\ key[s] \in Keys
    BY <1>1, <1>3, IdsAssumption DEF Phase, RowFor, Keys
  <2>2. NewValue(s) \in Snapshots \cup {Gone}
    <3>1. CASE key[s] \in Users
      <4>1. next[s] \in UserRow /\ NewValue(s) = UserSnapshot(next[s])
        BY <1>3, <2>1, <3>1 DEF NewValue, Snapshot
      <4> QED
        BY <4>1 DEF UserSnapshot, UserRow, Snapshots
    <3>2. CASE key[s] \notin Users
      <4>1. next[s] \in AssetRow \cup OrderRow \cup {Gone} /\ NewValue(s) = next[s]
        BY <2>1, <3>2 DEF NewValue, Snapshot, Keys
      <4> QED
        BY <4>1 DEF Snapshots
    <3> QED
      BY <3>1, <3>2
  <2> QED
    BY <1>1, <2>1, <2>2 DEF Apply, TablesOK, TypeOK
<1> QED
  BY <1>2, <1>3

LEMMA CommitTyped ==
  ASSUME Typed, NEW s \in Sessions, Commit(s)
  PROVE  Typed'
<1>1. TablesOK' /\ End(s, Ok)
  BY ApplyTyped DEF Commit
<1> QED
  BY <1>1, EndTyped DEF Answers

LEMMA ResolveTyped ==
  ASSUME Typed, NEW s \in Sessions, Resolve(s)
  PROVE  Typed'
<1>1. TablesOK'
  <2>1. CASE Apply(s)
    BY <2>1, ApplyTyped
  <2>2. CASE UNCHANGED tables
    BY <2>2 DEF tables, Typed, TypeOK, TablesOK
  <2> QED
    BY <2>1, <2>2 DEF Resolve
<1>2. reply[s] \in Answers \cup {Null} /\ End(s, reply[s])
  BY DEF Resolve, Typed, TypeOK
<1> QED
  BY <1>1, <1>2, EndTyped

LEMMA CommitLostTyped ==
  ASSUME Typed, NEW s \in Sessions, CommitLost(s)
  PROVE  Typed'
<1>1. Phase(s) /\ TypeOK /\ pc[s] = "Commit"
  BY DEF Typed, PhaseOK, CommitLost, At
<1>2. TypeOK'
  BY <1>1 DEF CommitLost, Goto, tables, TypeOK, Statements, Answers
<1>3. Phase(s)'
  <2>1. pc'[s] = "Limbo"
    BY <1>1 DEF CommitLost, Goto, TypeOK
  <2>2. req[s].op \in Serving("Limbo")
    BY <1>1, InService DEF Serving
  <2> QED
    BY <1>1, <2>1, <2>2 DEF CommitLost, Phase, RowFor, Opening, Holding, Closing
<1>4. OthersKeep(s)
  BY <1>1 DEF CommitLost, Goto, TypeOK, OthersKeep
<1> QED
  BY <1>2, <1>3, <1>4, OneSession

LEMMA AbortTyped ==
  ASSUME Typed, NEW s \in Sessions, Abort(s)
  PROVE  Typed'
BY RollbackTyped DEF Abort, Answers

-----------------------------------------------------------------------------
LEMMA InitTyped ==
  ASSUME Init
  PROVE  Typed
<1>1. TypeOK
  <2>1. trail \in [Keys -> Snapshots \cup {Null, Gone}]
    <3>1. ASSUME NEW k \in Users PROVE Snapshot(k, InitUsers[k]) \in Snapshots \cup {Null}
      BY RowsAssumption DEF Snapshot, UserSnapshot, Snapshots, UserRow
    <3>2. ASSUME NEW k \in Assets PROVE InitAssets[k] \in Snapshots \cup {Null, Gone}
      BY RowsAssumption DEF Snapshots
    <3>3. ASSUME NEW k \in Orders PROVE InitOrders[k] \in Snapshots \cup {Null}
      BY RowsAssumption DEF Snapshots
    <3> QED
      BY <3>1, <3>2, <3>3, IdsAssumption DEF Init, Keys
  <2>2. <<>> \in Seq(Actions)
    OBVIOUS
  <2> QED
    BY <2>1, <2>2, RowsAssumption DEF Init, TypeOK, Statements
<1>2. PhaseOK
  <2>1. "idle" \notin Holding /\ "idle" # "InsertAudit"
    BY DEF Holding
  <2> QED
    BY <2>1 DEF Init, PhaseOK, Phase
<1> QED
  BY <1>1, <1>2 DEF Typed

LEMMA StepTyped ==
  ASSUME Typed, [Next]_vars
  PROVE  Typed'
<1>1. ASSUME NEW s \in Sessions, Receive(s) PROVE Typed'
  BY <1>1, ReceiveTyped
<1>2. ASSUME NEW s \in Sessions, ShareUser(s) \/ CheckActor(s) PROVE Typed'
  BY <1>2, ShareUserTyped, CheckActorTyped
<1>3. ASSUME NEW s \in Sessions, UserStep(s) PROVE Typed'
  BY <1>3, LockUserAdministrationTyped, HasAdministratorTyped, InsertUserTyped, LockUserTyped,
     CountActiveAdminsTyped, UserHasActiveOrdersTyped, UpdateUserTyped DEF UserStep
<1>4. ASSUME NEW s \in Sessions, AssetStep(s) PROVE Typed'
  BY <1>4, InsertAssetTyped, LockAssetTyped, PatchAssetTyped, AssetHasOpenOrdersTyped,
     AssetHasOrdersTyped, DeleteAssetTyped DEF AssetStep
<1>5. ASSUME NEW s \in Sessions, WorkOrderStep(s) PROVE Typed'
  BY <1>5, ShareAssetTyped, InsertWorkOrderTyped, LockWorkOrderTyped, ChangeTyped,
     ShareTargetTyped DEF WorkOrderStep
<1>6. ASSUME NEW s \in Sessions,
             InsertAudit(s) \/ Commit(s) \/ Resolve(s) \/ CommitLost(s) \/ Abort(s)
      PROVE  Typed'
  BY <1>6, InsertAuditTyped, CommitTyped, ResolveTyped, CommitLostTyped, AbortTyped
<1>7. CASE UNCHANGED vars
  BY <1>7 DEF vars, Typed, TypeOK, PhaseOK, Phase
<1> QED
  BY <1>1, <1>2, <1>3, <1>4, <1>5, <1>6, <1>7 DEF Next, Step

\* Every variable keeps its type, and every transaction the row and the request that
\* belong to the statement it is about to run, however the services interleave.
THEOREM TypesAlways == Spec => []Typed
<1>1. Init => Typed
  BY InitTyped
<1>2. Typed /\ [Next]_vars => Typed'
  BY StepTyped
<1> QED
  BY <1>1, <1>2, PTL DEF Spec

-----------------------------------------------------------------------------
(***************************************************************************)
(* The inductive invariant: locks in conflict are never held together; a   *)
(* row that was read to be changed is locked; an id that is being inserted *)
(* belongs to nobody else; and a write leaves InsertAudit with its audit.  *)
(***************************************************************************)
Exclusive ==
  \A s, t \in Sessions : s # t =>
    \A r \in Resources, m, n \in Modes :
      <<r, m>> \in held[s] /\ <<r, n>> \in held[t] => ~Conflict(m, n)

RowsLocked == \A s \in Sessions : row[s] # Null => <<RowLock(key[s]), "UPDATE">> \in held[s]

InsertsApart ==
  \A s \in Sessions :
    next[s] # Null /\ row[s] = Null =>
      Row(key[s]) = Null /\ \A t \in Sessions \ {s} : key[t] # key[s]

Audited == \A s \in Sessions : next[s] # Null /\ pc[s] # "InsertAudit" => logged[s] > 0

Locked == Exclusive /\ RowsLocked /\ NoLostUpdate /\ InsertsApart /\ Audited /\ TrailMatchesTables

Inv == Typed /\ Locked

-----------------------------------------------------------------------------
(***************************************************************************)
(* The kinds of steps, by what they do to locks, rows and tables.          *)
(***************************************************************************)
LocksGrow(s) == UNCHANGED held \/ \E r \in Resources, m \in Modes : Lock(s, r, m)

Quiet(s) ==
  /\ UNCHANGED <<tables, key, row, next, logged>> /\ LocksGrow(s)
  /\ next[s] = Null \/ pc[s] # "InsertAudit"
  /\ \A t \in Sessions \ {s} : pc'[t] = pc[t]

Holds(s) ==
  /\ next[s] = Null
  /\ \E k \in Keys, statement \in Statements :
       Row(k) # Null /\ Lock(s, RowLock(k), "UPDATE") /\ Hold(s, k, Row(k), statement)

Changes(s) ==
  /\ row[s] # Null /\ LocksGrow(s)
  /\ \E r \in Rows \cup {Gone}, actions \in Seq(Actions) : Write(s, key[s], r, actions)

Inserts(s) ==
  /\ row[s] = Null /\ LocksGrow(s)
  /\ \E k \in Keys, r \in Rows, actions \in Seq(Actions) :
       Row(k) = Null /\ (\A t \in Sessions : key[t] # k) /\ Write(s, k, r, actions)

Ends(s) ==
  /\ UNCHANGED tables \/ (pc[s] \in {"Commit", "Limbo"} /\ Apply(s))
  /\ \E answer : End(s, answer)

-----------------------------------------------------------------------------
LEMMA GrowKeeps ==
  ASSUME Typed, Exclusive, NEW s \in Sessions, LocksGrow(s)
  PROVE  Exclusive' /\ \A t \in Sessions : held[t] \subseteq held'[t]
<1>1. CASE UNCHANGED held
  BY <1>1 DEF Exclusive
<1>2. ASSUME NEW r \in Resources, NEW m \in Modes, Lock(s, r, m)
      PROVE  Exclusive' /\ \A t \in Sessions : held[t] \subseteq held'[t]
  <2>1. /\ held'[s] = held[s] \cup {<<r, m>>}
        /\ \A t \in Sessions \ {s} : held'[t] = held[t]
    BY <1>2 DEF Lock, Typed, TypeOK
  <2>2. \A t \in Sessions \ {s}, n \in Modes : <<r, n>> \in held[t] => ~Conflict(m, n)
    BY <1>2 DEF Lock, Grantable
  <2>3. \A a, b : Conflict(a, b) <=> Conflict(b, a)
    BY DEF Conflict
  <2>4. ASSUME NEW t \in Sessions, NEW u \in Sessions, t # u,
               NEW q \in Resources, NEW a \in Modes, NEW b \in Modes,
               <<q, a>> \in held'[t], <<q, b>> \in held'[u]
        PROVE  ~Conflict(a, b)
    <3>1. CASE <<q, a>> \in held[t] /\ <<q, b>> \in held[u]
      BY <2>4, <3>1 DEF Exclusive
    <3>2. CASE <<q, a>> \notin held[t]
      <4>1. t = s /\ q = r /\ a = m
        BY <2>1, <2>4, <3>2
      <4> QED
        BY <2>1, <2>2, <2>4, <4>1
    <3>3. CASE <<q, b>> \notin held[u]
      <4>1. u = s /\ q = r /\ b = m
        BY <2>1, <2>4, <3>3
      <4> QED
        BY <2>1, <2>2, <2>3, <2>4, <4>1
    <3> QED
      BY <3>1, <3>2, <3>3
  <2> QED
    BY <2>1, <2>4 DEF Exclusive
<1> QED
  BY <1>1, <1>2 DEF LocksGrow

\* The rows of the tables, and the locks on them, are those of the state before.
LEMMA RowUnchanged ==
  ASSUME UNCHANGED tables, NEW k
  PROVE  Row(k)' = Row(k) /\ Snapshot(k, Row(k))' = Snapshot(k, Row(k))
BY DEF tables, Row, Snapshot, UserSnapshot

LEMMA QuietKeeps ==
  ASSUME Inv, NEW s \in Sessions, Quiet(s)
  PROVE  Locked'
<1>1. Exclusive' /\ \A t \in Sessions : held[t] \subseteq held'[t]
  BY GrowKeeps DEF Inv, Locked, Quiet
<1>2. key' = key /\ row' = row /\ next' = next /\ logged' = logged /\ UNCHANGED tables
  BY DEF Quiet
<1>3. \A k : Row(k)' = Row(k) /\ Snapshot(k, Row(k))' = Snapshot(k, Row(k))
  BY <1>2, RowUnchanged
<1>4. RowsLocked'
  BY <1>1, <1>2 DEF Inv, Locked, RowsLocked, RowLock
<1>5. NoLostUpdate' /\ InsertsApart'
  BY <1>2, <1>3 DEF Inv, Locked, NoLostUpdate, InsertsApart
<1>6. Audited'
  <2>1. \A t \in Sessions : next[t] # Null /\ pc'[t] # "InsertAudit" => pc[t] # "InsertAudit"
    BY DEF Quiet
  <2> QED
    BY <1>2, <2>1 DEF Inv, Locked, Audited
<1>7. TrailMatchesTables'
  BY <1>2, <1>3 DEF Inv, Locked, TrailMatchesTables, tables
<1> QED
  BY <1>1, <1>4, <1>5, <1>6, <1>7 DEF Locked

LEMMA HoldsKeeps ==
  ASSUME Inv, NEW s \in Sessions, Holds(s)
  PROVE  Locked'
<1>1. PICK k \in Keys, statement \in Statements :
        Row(k) # Null /\ Lock(s, RowLock(k), "UPDATE") /\ Hold(s, k, Row(k), statement)
  BY DEF Holds
<1>2. Exclusive' /\ \A t \in Sessions : held[t] \subseteq held'[t]
  <2>1. LocksGrow(s)
    BY <1>1, RowResource DEF LocksGrow, Modes
  <2> QED
    BY <2>1, GrowKeeps DEF Inv, Locked
<1>3. /\ key'[s] = k /\ row'[s] = Row(k) /\ <<RowLock(k), "UPDATE">> \in held'[s]
      /\ \A t \in Sessions \ {s} : key'[t] = key[t] /\ row'[t] = row[t] /\ pc'[t] = pc[t]
      /\ next' = next /\ logged' = logged /\ UNCHANGED tables /\ next[s] = Null
  BY <1>1 DEF Holds, Hold, Lock, Goto, Inv, Typed, TypeOK
<1>4. \A q : Row(q)' = Row(q) /\ Snapshot(q, Row(q))' = Snapshot(q, Row(q))
  BY <1>3, RowUnchanged
<1>5. RowsLocked'
  BY <1>2, <1>3 DEF Inv, Locked, RowsLocked, RowLock
<1>6. NoLostUpdate'
  BY <1>3, <1>4 DEF Inv, Locked, NoLostUpdate
<1>7. InsertsApart'
  <2>1. \A t \in Sessions : next[t] # Null /\ row'[t] = Null =>
          t # s /\ row[t] = Null /\ Row(key[t]) = Null /\ k # key[t]
    BY <1>1, <1>3 DEF Inv, Locked, InsertsApart
  <2> QED
    BY <1>3, <1>4, <2>1 DEF Inv, Locked, InsertsApart
<1>8. Audited'
  BY <1>3 DEF Inv, Locked, Audited
<1>9. TrailMatchesTables'
  BY <1>3, <1>4 DEF Inv, Locked, TrailMatchesTables, tables
<1> QED
  BY <1>2, <1>5, <1>6, <1>7, <1>8, <1>9 DEF Locked

\* What Write does, whichever the row.
LEMMA WriteFrames ==
  ASSUME Typed, NEW s \in Sessions, NEW k, NEW r, NEW actions, Write(s, k, r, actions)
  PROVE  /\ key'[s] = k /\ next'[s] = r /\ pc'[s] = "InsertAudit"
         /\ \A t \in Sessions \ {s} : key'[t] = key[t] /\ next'[t] = next[t] /\ pc'[t] = pc[t]
         /\ row' = row /\ logged' = logged /\ UNCHANGED tables
         /\ \A q : Row(q)' = Row(q) /\ Snapshot(q, Row(q))' = Snapshot(q, Row(q))
BY RowUnchanged DEF Write, Goto, Typed, TypeOK

LEMMA ChangesKeeps ==
  ASSUME Inv, NEW s \in Sessions, Changes(s)
  PROVE  Locked'
<1>1. PICK r \in Rows \cup {Gone}, actions \in Seq(Actions) : Write(s, key[s], r, actions)
  BY DEF Changes
<1>2. Exclusive' /\ \A t \in Sessions : held[t] \subseteq held'[t]
  BY GrowKeeps DEF Inv, Locked, Changes
<1>3. /\ \A t \in Sessions : key'[t] = key[t]
      /\ pc'[s] = "InsertAudit"
      /\ \A t \in Sessions \ {s} : next'[t] = next[t] /\ pc'[t] = pc[t]
      /\ row' = row /\ logged' = logged /\ UNCHANGED tables /\ row[s] # Null
      /\ \A q : Row(q)' = Row(q) /\ Snapshot(q, Row(q))' = Snapshot(q, Row(q))
  BY <1>1, WriteFrames DEF Changes, Inv
<1>4. RowsLocked'
  BY <1>2, <1>3 DEF Inv, Locked, RowsLocked, RowLock
<1>5. NoLostUpdate' /\ InsertsApart'
  BY <1>3 DEF Inv, Locked, NoLostUpdate, InsertsApart
<1>6. Audited'
  BY <1>3 DEF Inv, Locked, Audited
<1>7. TrailMatchesTables'
  BY <1>3 DEF Inv, Locked, TrailMatchesTables, tables
<1> QED
  BY <1>2, <1>4, <1>5, <1>6, <1>7 DEF Locked

LEMMA InsertsKeeps ==
  ASSUME Inv, NEW s \in Sessions, Inserts(s)
  PROVE  Locked'
<1>1. PICK k \in Keys, r \in Rows, actions \in Seq(Actions) :
        Row(k) = Null /\ (\A t \in Sessions : key[t] # k) /\ Write(s, k, r, actions)
  BY DEF Inserts
<1>2. Exclusive' /\ \A t \in Sessions : held[t] \subseteq held'[t]
  BY GrowKeeps DEF Inv, Locked, Inserts
<1>3. /\ key'[s] = k /\ pc'[s] = "InsertAudit"
      /\ \A t \in Sessions \ {s} : key'[t] = key[t] /\ next'[t] = next[t] /\ pc'[t] = pc[t]
      /\ row' = row /\ logged' = logged /\ UNCHANGED tables /\ row[s] = Null
      /\ \A q : Row(q)' = Row(q) /\ Snapshot(q, Row(q))' = Snapshot(q, Row(q))
  BY <1>1, WriteFrames DEF Inserts, Inv
<1>4. RowsLocked'
  BY <1>2, <1>3 DEF Inv, Locked, RowsLocked, RowLock
<1>5. NoLostUpdate'
  BY <1>3 DEF Inv, Locked, NoLostUpdate
<1>6. InsertsApart'
  BY <1>1, <1>3 DEF Inv, Locked, InsertsApart
<1>7. Audited'
  BY <1>3 DEF Inv, Locked, Audited
<1>8. TrailMatchesTables'
  BY <1>3 DEF Inv, Locked, TrailMatchesTables, tables
<1> QED
  BY <1>2, <1>4, <1>5, <1>6, <1>7, <1>8 DEF Locked

LEMMA AuditKeeps ==
  ASSUME Inv, NEW s \in Sessions, InsertAudit(s)
  PROVE  Locked'
<1>1. Exclusive' /\ \A t \in Sessions : held[t] \subseteq held'[t]
  <2>1. LocksGrow(s)
    <3>1. req[s] \in AllRequests
      BY InService DEF InsertAudit, At, Inv
    <3>2. req[s].actor # Null => RowLock(req[s].actor) \in Resources
      BY <3>1, RequestShape, RowResource DEF Keys
    <3> QED
      BY <3>2 DEF InsertAudit, LocksGrow, Modes
  <2> QED
    BY <2>1, GrowKeeps DEF Inv, Locked
<1>2. /\ key' = key /\ row' = row /\ next' = next /\ UNCHANGED tables
      /\ logged[s] \in Nat /\ logged'[s] = logged[s] + 1
      /\ \A t \in Sessions \ {s} : logged'[t] = logged[t] /\ pc'[t] = pc[t]
  BY DEF InsertAudit, Goto, Inv, Typed, TypeOK
<1>3. \A k : Row(k)' = Row(k) /\ Snapshot(k, Row(k))' = Snapshot(k, Row(k))
  BY <1>2, RowUnchanged
<1>4. RowsLocked'
  BY <1>1, <1>2 DEF Inv, Locked, RowsLocked, RowLock
<1>5. NoLostUpdate' /\ InsertsApart'
  BY <1>2, <1>3 DEF Inv, Locked, NoLostUpdate, InsertsApart
<1>6. Audited'
  BY <1>2 DEF Inv, Locked, Audited
<1>7. TrailMatchesTables'
  BY <1>2, <1>3 DEF Inv, Locked, TrailMatchesTables, tables
<1> QED
  BY <1>1, <1>4, <1>5, <1>6, <1>7 DEF Locked

(***************************************************************************)
(* The end of a transaction, with its writes or without them.              *)
(***************************************************************************)
\* The key of a write, and what a session that ends leaves to the others.
LEMMA WrittenKey ==
  ASSUME Typed, NEW s \in Sessions, next[s] # Null
  PROVE  key[s] \in Keys
<1>1. Phase(s)
  BY DEF Typed, PhaseOK
<1> QED
  BY <1>1 DEF Phase, RowFor, Keys

LEMMA ApplyRows ==
  ASSUME Typed, NEW s \in Sessions, Apply(s), NEW k \in Keys
  PROVE  Row(k)' = IF next[s] # Null /\ k = key[s] THEN next[s] ELSE Row(k)
<1>1. /\ users \in [Users -> UserRow \cup {Null}]
      /\ assets \in [Assets -> AssetRow \cup {Null, Gone}]
      /\ orders \in [Orders -> OrderRow \cup {Null}]
  BY DEF Typed, TypeOK
<1>2. CASE k \in Users
  BY <1>1, <1>2, IdsAssumption DEF Apply, Row
<1>3. CASE k \in Assets
  BY <1>1, <1>3, IdsAssumption DEF Apply, Row
<1>4. CASE k \in Orders
  BY <1>1, <1>4, IdsAssumption DEF Apply, Row
<1> QED
  BY <1>2, <1>3, <1>4 DEF Keys

LEMMA EndKeeps ==
  ASSUME Inv, NEW s \in Sessions, Ends(s)
  PROVE  Locked'
<1>1. /\ key'[s] = Null /\ row'[s] = Null /\ next'[s] = Null /\ held'[s] = {}
      /\ \A t \in Sessions \ {s} :
           /\ key'[t] = key[t] /\ row'[t] = row[t] /\ next'[t] = next[t]
           /\ held'[t] = held[t] /\ logged'[t] = logged[t] /\ pc'[t] = pc[t]
  BY DEF Ends, End, Inv, Typed, TypeOK
<1>2. Exclusive' /\ RowsLocked' /\ Audited'
  BY <1>1 DEF Inv, Locked, Exclusive, RowsLocked, Audited, RowLock
<1>3. CASE UNCHANGED tables
  <2>1. \A k : Row(k)' = Row(k) /\ Snapshot(k, Row(k))' = Snapshot(k, Row(k))
    BY <1>3, RowUnchanged
  <2>2. NoLostUpdate'
    BY <1>1, <2>1 DEF Inv, Locked, NoLostUpdate
  <2>3. InsertsApart'
    <3>1. \A t \in Sessions : next[t] # Null => key[t] # Null
      BY WrittenKey, IdsAssumption DEF Inv
    <3> QED
      BY <1>1, <2>1, <3>1 DEF Inv, Locked, InsertsApart
  <2>4. TrailMatchesTables'
    BY <1>3, <2>1 DEF Inv, Locked, TrailMatchesTables, tables
  <2> QED
    BY <1>2, <2>2, <2>3, <2>4 DEF Locked
<1>4. CASE pc[s] \in {"Commit", "Limbo"} /\ Apply(s)
  <2>1. ASSUME NEW k \in Keys
        PROVE  Row(k)' = IF next[s] # Null /\ k = key[s] THEN next[s] ELSE Row(k)
    BY <1>4, ApplyRows DEF Inv
  <2>2. ASSUME NEW t \in Sessions \ {s}, row[t] # Null
        PROVE  row[t] = Row(key[t])'
    <3>1. row[t] = Row(key[t]) /\ <<RowLock(key[t]), "UPDATE">> \in held[t]
      BY <2>2 DEF Inv, Locked, NoLostUpdate, RowsLocked
    <3>2. key[t] \in Keys
      <4>1. Phase(t)
        BY DEF Inv, Typed, PhaseOK
      <4> QED
        BY <2>2, <4>1 DEF Phase, RowFor, Keys
    <3>3. ~(next[s] # Null /\ key[t] = key[s])
      <4> SUFFICES ASSUME next[s] # Null, key[t] = key[s] PROVE FALSE
        OBVIOUS
      <4>1. CASE row[s] = Null
        BY <2>2, <3>1, <4>1 DEF Inv, Locked, InsertsApart
      <4>2. CASE row[s] # Null
        <5>1. <<RowLock(key[t]), "UPDATE">> \in held[s]
          BY <4>2 DEF Inv, Locked, RowsLocked
        <5>2. RowLock(key[t]) \in Resources /\ "UPDATE" \in Modes /\ Conflict("UPDATE", "UPDATE")
          BY <3>2, RowResource DEF Modes, Conflict
        <5> QED
          BY <3>1, <5>1, <5>2 DEF Inv, Locked, Exclusive
      <4> QED
        BY <4>1, <4>2
    <3> QED
      BY <1>1, <2>1, <3>1, <3>2, <3>3
  <2>3. NoLostUpdate'
    BY <1>1, <2>2 DEF NoLostUpdate
  <2>4. InsertsApart'
    <3>1. ASSUME NEW t \in Sessions \ {s}, next[t] # Null, row[t] = Null
          PROVE  Row(key[t])' = Null /\ \A u \in Sessions \ {t} : key'[u] # key[t]
      <4>1. key[t] \in Keys /\ key[t] # Null
        BY <3>1, WrittenKey, IdsAssumption DEF Inv
      <4>2. Row(key[t]) = Null /\ \A u \in Sessions \ {t} : key[u] # key[t]
        BY <3>1 DEF Inv, Locked, InsertsApart
      <4> QED
        BY <1>1, <2>1, <4>1, <4>2
    <3> QED
      BY <1>1, <3>1 DEF InsertsApart
  <2>5. TrailMatchesTables'
    <3>1. next[s] # Null <=> logged[s] > 0
      <4>1. Phase(s) /\ pc[s] # "InsertAudit"
        BY <1>4 DEF Inv, Typed, PhaseOK
      <4> QED
        BY <4>1 DEF Phase, Inv, Locked, Audited
    <3>2. trail \in [Keys -> Snapshots \cup {Null, Gone}]
      BY DEF Inv, Typed, TypeOK
    <3>3. \A k \in Keys : trail'[k] = IF next[s] # Null /\ k = key[s] THEN Snapshot(k, next[s])
                                                                     ELSE trail[k]
      BY <1>4, <3>1, <3>2 DEF Apply, NewValue
    <3>4. \A k \in Keys : trail[k] = Snapshot(k, Row(k))
      BY DEF Inv, Locked, TrailMatchesTables
    <3>5. \A k \in Keys : Snapshot(k, Row(k))' = Snapshot(k, Row(k)')
      BY DEF Snapshot, UserSnapshot
    <3> QED
      BY <2>1, <3>3, <3>4, <3>5 DEF TrailMatchesTables
  <2> QED
    BY <1>2, <2>3, <2>4, <2>5 DEF Locked
<1> QED
  BY <1>3, <1>4 DEF Ends

-----------------------------------------------------------------------------
(***************************************************************************)
(* Every step is of one of the kinds.                                      *)
(***************************************************************************)
Kinds(s) == Quiet(s) \/ Holds(s) \/ Changes(s) \/ Inserts(s) \/ InsertAudit(s) \/ Ends(s)

LEMMA NotWritten ==
  ASSUME Typed, NEW s \in Sessions, pc[s] \notin Closing
  PROVE  next[s] = Null /\ pc[s] # "InsertAudit"
<1>1. Phase(s) /\ pc[s] \in Statements
  BY DEF Typed, TypeOK, PhaseOK
<1> QED
  BY <1>1 DEF Phase, Opening, Closing

LEMMA ProceedQuiet ==
  ASSUME Typed, NEW s \in Sessions, pc[s] \notin Closing, NEW statement, Proceed(s, statement)
  PROVE  Quiet(s)
BY NotWritten DEF Quiet, LocksGrow, Proceed, Goto, Typed, TypeOK

LEMMA RollbackEnds ==
  ASSUME NEW s \in Sessions, NEW answer, Rollback(s, answer)
  PROVE  Ends(s)
BY DEF Rollback, Ends

LEMMA ReceiveKind ==
  ASSUME Typed, NEW s \in Sessions, Receive(s)
  PROVE  Kinds(s)
<1>1. pc[s] \notin Closing
  BY DEF Receive, At, Closing
<1>2. PICK r \in Requests : Accept(s, r) \/ Refuse(s, r)
  BY DEF Receive
<1>3. Quiet(s)
  BY <1>1, <1>2, NotWritten DEF Accept, Refuse, Goto, Quiet, LocksGrow, Typed, TypeOK
<1> QED
  BY <1>3 DEF Kinds

LEMMA ShareUserKind ==
  ASSUME Typed, NEW s \in Sessions, ShareUser(s)
  PROVE  Kinds(s)
<1>1. pc[s] \notin Closing
  BY DEF ShareUser, At, Closing
<1>2. LocksGrow(s)
  <2>1. PICK u \in wait[s] : UNCHANGED held \/ ShareLockUser(s, u)
    BY DEF ShareUser
  <2>2. RowLock(u) \in Resources
    BY RowResource DEF Typed, TypeOK, Keys
  <2> QED
    BY <2>1, <2>2 DEF ShareLockUser, LocksGrow, Modes
<1>3. \A t \in Sessions \ {s} : pc'[t] = pc[t]
  BY DEF ShareUser, Goto, Typed, TypeOK
<1>4. Quiet(s)
  BY <1>1, <1>2, <1>3, NotWritten DEF ShareUser, Quiet
<1> QED
  BY <1>4 DEF Kinds

LEMMA CheckActorKind ==
  ASSUME Typed, NEW s \in Sessions, CheckActor(s)
  PROVE  Kinds(s)
<1>1. pc[s] \notin Closing
  BY DEF CheckActor, At, Closing
<1>2. Proceed(s, AfterCheck(req[s].op)) \/ \E answer : Rollback(s, answer)
  BY DEF CheckActor, Proceed
<1> QED
  BY <1>1, <1>2, ProceedQuiet, RollbackEnds DEF Kinds

LEMMA UserKind ==
  ASSUME Typed, NEW s \in Sessions, UserStep(s)
  PROVE  Kinds(s)
<1>1. CASE LockUserAdministration(s)
  <2>1. pc[s] \notin Closing
    BY <1>1 DEF LockUserAdministration, At, Closing
  <2>2. LocksGrow(s)
    BY <1>1 DEF LockUserAdministration, LocksGrow, Resources, AdministrationMode, Modes
  <2>3. Quiet(s)
    BY <1>1, <2>1, <2>2, NotWritten DEF LockUserAdministration, Goto, Quiet, Typed, TypeOK
  <2> QED
    BY <2>3 DEF Kinds
<1>2. CASE HasAdministrator(s)
  <2>1. pc[s] \notin Closing
    BY <1>2 DEF HasAdministrator, At, Closing
  <2> QED
    BY <1>2, <2>1, ProceedQuiet, RollbackEnds DEF HasAdministrator, Kinds
<1>3. CASE InsertUser(s)
  <2>1. row[s] = Null
    BY <1>3, InService DEF InsertUser, At, Opening, Statements, Holding, Closing
  <2>2. ASSUME NEW u \in Fresh(users), NEW actions \in Seq(Actions),
               Write(s, u, NewUser(req[s]), actions), UNCHANGED held
        PROVE  Inserts(s)
    <3>1. /\ u \in Users /\ u \in Keys /\ users[u] = Null
          /\ \A t \in Sessions : key[t] # u
      BY DEF Fresh, Typed, TypeOK, Keys
    <3>2. Row(u) = Null
      BY <3>1, IdsAssumption DEF Row
    <3>3. NewUser(req[s]) \in Rows
      <4>1. req[s] \in AllRequests /\ req[s].op \in {"CreateUser", "Bootstrap"}
        BY <1>3, InService DEF InsertUser, At, Serving
      <4> QED
        BY <4>1, RequestShape DEF NewUser, UserRow, Rows
    <3> QED
      BY <2>1, <2>2, <3>1, <3>2, <3>3 DEF Inserts, LocksGrow
  <2>3. <<"USER_BOOTSTRAPPED">> \in Seq(Actions) /\ <<"USER_CREATED">> \in Seq(Actions)
    BY DEF Actions
  <2> QED
    BY <1>3, <2>2, <2>3, RollbackEnds DEF InsertUser, Kinds
<1>4. CASE LockUser(s)
  <2> DEFINE statement == CASE Deactivates(PatchedUser(users[req[s].id], req[s]),
                                           users[req[s].id])     -> "CountActiveAdmins"
                            [] SameUser(PatchedUser(users[req[s].id], req[s]),
                                        users[req[s].id], req[s]) -> "Commit"
                            [] OTHER                             -> "UpdateUser"
  <2>1. req[s] \in AllRequests /\ req[s].op = "PatchUser"
    BY <1>4, InService DEF LockUser, At, Serving
  <2>2. req[s].id \in Users /\ req[s].id \in Keys /\ Row(req[s].id) = users[req[s].id]
    BY <2>1, RequestShape, IdsAssumption DEF Keys, Row
  <2>3. statement \in Statements
    BY DEF Statements
  <2>4. \/ Rollback(s, "USER_NOT_FOUND")
        \/ /\ users[req[s].id] # Null
           /\ Lock(s, RowLock(req[s].id), "UPDATE")
           /\ Hold(s, req[s].id, users[req[s].id], statement)
    BY <1>4 DEF LockUser, LockUserMode
  <2>5. next[s] = Null
    BY <1>4, NotWritten DEF LockUser, At, Closing
  <2> HIDE DEF statement
  <2> QED
    BY <2>2, <2>3, <2>4, <2>5, RollbackEnds DEF Holds, Kinds
<1>5. CASE CountActiveAdmins(s)
  <2>1. pc[s] \notin Closing
    BY <1>5 DEF CountActiveAdmins, At, Closing
  <2>2. Quiet(s)
    BY <1>5, <2>1, NotWritten DEF CountActiveAdmins, Goto, Quiet, LocksGrow, Typed, TypeOK
  <2> QED
    BY <2>2 DEF Kinds
<1>6. CASE UserHasActiveOrders(s)
  <2>1. pc[s] \notin Closing
    BY <1>6 DEF UserHasActiveOrders, At, Closing
  <2>2. Proceed(s, "UpdateUser") \/ \E answer : Rollback(s, answer)
    BY <1>6 DEF UserHasActiveOrders
  <2> QED
    BY <2>1, <2>2, ProceedQuiet, RollbackEnds DEF Kinds
<1>7. CASE UpdateUser(s)
  <2>1. pc[s] \in Holding
    BY <1>7 DEF UpdateUser, At, Holding
  <2>2. /\ req[s] \in AllRequests /\ req[s].op = "PatchUser"
        /\ key[s] = req[s].id /\ row[s] # Null /\ RowFor(key[s], row[s])
    BY <1>7, <2>1, InService DEF UpdateUser, At, Serving, Holding
  <2>3. PatchedUser(row[s], req[s]) \in Rows
    <3>1. key[s] \in Users
      BY <2>2, RequestShape
    <3> QED
      BY <2>2, <3>1, IdsAssumption, PatchedUserType DEF RowFor, Rows
  <2>4. <<"USER_UPDATED">> \in Seq(Actions)
    BY DEF Actions
  <2>5. \/ Rollback(s, "EMAIL_CONFLICT")
        \/ Write(s, key[s], PatchedUser(row[s], req[s]), <<"USER_UPDATED">>) /\ UNCHANGED held
    BY <1>7 DEF UpdateUser
  <2> QED
    BY <2>2, <2>3, <2>4, <2>5, RollbackEnds DEF Changes, LocksGrow, Kinds
<1> QED
  BY <1>1, <1>2, <1>3, <1>4, <1>5, <1>6, <1>7 DEF UserStep

LEMMA AssetKind ==
  ASSUME Typed, NEW s \in Sessions, AssetStep(s)
  PROVE  Kinds(s)
<1>1. ASSUME pc[s] \in {"PatchAsset", "AssetHasOpenOrders"}, WriteAsset(s)
      PROVE  Kinds(s)
  <2>1. row[s] \in AssetRow /\ req[s] \in AllRequests /\ req[s].op = "PatchAsset"
    BY <1>1, HeldAsset, InService DEF Serving
  <2>2. row[s] # Null /\ PatchedAsset(row[s], req[s]) \in Rows
    BY <2>1, PatchedAssetType, RowsAssumption DEF Rows
  <2>3. <<"ASSET_UPDATED">> \in Seq(Actions)
    BY DEF Actions
  <2> QED
    BY <1>1, <2>2, <2>3 DEF WriteAsset, Changes, LocksGrow, Kinds
<1>2. CASE InsertAsset(s)
  <2>1. row[s] = Null /\ req[s] \in AllRequests /\ req[s].op = "CreateAsset"
    BY <1>2, InService DEF InsertAsset, At, Serving, Opening, Statements, Holding, Closing
  <2>2. ASSUME NEW a \in Fresh(assets), Lock(s, CodeLock(req[s].code), "UPDATE"),
               Write(s, a, NewAsset(req[s]), <<"ASSET_CREATED">>)
        PROVE  Inserts(s)
    <3>1. /\ a \in Assets /\ a \in Keys /\ assets[a] = Null
          /\ \A t \in Sessions : key[t] # a
      BY DEF Fresh, Typed, TypeOK, Keys
    <3>2. Row(a) = Null
      BY <3>1, IdsAssumption DEF Row
    <3>3. NewAsset(req[s]) \in Rows
      BY <2>1, RequestShape DEF NewAsset, AssetRow, Rows
    <3>4. LocksGrow(s)
      BY <2>1, <2>2, RequestShape DEF LocksGrow, Resources, Modes
    <3>5. <<"ASSET_CREATED">> \in Seq(Actions)
      BY DEF Actions
    <3> QED
      BY <2>1, <2>2, <3>1, <3>2, <3>3, <3>4, <3>5 DEF Inserts
  <2> QED
    BY <1>2, <2>2, RollbackEnds DEF InsertAsset, Kinds
<1>3. CASE LockAsset(s)
  <2> DEFINE statement == IF req[s].op = "DeleteAsset" THEN "AssetHasOrders" ELSE "PatchAsset"
  <2>1. req[s] \in AllRequests /\ req[s].op \in {"PatchAsset", "DeleteAsset"}
    BY <1>3, InService DEF LockAsset, At, Serving
  <2>2. req[s].id \in Assets /\ req[s].id \in Keys /\ Row(req[s].id) = assets[req[s].id]
    BY <2>1, RequestShape, IdsAssumption DEF Keys, Row
  <2>3. statement \in Statements
    BY DEF Statements
  <2>4. \/ Rollback(s, "ASSET_NOT_FOUND")
        \/ /\ assets[req[s].id] # Null
           /\ Lock(s, RowLock(req[s].id), "UPDATE")
           /\ Hold(s, req[s].id, assets[req[s].id], statement)
    BY <1>3 DEF LockAsset, LockAssetMode
  <2>5. next[s] = Null
    BY <1>3, NotWritten DEF LockAsset, At, Closing
  <2> HIDE DEF statement
  <2> QED
    BY <2>2, <2>3, <2>4, <2>5, RollbackEnds DEF Holds, Kinds
<1>4. CASE PatchAsset(s)
  <2>1. pc[s] = "PatchAsset" /\ pc[s] \notin Closing
    BY <1>4 DEF PatchAsset, At, Closing
  <2>2. Proceed(s, "Commit") \/ Proceed(s, "AssetHasOpenOrders") \/ WriteAsset(s)
    BY <1>4 DEF PatchAsset
  <2> QED
    BY <1>1, <2>1, <2>2, ProceedQuiet DEF Kinds
<1>5. CASE AssetHasOpenOrders(s)
  BY <1>1, <1>5, RollbackEnds DEF AssetHasOpenOrders, At, Kinds
<1>6. CASE AssetHasOrders(s)
  <2>1. pc[s] \notin Closing
    BY <1>6 DEF AssetHasOrders, At, Closing
  <2> QED
    BY <1>6, <2>1, ProceedQuiet, RollbackEnds DEF AssetHasOrders, Kinds
<1>7. CASE DeleteAsset(s)
  <2>1. row[s] \in AssetRow
    BY <1>7, HeldAsset DEF DeleteAsset, At
  <2>2. row[s] # Null /\ CodeLock(row[s].code) \in Resources
    BY <2>1, RowsAssumption DEF AssetRow, Rows, Resources
  <2>3. <<"ASSET_DELETED">> \in Seq(Actions)
    BY DEF Actions
  <2> QED
    BY <1>7, <2>2, <2>3, RollbackEnds DEF DeleteAsset, Changes, LocksGrow, Modes, Kinds
<1> QED
  BY <1>2, <1>3, <1>4, <1>5, <1>6, <1>7 DEF AssetStep

LEMMA WorkOrderKind ==
  ASSUME Typed, NEW s \in Sessions, WorkOrderStep(s)
  PROVE  Kinds(s)
<1>1. CASE ShareAsset(s)
  <2>1. pc[s] \notin Closing
    BY <1>1 DEF ShareAsset, At, Closing
  <2>2. RowLock(req[s].asset) \in Resources
    <3>1. req[s] \in AllRequests /\ req[s].op = "CreateOrder"
      BY <1>1, InService DEF ShareAsset, At, Serving
    <3> QED
      BY <3>1, RequestShape, RowResource DEF Keys
  <2>3. CASE LockSharedAsset(s, req[s].asset) /\ Goto(s, "InsertWorkOrder")
               /\ UNCHANGED <<tables, req, key, wait, row, next, acts, logged, seen, reply>>
    <3>1. Quiet(s)
      BY <2>1, <2>2, <2>3, NotWritten
      DEF LockSharedAsset, Goto, Quiet, LocksGrow, Modes, Typed, TypeOK
    <3> QED
      BY <3>1 DEF Kinds
  <2>4. CASE \E answer : Rollback(s, answer)
    BY <2>4, RollbackEnds DEF Kinds
  <2> QED
    BY <1>1, <2>3, <2>4 DEF ShareAsset
<1>2. CASE InsertWorkOrder(s)
  <2>1. row[s] = Null /\ req[s] \in AllRequests /\ req[s].op = "CreateOrder"
    BY <1>2, InService
    DEF InsertWorkOrder, At, Serving, Opening, Statements, Holding, Closing
  <2>2. PICK o \in Fresh(orders) : Write(s, o, NewOrder(req[s]), <<"WORK_ORDER_CREATED">>)
    BY <1>2 DEF InsertWorkOrder
  <2>3. /\ o \in Orders /\ o \in Keys /\ orders[o] = Null
        /\ \A t \in Sessions : key[t] # o
    BY DEF Fresh, Typed, TypeOK, Keys
  <2>4. Row(o) = Null
    BY <2>3, IdsAssumption DEF Row
  <2>5. NewOrder(req[s]) \in Rows
    BY <2>1, RequestShape DEF NewOrder, OrderRow, OrderStatuses, Rows
  <2>6. <<"WORK_ORDER_CREATED">> \in Seq(Actions)
    BY DEF Actions
  <2> QED
    BY <1>2, <2>1, <2>2, <2>3, <2>4, <2>5, <2>6 DEF InsertWorkOrder, Inserts, LocksGrow, Kinds
<1>3. CASE LockWorkOrder(s)
  <2>1. req[s] \in AllRequests /\ req[s].op \in MutateOps
    BY <1>3, InService DEF LockWorkOrder, At, Serving
  <2>2. req[s].id \in Orders /\ req[s].id \in Keys /\ Row(req[s].id) = orders[req[s].id]
    BY <2>1, RequestShape, IdsAssumption DEF MutateOps, Keys, Row
  <2>3. \/ Rollback(s, "WORK_ORDER_NOT_FOUND")
        \/ /\ orders[req[s].id] # Null
           /\ Lock(s, RowLock(req[s].id), "UPDATE")
           /\ Hold(s, req[s].id, orders[req[s].id], "Change")
    BY <1>3 DEF LockWorkOrder, LockWorkOrderMode
  <2>4. next[s] = Null /\ "Change" \in Statements
    BY <1>3, NotWritten DEF LockWorkOrder, At, Closing, Statements
  <2> QED
    BY <2>2, <2>3, <2>4, RollbackEnds DEF Holds, Kinds
<1>4. CASE Change(s)
  <2>1. pc[s] \notin Closing /\ pc[s] \in Holding
    BY <1>4 DEF Change, At, Closing, Holding
  <2>2. row[s] # Null /\ row[s] \in OrderRow /\ req[s] \in AllRequests
    BY <1>4, HeldOrder, RowsAssumption, InService DEF Change, At, Rows
  <2>3. ASSUME NEW r \in OrderRow, NEW actions \in Seq(Actions),
               Write(s, key[s], r, actions), UNCHANGED held
        PROVE  Kinds(s)
    BY <2>2, <2>3 DEF Changes, LocksGrow, Rows, Kinds
  <2>4. CASE ChangePatch(s)
    <3>1. PatchedOrder(row[s], req[s]) \in OrderRow
      BY <2>2, <2>4, PatchedOrderType DEF ChangePatch
    <3>2. <<"WORK_ORDER_UPDATED">> \in Seq(Actions)
      BY DEF Actions
    <3> QED
      BY <2>1, <2>3, <2>4, <3>1, <3>2, ProceedQuiet DEF ChangePatch, Kinds
  <2>5. CASE ChangeStatus(s)
    <3>1. MovedOrder(row[s], req[s].target) \in OrderRow
      BY <2>2, <2>5, RequestShape DEF ChangeStatus, MovedOrder, OrderRow
    <3>2. <<"WORK_ORDER_STATUS_CHANGED">> \in Seq(Actions)
      BY DEF Actions
    <3>3. \/ \E answer : Rollback(s, answer)
          \/ /\ Write(s, key[s], MovedOrder(row[s], req[s].target),
                      <<"WORK_ORDER_STATUS_CHANGED">>)
             /\ UNCHANGED held
      BY <2>5 DEF ChangeStatus
    <3> QED
      BY <2>3, <3>1, <3>2, <3>3, RollbackEnds DEF Kinds
  <2>6. CASE ChangeAssign(s)
    BY <2>1, <2>6, ProceedQuiet, RollbackEnds DEF ChangeAssign, Kinds
  <2>7. CASE \E answer : Rollback(s, answer)
    BY <2>7, RollbackEnds DEF Kinds
  <2> QED
    BY <1>4, <2>4, <2>5, <2>6, <2>7 DEF Change
<1>5. CASE ShareTarget(s)
  <2>1. row[s] # Null /\ row[s] \in OrderRow /\ req[s] \in AllRequests /\ req[s].op = "AssignOrder"
    BY <1>5, HeldOrder, RowsAssumption, InService DEF ShareTarget, At, Serving, Rows
  <2>2. req[s].target \in Users /\ RowLock(req[s].target) \in Resources
    BY <2>1, RequestShape, RowResource DEF Keys
  <2>3. AssignedOrder(row[s], req[s].target) \in Rows
    BY <2>1, <2>2 DEF AssignedOrder, OrderRow, OrderStatuses, Rows
  <2>4. AssignActions(row[s].status) \in Seq(Actions)
    <3>1. /\ <<"WORK_ORDER_ASSIGNED">> \in Seq(Actions)
          /\ <<"WORK_ORDER_ASSIGNED", "WORK_ORDER_STATUS_CHANGED">> \in Seq(Actions)
      BY DEF Actions
    <3> QED
      BY <3>1 DEF AssignActions
  <2>5. \/ Rollback(s, "INVALID_ASSIGNEE")
        \/ /\ Lock(s, RowLock(req[s].target), "SHARE")
           /\ Write(s, key[s], AssignedOrder(row[s], req[s].target), AssignActions(row[s].status))
    BY <1>5 DEF ShareTarget, ShareLockUser
  <2>6. LocksGrow(s) \/ Rollback(s, "INVALID_ASSIGNEE")
    BY <2>2, <2>5 DEF LocksGrow, Modes
  <2> QED
    BY <2>1, <2>3, <2>4, <2>5, <2>6, RollbackEnds DEF Changes, Kinds
<1> QED
  BY <1>1, <1>2, <1>3, <1>4, <1>5 DEF WorkOrderStep

LEMMA EndKind ==
  ASSUME Typed, NEW s \in Sessions, Commit(s) \/ Resolve(s) \/ CommitLost(s) \/ Abort(s)
  PROVE  Kinds(s)
<1>1. CASE Commit(s) \/ Resolve(s)
  BY <1>1 DEF Commit, Resolve, At, Ends, Kinds
<1>2. CASE CommitLost(s)
  <2>1. Quiet(s)
    BY <1>2 DEF CommitLost, At, Goto, Quiet, LocksGrow, Typed, TypeOK
  <2> QED
    BY <2>1 DEF Kinds
<1>3. CASE Abort(s)
  BY <1>3, RollbackEnds DEF Abort, Kinds
<1> QED
  BY <1>1, <1>2, <1>3

LEMMA StepKind ==
  ASSUME Typed, Next
  PROVE  \E s \in Sessions : Kinds(s)
BY ReceiveKind, ShareUserKind, CheckActorKind, UserKind, AssetKind, WorkOrderKind, EndKind
DEF Next, Step, Kinds

-----------------------------------------------------------------------------
LEMMA InitLocked ==
  ASSUME Init
  PROVE  Locked
<1>1. Exclusive /\ RowsLocked /\ NoLostUpdate /\ InsertsApart /\ Audited
  BY DEF Init, Exclusive, RowsLocked, NoLostUpdate, InsertsApart, Audited
<1>2. TrailMatchesTables
  <2>1. ASSUME NEW k \in Keys PROVE trail[k] = Snapshot(k, Row(k))
    <3>1. CASE k \in Users
      BY <3>1, IdsAssumption DEF Init, Row
    <3>2. CASE k \in Assets
      BY <3>2, IdsAssumption DEF Init, Row, Snapshot
    <3>3. CASE k \in Orders
      BY <3>3, IdsAssumption DEF Init, Row, Snapshot
    <3> QED
      BY <3>1, <3>2, <3>3 DEF Keys
  <2> QED
    BY <2>1 DEF TrailMatchesTables
<1> QED
  BY <1>1, <1>2 DEF Locked

LEMMA StepLocked ==
  ASSUME Inv, [Next]_vars
  PROVE  Inv'
<1>1. Typed'
  BY StepTyped DEF Inv
<1>2. ASSUME NEW s \in Sessions, Kinds(s) PROVE Locked'
  BY <1>2, QuietKeeps, HoldsKeeps, ChangesKeeps, InsertsKeeps, AuditKeeps, EndKeeps DEF Kinds
<1>3. CASE Next
  BY <1>1, <1>2, <1>3, StepKind DEF Inv
<1>4. CASE UNCHANGED vars
  <2>1. UNCHANGED tables /\ UNCHANGED <<pc, key, held, row, next, logged>>
    BY <1>4 DEF vars, tables
  <2>2. \A k : Row(k)' = Row(k) /\ Snapshot(k, Row(k))' = Snapshot(k, Row(k))
    BY <2>1, RowUnchanged
  <2>3. Exclusive' /\ RowsLocked' /\ NoLostUpdate' /\ InsertsApart' /\ Audited'
    BY <2>1, <2>2
    DEF Inv, Locked, Exclusive, RowsLocked, RowLock, NoLostUpdate, InsertsApart, Audited
  <2>4. TrailMatchesTables'
    BY <2>1, <2>2 DEF Inv, Locked, TrailMatchesTables, tables
  <2> QED
    BY <1>1, <2>3, <2>4 DEF Inv, Locked
<1> QED
  BY <1>3, <1>4

LEMMA InvAlways == Spec => []Inv
<1>1. Init => Inv
  BY InitTyped, InitLocked DEF Inv
<1>2. Inv /\ [Next]_vars => Inv'
  BY StepLocked
<1> QED
  BY <1>1, <1>2, PTL DEF Spec

\* No update is lost: what a mutation read under its row lock is still the committed row
\* whenever it goes on (users.Patch, assets.Patch and Delete, workorders.mutate).
THEOREM UpdatesKept == Spec => []NoLostUpdate
<1>1. Inv => NoLostUpdate
  BY DEF Inv, Locked
<1> QED
  BY <1>1, InvAlways, PTL

\* The latest audit row of every entity shows the entity as the tables have it, also after
\* commits whose outcome nobody knew (audit in the transaction of the write).
THEOREM TrailKept == Spec => []TrailMatchesTables
<1>1. Inv => TrailMatchesTables
  BY DEF Inv, Locked
<1> QED
  BY <1>1, InvAlways, PTL

-----------------------------------------------------------------------------
(***************************************************************************)
(* What the locks keep of the permission of a caller, on top of Inv.       *)
(* Between the check and the commit a mutation of assets or orders holds a *)
(* share lock on its actor, and a mutation of accounts the administration  *)
(* lock, without which no account is written.                              *)
(***************************************************************************)
Early == {"idle", "ShareUser", "Check", "LockUserAdministration", "HasAdministrator"}

Present(s) == req[s] # Null /\ req[s].actor # Null => users[req[s].actor] # Null

SharesActor(s) ==
  pc[s] # "idle" /\ req[s].op \notin UserOps =>
    \/ pc[s] = "ShareUser" /\ req[s].actor \in wait[s]
    \/ <<RowLock(req[s].actor), "SHARE">> \in held[s]

HoldsAdministration(s) ==
  pc[s] \notin {"idle", "LockUserAdministration"} /\ req[s].op \in UserOps =>
    <<Administration, "UPDATE">> \in held[s]

Passed(s) ==
  pc[s] \notin Early /\ req[s].actor # Null =>
    /\ users[req[s].actor].active
    /\ Permission(req[s]) \in RolePermissions(users[req[s].actor].role)

WritesAccounts(s) == next[s] # Null /\ key[s] \in Users => req[s].op \in UserOps

Guarded(s) ==
  Present(s) /\ SharesActor(s) /\ HoldsAdministration(s) /\ Passed(s) /\ WritesAccounts(s)

AllGuarded == \A s \in Sessions : Guarded(s)

-----------------------------------------------------------------------------
(***************************************************************************)
(* A step of one session leaves what the others know alone.                *)
(***************************************************************************)
Local(s) ==
  \A t \in Sessions \ {s} :
    /\ pc'[t] = pc[t] /\ req'[t] = req[t] /\ key'[t] = key[t] /\ wait'[t] = wait[t]
    /\ held'[t] = held[t] /\ row'[t] = row[t] /\ next'[t] = next[t]

\* A step after the check that does not end the transaction.
Advances(s) ==
  /\ Local(s) /\ UNCHANGED <<tables, req>> /\ held[s] \subseteq held'[s]
  /\ pc[s] \notin Early /\ pc'[s] \notin Early
  /\ next'[s] # Null =>
       \/ next'[s] = next[s] /\ key'[s] = key[s]
       \/ key'[s] \notin Users \/ req[s].op \in UserOps

Leaves(s) == Ends(s) /\ Local(s)

LEMMA EndLocal ==
  ASSUME Typed, NEW s \in Sessions, NEW answer, End(s, answer)
  PROVE  Local(s)
BY DEF End, Local, Typed, TypeOK

LEMMA RollbackLeaves ==
  ASSUME Typed, NEW s \in Sessions, NEW answer, Rollback(s, answer)
  PROVE  Leaves(s)
BY EndLocal, RollbackEnds DEF Rollback, Leaves

\* What a lock, or none, does to the locks held.
LEMMA GrowFrames ==
  ASSUME Typed, NEW s \in Sessions, NEW r, NEW m, Lock(s, r, m) \/ UNCHANGED held
  PROVE  /\ held[s] \subseteq held'[s]
         /\ \A t \in Sessions \ {s} : held'[t] = held[t]
BY DEF Lock, Typed, TypeOK

LEMMA ProceedAdvances ==
  ASSUME Typed, NEW s \in Sessions, pc[s] \notin Early, NEW statement, statement \notin Early,
         Proceed(s, statement)
  PROVE  Advances(s)
BY DEF Proceed, Goto, Advances, Local, Typed, TypeOK

LEMMA HoldAdvances ==
  ASSUME Typed, NEW s \in Sessions, pc[s] \notin Early \cup Closing,
         NEW statement, statement \notin Early,
         NEW k, NEW r, NEW lock, NEW m, Lock(s, lock, m), Hold(s, k, r, statement)
  PROVE  Advances(s)
<1>1. next[s] = Null
  BY NotWritten
<1> QED
  BY <1>1, GrowFrames DEF Hold, Goto, Advances, Local, Typed, TypeOK

LEMMA WriteAdvances ==
  ASSUME Typed, NEW s \in Sessions, pc[s] \notin Early,
         NEW k, NEW r, NEW actions, k \notin Users \/ req[s].op \in UserOps,
         NEW lock, NEW m, Lock(s, lock, m) \/ UNCHANGED held, Write(s, k, r, actions)
  PROVE  Advances(s)
<1>1. pc'[s] = "InsertAudit" /\ key'[s] = k
  BY WriteFrames
<1>2. "InsertAudit" \notin Early
  BY DEF Early
<1> QED
  BY <1>1, <1>2, GrowFrames DEF Write, Goto, Advances, Local, Typed, TypeOK

LEMMA UserAdvances ==
  ASSUME Typed, NEW s \in Sessions, pc[s] \notin Early, UserStep(s)
  PROVE  Advances(s) \/ Leaves(s)
<1>1. CASE InsertUser(s)
  <2>1. req[s].op \in UserOps
    BY <1>1, InService DEF InsertUser, At, Serving, UserOps
  <2> QED
    BY <1>1, <2>1, WriteAdvances, RollbackLeaves DEF InsertUser
<1>2. CASE LockUser(s)
  <2>1. pc[s] \notin Early \cup Closing
    BY <1>2 DEF LockUser, At, Closing, Early
  <2>2. "CountActiveAdmins" \notin Early /\ "Commit" \notin Early /\ "UpdateUser" \notin Early
    BY DEF Early
  <2> QED
    BY <1>2, <2>1, <2>2, HoldAdvances, RollbackLeaves DEF LockUser
<1>3. CASE CountActiveAdmins(s)
  <2>1. "UserHasActiveOrders" \notin Early
    BY DEF Early
  <2> QED
    BY <1>3, <2>1 DEF CountActiveAdmins, Goto, Advances, Local, Typed, TypeOK
<1>4. CASE UserHasActiveOrders(s)
  <2>1. "UpdateUser" \notin Early
    BY DEF Early
  <2>2. Proceed(s, "UpdateUser") \/ \E answer : Rollback(s, answer)
    BY <1>4 DEF UserHasActiveOrders
  <2> QED
    BY <2>1, <2>2, ProceedAdvances, RollbackLeaves
<1>5. CASE UpdateUser(s)
  <2>1. req[s].op \in UserOps
    BY <1>5, InService DEF UpdateUser, At, Serving, UserOps
  <2>2. \/ Rollback(s, "EMAIL_CONFLICT")
        \/ Write(s, key[s], PatchedUser(row[s], req[s]), <<"USER_UPDATED">>) /\ UNCHANGED held
    BY <1>5 DEF UpdateUser
  <2> QED
    BY <2>1, <2>2, WriteAdvances, RollbackLeaves
<1>6. CASE LockUserAdministration(s) \/ HasAdministrator(s)
  BY <1>6 DEF LockUserAdministration, HasAdministrator, At, Early
<1> QED
  BY <1>1, <1>2, <1>3, <1>4, <1>5, <1>6 DEF UserStep

LEMMA AssetAdvances ==
  ASSUME Typed, NEW s \in Sessions, pc[s] \notin Early, AssetStep(s)
  PROVE  Advances(s) \/ Leaves(s)
<1>1. "Commit" \notin Early /\ "AssetHasOpenOrders" \notin Early /\ "DeleteAsset" \notin Early
      /\ "AssetHasOrders" \notin Early /\ "PatchAsset" \notin Early
  BY DEF Early
<1>2. ASSUME pc[s] \in {"PatchAsset", "AssetHasOpenOrders"}, WriteAsset(s)
      PROVE  Advances(s)
  <2>1. key[s] \notin Users
    BY <1>2, HeldAsset, IdsAssumption
  <2> QED
    BY <1>2, <2>1, WriteAdvances DEF WriteAsset
<1>3. CASE InsertAsset(s)
  <2>1. Fresh(assets) \cap Users = {}
    BY IdsAssumption DEF Fresh, Typed, TypeOK
  <2> QED
    BY <1>3, <2>1, WriteAdvances, RollbackLeaves DEF InsertAsset
<1>4. CASE LockAsset(s)
  <2>1. pc[s] \notin Early \cup Closing
    BY <1>4 DEF LockAsset, At, Closing, Early
  <2> QED
    BY <1>1, <1>4, <2>1, HoldAdvances, RollbackLeaves DEF LockAsset
<1>5. CASE PatchAsset(s)
  <2>1. Proceed(s, "Commit") \/ Proceed(s, "AssetHasOpenOrders") \/ WriteAsset(s)
    BY <1>5 DEF PatchAsset
  <2> QED
    BY <1>1, <1>2, <1>5, <2>1, ProceedAdvances DEF PatchAsset, At
<1>6. CASE AssetHasOpenOrders(s)
  BY <1>2, <1>6, RollbackLeaves DEF AssetHasOpenOrders, At
<1>7. CASE AssetHasOrders(s)
  BY <1>1, <1>7, ProceedAdvances, RollbackLeaves DEF AssetHasOrders
<1>8. CASE DeleteAsset(s)
  <2>1. key[s] \notin Users
    BY <1>8, HeldAsset, IdsAssumption DEF DeleteAsset, At
  <2> QED
    BY <1>8, <2>1, WriteAdvances, RollbackLeaves DEF DeleteAsset
<1> QED
  BY <1>3, <1>4, <1>5, <1>6, <1>7, <1>8 DEF AssetStep

LEMMA WorkOrderAdvances ==
  ASSUME Typed, NEW s \in Sessions, pc[s] \notin Early, WorkOrderStep(s)
  PROVE  Advances(s) \/ Leaves(s)
<1>1. "InsertWorkOrder" \notin Early /\ "Change" \notin Early /\ "Commit" \notin Early
      /\ "ShareTarget" \notin Early
  BY DEF Early
<1>2. CASE ShareAsset(s)
  <2>1. CASE LockSharedAsset(s, req[s].asset) /\ Goto(s, "InsertWorkOrder")
               /\ UNCHANGED <<tables, req, key, wait, row, next, acts, logged, seen, reply>>
    BY <1>1, <2>1, GrowFrames DEF LockSharedAsset, Goto, Advances, Local, Typed, TypeOK
  <2>2. CASE \E answer : Rollback(s, answer)
    BY <2>2, RollbackLeaves
  <2> QED
    BY <1>2, <2>1, <2>2 DEF ShareAsset
<1>3. CASE InsertWorkOrder(s)
  <2>1. Fresh(orders) \cap Users = {}
    BY IdsAssumption DEF Fresh, Typed, TypeOK
  <2> QED
    BY <1>3, <2>1, WriteAdvances DEF InsertWorkOrder
<1>4. CASE LockWorkOrder(s)
  <2>1. pc[s] \notin Early \cup Closing
    BY <1>4 DEF LockWorkOrder, At, Closing, Early
  <2> QED
    BY <1>1, <1>4, <2>1, HoldAdvances, RollbackLeaves DEF LockWorkOrder
<1>5. CASE Change(s)
  <2>1. key[s] \notin Users
    BY <1>5, HeldOrder, IdsAssumption DEF Change, At
  <2>2. CASE ChangePatch(s)
    BY <1>1, <2>1, <2>2, ProceedAdvances, WriteAdvances DEF ChangePatch
  <2>3. CASE ChangeStatus(s)
    BY <2>1, <2>3, RollbackLeaves, WriteAdvances DEF ChangeStatus
  <2>4. CASE ChangeAssign(s)
    BY <1>1, <2>4, RollbackLeaves, ProceedAdvances DEF ChangeAssign
  <2>5. CASE \E answer : Rollback(s, answer)
    BY <2>5, RollbackLeaves
  <2> QED
    BY <1>5, <2>2, <2>3, <2>4, <2>5 DEF Change
<1>6. CASE ShareTarget(s)
  <2>1. key[s] \notin Users
    BY <1>6, HeldOrder, IdsAssumption DEF ShareTarget, At
  <2>2. \/ Rollback(s, "INVALID_ASSIGNEE")
        \/ /\ Lock(s, RowLock(req[s].target), "SHARE")
           /\ Write(s, key[s], AssignedOrder(row[s], req[s].target), AssignActions(row[s].status))
    BY <1>6 DEF ShareTarget, ShareLockUser
  <2> QED
    BY <2>1, <2>2, RollbackLeaves, WriteAdvances
<1> QED
  BY <1>2, <1>3, <1>4, <1>5, <1>6 DEF WorkOrderStep

LEMMA CloseAdvances ==
  ASSUME Typed, NEW s \in Sessions,
         InsertAudit(s) \/ Commit(s) \/ Resolve(s) \/ CommitLost(s) \/ Abort(s)
  PROVE  Advances(s) \/ Leaves(s)
<1>1. "InsertAudit" \notin Early /\ "Commit" \notin Early /\ "Limbo" \notin Early
  BY DEF Early
<1>2. CASE InsertAudit(s)
  <2>1. pc[s] \notin Early /\ pc'[s] \notin Early
        /\ \A t \in Sessions \ {s} : pc'[t] = pc[t]
    BY <1>1, <1>2 DEF InsertAudit, At, Goto, Typed, TypeOK
  <2>2. held[s] \subseteq held'[s] /\ \A t \in Sessions \ {s} : held'[t] = held[t]
    BY <1>2, GrowFrames DEF InsertAudit
  <2> QED
    BY <1>2, <2>1, <2>2 DEF InsertAudit, Advances, Local
<1>3. CASE Commit(s) \/ Resolve(s)
  BY <1>3, EndLocal DEF Commit, Resolve, At, Leaves, Ends
<1>4. CASE CommitLost(s)
  BY <1>1, <1>4 DEF CommitLost, At, Goto, Advances, Local, Typed, TypeOK
<1>5. CASE Abort(s)
  BY <1>5, RollbackLeaves DEF Abort
<1> QED
  BY <1>2, <1>3, <1>4, <1>5

-----------------------------------------------------------------------------
(***************************************************************************)
(* The steps up to the check.                                              *)
(***************************************************************************)
LEMMA BootstrapActor ==
  ASSUME NEW r \in AllRequests, r.op = "Bootstrap"
  PROVE  r.actor = Null
BY DEF AllRequests, UserRequests, AssetRequests, OrderRequests, CreateUserRequests,
       PatchUserRequests, BootstrapRequests, CreateAssetRequests, PatchAssetRequests,
       DeleteAssetRequests, CreateOrderRequests, PatchOrderRequests, AssignOrderRequests,
       StatusOrderRequests

Prepares(s) == Local(s) /\ UNCHANGED tables /\ Guarded(s)'

LEMMA ReceivePrepares ==
  ASSUME Typed, AllGuarded, NEW s \in Sessions, Receive(s)
  PROVE  Prepares(s)
<1>1. pc[s] = "idle" /\ next[s] = Null
  BY NotWritten DEF Receive, At, Closing
<1>2. PICK r \in Requests : /\ r.actor # Null => users[r.actor] # Null
                            /\ Accept(s, r) \/ Refuse(s, r)
  BY DEF Receive
<1>3. CASE Refuse(s, r)
  <2>1. UNCHANGED <<tables, users, pc, req, key, wait, held, row, next>>
    BY <1>3 DEF Refuse, tables
  <2> QED
    BY <2>1 DEF Prepares, Local, AllGuarded, Guarded, Present, SharesActor,
                HoldsAdministration, Passed, WritesAccounts
<1>4. CASE Accept(s, r)
  <2>1. r \in AllRequests /\ r # Null /\ r.op \in Ops
    BY RequestsAssumption, RequestShape
  <2>2. /\ pc'[s] = FirstStatement(r.op) /\ req'[s] = r /\ wait'[s] = ToShare(r)
        /\ next'[s] = Null /\ users' = users /\ Local(s) /\ UNCHANGED tables
    BY <1>1, <1>4 DEF Accept, Goto, tables, Local, Typed, TypeOK
  <2>3. r.op \in UserOps => pc'[s] = "LockUserAdministration"
    BY <2>2 DEF FirstStatement, UserOps
  <2>4. r.op \notin UserOps => pc'[s] = "ShareUser" /\ r.actor \in ToShare(r)
    BY <2>1, <2>2 DEF FirstStatement, ToShare, UserOps
  <2>5. Present(s)' /\ Passed(s)' /\ WritesAccounts(s)'
    BY <1>2, <2>2, <2>3, <2>4 DEF Present, Passed, WritesAccounts, Early
  <2>6. SharesActor(s)' /\ HoldsAdministration(s)'
    BY <2>2, <2>3, <2>4 DEF SharesActor, HoldsAdministration
  <2> QED
    BY <2>2, <2>5, <2>6 DEF Prepares, Guarded
<1> QED
  BY <1>2, <1>3, <1>4

LEMMA ShareUserPrepares ==
  ASSUME Typed, AllGuarded, NEW s \in Sessions, ShareUser(s)
  PROVE  Prepares(s)
<1>1. pc[s] = "ShareUser" /\ next[s] = Null
  BY NotWritten DEF ShareUser, At, Closing
<1>2. req[s] \in AllRequests /\ req[s] # Null /\ req[s].op \in Ops \ UserOps
      /\ req[s].actor \in Users
  BY <1>1, InService, RequestShape, RequestsAssumption DEF Serving, UserOps
<1>3. users[req[s].actor] # Null
  BY <1>2, IdsAssumption DEF AllGuarded, Guarded, Present, Keys
<1>4. PICK u \in wait[s] :
        /\ wait' = [wait EXCEPT ![s] = @ \ {u}]
        /\ IF users[u] = Null THEN UNCHANGED held ELSE ShareLockUser(s, u)
        /\ IF wait[s] = {u} THEN Goto(s, "Check") ELSE UNCHANGED pc
  BY DEF ShareUser
<1>5. UNCHANGED <<tables, req, key, row, next>>
  BY DEF ShareUser
<1>6. /\ pc'[s] = IF wait[s] = {u} THEN "Check" ELSE "ShareUser"
      /\ wait'[s] = wait[s] \ {u} /\ held[s] \subseteq held'[s]
      /\ users[u] # Null => <<RowLock(u), "SHARE">> \in held'[s]
      /\ Local(s)
  <2>1. Lock(s, RowLock(u), "SHARE") \/ UNCHANGED held
    BY <1>4 DEF ShareLockUser
  <2> QED
    BY <1>1, <1>4, <1>5, <2>1, GrowFrames DEF ShareLockUser, Lock, Goto, Local, Typed, TypeOK
<1>7. SharesActor(s)'
  <2>1. req[s].actor \in wait[s] \/ <<RowLock(req[s].actor), "SHARE">> \in held[s]
    BY <1>1, <1>2 DEF AllGuarded, Guarded, SharesActor
  <2>2. CASE req[s].actor = u
    BY <1>3, <1>5, <1>6, <2>2 DEF SharesActor, RowLock
  <2>3. CASE req[s].actor # u
    BY <1>5, <1>6, <2>1, <2>3 DEF SharesActor, RowLock
  <2> QED
    BY <2>2, <2>3
<1>8. Present(s)' /\ HoldsAdministration(s)' /\ Passed(s)' /\ WritesAccounts(s)'
  BY <1>1, <1>2, <1>3, <1>5, <1>6
  DEF tables, Present, HoldsAdministration, Passed, WritesAccounts, Early
<1> QED
  BY <1>5, <1>6, <1>7, <1>8 DEF Prepares, Guarded

LEMMA CheckActorPrepares ==
  ASSUME Typed, AllGuarded, NEW s \in Sessions, CheckActor(s)
  PROVE  Prepares(s) \/ Leaves(s)
<1>1. pc[s] = "Check" /\ next[s] = Null
  BY NotWritten DEF CheckActor, At, Closing
<1>2. CASE \E answer : Rollback(s, answer)
  BY <1>2, RollbackLeaves
<1>3. CASE Check(req[s].actor, Permission(req[s])) = Ok /\ Proceed(s, AfterCheck(req[s].op))
  <2>1. req[s] \in AllRequests /\ req[s].op \in Ops \ {"Bootstrap"}
    BY <1>1, InService DEF Serving
  <2>2. /\ users[req[s].actor].active
        /\ Permission(req[s]) \in RolePermissions(users[req[s].actor].role)
    <3>1. users[req[s].actor] # Null
      BY <1>3 DEF Check, Ok
    <3>2. req[s].actor \in Users
      BY <2>1, RequestShape
    <3>3. users[req[s].actor].active \in BOOLEAN
      BY <3>1, <3>2 DEF Typed, TypeOK, UserRow
    <3> QED
      BY <1>3, <3>1, <3>3 DEF Check, Ok
  <2>3. AfterCheck(req[s].op) \notin Early
    BY <2>1 DEF AfterCheck, Ops, UserOps, AssetOps, MutateOps, Early
  <2>4. /\ pc'[s] = AfterCheck(req[s].op) /\ Local(s) /\ UNCHANGED <<tables, users, req, held, next>>
    BY <1>3 DEF Proceed, Goto, Local, tables, Typed, TypeOK
  <2>5. SharesActor(s)' /\ HoldsAdministration(s)'
    BY <1>1, <2>4 DEF AllGuarded, Guarded, SharesActor, HoldsAdministration, RowLock, Administration
  <2>6. Present(s)' /\ Passed(s)' /\ WritesAccounts(s)'
    BY <1>1, <2>2, <2>4 DEF AllGuarded, Guarded, Present, Passed, WritesAccounts
  <2> QED
    BY <2>4, <2>5, <2>6 DEF Prepares, Guarded
<1> QED
  BY <1>2, <1>3 DEF CheckActor, Proceed

LEMMA AdministrationPrepares ==
  ASSUME Typed, AllGuarded, NEW s \in Sessions, LockUserAdministration(s) \/ HasAdministrator(s)
  PROVE  Prepares(s) \/ Leaves(s)
<1>1. pc[s] \notin Closing /\ next[s] = Null
  <2>1. pc[s] \notin Closing
    BY DEF LockUserAdministration, HasAdministrator, At, Closing
  <2> QED
    BY <2>1, NotWritten
<1>2. CASE LockUserAdministration(s)
  <2>1. req[s].op \in UserOps
    BY <1>2, InService DEF LockUserAdministration, At, Serving
  <2>2. /\ pc'[s] \in {"HasAdministrator", "Check"} /\ UNCHANGED <<tables, users, req, next>>
        /\ <<Administration, "UPDATE">> \in held'[s] /\ Local(s)
    BY <1>2 DEF LockUserAdministration, AdministrationMode, Lock, Goto, tables, Local, Typed, TypeOK
  <2>3. SharesActor(s)' /\ HoldsAdministration(s)'
    BY <2>1, <2>2 DEF SharesActor, HoldsAdministration, Administration
  <2>4. Present(s)' /\ Passed(s)' /\ WritesAccounts(s)'
    BY <1>1, <2>2 DEF AllGuarded, Guarded, Present, Passed, WritesAccounts, Early
  <2> QED
    BY <2>2, <2>3, <2>4 DEF Prepares, Guarded
<1>3. CASE HasAdministrator(s)
  <2>1. req[s] \in AllRequests /\ req[s].op = "Bootstrap" /\ req[s].op \in UserOps
    BY <1>3, InService DEF HasAdministrator, At, Serving, UserOps
  <2>2. req[s].actor = Null
    BY <2>1, BootstrapActor
  <2>3. CASE Proceed(s, "InsertUser")
    <3>1. /\ pc'[s] = "InsertUser" /\ Local(s) /\ UNCHANGED <<tables, users, req, held, next>>
      BY <2>3 DEF Proceed, Goto, Local, tables, Typed, TypeOK
    <3>2. pc[s] = "HasAdministrator"
      BY <1>3 DEF HasAdministrator, At
    <3> QED
      BY <1>1, <2>1, <2>2, <3>1, <3>2 DEF Prepares, AllGuarded, Guarded, Present, SharesActor,
         HoldsAdministration, Administration, Passed, WritesAccounts
  <2> QED
    BY <1>3, <2>3, RollbackLeaves DEF HasAdministrator
<1> QED
  BY <1>2, <1>3

-----------------------------------------------------------------------------
(***************************************************************************)
(* What the kinds of steps leave of the guards.                            *)
(***************************************************************************)
LEMMA OthersGuarded ==
  ASSUME AllGuarded, NEW s \in Sessions, Local(s), UNCHANGED tables, NEW t \in Sessions \ {s}
  PROVE  Guarded(t)'
<1>1. Guarded(t) /\ users' = users /\ t \in Sessions
  BY DEF AllGuarded, tables
<1>2. /\ pc'[t] = pc[t] /\ req'[t] = req[t] /\ key'[t] = key[t] /\ wait'[t] = wait[t]
      /\ held'[t] = held[t] /\ next'[t] = next[t]
  BY DEF Local
<1>3. Present(t)' /\ Passed(t)' /\ WritesAccounts(t)'
  BY <1>1, <1>2 DEF Guarded, Present, Passed, WritesAccounts
<1>4. SharesActor(t)' /\ HoldsAdministration(t)'
  BY <1>1, <1>2 DEF Guarded, SharesActor, HoldsAdministration, RowLock, Administration
<1> QED
  BY <1>3, <1>4 DEF Guarded

LEMMA AdvancesGuarded ==
  ASSUME AllGuarded, NEW s \in Sessions, Advances(s)
  PROVE  Guarded(s)'
<1>1. Guarded(s) /\ users' = users /\ req' = req
  BY DEF AllGuarded, Advances, tables
<1>2. pc[s] \notin Early /\ pc'[s] \notin Early /\ held[s] \subseteq held'[s]
  BY DEF Advances
<1>3. SharesActor(s)' /\ HoldsAdministration(s)'
  BY <1>1, <1>2
  DEF Guarded, SharesActor, HoldsAdministration, RowLock, Administration, Early
<1>4. WritesAccounts(s)'
  BY <1>1 DEF Guarded, WritesAccounts, Advances
<1> QED
  BY <1>1, <1>2, <1>3, <1>4 DEF Guarded, Present, Passed

LEMMA LeavesGuarded ==
  ASSUME Typed, NEW s \in Sessions, Leaves(s)
  PROVE  Guarded(s)'
<1>1. pc'[s] = "idle" /\ req'[s] = Null /\ next'[s] = Null
  BY DEF Leaves, Ends, End, Typed, TypeOK
<1> QED
  BY <1>1 DEF Guarded, Present, SharesActor, HoldsAdministration, Passed, WritesAccounts, Early

\* A commit that writes an account finds no transaction of that actor past its check.
LEMMA CommitGuarded ==
  ASSUME Inv, AllGuarded, NEW s \in Sessions, Leaves(s),
         pc[s] \in {"Commit", "Limbo"}, Apply(s), NEW t \in Sessions \ {s}
  PROVE  Guarded(t)'
<1>1. Guarded(t) /\ Guarded(s) /\ t \in Sessions
  BY DEF AllGuarded
<1>2. /\ pc'[t] = pc[t] /\ req'[t] = req[t] /\ key'[t] = key[t] /\ wait'[t] = wait[t]
      /\ held'[t] = held[t] /\ next'[t] = next[t]
  BY DEF Leaves, Local
<1>3. WritesAccounts(t)' /\ SharesActor(t)' /\ HoldsAdministration(t)'
  BY <1>1, <1>2
  DEF Guarded, WritesAccounts, SharesActor, HoldsAdministration, RowLock, Administration
<1>4. CASE req[t] = Null
  <2>1. pc[t] = "idle"
    BY <1>4 DEF Inv, Typed, PhaseOK, Phase
  <2> QED
    BY <1>2, <1>3, <1>4, <2>1 DEF Guarded, Present, Passed, Early
<1>5. CASE req[t] # Null /\ req[t].actor = Null
  BY <1>2, <1>3, <1>5 DEF Guarded, Present, Passed
<1>6. CASE req[t] # Null /\ req[t].actor # Null
  <2>1. PICK u \in Users : u = req[t].actor
    <3>1. req[t] \in AllRequests
      BY <1>6 DEF Inv, Typed, TypeOK
    <3> QED
      BY <1>6, <3>1, RequestShape
  <2>2. u \in Keys /\ Row(u) = users[u]
        /\ users'[u] = IF next[s] # Null /\ u = key[s] THEN next[s] ELSE users[u]
    <3>1. u \in Keys /\ Row(u) = users[u] /\ Row(u)' = users'[u]
      BY IdsAssumption DEF Keys, Row
    <3> QED
      BY <3>1, ApplyRows DEF Inv
  <2>3. users[u] # Null
    BY <1>1, <1>6, <2>1 DEF Guarded, Present
  <2>4. Present(t)'
    BY <1>2, <2>1, <2>2, <2>3 DEF Present
  <2>5. ASSUME pc[t] \notin Early, next[s] # Null, u = key[s]
        PROVE  FALSE
    <3>1. <<Administration, "UPDATE">> \in held[s]
      BY <1>1, <2>1, <2>5 DEF Guarded, WritesAccounts, HoldsAdministration
    <3>2. Administration \in Resources /\ RowLock(u) \in Resources
          /\ Modes = {"KEY SHARE", "SHARE", "UPDATE"} /\ \A m : Conflict("UPDATE", m)
      BY <2>2, RowResource DEF Resources, Modes, Conflict
    <3>3. CASE req[t].op \in UserOps
      <4>1. <<Administration, "UPDATE">> \in held[t]
        BY <1>1, <2>5, <3>3 DEF Guarded, HoldsAdministration, Early
      <4> QED
        BY <3>1, <3>2, <4>1 DEF Inv, Locked, Exclusive
    <3>4. CASE req[t].op \notin UserOps
      <4>1. <<RowLock(u), "SHARE">> \in held[t]
        BY <1>1, <2>1, <2>5, <3>4 DEF Guarded, SharesActor, Early
      <4>2. CASE row[s] # Null
        <5>1. <<RowLock(u), "UPDATE">> \in held[s]
          BY <2>5, <4>2 DEF Inv, Locked, RowsLocked
        <5> QED
          BY <3>2, <4>1, <5>1 DEF Inv, Locked, Exclusive
      <4>3. CASE row[s] = Null
        <5>1. Row(key[s]) = Null
          BY <2>5, <4>3 DEF Inv, Locked, InsertsApart
        <5> QED
          BY <2>2, <2>3, <2>5, <5>1
      <4> QED
        BY <4>2, <4>3
    <3> QED
      BY <3>3, <3>4
  <2>6. Passed(t)'
    BY <1>1, <1>2, <2>1, <2>2, <2>5 DEF Guarded, Passed
  <2> QED
    BY <1>3, <2>4, <2>6 DEF Guarded
<1> QED
  BY <1>4, <1>5, <1>6

-----------------------------------------------------------------------------
\* The steps of a session: up to its check, past it, or out of the transaction.
LEMMA StepMoves ==
  ASSUME Typed, AllGuarded, NEW s \in Sessions,
         Receive(s) \/ Step(s) \/ CommitLost(s) \/ Abort(s)
  PROVE  Prepares(s) \/ Advances(s) \/ Leaves(s)
<1>1. CASE Receive(s) \/ ShareUser(s) \/ CheckActor(s)
  BY <1>1, ReceivePrepares, ShareUserPrepares, CheckActorPrepares
<1>2. CASE UserStep(s)
  <2>1. CASE pc[s] \in Early
    <3>1. LockUserAdministration(s) \/ HasAdministrator(s)
      BY <1>2, <2>1 DEF UserStep, InsertUser, LockUser, CountActiveAdmins,
                        UserHasActiveOrders, UpdateUser, At, Early
    <3> QED
      BY <3>1, AdministrationPrepares
  <2> QED
    BY <1>2, <2>1, UserAdvances
<1>3. CASE AssetStep(s) \/ WorkOrderStep(s)
  <2>1. pc[s] \notin Early
    BY <1>3 DEF AssetStep, InsertAsset, LockAsset, PatchAsset, AssetHasOpenOrders,
                AssetHasOrders, DeleteAsset, WorkOrderStep, ShareAsset, InsertWorkOrder,
                LockWorkOrder, Change, ShareTarget, At, Early
  <2> QED
    BY <1>3, <2>1, AssetAdvances, WorkOrderAdvances
<1>4. CASE InsertAudit(s) \/ Commit(s) \/ Resolve(s) \/ CommitLost(s) \/ Abort(s)
  BY <1>4, CloseAdvances
<1> QED
  BY <1>1, <1>2, <1>3, <1>4 DEF Step

LEMMA StepGuarded ==
  ASSUME Inv, AllGuarded, [Next]_vars
  PROVE  AllGuarded'
<1>1. Typed
  BY DEF Inv
<1>2. ASSUME NEW s \in Sessions, Prepares(s) PROVE AllGuarded'
  BY <1>2, OthersGuarded DEF Prepares, AllGuarded
<1>3. ASSUME NEW s \in Sessions, Advances(s) PROVE AllGuarded'
  BY <1>3, OthersGuarded, AdvancesGuarded DEF Advances, AllGuarded
<1>4. ASSUME NEW s \in Sessions, Leaves(s) PROVE AllGuarded'
  <2>1. UNCHANGED tables \/ (pc[s] \in {"Commit", "Limbo"} /\ Apply(s))
    BY <1>4 DEF Leaves, Ends
  <2> QED
    BY <1>1, <1>4, <2>1, OthersGuarded, LeavesGuarded, CommitGuarded DEF Leaves, AllGuarded
<1>5. CASE Next
  BY <1>1, <1>2, <1>3, <1>4, <1>5, StepMoves DEF Next
<1>6. CASE UNCHANGED vars
  BY <1>6 DEF vars, AllGuarded, Guarded, Present, SharesActor, HoldsAdministration, Passed,
              WritesAccounts, RowLock, Administration
<1> QED
  BY <1>5, <1>6

LEMMA GuardedAlways == Spec => []AllGuarded
<1>1. Init => AllGuarded
  BY DEF Init, AllGuarded, Guarded, Present, SharesActor, HoldsAdministration, Passed,
         WritesAccounts, Early
<1>2. Inv /\ AllGuarded /\ [Next]_vars => AllGuarded'
  BY StepGuarded
<1> QED
  BY <1>1, <1>2, InvAlways, PTL DEF Spec

\* Until it commits, a write belongs to an account that is active and permitted: no
\* deactivation commits between the check inside the transaction and the commit
\* (rbac.Check under lockActor, mutate or the administration lock, against users.Patch).
THEOREM WriterAuthorized == Spec => []WriterStaysAuthorized
<1>1. Inv /\ AllGuarded => WriterStaysAuthorized
  <2> SUFFICES ASSUME Inv, AllGuarded, NEW s \in Sessions, next[s] # Null, req[s].actor # Null
               PROVE  /\ users[req[s].actor].active
                      /\ Permission(req[s]) \in RolePermissions(users[req[s].actor].role)
    BY DEF WriterStaysAuthorized
  <2>1. pc[s] \notin Early
    BY NotWritten DEF Inv, Early, Closing
  <2> QED
    BY <2>1 DEF AllGuarded, Guarded, Passed
<1> QED
  BY <1>1, InvAlways, GuardedAlways, PTL

-----------------------------------------------------------------------------
(***************************************************************************)
(* The order of locks.  A transaction goes from statement to statement,    *)
(* takes the locks that it wants, and keeps them; where it is tells which  *)
(* ones it may hold.                                                       *)
(***************************************************************************)
Following(statement) ==
  CASE statement = "LockUserAdministration" -> {"HasAdministrator", "Check"}
    [] statement = "HasAdministrator"       -> {"InsertUser"}
    [] statement = "ShareUser"              -> {"ShareUser", "Check"}
    [] statement = "Check"                  -> {"InsertUser", "LockUser", "InsertAsset", "LockAsset",
                                                "ShareAsset", "LockWorkOrder"}
    [] statement = "LockUser"               -> {"CountActiveAdmins", "UpdateUser", "Commit"}
    [] statement = "CountActiveAdmins"      -> {"UserHasActiveOrders"}
    [] statement = "UserHasActiveOrders"    -> {"UpdateUser"}
    [] statement = "LockAsset"              -> {"AssetHasOrders", "PatchAsset"}
    [] statement = "PatchAsset"             -> {"AssetHasOpenOrders", "InsertAudit", "Commit"}
    [] statement = "AssetHasOrders"         -> {"DeleteAsset"}
    [] statement = "ShareAsset"             -> {"InsertWorkOrder"}
    [] statement = "LockWorkOrder"          -> {"Change"}
    [] statement = "Change"                 -> {"ShareTarget", "InsertAudit", "Commit"}
    [] statement = "InsertAudit"            -> {"InsertAudit", "Commit"}
    [] statement = "Commit"                 -> {"Limbo"}
    [] OTHER                                -> {"InsertAudit"}

\* A step within a transaction.
Follows(s) ==
  /\ Local(s) /\ req'[s] = req[s]
  /\ pc'[s] \in Following(pc[s])
  /\ held'[s] \subseteq held[s] \cup Wants(s)

\* A request begins.
Begins(s) ==
  /\ Local(s) /\ held'[s] = {}
  /\ pc'[s] \in {"idle", "LockUserAdministration", "ShareUser"}

LEMMA TakesLock ==
  ASSUME Typed, NEW s \in Sessions, NEW r, NEW m, Lock(s, r, m), <<r, m>> \in Wants(s)
  PROVE  held'[s] \subseteq held[s] \cup Wants(s) /\ \A t \in Sessions \ {s} : held'[t] = held[t]
BY DEF Lock, Typed, TypeOK

\* The lock that a statement wants is the one of the row it finds.
LEMMA WantsRow ==
  ASSUME NEW k \in Keys, Row(k) \notin {Null, Gone}, NEW m
  PROVE  <<RowLock(k), m>> \in OnRows({k}, m)
BY DEF OnRows

LEMMA AccountRow ==
  ASSUME Typed, NEW u \in Users
  PROVE  u \in Keys /\ Row(u) = users[u] /\ users[u] # Gone
<1>1. u \in Keys /\ Row(u) = users[u]
  BY IdsAssumption DEF Keys, Row
<1>2. users[u] \in UserRow \cup {Null}
  BY DEF Typed, TypeOK
<1> QED
  BY <1>1, <1>2, RowsAssumption DEF Rows

Takes(s) ==
  /\ held'[s] \subseteq held[s] \cup Wants(s)
  /\ \A t \in Sessions \ {s} : held'[t] = held[t]

LEMMA ProceedFollows ==
  ASSUME Typed, NEW s \in Sessions, NEW statement \in Following(pc[s]), Proceed(s, statement)
  PROVE  Follows(s)
BY DEF Proceed, Goto, Follows, Local, Typed, TypeOK

LEMMA HoldFollows ==
  ASSUME Typed, NEW s \in Sessions, NEW statement \in Following(pc[s]), Takes(s),
         NEW k, NEW r, Hold(s, k, r, statement)
  PROVE  Follows(s)
BY DEF Hold, Goto, Follows, Takes, Local, Typed, TypeOK

LEMMA WriteFollows ==
  ASSUME Typed, NEW s \in Sessions, "InsertAudit" \in Following(pc[s]), Takes(s),
         NEW k, NEW r, NEW actions, Write(s, k, r, actions)
  PROVE  Follows(s)
BY DEF Write, Goto, Follows, Takes, Local, Typed, TypeOK

LEMMA EntryFollows ==
  ASSUME Typed, NEW s \in Sessions, Receive(s) \/ ShareUser(s) \/ CheckActor(s)
  PROVE  Begins(s) \/ Follows(s) \/ Leaves(s)
<1>1. CASE Receive(s)
  <2>1. pc[s] = "idle" /\ held[s] = {}
    BY <1>1 DEF Receive, At, Typed, PhaseOK, Phase
  <2>2. CASE \E r \in Requests : Refuse(s, r)
    BY <2>1, <2>2 DEF Refuse, Begins, Local
  <2>3. CASE \E r \in Requests : Accept(s, r)
    <3>1. PICK r \in Requests : Accept(s, r)
      BY <2>3
    <3>2. FirstStatement(r.op) \in {"LockUserAdministration", "ShareUser"}
      BY DEF FirstStatement
    <3> QED
      BY <2>1, <3>1, <3>2 DEF Accept, Goto, Begins, Local, Typed, TypeOK
  <2> QED
    BY <1>1, <2>2, <2>3 DEF Receive
<1>2. CASE ShareUser(s)
  <2>1. pc[s] = "ShareUser"
    BY <1>2 DEF ShareUser, At
  <2>2. PICK u \in wait[s] :
          /\ \A v \in wait[s] : u <= v
          /\ wait' = [wait EXCEPT ![s] = @ \ {u}]
          /\ IF users[u] = Null THEN UNCHANGED held ELSE ShareLockUser(s, u)
          /\ IF wait[s] = {u} THEN Goto(s, "Check") ELSE UNCHANGED pc
    BY <1>2 DEF ShareUser
  <2>3. u \in Users /\ u \in Keys /\ Row(u) = users[u] /\ users[u] # Gone
    BY AccountRow DEF Typed, TypeOK
  <2>4. Takes(s)
    <3>1. CASE users[u] = Null
      BY <2>2, <3>1 DEF Takes
    <3>2. CASE users[u] # Null
      <4>1. <<RowLock(u), "SHARE">> \in Wants(s)
        BY <2>1, <2>2, <2>3, <3>2 DEF Wants, OnRows
      <4> QED
        BY <2>2, <3>2, <4>1, TakesLock DEF ShareLockUser, Takes
    <3> QED
      BY <3>1, <3>2
  <2>5. pc'[s] \in {"ShareUser", "Check"} /\ Local(s) /\ req'[s] = req[s]
    BY <1>2, <2>1, <2>2, <2>4 DEF ShareUser, Goto, Local, Takes, Typed, TypeOK
  <2> QED
    BY <2>1, <2>4, <2>5 DEF Follows, Following, Takes
<1>3. CASE CheckActor(s)
  <2>1. pc[s] = "Check" /\ req[s].op \in Ops
    BY <1>3, InService DEF CheckActor, At, Serving
  <2>2. AfterCheck(req[s].op) \in Following(pc[s])
    BY <2>1, <1>3, InService DEF AfterCheck, Following, Ops, UserOps, AssetOps, MutateOps, Serving
  <2>3. Proceed(s, AfterCheck(req[s].op)) \/ \E answer : Rollback(s, answer)
    BY <1>3 DEF CheckActor, Proceed
  <2> QED
    BY <2>2, <2>3, ProceedFollows, RollbackLeaves
<1> QED
  BY <1>1, <1>2, <1>3

LEMMA UserFollows ==
  ASSUME Typed, NEW s \in Sessions, UserStep(s)
  PROVE  Follows(s) \/ Leaves(s)
<1>1. CASE LockUserAdministration(s)
  <2>1. pc[s] = "LockUserAdministration"
    BY <1>1 DEF LockUserAdministration, At
  <2>2. <<Administration, "UPDATE">> \in Wants(s)
    BY <2>1 DEF Wants
  <2>3. Takes(s)
    BY <1>1, <2>2, TakesLock DEF LockUserAdministration, AdministrationMode, Takes
  <2>4. pc'[s] \in {"HasAdministrator", "Check"} /\ Local(s) /\ req'[s] = req[s]
    BY <1>1, <2>3 DEF LockUserAdministration, Goto, Local, Takes, Typed, TypeOK
  <2> QED
    BY <2>1, <2>3, <2>4 DEF Follows, Following, Takes
<1>2. CASE HasAdministrator(s)
  <2>1. "InsertUser" \in Following(pc[s])
    BY <1>2 DEF HasAdministrator, At, Following
  <2> QED
    BY <1>2, <2>1, ProceedFollows, RollbackLeaves DEF HasAdministrator
<1>3. CASE InsertUser(s)
  <2>1. "InsertAudit" \in Following(pc[s])
    BY <1>3 DEF InsertUser, At, Following
  <2> QED
    BY <1>3, <2>1, WriteFollows, RollbackLeaves DEF InsertUser, Takes
<1>4. CASE LockUser(s)
  <2>1. pc[s] = "LockUser" /\ Following(pc[s]) = {"CountActiveAdmins", "UpdateUser", "Commit"}
    BY <1>4 DEF LockUser, At, Following
  <2>2. CASE users[req[s].id] # Null
    <3>1. req[s].id \in Users
      BY <2>1, InService, RequestShape DEF Serving
    <3>2. req[s].id \in Keys /\ Row(req[s].id) = users[req[s].id] /\ users[req[s].id] # Gone
      BY <3>1, AccountRow
    <3>3. <<RowLock(req[s].id), "UPDATE">> \in Wants(s)
      BY <2>1, <2>2, <3>2, WantsRow DEF Wants
    <3>4. PICK statement \in Following(pc[s]) :
            /\ Lock(s, RowLock(req[s].id), "UPDATE")
            /\ Hold(s, req[s].id, users[req[s].id], statement)
      BY <1>4, <2>1, <2>2 DEF LockUser, LockUserMode
    <3> QED
      BY <3>3, <3>4, TakesLock, HoldFollows DEF Takes
  <2> QED
    BY <1>4, <2>2, RollbackLeaves DEF LockUser
<1>5. CASE CountActiveAdmins(s)
  BY <1>5 DEF CountActiveAdmins, At, Goto, Following, Follows, Local, Typed, TypeOK
<1>6. CASE UserHasActiveOrders(s)
  <2>1. "UpdateUser" \in Following(pc[s])
    BY <1>6 DEF UserHasActiveOrders, At, Following
  <2>2. Proceed(s, "UpdateUser") \/ \E answer : Rollback(s, answer)
    BY <1>6 DEF UserHasActiveOrders
  <2> QED
    BY <2>1, <2>2, ProceedFollows, RollbackLeaves
<1>7. CASE UpdateUser(s)
  <2>1. "InsertAudit" \in Following(pc[s])
    BY <1>7 DEF UpdateUser, At, Following
  <2>2. \/ Rollback(s, "EMAIL_CONFLICT")
        \/ Write(s, key[s], PatchedUser(row[s], req[s]), <<"USER_UPDATED">>) /\ UNCHANGED held
    BY <1>7 DEF UpdateUser
  <2> QED
    BY <2>1, <2>2, WriteFollows, RollbackLeaves DEF Takes
<1> QED
  BY <1>1, <1>2, <1>3, <1>4, <1>5, <1>6, <1>7 DEF UserStep

LEMMA AssetFollows ==
  ASSUME Typed, NEW s \in Sessions, AssetStep(s)
  PROVE  Follows(s) \/ Leaves(s)
<1>1. ASSUME pc[s] \in {"PatchAsset", "AssetHasOpenOrders"}, WriteAsset(s)
      PROVE  Follows(s)
  <2>1. "InsertAudit" \in Following(pc[s])
    BY <1>1 DEF Following
  <2> QED
    BY <1>1, <2>1, WriteFollows DEF WriteAsset, Takes
<1>2. CASE InsertAsset(s)
  <2>1. pc[s] = "InsertAsset" /\ "InsertAudit" \in Following(pc[s])
    BY <1>2 DEF InsertAsset, At, Following
  <2>2. <<CodeLock(req[s].code), "UPDATE">> \in Wants(s)
    BY <2>1 DEF Wants
  <2> QED
    BY <1>2, <2>1, <2>2, TakesLock, WriteFollows, RollbackLeaves DEF InsertAsset, Takes
<1>3. CASE LockAsset(s)
  <2>1. pc[s] = "LockAsset" /\ Following(pc[s]) = {"AssetHasOrders", "PatchAsset"}
    BY <1>3 DEF LockAsset, At, Following
  <2>2. CASE assets[req[s].id] \notin {Null, Gone}
    <3>1. req[s].id \in Assets
      BY <2>1, InService, RequestShape DEF Serving
    <3>2. req[s].id \in Keys /\ Row(req[s].id) = assets[req[s].id]
      BY <3>1, IdsAssumption DEF Keys, Row
    <3>3. <<RowLock(req[s].id), "UPDATE">> \in Wants(s)
      BY <2>1, <2>2, <3>2, WantsRow DEF Wants
    <3>4. PICK statement \in Following(pc[s]) :
            /\ Lock(s, RowLock(req[s].id), "UPDATE")
            /\ Hold(s, req[s].id, assets[req[s].id], statement)
      BY <1>3, <2>1, <2>2 DEF LockAsset, LockAssetMode
    <3> QED
      BY <3>3, <3>4, TakesLock, HoldFollows DEF Takes
  <2> QED
    BY <1>3, <2>2, RollbackLeaves DEF LockAsset
<1>4. CASE PatchAsset(s)
  <2>1. pc[s] = "PatchAsset"
        /\ Following(pc[s]) = {"AssetHasOpenOrders", "InsertAudit", "Commit"}
    BY <1>4 DEF PatchAsset, At, Following
  <2>2. Proceed(s, "Commit") \/ Proceed(s, "AssetHasOpenOrders") \/ WriteAsset(s)
    BY <1>4 DEF PatchAsset
  <2> QED
    BY <1>1, <2>1, <2>2, ProceedFollows
<1>5. CASE AssetHasOpenOrders(s)
  BY <1>1, <1>5, RollbackLeaves DEF AssetHasOpenOrders, At
<1>6. CASE AssetHasOrders(s)
  <2>1. "DeleteAsset" \in Following(pc[s])
    BY <1>6 DEF AssetHasOrders, At, Following
  <2> QED
    BY <1>6, <2>1, ProceedFollows, RollbackLeaves DEF AssetHasOrders
<1>7. CASE DeleteAsset(s)
  <2>1. pc[s] = "DeleteAsset" /\ "InsertAudit" \in Following(pc[s])
    BY <1>7 DEF DeleteAsset, At, Following
  <2>2. <<CodeLock(row[s].code), "UPDATE">> \in Wants(s)
    BY <2>1 DEF Wants
  <2> QED
    BY <1>7, <2>1, <2>2, TakesLock, WriteFollows, RollbackLeaves DEF DeleteAsset, Takes
<1> QED
  BY <1>2, <1>3, <1>4, <1>5, <1>6, <1>7 DEF AssetStep

LEMMA WorkOrderFollows ==
  ASSUME Typed, NEW s \in Sessions, WorkOrderStep(s)
  PROVE  Follows(s) \/ Leaves(s)
<1>1. CASE ShareAsset(s)
  <2>1. pc[s] = "ShareAsset" /\ Following(pc[s]) = {"InsertWorkOrder"}
    BY <1>1 DEF ShareAsset, At, Following
  <2>2. CASE /\ assets[req[s].asset] \notin {Null, Gone}
             /\ LockSharedAsset(s, req[s].asset) /\ Goto(s, "InsertWorkOrder")
             /\ UNCHANGED <<tables, req, key, wait, row, next, acts, logged, seen, reply>>
    <3>1. req[s].asset \in Assets
      BY <2>1, InService, RequestShape DEF Serving
    <3>2. req[s].asset \in Keys /\ Row(req[s].asset) = assets[req[s].asset]
      BY <3>1, IdsAssumption DEF Keys, Row
    <3>3. <<RowLock(req[s].asset), "SHARE">> \in Wants(s)
      BY <2>1, <2>2, <3>2, WantsRow DEF Wants
    <3>4. Takes(s)
      BY <2>2, <3>3, TakesLock DEF LockSharedAsset, Takes
    <3> QED
      BY <2>1, <2>2, <3>4 DEF Goto, Follows, Takes, Local, Typed, TypeOK
  <2>3. CASE \E answer : Rollback(s, answer)
    BY <2>3, RollbackLeaves
  <2> QED
    BY <1>1, <2>2, <2>3 DEF ShareAsset
<1>2. CASE InsertWorkOrder(s)
  <2>1. "InsertAudit" \in Following(pc[s])
    BY <1>2 DEF InsertWorkOrder, At, Following
  <2> QED
    BY <1>2, <2>1, WriteFollows DEF InsertWorkOrder, Takes
<1>3. CASE LockWorkOrder(s)
  <2>1. pc[s] = "LockWorkOrder" /\ Following(pc[s]) = {"Change"}
    BY <1>3 DEF LockWorkOrder, At, Following
  <2>2. CASE orders[req[s].id] # Null
    <3>1. req[s].id \in Orders
      BY <2>1, InService, RequestShape DEF Serving, MutateOps
    <3>2. /\ req[s].id \in Keys /\ Row(req[s].id) = orders[req[s].id]
          /\ orders[req[s].id] # Gone
      BY <3>1, IdsAssumption, RowsAssumption DEF Typed, TypeOK, Keys, Row, Rows
    <3>3. <<RowLock(req[s].id), "UPDATE">> \in Wants(s)
      BY <2>1, <2>2, <3>2, WantsRow DEF Wants
    <3>4. /\ Lock(s, RowLock(req[s].id), "UPDATE")
          /\ Hold(s, req[s].id, orders[req[s].id], "Change")
      BY <1>3, <2>2 DEF LockWorkOrder, LockWorkOrderMode
    <3> QED
      BY <2>1, <3>3, <3>4, TakesLock, HoldFollows DEF Takes
  <2> QED
    BY <1>3, <2>2, RollbackLeaves DEF LockWorkOrder
<1>4. CASE Change(s)
  <2>1. Following(pc[s]) = {"ShareTarget", "InsertAudit", "Commit"}
    BY <1>4 DEF Change, At, Following
  <2>2. CASE ChangePatch(s)
    BY <2>1, <2>2, ProceedFollows, WriteFollows DEF ChangePatch, Takes
  <2>3. CASE ChangeStatus(s)
    BY <2>1, <2>3, RollbackLeaves, WriteFollows DEF ChangeStatus, Takes
  <2>4. CASE ChangeAssign(s)
    BY <2>1, <2>4, RollbackLeaves, ProceedFollows DEF ChangeAssign
  <2>5. CASE \E answer : Rollback(s, answer)
    BY <2>5, RollbackLeaves
  <2> QED
    BY <1>4, <2>2, <2>3, <2>4, <2>5 DEF Change
<1>5. CASE ShareTarget(s)
  <2>1. pc[s] = "ShareTarget" /\ "InsertAudit" \in Following(pc[s])
    BY <1>5 DEF ShareTarget, At, Following
  <2>2. \/ \E answer : Rollback(s, answer)
        \/ /\ users[req[s].target] # Null /\ Lock(s, RowLock(req[s].target), "SHARE")
           /\ Write(s, key[s], AssignedOrder(row[s], req[s].target), AssignActions(row[s].status))
    BY <1>5 DEF ShareTarget, ShareLockUser
  <2>3. CASE /\ users[req[s].target] # Null /\ Lock(s, RowLock(req[s].target), "SHARE")
             /\ Write(s, key[s], AssignedOrder(row[s], req[s].target), AssignActions(row[s].status))
    <3>1. req[s].target \in Users
      BY <2>1, InService, RequestShape DEF Serving
    <3>2. /\ req[s].target \in Keys /\ Row(req[s].target) = users[req[s].target]
          /\ users[req[s].target] # Gone
      BY <3>1, AccountRow
    <3>3. <<RowLock(req[s].target), "SHARE">> \in Wants(s)
      BY <2>1, <2>3, <3>2, WantsRow DEF Wants
    <3> QED
      BY <2>1, <2>3, <3>3, TakesLock, WriteFollows DEF Takes
  <2> QED
    BY <2>2, <2>3, RollbackLeaves
<1> QED
  BY <1>1, <1>2, <1>3, <1>4, <1>5 DEF WorkOrderStep

LEMMA CloseFollows ==
  ASSUME Typed, AllGuarded, NEW s \in Sessions,
         InsertAudit(s) \/ Commit(s) \/ Resolve(s) \/ CommitLost(s) \/ Abort(s)
  PROVE  Follows(s) \/ Leaves(s)
<1>1. CASE InsertAudit(s)
  <2>1. pc[s] = "InsertAudit" /\ req[s] # Null /\ req[s] \in AllRequests
    BY <1>1, InService, RequestsAssumption DEF InsertAudit, At
  <2>2. Takes(s)
    <3>1. CASE req[s].actor = Null
      BY <1>1, <3>1 DEF InsertAudit, Takes
    <3>2. CASE req[s].actor # Null
      <4>1. req[s].actor \in Users /\ users[req[s].actor] # Null
        BY <2>1, <3>2, RequestShape DEF AllGuarded, Guarded, Present
      <4>2. /\ req[s].actor \in Keys /\ Row(req[s].actor) = users[req[s].actor]
            /\ users[req[s].actor] # Gone
        BY <4>1, AccountRow
      <4>3. <<RowLock(req[s].actor), "KEY SHARE">> \in Wants(s)
        BY <2>1, <3>2, <4>1, <4>2 DEF Wants, OnRows
      <4> QED
        BY <1>1, <3>2, <4>3, TakesLock DEF InsertAudit, Takes
    <3> QED
      BY <3>1, <3>2
  <2>3. pc'[s] \in {"InsertAudit", "Commit"} /\ Local(s) /\ req'[s] = req[s]
    BY <1>1, <2>2 DEF InsertAudit, Goto, Local, Takes, Typed, TypeOK
  <2> QED
    BY <2>1, <2>2, <2>3 DEF Follows, Following, Takes
<1>2. CASE Commit(s) \/ Resolve(s)
  BY <1>2, EndLocal DEF Commit, Resolve, At, Leaves, Ends
<1>3. CASE CommitLost(s)
  BY <1>3 DEF CommitLost, At, Goto, Following, Follows, Local, Typed, TypeOK
<1>4. CASE Abort(s)
  BY <1>4, RollbackLeaves DEF Abort
<1> QED
  BY <1>1, <1>2, <1>3, <1>4

\* A step begins a transaction, goes on in it, or ends it.
LEMMA StepFollows ==
  ASSUME Typed, AllGuarded, NEW s \in Sessions,
         Receive(s) \/ Step(s) \/ CommitLost(s) \/ Abort(s)
  PROVE  Begins(s) \/ Follows(s) \/ Leaves(s)
BY EntryFollows, UserFollows, AssetFollows, WorkOrderFollows, CloseFollows DEF Step

(***************************************************************************)
(* Where the holder of a lock may be.  A row of an account is locked for   *)
(* update by a patch of it only, under the administration lock.            *)
(***************************************************************************)
Administrating(s) == req[s].op \in UserOps /\ pc[s] \notin {"idle", "LockUserAdministration"}

Accounting(s) ==
  /\ req[s].op = "PatchUser"
  /\ pc[s] \in {"CountActiveAdmins", "UserHasActiveOrders", "UpdateUser"} \cup Closing

UsesAsset == {"PatchAsset", "AssetHasOpenOrders", "AssetHasOrders", "DeleteAsset",
              "InsertWorkOrder"} \cup Closing

UsesOrder == {"Change", "ShareTarget"} \cup Closing

InOrder(s) ==
  \A r \in Resources, m \in Modes :
    <<r, m>> \in held[s] =>
      /\ pc[s] \notin {"idle", "LockUserAdministration"}
      /\ r = Administration => Administrating(s)
      /\ (\E u \in Users : r = RowLock(u)) /\ m = "UPDATE" => Accounting(s)
      /\ (\E a \in Assets : r = RowLock(a)) => pc[s] \in UsesAsset
      /\ (\E o \in Orders : r = RowLock(o)) => pc[s] \in UsesOrder
      /\ (\E c \in Codes : r = CodeLock(c)) => pc[s] \in Closing

AllInOrder == \A s \in Sessions : InOrder(s)

\* The kinds of locks are distinct.
LEMMA KindsOfLocks ==
  /\ \A k, c : RowLock(k) # Administration /\ CodeLock(c) # Administration
              /\ RowLock(k) # CodeLock(c)
  /\ \A u \in Users, a \in Assets : RowLock(u) # RowLock(a)
  /\ \A u \in Users, o \in Orders : RowLock(u) # RowLock(o)
  /\ \A a \in Assets, o \in Orders : RowLock(a) # RowLock(o)
BY IdsAssumption DEF RowLock, CodeLock, Administration

\* What a statement wants, by statement.
LEMMA WantsWhat ==
  ASSUME Typed, NEW s \in Sessions, NEW w \in Wants(s)
  PROVE  \/ pc[s] = "LockUserAdministration" /\ w = <<Administration, "UPDATE">>
         \/ /\ pc[s] \in {"ShareUser", "ShareTarget"}
            /\ \E u \in Users : w = <<RowLock(u), "SHARE">>
         \/ pc[s] = "LockUser" /\ \E u \in Users : w = <<RowLock(u), "UPDATE">>
         \/ pc[s] = "LockAsset" /\ \E a \in Assets : w = <<RowLock(a), "UPDATE">>
         \/ pc[s] = "ShareAsset" /\ \E a \in Assets : w = <<RowLock(a), "SHARE">>
         \/ pc[s] = "LockWorkOrder" /\ \E o \in Orders : w = <<RowLock(o), "UPDATE">>
         \/ pc[s] \in {"InsertAsset", "DeleteAsset"} /\ \E c \in Codes : w = <<CodeLock(c), "UPDATE">>
         \/ /\ pc[s] = "InsertAudit" /\ req[s].actor \in Users
            /\ w = <<RowLock(req[s].actor), "KEY SHARE">>
<1>1. \A keys, m, x : x \in OnRows(keys, m) => \E k \in keys : x = <<RowLock(k), m>>
  BY DEF OnRows
<1>2. CASE pc[s] = "LockUserAdministration"
  BY <1>2 DEF Wants
<1>3. CASE pc[s] = "ShareUser"
  <2>1. PICK u \in {u \in wait[s] : \A v \in wait[s] : u <= v} : w = <<RowLock(u), "SHARE">>
    BY <1>1, <1>3 DEF Wants
  <2>2. u \in Users
    BY DEF Typed, TypeOK
  <2> QED
    BY <1>3, <2>1, <2>2
<1>4. CASE pc[s] \in {"LockUser", "LockAsset", "LockWorkOrder"}
  <2>1. w = <<RowLock(req[s].id), "UPDATE">>
    <3>1. Wants(s) = OnRows({req[s].id}, "UPDATE")
      BY <1>4, Zenon DEF Wants
    <3> QED
      BY <1>1, <3>1
  <2>2. CASE pc[s] = "LockUser"
    BY <2>1, <2>2, InService, RequestShape DEF Serving
  <2>3. CASE pc[s] = "LockAsset"
    BY <2>1, <2>3, InService, RequestShape DEF Serving
  <2>4. CASE pc[s] = "LockWorkOrder"
    BY <2>1, <2>4, InService, RequestShape DEF Serving, MutateOps
  <2> QED
    BY <1>4, <2>2, <2>3, <2>4
<1>5. CASE pc[s] = "ShareAsset"
  <2>1. w = <<RowLock(req[s].asset), "SHARE">>
    BY <1>1, <1>5 DEF Wants
  <2> QED
    BY <1>5, <2>1, InService, RequestShape DEF Serving
<1>6. CASE pc[s] = "ShareTarget"
  <2>1. w = <<RowLock(req[s].target), "SHARE">>
    BY <1>1, <1>6 DEF Wants
  <2> QED
    BY <1>6, <2>1, InService, RequestShape DEF Serving
<1>7. CASE pc[s] = "InsertAsset"
  <2>1. w = <<CodeLock(req[s].code), "UPDATE">>
    BY <1>7 DEF Wants
  <2> QED
    BY <1>7, <2>1, InService, RequestShape DEF Serving
<1>8. CASE pc[s] = "DeleteAsset"
  <2>1. w = <<CodeLock(row[s].code), "UPDATE">>
    BY <1>8 DEF Wants
  <2>2. row[s] \in AssetRow
    BY <1>8, HeldAsset
  <2> QED
    BY <1>8, <2>1, <2>2 DEF AssetRow
<1>9. CASE pc[s] = "InsertAudit"
  <2>1. req[s].actor # Null /\ w = <<RowLock(req[s].actor), "KEY SHARE">>
    <3>1. req[s].actor # Null
      BY <1>9 DEF Wants
    <3>2. w \in OnRows({req[s].actor}, "KEY SHARE")
      BY <1>9, <3>1 DEF Wants
    <3>3. PICK k \in {req[s].actor} : w = <<RowLock(k), "KEY SHARE">>
      BY <3>2 DEF OnRows
    <3>4. k = req[s].actor
      OBVIOUS
    <3> QED
      BY <3>1, <3>3, <3>4
  <2> QED
    BY <1>9, <2>1, InService, RequestShape
<1>10. pc[s] \in {"LockUserAdministration", "ShareUser", "LockUser", "LockAsset", "LockWorkOrder",
                  "ShareAsset", "ShareTarget", "InsertAsset", "DeleteAsset", "InsertAudit"}
  BY DEF Wants
<1> QED
  BY <1>2, <1>3, <1>4, <1>5, <1>6, <1>7, <1>8, <1>9, <1>10

\* What a transaction is in, it stays in to its end.
LEMMA FollowsStays ==
  ASSUME Typed, NEW s \in Sessions, Follows(s)
  PROVE  /\ Administrating(s) => Administrating(s)'
         /\ Accounting(s) => Accounting(s)'
         /\ pc[s] \in UsesAsset => pc'[s] \in UsesAsset
         /\ pc[s] \in UsesOrder => pc'[s] \in UsesOrder
         /\ pc[s] \in Closing => pc'[s] \in Closing
<1>1. pc'[s] \in Following(pc[s]) /\ req'[s] = req[s]
  BY DEF Follows
<1>2. /\ pc[s] \in Closing => pc'[s] \in Closing
      /\ pc[s] \in {"CountActiveAdmins", "UserHasActiveOrders", "UpdateUser"} =>
           pc'[s] \in {"CountActiveAdmins", "UserHasActiveOrders", "UpdateUser"} \cup Closing
  BY <1>1 DEF Following, Closing
<1>3. /\ pc[s] \in UsesAsset => pc'[s] \in UsesAsset
      /\ pc[s] \in UsesOrder => pc'[s] \in UsesOrder
  BY <1>1 DEF Following, Closing, UsesAsset, UsesOrder
<1>4. pc'[s] \notin {"idle", "LockUserAdministration"}
  BY <1>1 DEF Following
<1> QED
  BY <1>1, <1>2, <1>3, <1>4 DEF Administrating, Accounting

LEMMA FollowsInOrder ==
  ASSUME Typed, NEW s \in Sessions, InOrder(s), Follows(s)
  PROVE  InOrder(s)'
<1> SUFFICES ASSUME NEW r \in Resources, NEW m \in Modes, <<r, m>> \in held'[s]
             PROVE  /\ pc'[s] \notin {"idle", "LockUserAdministration"}
                    /\ r = Administration => Administrating(s)'
                    /\ (\E u \in Users : r = RowLock(u)) /\ m = "UPDATE" => Accounting(s)'
                    /\ (\E a \in Assets : r = RowLock(a)) => pc'[s] \in UsesAsset
                    /\ (\E o \in Orders : r = RowLock(o)) => pc'[s] \in UsesOrder
                    /\ (\E c \in Codes : r = CodeLock(c)) => pc'[s] \in Closing
  BY DEF InOrder, Resources, RowLock, CodeLock, Administration
<1>0. pc'[s] \notin {"idle", "LockUserAdministration"}
  BY DEF Follows, Following
<1>1. CASE <<r, m>> \in held[s]
  BY <1>0, <1>1, FollowsStays DEF InOrder
<1>2. CASE <<r, m>> \in Wants(s)
  <2>1. pc'[s] \in Following(pc[s]) /\ req'[s] = req[s] /\ pc[s] # "idle"
    <3>1. pc[s] # "idle"
      BY <1>2 DEF Wants
    <3> QED
      BY <3>1 DEF Follows
  <2>2. CASE pc[s] = "LockUserAdministration" /\ <<r, m>> = <<Administration, "UPDATE">>
    <3>1. Administrating(s)'
      BY <2>1, <2>2, InService DEF Administrating, Serving, Following
    <3> QED
      BY <1>0, <2>2, <3>1, KindsOfLocks
  <2>3. CASE \E u \in Users : r = RowLock(u) /\ m # "UPDATE"
    <3>1. PICK u \in Users : r = RowLock(u) /\ m # "UPDATE"
      BY <2>3
    <3> QED
      BY <1>0, <3>1, KindsOfLocks
  <2>4. CASE pc[s] = "LockUser" /\ \E u \in Users : <<r, m>> = <<RowLock(u), "UPDATE">>
    <3>1. Accounting(s)'
      BY <2>1, <2>4, InService DEF Accounting, Serving, Following, Closing
    <3>2. PICK u \in Users : r = RowLock(u)
      BY <2>4
    <3> QED
      BY <1>0, <3>1, <3>2, KindsOfLocks
  <2>5. CASE pc[s] \in {"LockAsset", "ShareAsset"} /\ \E a \in Assets : r = RowLock(a)
    <3>1. pc'[s] \in UsesAsset
      BY <2>1, <2>5 DEF Following, UsesAsset
    <3>2. PICK a \in Assets : r = RowLock(a)
      BY <2>5
    <3> QED
      BY <1>0, <3>1, <3>2, KindsOfLocks
  <2>6. CASE pc[s] = "LockWorkOrder" /\ \E o \in Orders : r = RowLock(o)
    <3>1. pc'[s] \in UsesOrder
      BY <2>1, <2>6 DEF Following, UsesOrder
    <3>2. PICK o \in Orders : r = RowLock(o)
      BY <2>6
    <3> QED
      BY <1>0, <3>1, <3>2, KindsOfLocks
  <2>7. CASE pc[s] \in {"InsertAsset", "DeleteAsset"} /\ \E c \in Codes : r = CodeLock(c)
    <3>1. pc'[s] \in Closing
      BY <2>1, <2>7 DEF Following, Closing
    <3>2. PICK c \in Codes : r = CodeLock(c)
      BY <2>7
    <3> QED
      BY <1>0, <3>1, <3>2, KindsOfLocks
  <2> QED
    BY <1>0, <1>2, <2>2, <2>3, <2>4, <2>5, <2>6, <2>7, WantsWhat
<1> QED
  BY <1>1, <1>2 DEF Follows

LEMMA StepInOrder ==
  ASSUME Typed, AllGuarded, AllInOrder, [Next]_vars
  PROVE  AllInOrder'
<1>1. ASSUME NEW s \in Sessions, Local(s), NEW t \in Sessions \ {s}
      PROVE  InOrder(t)'
  <2>1. pc'[t] = pc[t] /\ req'[t] = req[t] /\ held'[t] = held[t] /\ InOrder(t)
    BY <1>1 DEF Local, AllInOrder
  <2> QED
    BY <2>1 DEF InOrder, Administrating, Accounting, Resources, RowLock, CodeLock, Administration
<1>2. ASSUME NEW s \in Sessions, held'[s] = {}
      PROVE  InOrder(s)'
  BY <1>2 DEF InOrder
<1>3. CASE Next
  <2>1. PICK s \in Sessions : Begins(s) \/ Follows(s) \/ Leaves(s)
    BY <1>3, StepFollows DEF Next
  <2>2. Local(s)
    BY <2>1 DEF Begins, Follows, Leaves
  <2>3. InOrder(s)'
    <3>1. CASE Follows(s)
      BY <3>1, FollowsInOrder DEF AllInOrder
    <3>2. CASE Begins(s)
      BY <1>2, <3>2 DEF Begins
    <3>3. CASE Leaves(s)
      <4>1. held'[s] = {}
        BY <3>3 DEF Leaves, Ends, End, Typed, TypeOK
      <4> QED
        BY <1>2, <4>1
    <3> QED
      BY <2>1, <3>1, <3>2, <3>3
  <2> QED
    BY <1>1, <2>2, <2>3 DEF AllInOrder
<1>4. CASE UNCHANGED vars
  BY <1>4 DEF vars, AllInOrder, InOrder, Administrating, Accounting, Resources, RowLock, CodeLock,
              Administration
<1> QED
  BY <1>3, <1>4

LEMMA InOrderAlways == Spec => []AllInOrder
<1>1. Init => AllInOrder
  BY DEF Init, AllInOrder, InOrder
<1>2. Inv => Typed
  BY DEF Inv
<1> QED
  BY <1>1, <1>2, StepInOrder, InvAlways, GuardedAlways, PTL DEF Spec

-----------------------------------------------------------------------------
(***************************************************************************)
(* Who waits waits for somebody further on.  Depth ranks the statements    *)
(* that lock.                                                              *)
(***************************************************************************)
Depth(statement) ==
  CASE statement = "LockUserAdministration"       -> 1
    [] statement = "LockUser"                     -> 2
    [] statement = "ShareUser"                    -> 3
    [] statement \in {"LockAsset", "ShareAsset"}  -> 4
    [] statement \in {"InsertAsset", "DeleteAsset"} -> 5
    [] statement = "LockWorkOrder"                -> 6
    [] statement = "ShareTarget"                  -> 7
    [] OTHER                                      -> 8

Orderly == Inv /\ AllGuarded /\ AllInOrder

\* Two transactions of accounts are never both past the administration lock.
LEMMA OneAdministrates ==
  ASSUME Orderly, NEW s \in Sessions, NEW t \in Sessions \ {s},
         Administrating(s), Administrating(t)
  PROVE  FALSE
<1>1. <<Administration, "UPDATE">> \in held[s] /\ <<Administration, "UPDATE">> \in held[t]
  BY DEF Orderly, AllGuarded, Guarded, HoldsAdministration, Administrating
<1>2. Administration \in Resources /\ "UPDATE" \in Modes /\ Conflict("UPDATE", "UPDATE")
  BY DEF Resources, Modes, Conflict
<1> QED
  BY <1>1, <1>2 DEF Orderly, Inv, Locked, Exclusive

LEMMA AuditNeverWaits ==
  ASSUME Orderly, NEW s \in Sessions, NEW t \in Sessions, pc[s] = "InsertAudit"
  PROVE  ~WaitsFor(s, t)
<1> SUFFICES ASSUME WaitsFor(s, t) PROVE FALSE
  OBVIOUS
<1>1. PICK w \in Wants(s), m \in Modes : <<w[1], m>> \in held[t] /\ Conflict(w[2], m)
  BY DEF WaitsFor
<1>2. req[s].actor \in Users /\ w = <<RowLock(req[s].actor), "KEY SHARE">>
  BY WantsWhat DEF Orderly, Inv
<1>3. <<RowLock(req[s].actor), "UPDATE">> \in held[t]
  BY <1>1, <1>2 DEF Conflict
<1>4. RowLock(req[s].actor) \in Resources /\ "UPDATE" \in Modes /\ "SHARE" \in Modes
      /\ Conflict("SHARE", "UPDATE")
  BY <1>2, RowResource DEF Keys, Modes, Conflict
<1>5. Accounting(t) /\ t \in Sessions \ {s}
  BY <1>2, <1>3, <1>4 DEF Orderly, AllInOrder, InOrder, WaitsFor
<1>6. Administrating(t)
  BY <1>5 DEF Accounting, Administrating, UserOps, Closing
<1>7. CASE req[s].op \in UserOps
  <2>1. Administrating(s)
    BY <1>7 DEF Administrating
  <2> QED
    BY <1>5, <1>6, <2>1, OneAdministrates
<1>8. CASE req[s].op \notin UserOps
  <2>1. <<RowLock(req[s].actor), "SHARE">> \in held[s]
    BY <1>8 DEF Orderly, AllGuarded, Guarded, SharesActor
  <2> QED
    BY <1>3, <1>4, <1>5, <2>1 DEF Orderly, Inv, Locked, Exclusive
<1> QED
  BY <1>7, <1>8

LEMMA WaitsDeeper ==
  ASSUME Orderly, NEW s \in Sessions, NEW t \in Sessions, WaitsFor(s, t),
         NEW x \in Sessions, WaitsFor(t, x)
  PROVE  Depth(pc[s]) < Depth(pc[t]) /\ Depth(pc[t]) \in 1..7
<1>1. PICK w \in Wants(s), m \in Modes : <<w[1], m>> \in held[t] /\ Conflict(w[2], m)
  BY DEF WaitsFor
<1>2. t \in Sessions \ {s} /\ Typed
  BY DEF WaitsFor, Orderly, Inv
<1>3. pc[s] # "InsertAudit" /\ pc[t] # "InsertAudit"
  BY AuditNeverWaits
<1>4. \E v \in Wants(t) : TRUE
  BY DEF WaitsFor
<1>5. pc[t] \in {"LockUserAdministration", "ShareUser", "LockUser", "LockAsset", "LockWorkOrder",
                 "ShareAsset", "ShareTarget", "InsertAsset", "DeleteAsset"}
  BY <1>2, <1>3, <1>4, WantsWhat
<1>6. held[t] \subseteq Resources \X Modes
  BY <1>2 DEF Typed, TypeOK
<1>7. w[1] \in Resources /\ pc[t] \notin Closing
  BY <1>1, <1>5, <1>6 DEF Closing
<1>8. /\ InOrder(t) /\ InOrder(s)
  BY DEF Orderly, AllInOrder
<1>9. CASE pc[s] = "LockUserAdministration" /\ w = <<Administration, "UPDATE">>
  <2>1. Administrating(t)
    BY <1>1, <1>7, <1>8, <1>9 DEF InOrder
  <2> QED
    BY <1>5, <1>9, <2>1 DEF Administrating, Depth
<1>10. CASE pc[s] \in {"ShareUser", "ShareTarget"} /\ \E u \in Users : w = <<RowLock(u), "SHARE">>
  <2>1. m = "UPDATE"
    BY <1>1, <1>10 DEF Conflict
  <2>2. Accounting(t)
    BY <1>1, <1>7, <1>8, <1>10, <2>1 DEF InOrder
  <2> QED
    BY <1>5, <2>2 DEF Accounting, Closing
<1>11. CASE pc[s] = "LockUser" /\ \E u \in Users : w = <<RowLock(u), "UPDATE">>
  <2>1. Administrating(s)
    BY <1>2, <1>11, InService DEF Administrating, Serving, UserOps
  <2>2. pc[t] # "LockUserAdministration"
    BY <1>1, <1>7, <1>8 DEF InOrder
  <2>3. pc[t] # "LockUser"
    <3>1. pc[t] = "LockUser" => Administrating(t)
      BY <1>2, InService DEF Administrating, Serving, UserOps
    <3> QED
      BY <1>2, <2>1, <3>1, OneAdministrates
  <2> QED
    BY <1>5, <1>11, <2>2, <2>3 DEF Depth
<1>12. CASE pc[s] \in {"LockAsset", "ShareAsset"} /\ \E a \in Assets : w[1] = RowLock(a)
  <2>1. pc[t] \in UsesAsset
    BY <1>1, <1>7, <1>8, <1>12 DEF InOrder
  <2> QED
    BY <1>5, <1>7, <1>12, <2>1 DEF UsesAsset, Depth
<1>13. CASE pc[s] \in {"InsertAsset", "DeleteAsset"} /\ \E c \in Codes : w[1] = CodeLock(c)
  BY <1>1, <1>7, <1>8, <1>13 DEF InOrder
<1>14. CASE pc[s] = "LockWorkOrder" /\ \E o \in Orders : w[1] = RowLock(o)
  <2>1. pc[t] \in UsesOrder
    BY <1>1, <1>7, <1>8, <1>14 DEF InOrder
  <2> QED
    BY <1>5, <1>7, <1>14, <2>1 DEF UsesOrder, Depth
<1>15. CASE pc[s] = "LockAsset" /\ \E a \in Assets : w = <<RowLock(a), "UPDATE">>
  BY <1>12, <1>15
<1>16. CASE pc[s] = "ShareAsset" /\ \E a \in Assets : w = <<RowLock(a), "SHARE">>
  BY <1>12, <1>16
<1>17. CASE pc[s] = "LockWorkOrder" /\ \E o \in Orders : w = <<RowLock(o), "UPDATE">>
  BY <1>14, <1>17
<1>18. CASE /\ pc[s] \in {"InsertAsset", "DeleteAsset"}
            /\ \E c \in Codes : w = <<CodeLock(c), "UPDATE">>
  BY <1>13, <1>18
<1> QED
  BY <1>2, <1>3, <1>9, <1>10, <1>11, <1>15, <1>16, <1>17, <1>18, WantsWhat

\* Ranks up to 8 do not rise for ever.
LEMMA RanksEnd ==
  ASSUME NEW S, NEW rank \in [S -> 1..8], \A s \in S : \E t \in S : rank[s] < rank[t]
  PROVE  S = {}
<1> DEFINE AtMost(n) == \A s \in S : rank[s] <= n
<1>1. ASSUME NEW n \in Int, AtMost(n)
      PROVE  AtMost(n - 1)
  <2> SUFFICES ASSUME NEW s \in S PROVE rank[s] <= n - 1
    OBVIOUS
  <2>1. PICK t \in S : rank[s] < rank[t]
    OBVIOUS
  <2>2. rank[t] <= n /\ rank[s] \in Int /\ rank[t] \in Int
    BY <1>1
  <2> QED
    BY <2>1, <2>2
<1>2. AtMost(8)
  OBVIOUS
<1> HIDE DEF AtMost
<1>3. AtMost(8 - 1) /\ AtMost(7 - 1) /\ AtMost(6 - 1) /\ AtMost(5 - 1)
  BY <1>1, <1>2
<1>4. AtMost(4)
  BY <1>3
<1>5. AtMost(4 - 1) /\ AtMost(3 - 1) /\ AtMost(2 - 1) /\ AtMost(1 - 1)
  BY <1>1, <1>4
<1>6. AtMost(0)
  BY <1>5
<1> QED
  BY <1>6 DEF AtMost

\* In every group of transactions one waits for none of the group.
LEMMA SomebodyGoesOn ==
  ASSUME Orderly
  PROVE  NoWaitCycle
<1> SUFFICES ASSUME NEW group \in (SUBSET Sessions) \ {{}},
                    \A s \in group : \E t \in group : WaitsFor(s, t)
             PROVE  FALSE
  BY DEF NoWaitCycle
<1> DEFINE rank == [s \in group |-> Depth(pc[s])]
<1>1. \A s \in group : \E t \in group : rank[s] < rank[t]
  BY WaitsDeeper
<1>2. rank \in [group -> 1..8]
  BY DEF Depth
<1> HIDE DEF rank
<1> QED
  BY <1>1, <1>2, RanksEnd

\* Whatever the transactions are in, their waits for locks form no cycle: the services lock
\* in one order (the administration lock, an account, an asset, an order), which is why
\* PostgreSQL never has to break a deadlock of theirs.
THEOREM WaitsNeverCycle == Spec => []NoWaitCycle
<1>1. Inv /\ AllGuarded /\ AllInOrder => NoWaitCycle
  BY SomebodyGoesOn DEF Orderly
<1> QED
  BY <1>1, InvAlways, GuardedAlways, InOrderAlways, PTL
=============================================================================
