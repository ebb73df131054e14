------------------------------- MODULE Store -------------------------------
(***************************************************************************)
(* The PostgreSQL database as the services use it, and the transaction     *)
(* wrapper InTx of internal/platform/database/transaction.go.              *)
(*                                                                         *)
(* A session is one HTTP request in service (or one run of the bootstrap   *)
(* command): it waits idle, receives a request, runs the statements of one *)
(* READ COMMITTED transaction and answers.  pc[s] is the name of the next  *)
(* statement.  Writes are buffered in the session and reach the tables at  *)
(* commit; a locking statement is enabled when its lock can be granted and *)
(* reads the row as it is then, as PostgreSQL does after a lock wait.      *)
(***************************************************************************)
EXTENDS Integers, Sequences, FiniteSets, Rbac, Lifecycle

CONSTANTS
  Users,        \* account ids, integers: their order is the order of the UUIDs
  Assets,       \* asset ids
  Orders,       \* work-order ids
  Sessions,     \* requests the server can have in service at once
  Emails,       \* addresses of accounts
  Codes,        \* asset codes
  Values,       \* contents of a name, a title, a password, ...
  AssetFields,  \* the descriptive fields of an asset: name, category, location
  OrderFields,  \* the descriptive fields of an order: title, description, priority
  Requests,     \* the requests clients send
  InitUsers, InitAssets, InitOrders,   \* the tables when the model starts
  Null,         \* SQL NULL, a missing row, an absent field of a patch
  Gone          \* a deleted row: its UUID is never generated again

UserRow  == [role: Roles, active: BOOLEAN, email: Emails, name: Values, password: Values]
AssetRow == [code: Codes, status: AssetStatuses, meta: [AssetFields -> Values]]
OrderRow == [asset: Assets, status: OrderStatuses, assignee: Users \cup {Null},
             creator: Users, meta: [OrderFields -> Values]]

Keys == Users \cup Assets \cup Orders

Rows == UserRow \cup AssetRow \cup OrderRow

(***************************************************************************)
(* The kinds of ids and of rows are distinct, and the tables the model     *)
(* starts from hold rows of their kind.                                    *)
(***************************************************************************)
ASSUME IdsAssumption ==
  /\ Users \subseteq Int /\ IsFiniteSet(Users)
  /\ Users \cap Assets = {} /\ Users \cap Orders = {} /\ Assets \cap Orders = {}
  /\ Null \notin Keys

ASSUME RowsAssumption ==
  /\ Null # Gone /\ Null \notin Rows /\ Gone \notin Rows
  /\ InitUsers \in [Users -> UserRow \cup {Null}]
  /\ InitAssets \in [Assets -> AssetRow \cup {Null, Gone}]
  /\ InitOrders \in [Orders -> OrderRow \cup {Null}]

VARIABLES
  users, assets, orders,   \* the committed rows
  trail,    \* per entity, the new_value of its latest committed audit rows
  pc,       \* per session, its next statement
  req,      \* per session, the request it serves
  key,      \* per session, the row it mutates or inserts
  wait,     \* per session, the accounts still to be share-locked
  held,     \* per session, the locks its transaction holds
  row,      \* per session, the row as its locking statement read it (old)
  next,     \* per session, the row its transaction has written (next)
  acts,     \* per session, the audit actions of the write
  logged,   \* per session, how many of them it has inserted
  seen,     \* per session, the result of CountActiveAdmins
  reply     \* per session, its last answer

tables == <<users, assets, orders, trail>>
vars == <<users, assets, orders, trail, pc, req, key, wait, held, row, next,
          acts, logged, seen, reply>>

(***************************************************************************)
(* Locks.  FOR KEY SHARE is what a foreign-key check takes on the row it   *)
(* references; FOR UPDATE also stands for the transaction-scoped advisory  *)
(* lock and for the entry of a unique index that an insert or a delete has *)
(* claimed.  Every lock is held until the transaction ends.                *)
(***************************************************************************)
Modes == {"KEY SHARE", "SHARE", "UPDATE"}
Conflict(m, n) == m = "UPDATE" \/ n = "UPDATE"

Administration == <<"admin", Null>>
RowLock(k) == <<"row", k>>
CodeLock(c) == <<"code", c>>
Resources == {Administration} \cup {RowLock(k) : k \in Keys} \cup {CodeLock(c) : c \in Codes}

Grantable(s, r, m) ==
  \A t \in Sessions \ {s}, n \in Modes : <<r, n>> \in held[t] => ~Conflict(m, n)

Lock(s, r, m) ==
  /\ Grantable(s, r, m)
  /\ held' = [held EXCEPT ![s] = @ \cup {<<r, m>>}]

(***************************************************************************)
(* Audit snapshots: an account without its password, any other row whole.  *)
(***************************************************************************)
UserSnapshot(u) == [name |-> u.name, email |-> u.email, role |-> u.role, active |-> u.active]

Snapshot(k, r) == IF k \in Users /\ r # Null THEN UserSnapshot(r) ELSE r

Row(k) == CASE k \in Users  -> users[k]
            [] k \in Assets -> assets[k]
            [] k \in Orders -> orders[k]

Init ==
  /\ users = InitUsers /\ assets = InitAssets /\ orders = InitOrders
  /\ trail = [k \in Keys |->
                CASE k \in Users  -> Snapshot(k, InitUsers[k])
                  [] k \in Assets -> InitAssets[k]
                  [] k \in Orders -> InitOrders[k]]
  /\ pc = [s \in Sessions |-> "idle"]
  /\ req = [s \in Sessions |-> Null]
  /\ key = [s \in Sessions |-> Null]
  /\ wait = [s \in Sessions |-> {}]
  /\ held = [s \in Sessions |-> {}]
  /\ row = [s \in Sessions |-> Null]
  /\ next = [s \in Sessions |-> Null]
  /\ acts = [s \in Sessions |-> <<>>]
  /\ logged = [s \in Sessions |-> 0]
  /\ seen = [s \in Sessions |-> 0]
  /\ reply = [s \in Sessions |-> Null]

At(s, statement) == pc[s] = statement
Goto(s, statement) == pc' = [pc EXCEPT ![s] = statement]

\* UUIDs that no row has, had or is about to have in an uncommitted insert.
Fresh(table) == {k \in DOMAIN table : table[k] = Null /\ \A t \in Sessions : key[t] # k}

(***************************************************************************)
(* The end of a transaction: its locks are released and the session is     *)
(* idle again.                                                             *)
(***************************************************************************)
End(s, answer) ==
  /\ pc' = [pc EXCEPT ![s] = "idle"]
  /\ req' = [req EXCEPT ![s] = Null]
  /\ key' = [key EXCEPT ![s] = Null]
  /\ wait' = [wait EXCEPT ![s] = {}]
  /\ held' = [held EXCEPT ![s] = {}]
  /\ row' = [row EXCEPT ![s] = Null]
  /\ next' = [next EXCEPT ![s] = Null]
  /\ acts' = [acts EXCEPT ![s] = <<>>]
  /\ logged' = [logged EXCEPT ![s] = 0]
  /\ seen' = [seen EXCEPT ![s] = 0]
  /\ reply' = [reply EXCEPT ![s] = answer]

\* The callback of InTx returned an error: the deferred rollback drops the writes.
Rollback(s, answer) == End(s, answer) /\ UNCHANGED tables

\* Variant: the audit is written from the row as it was before.
OldValueAsNew(s) == Snapshot(key[s], IF row[s] = Null THEN next[s] ELSE row[s])

\* new_value of the audit rows of a transaction: the row it has written.
NewValue(s) == Snapshot(key[s], next[s])

\* What a commit makes visible, all at once.
Apply(s) ==
  /\ users' = IF next[s] # Null /\ key[s] \in Users
                THEN [users EXCEPT ![key[s]] = next[s]] ELSE users
  /\ assets' = IF next[s] # Null /\ key[s] \in Assets
                 THEN [assets EXCEPT ![key[s]] = next[s]] ELSE assets
  /\ orders' = IF next[s] # Null /\ key[s] \in Orders
                 THEN [orders EXCEPT ![key[s]] = next[s]] ELSE orders
  /\ trail' = IF logged[s] > 0
                THEN [trail EXCEPT ![key[s]] = NewValue(s)] ELSE trail

\* Variant: an audit insert that fails after the first one is ignored.
FirstActionOnly(s) == 1

\* How many audit rows a transaction inserts before it commits: one per action.
AuditsToInsert(s) == Len(acts[s])

(***************************************************************************)
(* InsertAudit: one row per action, in the transaction of the write.  Its  *)
(* foreign key share-locks the key of the actor; only the bootstrap has    *)
(* none.                                                                   *)
(***************************************************************************)
InsertAudit(s) ==
  /\ At(s, "InsertAudit")
  /\ IF req[s].actor = Null THEN UNCHANGED held
     ELSE Lock(s, RowLock(req[s].actor), "KEY SHARE")
  /\ logged' = [logged EXCEPT ![s] = @ + 1]
  /\ Goto(s, IF logged[s] + 1 < AuditsToInsert(s) THEN "InsertAudit" ELSE "Commit")
  /\ UNCHANGED <<tables, req, key, wait, row, next, acts, seen, reply>>

(***************************************************************************)
(* COMMIT.  It succeeds; or PostgreSQL refuses it, which is an Abort; or   *)
(* the connection or the context fails first, the client is told that the  *)
(* outcome is unknown, and the backend applies or drops the writes later,  *)
(* keeping the locks until then.                                           *)
(***************************************************************************)
Commit(s) == At(s, "Commit") /\ Apply(s) /\ End(s, Ok)

CommitLost(s) ==
  /\ At(s, "Commit")
  /\ Goto(s, "Limbo")
  /\ reply' = [reply EXCEPT ![s] = "WRITE_OUTCOME_UNKNOWN"]
  /\ UNCHANGED <<tables, req, key, wait, held, row, next, acts, logged, seen>>

Resolve(s) ==
  /\ At(s, "Limbo")
  /\ Apply(s) \/ UNCHANGED tables
  /\ End(s, reply[s])

\* Any statement, or the commit itself, fails: an error of the database, a
\* deadline, a lost connection or the end of the process.
Abort(s) == pc[s] \notin {"idle", "Limbo"} /\ Rollback(s, "FAILED")
=============================================================================
