----------------------------- MODULE Timestamps -----------------------------
(***************************************************************************)
(* The times PostgreSQL writes into a row: now() is the start of the       *)
(* transaction, clock_timestamp() the moment of the statement.  Mutations  *)
(* of one row begin in one order and get its lock in another.  The row is  *)
(* a work order, the kind that has all three times.                        *)
(***************************************************************************)
EXTENDS Naturals

CONSTANTS
  Sessions,   \* transactions in service at once
  Null,       \* no row, no time, no transaction
  Horizon     \* a bound: the time at which the clock stops

VARIABLES
  clock,    \* the clock of the database; it does not go backwards
  order,    \* the committed row
  pc,       \* per session, its next statement
  begun,    \* per session, when its transaction began
  holder,   \* the session that has the row locked FOR UPDATE
  next,     \* per session, the row it has written
  answered  \* when the last write that has been committed was committed

vars == <<clock, order, pc, begun, holder, next, answered>>

Times == 0..Horizon

OrderRow == [created_at: Times, updated_at: Times, completed_at: Times \cup {Null}]

ASSUME TimeAssumption == Horizon \in Nat /\ Null \notin Nat \cup Sessions \cup OrderRow

Init ==
  /\ clock = 0 /\ order = Null /\ holder = Null /\ answered = 0
  /\ pc = [s \in Sessions |-> "idle"]
  /\ begun = [s \in Sessions |-> Null]
  /\ next = [s \in Sessions |-> Null]

At(s, statement) == pc[s] = statement
Goto(s, statement) == pc' = [pc EXCEPT ![s] = statement]

Tick == clock < Horizon /\ clock' = clock + 1
          /\ UNCHANGED <<order, pc, begun, holder, next, answered>>

Begin(s) ==
  /\ At(s, "idle") /\ Goto(s, IF order = Null THEN "InsertWorkOrder" ELSE "LockWorkOrder")
  /\ begun' = [begun EXCEPT ![s] = clock]
  /\ UNCHANGED <<clock, order, holder, next, answered>>

\* created_at and updated_at take their default.
InsertWorkOrder(s) ==
  /\ At(s, "InsertWorkOrder") /\ order = Null /\ \A t \in Sessions : next[t] = Null
  /\ next' = [next EXCEPT ![s] = [created_at |-> begun[s], updated_at |-> begun[s],
                                  completed_at |-> Null]]
  /\ Goto(s, "Commit")
  /\ UNCHANGED <<clock, order, begun, holder, answered>>

\* FOR UPDATE; a finished order is refused.
LockWorkOrder(s) ==
  /\ At(s, "LockWorkOrder") /\ holder = Null
  /\ order.completed_at = Null
  /\ holder' = s /\ Goto(s, "UpdateWorkOrder")
  /\ UNCHANGED <<clock, order, begun, next, answered>>

\* Variant: now(), which docs/database.md gives for updated_at.
TransactionTime(s) == begun[s]

\* clock_timestamp().
UpdatedAt(s) == clock

\* The times of one statement are read one after the other.
UpdateWorkOrder(s) ==
  /\ At(s, "UpdateWorkOrder")
  /\ \E completes \in BOOLEAN :
       next' = [next EXCEPT ![s] = [created_at |-> order.created_at, updated_at |-> UpdatedAt(s),
                                    completed_at |-> IF completes THEN UpdatedAt(s) ELSE Null]]
  /\ Goto(s, "Commit")
  /\ UNCHANGED <<clock, order, begun, holder, answered>>

End(s) ==
  /\ Goto(s, "idle")
  /\ begun' = [begun EXCEPT ![s] = Null]
  /\ next' = [next EXCEPT ![s] = Null]
  /\ holder' = IF holder = s THEN Null ELSE holder
  /\ UNCHANGED clock

Commit(s) == At(s, "Commit") /\ order' = next[s] /\ answered' = clock /\ End(s)

Rollback(s) == ~At(s, "idle") /\ UNCHANGED <<order, answered>> /\ End(s)

Next ==
  \/ Tick
  \/ \E s \in Sessions :
       \/ Begin(s) \/ InsertWorkOrder(s) \/ LockWorkOrder(s) \/ UpdateWorkOrder(s)
       \/ Commit(s) \/ Rollback(s)

Spec == Init /\ [][Next]_vars

-----------------------------------------------------------------------------
\* The constraints of migration 000006 hold, and the row a client is given after a
\* write was answered never looks older than that answer: whatever the order in which
\* the transactions began, updated_at follows the order of the changes.
UpdatedAtGrows ==
  [][order' # order =>
       /\ order'.updated_at >= order'.created_at
       /\ order'.completed_at # Null => order'.completed_at >= order'.created_at
       /\ order # Null =>
            order'.updated_at >= order.updated_at /\ order'.updated_at >= answered]_vars
=============================================================================
