--------------------------- MODULE HistoryProofs ---------------------------
(***************************************************************************)
(* Timestamps, for every number of transactions and every length of time;  *)
(* then AuditLog: whatever the log, its writers and the lists asked for, a *)
(* list belongs to one state, a walk through the pages misses nothing, and *)
(* what is told of a row is what its writer wrote and may be told.         *)
(***************************************************************************)
EXTENDS AuditLog, FiniteSetTheorems, SequenceTheorems, TLAPS

Statements == {"idle", "InsertWorkOrder", "LockWorkOrder", "UpdateWorkOrder", "Commit"}

TypeOK ==
  /\ clock \in Times /\ answered \in Times
  /\ order \in OrderRow \cup {Null}
  /\ pc \in [Sessions -> Statements]
  /\ begun \in [Sessions -> Times \cup {Null}]
  /\ next \in [Sessions -> OrderRow \cup {Null}]
  /\ holder \in Sessions \cup {Null}

\* The row follows the clock and the answers.
RowOK ==
  /\ answered <= clock
  /\ order # Null => order.created_at <= order.updated_at /\ order.updated_at <= answered

\* A first version: nobody else is about to commit.
Inserts(s) ==
  /\ order = Null
  /\ next[s].updated_at = next[s].created_at /\ next[s].completed_at = Null
  /\ \A t \in Sessions \ {s} : pc[t] # "Commit"

\* A later version: it is written under the lock, after the answer it replaces.
Updates(s) ==
  /\ order # Null /\ holder = s
  /\ next[s].created_at = order.created_at
  /\ answered <= next[s].updated_at
  /\ next[s].completed_at # Null => next[s].completed_at = next[s].updated_at

SessionOK(s) ==
  /\ pc[s] # "idle" => begun[s] \in Times /\ begun[s] <= clock
  /\ pc[s] = "Commit" <=> next[s] # Null
  /\ pc[s] = "Commit" => next[s].updated_at <= clock /\ (Inserts(s) \/ Updates(s))
  /\ pc[s] \in {"LockWorkOrder", "UpdateWorkOrder"} => order # Null
  /\ pc[s] = "UpdateWorkOrder" => holder = s
  /\ holder = s => order # Null /\ pc[s] \in {"UpdateWorkOrder", "Commit"}

Inv == TypeOK /\ RowOK /\ \A s \in Sessions : SessionOK(s)

-----------------------------------------------------------------------------
LEMMA InitInv == Init => Inv
BY TimeAssumption DEF Init, Inv, TypeOK, RowOK, SessionOK, Statements, Times, Inserts, Updates

LEMMA TickInv == Inv /\ Tick => Inv'
<1> SUFFICES ASSUME Inv, Tick PROVE Inv'
  OBVIOUS
<1>1. TypeOK'
  BY TimeAssumption DEF Inv, TypeOK, Tick, Times
<1>2. RowOK'
  BY TimeAssumption DEF Inv, TypeOK, RowOK, Tick, Times, OrderRow
<1>3. ASSUME NEW s \in Sessions PROVE SessionOK(s)'
  <2>1. SessionOK(s) /\ clock \in Nat /\ clock' = clock + 1
    BY TimeAssumption DEF Inv, TypeOK, Tick, Times
  <2>2. begun[s] \in Times \cup {Null} /\ next[s] \in OrderRow \cup {Null}
    BY DEF Inv, TypeOK
  <2>3. pc[s] # "idle" => begun[s] <= clock'
    BY <2>1, <2>2, TimeAssumption DEF SessionOK, Times
  <2>4. pc[s] = "Commit" => next[s].updated_at <= clock'
    BY <2>1, <2>2, TimeAssumption DEF SessionOK, Times, OrderRow
  <2> QED
    BY <2>1, <2>3, <2>4 DEF Tick, SessionOK, Inserts, Updates
<1> QED
  BY <1>1, <1>2, <1>3 DEF Inv

LEMMA BeginInv ==
  ASSUME Inv, NEW s \in Sessions, Begin(s)
  PROVE  Inv'
<1>1. TypeOK'
  BY DEF Inv, TypeOK, Begin, Goto, Statements
<1>2. RowOK'
  BY DEF Inv, RowOK, Begin
<1>3. ASSUME NEW t \in Sessions PROVE SessionOK(t)'
  <2>1. SessionOK(t) /\ SessionOK(s) /\ pc[s] = "idle"
    BY DEF Inv, Begin, At
  <2>2. CASE t = s
    BY <2>1, <2>2, TimeAssumption DEF Begin, Goto, Inv, TypeOK, SessionOK, Times
  <2>3. CASE t # s
    BY <2>1, <2>3 DEF Begin, Goto, Inv, TypeOK, SessionOK, Inserts, Updates
  <2> QED
    BY <2>2, <2>3
<1> QED
  BY <1>1, <1>2, <1>3 DEF Inv

LEMMA InsertInv ==
  ASSUME Inv, NEW s \in Sessions, InsertWorkOrder(s)
  PROVE  Inv'
<1> DEFINE new == [created_at |-> begun[s], updated_at |-> begun[s], completed_at |-> Null]
<1>1. SessionOK(s) /\ pc[s] = "InsertWorkOrder"
  BY DEF Inv, InsertWorkOrder, At
<1>2. begun[s] \in Times /\ begun[s] <= clock /\ new \in OrderRow
  BY <1>1 DEF SessionOK, OrderRow
<1>3. pc' = [pc EXCEPT ![s] = "Commit"] /\ next' = [next EXCEPT ![s] = new]
  BY DEF InsertWorkOrder, Goto
<1>4. TypeOK'
  BY <1>2, <1>3 DEF Inv, TypeOK, InsertWorkOrder, Statements
<1>5. RowOK'
  BY DEF Inv, RowOK, InsertWorkOrder
<1>6. ASSUME NEW t \in Sessions PROVE SessionOK(t)'
  <2>1. order = Null /\ UNCHANGED <<clock, order, begun, holder>>
    BY DEF InsertWorkOrder
  <2>2. \A r \in Sessions : pc[r] # "Commit"
    BY DEF Inv, InsertWorkOrder, SessionOK
  <2>3. SessionOK(t)
    BY DEF Inv
  <2>4. CASE t = s
    <3>1. pc'[s] = "Commit" /\ next'[s] = new
      BY <1>3 DEF Inv, TypeOK
    <3>2. Inserts(s)'
      BY <1>3, <2>1, <2>2, <3>1 DEF Inserts, Inv, TypeOK
    <3> QED
      BY <1>2, <2>1, <2>3, <2>4, <3>1, <3>2, TimeAssumption DEF SessionOK
  <2>5. CASE t # s
    <3>1. pc'[t] = pc[t] /\ next'[t] = next[t] /\ pc[t] # "Commit"
      BY <1>3, <2>2, <2>5 DEF Inv, TypeOK
    <3> QED
      BY <2>1, <2>3, <3>1 DEF SessionOK
  <2> QED
    BY <2>4, <2>5
<1> QED
  BY <1>4, <1>5, <1>6 DEF Inv

LEMMA LockInv ==
  ASSUME Inv, NEW s \in Sessions, LockWorkOrder(s)
  PROVE  Inv'
<1>1. SessionOK(s) /\ pc[s] = "LockWorkOrder" /\ order # Null /\ holder = Null
  BY DEF Inv, LockWorkOrder, At, SessionOK
<1>2. TypeOK'
  BY DEF Inv, TypeOK, LockWorkOrder, Goto, Statements
<1>3. RowOK'
  BY DEF Inv, RowOK, LockWorkOrder
<1>4. ASSUME NEW t \in Sessions PROVE SessionOK(t)'
  <2>1. SessionOK(t)
    BY DEF Inv
  <2>2. CASE t = s
    BY <1>1, <2>1, <2>2 DEF LockWorkOrder, Goto, Inv, TypeOK, SessionOK
  <2>3. CASE t # s
    <3>1. pc'[t] = pc[t] /\ UNCHANGED <<clock, order, begun, next>> /\ holder' = s
      BY <2>3 DEF LockWorkOrder, Goto, Inv, TypeOK
    <3>2. pc[t] # "Commit" /\ pc[t] # "UpdateWorkOrder"
      BY <1>1, <2>1, TimeAssumption DEF SessionOK, Inserts, Updates
    <3> QED
      BY <2>1, <2>3, <3>1, <3>2 DEF SessionOK
  <2> QED
    BY <2>2, <2>3
<1> QED
  BY <1>2, <1>3, <1>4 DEF Inv

LEMMA UpdateInv ==
  ASSUME Inv, NEW s \in Sessions, UpdateWorkOrder(s)
  PROVE  Inv'
<1>1. PICK done \in {clock, Null} :
        next' = [next EXCEPT ![s] = [created_at |-> order.created_at, updated_at |-> clock,
                                     completed_at |-> done]]
  BY DEF UpdateWorkOrder, UpdatedAt
<1> DEFINE new == [created_at |-> order.created_at, updated_at |-> clock, completed_at |-> done]
<1>2. SessionOK(s) /\ pc[s] = "UpdateWorkOrder" /\ order # Null /\ holder = s
  BY DEF Inv, UpdateWorkOrder, At, SessionOK
<1>3. new \in OrderRow
  BY <1>2 DEF OrderRow, Inv, TypeOK
<1>4. pc' = [pc EXCEPT ![s] = "Commit"] /\ UNCHANGED <<clock, order, begun, holder, answered>>
  BY DEF UpdateWorkOrder, Goto
<1>5. TypeOK'
  BY <1>1, <1>3, <1>4 DEF Inv, TypeOK, Statements
<1>6. RowOK'
  BY <1>4 DEF Inv, RowOK
<1>7. ASSUME NEW t \in Sessions PROVE SessionOK(t)'
  <2>1. SessionOK(t)
    BY DEF Inv
  <2>2. CASE t = s
    <3>1. pc'[s] = "Commit" /\ next'[s] = new
      BY <1>1, <1>4 DEF Inv, TypeOK
    <3>2. Updates(s)'
      BY <1>2, <1>4, <3>1 DEF Updates, Inv, RowOK
    <3>3. new.updated_at <= clock
      BY TimeAssumption DEF Inv, TypeOK, Times
    <3> QED
      BY <1>2, <1>3, <1>4, <2>2, <3>1, <3>2, <3>3, TimeAssumption DEF SessionOK
  <2>3. CASE t # s
    <3>1. pc'[t] = pc[t] /\ next'[t] = next[t]
      BY <1>1, <1>4, <2>3 DEF Inv, TypeOK
    <3>2. pc[t] # "Commit"
      BY <1>2, <2>1, <2>3 DEF SessionOK, Inserts, Updates
    <3> QED
      BY <1>4, <2>1, <3>1, <3>2 DEF SessionOK
  <2> QED
    BY <2>2, <2>3
<1> QED
  BY <1>5, <1>6, <1>7 DEF Inv

\* What a commit finds: the row it writes is not older than the one it replaces.
LEMMA CommitFacts ==
  ASSUME Inv, NEW s \in Sessions, Commit(s)
  PROVE  /\ order' = next[s] /\ next[s] \in OrderRow
         /\ answered <= clock /\ next[s].updated_at <= clock
         /\ next[s].created_at <= next[s].updated_at
         /\ next[s].completed_at # Null => next[s].created_at <= next[s].completed_at
         /\ order # Null => /\ order.updated_at <= next[s].updated_at
                            /\ answered <= next[s].updated_at
<1>1. SessionOK(s) /\ pc[s] = "Commit" /\ order' = next[s] /\ RowOK
  BY DEF Inv, Commit, At
<1>2. next[s] \in OrderRow /\ next[s] # Null /\ (Inserts(s) \/ Updates(s))
  BY <1>1 DEF SessionOK, Inv, TypeOK
<1>3. /\ next[s].created_at \in Nat /\ next[s].updated_at \in Nat
      /\ clock \in Nat /\ answered \in Nat
      /\ order # Null => order.created_at \in Nat /\ order.updated_at \in Nat
  BY <1>2, TimeAssumption DEF Inv, TypeOK, OrderRow, Times
<1> QED
  BY <1>1, <1>2, <1>3 DEF SessionOK, RowOK, Inserts, Updates

LEMMA EndInv ==
  ASSUME Inv, NEW s \in Sessions, Commit(s) \/ Rollback(s)
  PROVE  Inv'
<1>1. End(s) /\ UNCHANGED clock
  BY DEF Commit, Rollback, End
<1>2. CASE Rollback(s)
  <2>1. TypeOK'
    BY <1>1, <1>2 DEF Inv, TypeOK, Rollback, End, Goto, Statements
  <2>2. RowOK'
    BY <1>1, <1>2 DEF Inv, RowOK, Rollback
  <2>3. ASSUME NEW t \in Sessions PROVE SessionOK(t)'
    <3>1. SessionOK(t) /\ UNCHANGED <<order, answered, clock>>
      BY <1>1, <1>2 DEF Inv, Rollback
    <3>2. CASE t = s
      BY <1>1, <3>1, <3>2, TimeAssumption DEF End, Goto, Inv, TypeOK, SessionOK
    <3>3. CASE t # s
      <4>1. /\ pc'[t] = pc[t] /\ next'[t] = next[t] /\ begun'[t] = begun[t]
            /\ holder' \in {holder, Null} /\ (holder = t => holder' = t)
        BY <1>1, <3>3 DEF End, Goto, Inv, TypeOK
      <4>2. Inserts(t) => Inserts(t)'
        BY <1>1, <3>1, <4>1 DEF Inserts, End, Goto, Inv, TypeOK
      <4>3. Updates(t) => Updates(t)'
        BY <3>1, <4>1 DEF Updates
      <4> QED
        BY <3>1, <4>1, <4>2, <4>3, TimeAssumption DEF SessionOK
    <3> QED
      BY <3>2, <3>3
  <2> QED
    BY <2>1, <2>2, <2>3 DEF Inv
<1>3. CASE Commit(s)
  <2>1. TypeOK'
    BY <1>1, <1>3, CommitFacts DEF Inv, TypeOK, Commit, End, Goto, Statements
  <2>2. RowOK'
    BY <1>1, <1>3, CommitFacts, TimeAssumption DEF Inv, TypeOK, RowOK, Commit, Times
  <2>3. ASSUME NEW t \in Sessions PROVE SessionOK(t)'
    <3>1. SessionOK(t) /\ SessionOK(s) /\ pc[s] = "Commit" /\ order' # Null
      BY <1>3, CommitFacts, TimeAssumption DEF Inv, Commit, At
    <3>2. CASE t = s
      BY <1>1, <3>1, <3>2, TimeAssumption DEF End, Goto, Inv, TypeOK, SessionOK
    <3>3. CASE t # s
      <4>1. /\ pc'[t] = pc[t] /\ next'[t] = next[t] /\ begun'[t] = begun[t]
            /\ holder' \in {holder, Null}
        BY <1>1, <3>3 DEF End, Goto, Inv, TypeOK
      <4>2. pc[t] # "Commit" /\ pc[t] # "UpdateWorkOrder" /\ holder # t
        BY <3>1, <3>3 DEF SessionOK, Inserts, Updates
      <4> QED
        BY <1>1, <3>1, <4>1, <4>2, TimeAssumption DEF SessionOK
    <3> QED
      BY <3>2, <3>3
  <2> QED
    BY <2>1, <2>2, <2>3 DEF Inv
<1> QED
  BY <1>2, <1>3

LEMMA StepInv ==
  ASSUME Inv, [Next]_vars
  PROVE  Inv'
<1>1. CASE UNCHANGED vars
  BY <1>1 DEF vars, Inv, TypeOK, RowOK, SessionOK, Inserts, Updates
<1> QED
  BY <1>1, TickInv, BeginInv, InsertInv, LockInv, UpdateInv, EndInv DEF Next

\* However transactions begin, wait and end, updated_at follows the order of the changes
\* and the constraints on the times of a row never refuse a write.
THEOREM Growing == Spec => UpdatedAtGrows
<1>1. Inv /\ [Next]_vars =>
        [order' # order =>
           /\ order'.updated_at >= order'.created_at
           /\ order'.completed_at # Null => order'.completed_at >= order'.created_at
           /\ order # Null =>
                order'.updated_at >= order.updated_at /\ order'.updated_at >= answered]_vars
  <2> SUFFICES ASSUME Inv, Next, order' # order
               PROVE  /\ order'.updated_at >= order'.created_at
                      /\ order'.completed_at # Null => order'.completed_at >= order'.created_at
                      /\ order # Null =>
                           order'.updated_at >= order.updated_at /\ order'.updated_at >= answered
    OBVIOUS
  <2>1. PICK s \in Sessions : Commit(s)
    BY DEF Next, Tick, Begin, InsertWorkOrder, LockWorkOrder, UpdateWorkOrder, Rollback
  <2>2. /\ order' \in OrderRow /\ answered \in Nat
        /\ order # Null => order \in OrderRow
    BY <2>1, CommitFacts, TimeAssumption DEF Inv, TypeOK, Times
  <2> QED
    BY <2>1, <2>2, CommitFacts, TimeAssumption DEF OrderRow, Times
<1> QED
  BY InitInv, StepInv, <1>1, PTL DEF Spec, UpdatedAtGrows

-----------------------------------------------------------------------------
(***************************************************************************)
(* The audit log.  The rows, and what the writers know of them.            *)
(***************************************************************************)
WellFormed(r) ==
  /\ r.id \in Int /\ r.created_at \in Int /\ r.type \in Types
  /\ Snapshots(r.old) /\ Snapshots(r.new)

LogIds == {r.id : r \in log}

LogOK ==
  /\ IsFiniteSet(log)
  /\ \A r \in log : WellFormed(r) /\ r.created_at <= answered
  /\ \A r, x \in log : r.id = x.id => r = x

\* What a transaction may know was answered before it began.
KnownOK ==
  /\ known \in [Sessions -> SUBSET LogIds]
  /\ \A s \in Sessions : \A x \in log :
       x.id \in known[s] => pc[s] # "idle" /\ x.created_at < begun[s]

\* A list in service: what it has checked and counted holds in the state it looks at.
ReadOK ==
  /\ step \in {"idle", "Check", "Count", "List"}
  /\ \A v \in past : v.ids \subseteq LogIds
  /\ step # "idle" => query \in Filters /\ Valid(query) /\ Now \in past
  /\ step \in {"Count", "List"} => snap \in past /\ Permitted(snap, query.reader) = "OK"
  /\ step = "List" => total = Cardinality(Matching(Entries(snap), query))

\* What a client still has to see is not above the page it asks for next.
Due(entries) ==
  \A id \in walk.owed :
    \E x \in Matching(entries, walk.next) :
      x.id = id /\ Rank(x, Matching(entries, walk.next)) > (walk.next.page - 1) * walk.next.limit

WalkOK ==
  /\ walk.next = Null => walk.owed = {}
  /\ walk.next # Null =>
       /\ walk.next \in Filters /\ walk.next.page >= 1 /\ walk.next.limit >= 1
       /\ Due(log)
       /\ step # "idle" /\ walk.next = query => \A v \in past : Due(Entries(v))

Reading == LogOK /\ KnownOK /\ ReadOK /\ WalkOK

-----------------------------------------------------------------------------
\* A snapshot that a service wrote passes Sanitize unchanged.
LEMMA WrittenIsShown ==
  ASSUME NEW type \in Types, NEW raw, Snapshots(raw), Written(type, raw)
  PROVE  Sanitize(type, raw) = raw
<1>1. CASE raw = Null
  BY <1>1 DEF Sanitize
<1>2. CASE raw # Null
  <2> DEFINE fields == DOMAIN raw \cap Known(type)
  <2>1. raw \in [DOMAIN raw -> Kinds]
    BY <1>2 DEF Snapshots
  <2>2. DOMAIN raw \subseteq Known(type) /\ \A f \in DOMAIN raw : Accepts(type, f, raw[f])
    <3>1. CASE type = "user"
      BY <1>2, <3>1 DEF Written, Known, Accepts, Strings, Bools, Nullables, UserStrings
    <3>2. CASE type = "asset"
      BY <1>2, <3>2 DEF Written, Known, Accepts, Strings, Bools, Nullables
    <3>3. CASE type = "work_order"
      BY <1>2, <3>3 DEF Written, Known, Accepts, Strings, Bools, Nullables, OrderStrings
    <3> QED
      BY <3>1, <3>2, <3>3 DEF Types
  <2>3. fields = DOMAIN raw
    BY <2>2
  <2>4. [f \in fields |-> raw[f]] = raw
    BY <2>1, <2>3
  <2> QED
    BY <1>2, <2>2, <2>3, <2>4 DEF Sanitize
<1> QED
  BY <1>1, <1>2

\* What passes Sanitize is NULL or has public fields with plain values only.
LEMMA ShownIsPublic ==
  ASSUME NEW type \in Types, NEW raw, Sanitize(type, raw) \notin {Null, Refused},
         NEW f \in DOMAIN Sanitize(type, raw)
  PROVE  f \in PublicFields(type) /\ Sanitize(type, raw)[f] # "other"
<1> DEFINE fields == DOMAIN raw \cap Known(type)
<1>1. /\ Sanitize(type, raw) = [g \in fields |-> raw[g]]
      /\ \A g \in fields : Accepts(type, g, raw[g])
  BY DEF Sanitize
<1>2. f \in fields /\ Sanitize(type, raw)[f] = raw[f] /\ Accepts(type, f, raw[f])
  BY <1>1
<1>3. raw[f] # "other"
  BY <1>2 DEF Accepts
<1>4. Known(type) = PublicFields(type)
  <2>1. CASE type = "user"
    BY <2>1 DEF Known, PublicFields, Strings, Bools, Nullables, UserStrings
  <2>2. CASE type = "asset"
    BY <2>2 DEF Known, PublicFields, Strings, Bools, Nullables
  <2>3. CASE type = "work_order"
    BY <2>3 DEF Known, PublicFields, Strings, Bools, Nullables, OrderStrings
  <2> QED
    BY <2>1, <2>2, <2>3 DEF Types
<1> QED
  BY <1>2, <1>3, <1>4

-----------------------------------------------------------------------------
(***************************************************************************)
(* Pages.  Entries that are finite in number and have an identity each are *)
(* ranked by the ORDER BY, and a listing has them by rank.                 *)
(***************************************************************************)
Ranked(entries) ==
  /\ IsFiniteSet(entries)
  /\ \A x \in entries : x.id \in Int /\ x.created_at \in Int
  /\ \A x, y \in entries : x.id = y.id => x = y

NotAfter(x, entries) ==
  {y \in entries : y.created_at > x.created_at
                     \/ (y.created_at = x.created_at /\ y.id >= x.id)}

LEMMA RankIs == \A x, entries : Rank(x, entries) = Cardinality(NotAfter(x, entries))
BY DEF Rank, NotAfter

LEMMA RankBounds ==
  ASSUME NEW entries, Ranked(entries), NEW x \in entries
  PROVE  Rank(x, entries) \in 1..Cardinality(entries)
<1>1. NotAfter(x, entries) \in SUBSET entries /\ {x} \in SUBSET NotAfter(x, entries)
  BY DEF NotAfter, Ranked
<1>2. /\ IsFiniteSet(NotAfter(x, entries))
      /\ Cardinality(NotAfter(x, entries)) <= Cardinality(entries)
  BY <1>1, FS_Subset DEF Ranked
<1>3. Cardinality({x}) = 1 /\ Cardinality({x}) <= Cardinality(NotAfter(x, entries))
  BY <1>1, <1>2, FS_Subset, FS_Singleton
<1>4. Cardinality(entries) \in Nat /\ Cardinality(NotAfter(x, entries)) \in Nat
  BY <1>2, FS_CardinalityType DEF Ranked
<1> QED
  BY <1>2, <1>3, <1>4, RankIs

LEMMA RankGrows ==
  ASSUME NEW entries, NEW more, entries \subseteq more, Ranked(more), NEW x \in entries
  PROVE  Ranked(entries) /\ Rank(x, entries) <= Rank(x, more)
<1>1. Ranked(entries)
  BY FS_Subset DEF Ranked
<1>2. /\ NotAfter(x, entries) \in SUBSET NotAfter(x, more)
      /\ NotAfter(x, more) \in SUBSET more
  BY DEF NotAfter
<1>3. IsFiniteSet(NotAfter(x, more))
  BY <1>2, FS_Subset DEF Ranked
<1>4. Cardinality(NotAfter(x, entries)) <= Cardinality(NotAfter(x, more))
  BY <1>2, <1>3, FS_Subset
<1> QED
  BY <1>1, <1>4, RankIs

LEMMA ListingRank ==
  ASSUME NEW entries, Ranked(entries), NEW listing \in Listings(entries),
         NEW k \in 1..Cardinality(entries)
  PROVE  listing[k] \in entries /\ Rank(listing[k], entries) = k
<1> DEFINE n == Cardinality(entries)
           first == [j \in 1..k |-> listing[j]]
           upTo == NotAfter(listing[k], entries)
<1>1. n \in Nat
  BY FS_CardinalityType DEF Ranked
<1>2. /\ listing \in [1..n -> entries]
      /\ \A i, j \in 1..n : listing[i] = listing[j] => i = j
      /\ \A y \in entries : \E j \in 1..n : listing[j] = y
      /\ \A i, j \in 1..n : i < j => ~Precedes(listing[j], listing[i])
  BY DEF Listings, Bijection, Injection, Surjection, IsInjective
<1> HIDE DEF n
<1>3. listing[k] \in entries /\ k \in 1..n
  BY <1>2 DEF n
<1>4. \A j \in 1..n : listing[j] \in upTo <=> j <= k
  <2> SUFFICES ASSUME NEW j \in 1..n PROVE listing[j] \in upTo <=> j <= k
    OBVIOUS
  <2>1. /\ listing[j] \in entries /\ listing[j].id \in Int /\ listing[j].created_at \in Int
        /\ listing[k].id \in Int /\ listing[k].created_at \in Int
        /\ listing[j].id = listing[k].id => j = k
    BY <1>1, <1>2, <1>3 DEF Ranked
  <2>2. j < k => ~Precedes(listing[k], listing[j])
    BY <1>2, <1>3
  <2>3. k < j => ~Precedes(listing[j], listing[k])
    BY <1>2, <1>3
  <2> QED
    BY <1>1, <1>3, <2>1, <2>2, <2>3 DEF NotAfter, Precedes
<1>5. \A j \in 1..k : j \in 1..n /\ j <= k
  BY <1>1, <1>3
<1>6. first \in [1..k -> upTo]
  BY <1>4, <1>5
<1>7. \A i, j \in 1..k : first[i] = first[j] => i = j
  BY <1>2, <1>5
<1>8. \A y \in upTo : \E j \in 1..k : first[j] = y
  <2> SUFFICES ASSUME NEW y \in upTo PROVE \E j \in 1..k : first[j] = y
    OBVIOUS
  <2>1. PICK j \in 1..n : listing[j] = y
    BY <1>2 DEF NotAfter
  <2>2. j \in 1..k
    BY <1>1, <1>3, <1>4, <2>1
  <2> QED
    BY <2>1, <2>2
<1>9. ExistsBijection(1..k, upTo)
  BY <1>6, <1>7, <1>8 DEF ExistsBijection, Bijection, Injection, Surjection, IsInjective
<1>10. Cardinality(upTo) = k
  BY <1>9, FS_CountingElements
<1> QED
  BY <1>3, <1>10, RankIs

\* What a page has: the entries whose rank is on it, by rank.
LEMMA PageHas ==
  ASSUME NEW entries, Ranked(entries), NEW listing \in Listings(entries),
         NEW q, q.page \in Int, q.limit \in Int, q.page >= 1, q.limit >= 1
  PROVE  LET page == Cut(listing, q)
             offset == (q.page - 1) * q.limit
         IN  /\ page \in Seq(entries)
             /\ Len(page) = Cardinality(OnPage(entries, q))
             /\ \A i \in 1..Len(page) : page[i] \in OnPage(entries, q)
             /\ \A x \in OnPage(entries, q) :
                  Rank(x, entries) - offset \in 1..Len(page) /\ page[Rank(x, entries) - offset] = x
<1> DEFINE n == Cardinality(entries)
           offset == (q.page - 1) * q.limit
           last == IF offset + q.limit < n THEN offset + q.limit ELSE n
           page == Cut(listing, q)
           on == OnPage(entries, q)
<1>1. n \in Nat
  BY FS_CardinalityType DEF Ranked
<1>2. offset \in Nat /\ q.page * q.limit = offset + q.limit
  OBVIOUS
<1>3. listing \in [1..n -> entries]
  BY DEF Listings, Bijection, Injection
<1>4. Len(listing) = n
  BY <1>1, <1>3
<1>5. page = SubSeq(listing, offset + 1, last)
  BY <1>4 DEF Cut
<1>6. \A x : x \in on <=> x \in entries /\ Rank(x, entries) \in offset + 1 .. offset + q.limit
  BY <1>2 DEF OnPage
<1>7. \A k \in 1..n : listing[k] \in entries /\ Rank(listing[k], entries) = k
  BY ListingRank
<1>8. ASSUME NEW x \in entries
      PROVE  Rank(x, entries) \in 1..n /\ listing[Rank(x, entries)] = x
  <2>1. \E k \in 1..n : listing[k] = x
    BY <1>3 DEF Listings, Bijection, Surjection
  <2> QED
    BY <1>7, <2>1
<1> HIDE DEF n, offset, page, on
<1>9. last \in Int /\ offset + 1 \in Int /\ \A i \in offset + 1 .. last : i \in 1..n
  BY <1>1, <1>2
<1>10. /\ page \in Seq(entries)
       /\ Len(page) = IF offset + 1 <= last THEN last - offset ELSE 0
       /\ \A i \in 1 .. last - offset : page[i] = listing[offset + i]
  <2>1. \A i \in offset + 1 .. last : listing[i] \in entries
    BY <1>7, <1>9
  <2>2. /\ SubSeq(listing, offset + 1, last) \in Seq(entries)
        /\ Len(SubSeq(listing, offset + 1, last)) =
             IF offset + 1 <= last THEN last - (offset + 1) + 1 ELSE 0
        /\ \A i \in 1 .. last - (offset + 1) + 1 :
             SubSeq(listing, offset + 1, last)[i] = listing[offset + 1 + i - 1]
    BY <1>9, <2>1, SubSeqProperties
  <2>3. \A i \in 1 .. last - offset : offset + 1 + i - 1 = offset + i
    BY <1>2, <1>9
  <2>4. last - (offset + 1) + 1 = last - offset
    BY <1>2, <1>9
  <2> QED
    BY <1>5, <2>2, <2>3, <2>4
<1>11. \A i \in 1..Len(page) : /\ offset + i \in 1..n /\ page[i] = listing[offset + i]
                              /\ offset + i \in offset + 1 .. offset + q.limit
  BY <1>1, <1>2, <1>9, <1>10
<1>12. \A i \in 1..Len(page) : page[i] \in on /\ Rank(page[i], entries) = offset + i
  BY <1>6, <1>7, <1>11
<1>13. \A x \in on :
         Rank(x, entries) - offset \in 1..Len(page) /\ page[Rank(x, entries) - offset] = x
  <2> SUFFICES ASSUME NEW x \in on
               PROVE  Rank(x, entries) - offset \in 1..Len(page)
                        /\ page[Rank(x, entries) - offset] = x
    OBVIOUS
  <2>1. /\ Rank(x, entries) \in 1..n /\ listing[Rank(x, entries)] = x
        /\ Rank(x, entries) \in offset + 1 .. offset + q.limit
    BY <1>6, <1>8
  <2> DEFINE k == Rank(x, entries)
  <2> HIDE DEF k
  <2>2. k \in 1..n /\ listing[k] = x /\ k \in offset + 1 .. offset + q.limit
    BY <2>1 DEF k
  <2>3. k - offset \in 1 .. last - offset /\ k - offset \in 1..Len(page) /\ offset + (k - offset) = k
    BY <1>1, <1>2, <1>10, <2>2
  <2>4. page[k - offset] = x
    BY <1>10, <2>2, <2>3
  <2> QED
    BY <2>3, <2>4 DEF k
<1>14. Len(page) = Cardinality(on)
  <2>1. Len(page) \in Nat /\ page \in [1..Len(page) -> entries]
    BY <1>10, LenProperties
  <2>2. page \in [1..Len(page) -> on]
    BY <1>12, <2>1
  <2>3. \A i, j \in 1..Len(page) : page[i] = page[j] => i = j
    <3> SUFFICES ASSUME NEW i \in 1..Len(page), NEW j \in 1..Len(page), page[i] = page[j]
                 PROVE  i = j
      OBVIOUS
    <3>1. offset + i = offset + j
      BY <1>12
    <3> QED
      BY <1>2, <2>1, <3>1
  <2>4. ExistsBijection(1..Len(page), on)
    BY <1>13, <2>2, <2>3 DEF ExistsBijection, Bijection, Injection, Surjection, IsInjective
  <2> QED
    BY <2>1, <2>4, FS_CountingElements
<1> QED
  BY <1>10, <1>12, <1>13, <1>14 DEF page, on, offset

\* How many pages there are.
LEMMA PagesEnough ==
  ASSUME NEW n \in Nat, NEW limit \in Int, limit >= 1
  PROVE  /\ TotalPages(n, limit) \in Int
         /\ TotalPages(n, limit) * limit >= n
         /\ (TotalPages(n, limit) - 1) * limit < n
<1> DEFINE m == n + limit - 1
           d == m \div limit
<1>1. m \in Int /\ d \in Int
  OBVIOUS
<1>2. m = limit * d + (m % limit) /\ (m % limit) \in 0 .. limit - 1
  OBVIOUS
<1>3. m % limit \in Int /\ 0 <= m % limit /\ m % limit <= limit - 1
  BY <1>2
<1> HIDE DEF d
<1>4. d * limit >= n /\ (d - 1) * limit < n
  <2>1. limit * d = d * limit /\ (d - 1) * limit = d * limit - limit /\ d * limit \in Int
    BY <1>1
  <2> QED
    BY <1>2, <1>3, <2>1
<1> QED
  BY <1>1, <1>4 DEF TotalPages, d

-----------------------------------------------------------------------------
(***************************************************************************)
(* The steps of AuditLog.                                                  *)
(***************************************************************************)
LEMMA StepsAreRows == AuditNext => [Next]_vars
<1> SUFFICES ASSUME AuditNext PROVE [Next]_vars
  OBVIOUS
<1>1. UNCHANGED rows => UNCHANGED vars
  BY DEF rows, vars
<1>2. CASE Time
  BY <1>2 DEF Time, Next
<1>3. ASSUME NEW s \in Sessions,
             BeginAudited(s) \/ Hidden(s) \/ CommitAudited(s) \/ RollbackAudited(s)
      PROVE  Next
  BY <1>3 DEF Next, BeginAudited, Hidden, CommitAudited, RollbackAudited
<1>4. ASSUME NEW u \in Leavers, SetActive(u) PROVE UNCHANGED rows
  BY <1>4 DEF SetActive
<1>5. CASE Receive \/ Check \/ Count \/ List \/ Fail
  BY <1>1, <1>5 DEF Receive, Check, Count, List, Fail, Proceed, Error, Answer
<1> QED
  BY <1>1, <1>2, <1>3, <1>4, <1>5 DEF AuditNext

LEMMA OrderSnapshots == \A r, assigned : Snapshots(OrderSnapshot(r, assigned))
<1> SUFFICES ASSUME NEW r, NEW assigned PROVE Snapshots(OrderSnapshot(r, assigned))
  OBVIOUS
<1> DEFINE fields == OrderStrings \cup {"assigned_to", "completed_at"}
           raw == OrderSnapshot(r, assigned)
<1>1. DOMAIN raw = fields
  BY DEF OrderSnapshot
<1>2. \A f \in fields : raw[f] \in Kinds
  <2> SUFFICES ASSUME NEW f \in fields PROVE raw[f] \in Kinds
    OBVIOUS
  <2>1. CASE f = "assigned_to"
    BY <2>1 DEF OrderSnapshot, Kinds
  <2>2. CASE f = "completed_at"
    BY <2>2 DEF OrderSnapshot, Kinds
  <2>3. CASE f \notin {"assigned_to", "completed_at"}
    BY <2>3 DEF OrderSnapshot, Kinds
  <2> QED
    BY <2>1, <2>2, <2>3
<1>3. raw = [f \in fields |-> raw[f]]
  BY <1>1 DEF OrderSnapshot
<1>4. raw \in [DOMAIN raw -> Kinds]
  BY <1>1, <1>2, <1>3
<1> QED
  BY <1>4 DEF Snapshots

\* The rows of a commit: stamped with its begin, under ids of their own.
LEMMA CommitRows ==
  ASSUME Inv, LogOK, NEW s \in Sessions, CommitAudited(s)
  PROVE  /\ log \subseteq log' /\ IsFiniteSet(log')
         /\ \A r \in log' \ log :
              WellFormed(r) /\ r.created_at = begun[s] /\ r.id \notin LogIds
         /\ \A r, x \in log' \ log : r.id = x.id => r = x
<1>0. PICK w \in Writes(s) : \E ids \in [DOMAIN w.actions -> Numbered] :
        /\ \A i \in DOMAIN ids : ids[i] \in Ids[w.actions[i]] \ {r.id : r \in log}
        /\ IsInjective(ids)
        /\ log' = log \cup {AuditRow(s, ids[i], w.actions[i], w.assigned) : i \in DOMAIN ids}
  BY DEF CommitAudited
<1>1. PICK ids \in [DOMAIN w.actions -> Numbered] :
        /\ \A i \in DOMAIN ids : ids[i] \in Ids[w.actions[i]] \ {r.id : r \in log}
        /\ IsInjective(ids)
        /\ log' = log \cup {AuditRow(s, ids[i], w.actions[i], w.assigned) : i \in DOMAIN ids}
  BY <1>0
<1> DEFINE Row(i) == AuditRow(s, ids[i], w.actions[i], w.assigned)
           new == {Row(i) : i \in DOMAIN ids}
<1>2. DOMAIN ids \in {{1}, {1, 2}}
  <2>1. \/ w.actions = <<"WORK_ORDER_CREATED">> \/ w.actions = <<"WORK_ORDER_STATUS_CHANGED">>
        \/ w.actions = <<"WORK_ORDER_ASSIGNED", "WORK_ORDER_STATUS_CHANGED">>
    BY DEF Writes
  <2>2. DOMAIN w.actions \in {{1}, {1, 2}}
    BY <2>1
  <2> QED
    BY <2>2
<1>3. new \in {{Row(1)}, {Row(1)} \cup {Row(2)}}
  BY <1>2
<1>4. IsFiniteSet(log')
  <2>1. log' \in {log \cup {Row(1)}, (log \cup {Row(1)}) \cup {Row(2)}}
    BY <1>1, <1>3
  <2>2. IsFiniteSet(log \cup {Row(1)})
    BY FS_AddElement DEF LogOK
  <2>3. IsFiniteSet((log \cup {Row(1)}) \cup {Row(2)})
    BY <2>2, FS_AddElement
  <2> QED
    BY <2>1, <2>2, <2>3
<1>5. begun[s] \in Int
  <2>1. begun[s] \in Times
    BY DEF CommitAudited, Commit, At, Inv, SessionOK
  <2> QED
    BY <2>1, TimeAssumption DEF Times
<1>6. ASSUME NEW i \in DOMAIN ids
      PROVE  /\ Row(i).id = ids[i] /\ ids[i] \in Int /\ ids[i] \notin LogIds
             /\ Row(i).created_at = begun[s] /\ WellFormed(Row(i))
  <2>1. ids[i] \in Numbered /\ ids[i] \notin LogIds
    BY <1>1 DEF LogIds
  <2>2. ids[i] \in Int
    BY <2>1, LogAssumption DEF Numbered
  <2>3. Row(i).id = ids[i] /\ Row(i).created_at = begun[s] /\ Row(i).type = "work_order"
    BY DEF AuditRow
  <2>4. Snapshots(Row(i).new)
    BY OrderSnapshots DEF AuditRow
  <2>5. Snapshots(Row(i).old)
    <3>1. CASE order = Null
      BY <3>1 DEF AuditRow, Snapshots
    <3>2. CASE order # Null
      BY <3>2, OrderSnapshots DEF AuditRow
    <3> QED
      BY <3>1, <3>2
  <2> QED
    BY <1>5, <2>1, <2>2, <2>3, <2>4, <2>5 DEF WellFormed, Types
<1> HIDE DEF Row
<1>7. \A r \in log' \ log : \E i \in DOMAIN ids : r = Row(i)
  BY <1>1 DEF Row
<1>8. \A r, x \in log' \ log : r.id = x.id => r = x
  BY <1>1, <1>6, <1>7 DEF IsInjective
<1> QED
  BY <1>1, <1>4, <1>6, <1>7, <1>8

\* Only a commit adds rows, and none of the rows goes.
LEMMA OnlyCommitsAdd ==
  ASSUME AuditNext, log' # log
  PROVE  \E s \in Sessions : CommitAudited(s)
BY DEF AuditNext, Time, BeginAudited, Hidden, RollbackAudited, SetActive, Receive, Check, Count,
       List, Fail, Proceed, Error, Answer

\* The log grows by fresh rows.
Grows ==
  /\ log \subseteq log'
  /\ \A r \in log' \ log : r.id \notin LogIds

LEMMA LogGrows ==
  ASSUME Inv, LogOK, AuditNext
  PROVE  Grows
BY CommitRows, OnlyCommitsAdd DEF Grows

LEMMA LogInv ==
  ASSUME Inv, Inv', LogOK, AuditNext
  PROVE  LogOK'
<1>1. ASSUME NEW s \in Sessions, CommitAudited(s)
      PROVE  LogOK'
  <2>1. /\ log \subseteq log' /\ IsFiniteSet(log')
        /\ \A r \in log' \ log :
             WellFormed(r) /\ r.created_at = begun[s] /\ r.id \notin LogIds
        /\ \A r, x \in log' \ log : r.id = x.id => r = x
    BY <1>1, CommitRows
  <2>2. /\ answered' = clock /\ answered <= clock /\ begun[s] <= clock
        /\ answered \in Int /\ clock \in Int
    <3>1. SessionOK(s) /\ RowOK /\ TypeOK
      BY DEF Inv
    <3> QED
      BY <1>1, <3>1, TimeAssumption DEF CommitAudited, Commit, At, SessionOK, RowOK, TypeOK, Times
  <2>3. \A r \in log' : WellFormed(r) /\ r.created_at <= answered'
    BY <2>1, <2>2 DEF LogOK, WellFormed
  <2>4. \A r, x \in log' : r.id = x.id => r = x
    BY <2>1 DEF LogOK, LogIds
  <2> QED
    BY <2>1, <2>3, <2>4 DEF LogOK
<1>2. CASE log' = log
  <2>1. answered' \in Int /\ answered \in Int /\ answered <= answered'
    <3>1. UNCHANGED answered \/ \E s \in Sessions : CommitAudited(s)
      BY DEF AuditNext, Time, Tick, BeginAudited, Begin, Hidden, InsertWorkOrder, LockWorkOrder,
             UpdateWorkOrder, RollbackAudited, Rollback, SetActive, Receive, Check, Count, List,
             Fail, Proceed, Error, Answer, rows
    <3>2. UNCHANGED answered \/ answered' = clock
      BY <3>1 DEF CommitAudited, Commit
    <3> QED
      BY <3>2, TimeAssumption DEF Inv, TypeOK, RowOK, Times
  <2> QED
    BY <1>2, <2>1 DEF LogOK, WellFormed
<1> QED
  BY <1>1, <1>2, OnlyCommitsAdd

LEMMA KnownInv ==
  ASSUME Inv, LogOK, KnownOK, AuditNext
  PROVE  KnownOK'
<1>1. Grows
  BY LogGrows
<1>2. LogIds \subseteq LogIds'
  BY <1>1 DEF Grows, LogIds
<1>3. \A s \in Sessions : \A x \in log' : x.id \in known[s] => x \in log
  BY <1>1 DEF Grows, KnownOK
<1>4. CASE UNCHANGED <<known, pc, begun>>
  <2>1. known' \in [Sessions -> SUBSET LogIds']
    BY <1>2, <1>4 DEF KnownOK
  <2>2. ASSUME NEW s \in Sessions, NEW x \in log', x.id \in known'[s]
        PROVE  pc'[s] # "idle" /\ x.created_at < begun'[s]
    BY <1>3, <1>4, <2>2 DEF KnownOK
  <2> QED
    BY <2>1, <2>2 DEF KnownOK
<1>5. ASSUME NEW s \in Sessions, BeginAudited(s)
      PROVE  KnownOK'
  <2>1. /\ known' = [known EXCEPT ![s] = IF clock > answered THEN LogIds ELSE {}]
        /\ pc'[s] # "idle" /\ begun'[s] = clock /\ log' = log
        /\ \A t \in Sessions \ {s} : pc'[t] = pc[t] /\ begun'[t] = begun[t]
    BY <1>5 DEF BeginAudited, Begin, Goto, LogIds, Inv, TypeOK
  <2>2. known' \in [Sessions -> SUBSET LogIds']
    BY <1>2, <2>1 DEF KnownOK
  <2>3. ASSUME NEW t \in Sessions, NEW x \in log, x.id \in known'[t]
        PROVE  pc'[t] # "idle" /\ x.created_at < begun'[t]
    <3>1. CASE t = s
      <4>1. clock > answered
        BY <2>1, <2>3, <3>1 DEF KnownOK
      <4>2. x.created_at \in Int /\ x.created_at <= answered /\ clock \in Int /\ answered \in Int
        BY TimeAssumption DEF LogOK, WellFormed, Inv, TypeOK, Times
      <4> QED
        BY <2>1, <3>1, <4>1, <4>2
    <3>2. CASE t # s
      BY <2>1, <2>3, <3>2 DEF KnownOK
    <3> QED
      BY <3>1, <3>2
  <2> QED
    BY <2>1, <2>2, <2>3 DEF KnownOK
<1>6. ASSUME NEW s \in Sessions, Hidden(s)
      PROVE  KnownOK'
  <2>1. UNCHANGED <<log, known, begun>> /\ pc[s] # "idle" /\ pc'[s] # "idle"
    BY <1>6 DEF Hidden, InsertWorkOrder, LockWorkOrder, UpdateWorkOrder, At, Goto, Inv, TypeOK
  <2>2. \A t \in Sessions \ {s} : pc'[t] = pc[t]
    BY <1>6 DEF Hidden, InsertWorkOrder, LockWorkOrder, UpdateWorkOrder, Goto, Inv, TypeOK
  <2>3. known' \in [Sessions -> SUBSET LogIds']
    BY <1>2, <2>1 DEF KnownOK
  <2> QED
    BY <2>1, <2>2, <2>3 DEF KnownOK
<1>7. ASSUME NEW s \in Sessions, CommitAudited(s) \/ RollbackAudited(s)
      PROVE  KnownOK'
  <2>1. known' = [known EXCEPT ![s] = {}]
    BY <1>7 DEF CommitAudited, RollbackAudited
  <2>2. \A t \in Sessions \ {s} : pc'[t] = pc[t] /\ begun'[t] = begun[t]
    BY <1>7 DEF CommitAudited, RollbackAudited, Commit, Rollback, End, Goto, Inv, TypeOK
  <2>3. known' \in [Sessions -> SUBSET LogIds']
    BY <1>2, <2>1 DEF KnownOK
  <2>4. ASSUME NEW t \in Sessions, NEW x \in log', x.id \in known'[t]
        PROVE  pc'[t] # "idle" /\ x.created_at < begun'[t]
    <3>1. t # s /\ x.id \in known[t]
      BY <2>1, <2>4 DEF KnownOK
    <3>2. x \in log
      BY <1>3, <3>1
    <3> QED
      BY <2>2, <3>1, <3>2 DEF KnownOK
  <2> QED
    BY <2>3, <2>4 DEF KnownOK
<1>8. CASE Time
  BY <1>4, <1>8 DEF Time, Tick
<1>9. ASSUME NEW u \in Leavers, SetActive(u) PROVE KnownOK'
  BY <1>4, <1>9 DEF SetActive, rows
<1>10. CASE Receive \/ Check \/ Count \/ List \/ Fail
  BY <1>4, <1>10 DEF Receive, Check, Count, List, Fail, Proceed, Error, Answer, rows
<1> QED
  BY <1>5, <1>6, <1>7, <1>8, <1>9, <1>10 DEF AuditNext

-----------------------------------------------------------------------------
(***************************************************************************)
(* What a list looks at.                                                   *)
(***************************************************************************)

\* A state that was seen keeps its entries.
LEMMA EntriesStay ==
  ASSUME Grows, NEW v, v.ids \subseteq LogIds
  PROVE  Entries(v)' = {r \in log' : r.id \in v.ids} /\ Entries(v)' = Entries(v)
BY DEF Grows, Entries, LogIds

LEMMA EntriesRanked ==
  ASSUME LogOK, NEW v, NEW q
  PROVE  /\ Ranked(Matching(Entries(v), q)) /\ Ranked(Matching(log, q))
         /\ Matching(Entries(v), q) \subseteq Matching(log, q)
<1>1. /\ Matching(Entries(v), q) \in SUBSET log /\ Matching(log, q) \in SUBSET log
      /\ Matching(Entries(v), q) \subseteq Matching(log, q)
  BY DEF Matching, Entries
<1>2. \A T \in SUBSET log : Ranked(T)
  BY FS_Subset DEF Ranked, LogOK, WellFormed
<1> QED
  BY <1>1, <1>2

LEMMA NowIsAll == Entries(Now) = log /\ Now.ids = LogIds
BY DEF Entries, Now, LogIds

\* A step that is not the list's: a list in service sees the state it leads to.
Elsewhere ==
  /\ reply' = Null /\ UNCHANGED <<step, query, snap, total, walk>>
  /\ \/ UNCHANGED <<past, log, active>>
     \/ past' = IF step = "idle" THEN past ELSE past \cup {Now'}

LEMMA Steps == AuditNext => Elsewhere \/ Receive \/ Check \/ Count \/ List \/ Fail
BY DEF AuditNext, Time, BeginAudited, Hidden, CommitAudited, RollbackAudited, SetActive,
       Elsewhere, Unseen, Seen, reading

LEMMA WalksAreFilters ==
  ASSUME WalkOK, NEW q \in Queries \cup ({walk.next} \ {Null})
  PROVE  q \in Filters /\ q # Null
BY LogAssumption DEF WalkOK

\* The list's own steps leave the rows and the accounts as they are.
LEMMA ListsOnlyRead ==
  ASSUME Receive \/ Check \/ Count \/ List \/ Fail
  PROVE  UNCHANGED <<rows, log, known, active>>
BY DEF Receive, Check, Count, List, Fail, Proceed, Error, Answer

LEMMA ReadInv ==
  ASSUME Grows, ReadOK, WalkOK, AuditNext
  PROVE  ReadOK'
<1>1. LogIds \subseteq LogIds'
  BY DEF Grows, LogIds
<1>2. CASE Elsewhere
  <2>1. UNCHANGED <<step, query, snap, total>> /\ past \subseteq past'
    BY <1>2 DEF Elsewhere
  <2>2. ASSUME NEW v \in past' PROVE v.ids \subseteq LogIds'
    <3>1. v \in past \/ v = Now'
      BY <1>2 DEF Elsewhere
    <3>2. Now'.ids = LogIds'
      BY DEF Now, LogIds
    <3> QED
      BY <1>1, <3>1, <3>2 DEF ReadOK
  <2>3. step # "idle" => Now' \in past'
    <3>1. UNCHANGED <<past, log, active>> => Now' = Now
      BY DEF Now
    <3> QED
      BY <1>2, <3>1 DEF Elsewhere, ReadOK
  <2>4. ASSUME step = "List"
        PROVE  Matching(Entries(snap), query)' = Matching(Entries(snap), query)
    <3>1. snap.ids \subseteq LogIds
      BY <2>4 DEF ReadOK
    <3>2. {r \in log' : r.id \in snap.ids} = {r \in log : r.id \in snap.ids}
      BY <3>1 DEF Grows, LogIds
    <3> QED
      BY <2>1, <3>2 DEF Matching, Entries
  <2>5. Valid(query)' = Valid(query) /\ Permitted(snap, query.reader)' = Permitted(snap, query.reader)
    BY <2>1 DEF Valid, Permitted
  <2> QED
    BY <2>1, <2>2, <2>3, <2>4, <2>5 DEF ReadOK
<1>3. CASE Receive
  <2>1. PICK q \in Queries \cup ({walk.next} \ {Null}) :
          \/ Refusal(q) = "OK" /\ step' = "Check" /\ query' = q /\ past' = {Now}
          \/ step' = "idle" /\ past' = {}
    BY <1>3 DEF Receive, Answer
  <2>2. q \in Filters
    BY <2>1, WalksAreFilters
  <2>3. Now' = Now /\ LogIds' = LogIds
    BY <1>3, ListsOnlyRead DEF Now, LogIds
  <2>4. Refusal(q) = "OK" => Valid(q)
    BY DEF Refusal
  <2> QED
    BY <2>1, <2>2, <2>3, <2>4, NowIsAll DEF ReadOK
<1>4. CASE Check \/ Count \/ List \/ Fail
  <2>1. UNCHANGED <<log, active>>
    BY <1>4, ListsOnlyRead
  <2>2. Now' = Now /\ LogIds' = LogIds
    BY <2>1 DEF Now, LogIds
  <2>3. CASE step' = "idle" /\ past' = {}
    BY <2>3 DEF ReadOK
  <2>4. CASE /\ Check /\ Permitted(Now, query.reader) = "OK" /\ snap' = Now
             /\ step' = "Count" /\ UNCHANGED <<query, past>>
    <3>1. Permitted(snap, query.reader)' = "OK" /\ Valid(query)' = Valid(query)
      BY <2>2, <2>4 DEF Permitted, Valid, Now
    <3> QED
      BY <2>2, <2>4, <3>1 DEF ReadOK, Check, AtStep
  <2>5. CASE Count
    <3>1. /\ step = "Count" /\ step' = "List" /\ UNCHANGED <<snap, query, past>>
          /\ total' = Cardinality(Matching(Entries(snap), query))
      BY <2>5 DEF Count, Proceed, AtStep, View
    <3>2. /\ Permitted(snap, query.reader)' = Permitted(snap, query.reader)
          /\ Valid(query)' = Valid(query)
          /\ Matching(Entries(snap), query)' = Matching(Entries(snap), query)
      BY <2>1, <3>1 DEF Permitted, Valid, Matching, Entries
    <3> QED
      BY <2>2, <3>1, <3>2 DEF ReadOK
  <2> QED
    BY <1>4, <2>3, <2>4, <2>5 DEF Check, List, Fail, Proceed, Error, Answer
<1> QED
  BY <1>2, <1>3, <1>4, Steps

-----------------------------------------------------------------------------
(***************************************************************************)
(* What a walk through the pages still has to see.                         *)
(***************************************************************************)

\* Nothing that is due moves up when rows are added.
LEMMA DueStays ==
  ASSUME LogOK', Grows, UNCHANGED walk, walk.next \in Filters, Due(log)
  PROVE  Due(log)'
<1> SUFFICES ASSUME NEW id \in walk.owed
             PROVE  \E x \in Matching(log', walk.next) :
                      /\ x.id = id
                      /\ Rank(x, Matching(log', walk.next)) > (walk.next.page - 1) * walk.next.limit
  BY DEF Due
<1> DEFINE q == walk.next
           old == Matching(log, q)
           more == Matching(log', q)
           offset == (q.page - 1) * q.limit
<1>1. PICK x \in old : x.id = id /\ Rank(x, old) > offset
  BY DEF Due
<1>2. old \subseteq more
  BY DEF Matching, Grows
<1>3. Ranked(more)
  <2>1. more \in SUBSET log'
    BY DEF Matching
  <2> QED
    BY <2>1, FS_Subset DEF Ranked, LogOK, WellFormed
<1>4. x \in more /\ Ranked(old) /\ Rank(x, old) <= Rank(x, more)
  BY <1>2, <1>3, RankGrows
<1>5. Rank(x, old) \in Int /\ Rank(x, more) \in Int
  <2>1. Cardinality(old) \in Nat /\ Cardinality(more) \in Nat
    BY <1>3, <1>4, FS_CardinalityType DEF Ranked
  <2> QED
    BY <1>3, <1>4, <2>1, RankBounds
<1>6. offset \in Int
  BY DEF Filters
<1> HIDE DEF offset
<1>7. Rank(x, more) > offset
  BY <1>1, <1>4, <1>5, <1>6
<1> QED
  BY <1>1, <1>4, <1>7 DEF offset

LEMMA ValidPages ==
  ASSUME NEW q \in Filters, Valid(q)
  PROVE  q.page \in Int /\ q.limit \in Int /\ q.page >= 1 /\ q.limit >= 1
<1>1. q.page \in Int /\ q.limit \in Int
  BY DEF Filters
<1>2. q.page \in 1..MaxPage /\ q.limit \in 1..100 /\ MaxPage \in Int
  <2>1. MaxPage \in Int
    BY DEF MaxPage
  <2> QED
    BY <2>1 DEF Valid
<1> QED
  BY <1>1, <1>2

\* What is due on a page is on it, or is below it.
LEMMA BelowThePage ==
  ASSUME LogOK, NEW q \in Filters, Valid(q), NEW v,
         NEW listing \in Listings(Matching(Entries(v), q)),
         NEW x \in Matching(Entries(v), q),
         Rank(x, Matching(Entries(v), q)) > (q.page - 1) * q.limit,
         x.id \notin {Cut(listing, q)[i].id : i \in DOMAIN Cut(listing, q)}
  PROVE  /\ Rank(x, Matching(Entries(v), q)) > q.page * q.limit
         /\ x \in Matching(log, q) /\ Rank(x, Matching(log, q)) > q.page * q.limit
<1> DEFINE E == Matching(Entries(v), q)
           page == Cut(listing, q)
           offset == (q.page - 1) * q.limit
<1>1. Ranked(E) /\ Ranked(Matching(log, q)) /\ E \subseteq Matching(log, q)
  BY EntriesRanked
<1>2. q.page \in Int /\ q.limit \in Int /\ q.page >= 1 /\ q.limit >= 1
  BY ValidPages
<1>3. /\ page \in Seq(E)
      /\ \A y \in OnPage(E, q) :
           Rank(y, E) - offset \in 1..Len(page) /\ page[Rank(y, E) - offset] = y
  BY <1>1, <1>2, PageHas
<1>4. DOMAIN page = 1..Len(page)
  BY <1>3, LenProperties
<1>5. x \notin OnPage(E, q)
  BY <1>3, <1>4
<1>6. Cardinality(E) \in Nat /\ Rank(x, E) \in Int
  BY <1>1, RankBounds, FS_CardinalityType DEF Ranked
<1>7. q.page * q.limit \in Int /\ offset \in Int
  BY <1>2
<1>8. Rank(x, E) \notin offset + 1 .. q.page * q.limit
  BY <1>5 DEF OnPage
<1> HIDE DEF offset
<1>9. Rank(x, E) > offset
  BY DEF offset
<1>10. Rank(x, E) > q.page * q.limit
  <2> DEFINE r == Rank(x, E)
             m == q.page * q.limit
  <2>1. r \in Int /\ m \in Int /\ r > offset /\ r \notin offset + 1 .. m
    BY <1>6, <1>7, <1>8, <1>9
  <2> HIDE DEF r, m
  <2>2. r > m
    BY <1>7, <2>1
  <2> QED
    BY <2>2 DEF r, m
<1>11. x \in Matching(log, q) /\ Rank(x, E) <= Rank(x, Matching(log, q))
  BY <1>1, RankGrows
<1>12. Rank(x, Matching(log, q)) \in Int
  <2>1. Cardinality(Matching(log, q)) \in Nat
    BY <1>1, FS_CardinalityType DEF Ranked
  <2> QED
    BY <1>1, <1>11, <2>1, RankBounds
<1>13. Rank(x, Matching(log, q)) > q.page * q.limit
  BY <1>6, <1>7, <1>10, <1>11, <1>12
<1> QED
  BY <1>10, <1>11, <1>13

\* The answer of a page leaves due what is below it; the last page leaves nothing.
LEMMA WalkedInv ==
  ASSUME LogOK, LogOK', ReadOK, WalkOK, step = "List", walk.next = query, UNCHANGED log,
         NEW listing \in Listings(Matching(Entries(snap), query)),
         walk' = Walked(Cut(listing, query), TotalPages(total, query.limit)), step' = "idle"
  PROVE  WalkOK'
<1> DEFINE E == Matching(Entries(snap), query)
           page == Cut(listing, query)
           pages == TotalPages(total, query.limit)
<1>1. /\ query \in Filters /\ Valid(query) /\ snap \in past /\ total = Cardinality(E)
      /\ query # Null
  BY LogAssumption DEF ReadOK
<1>2. query.page \in Int /\ query.limit \in Int /\ query.page >= 1 /\ query.limit >= 1
  BY <1>1, ValidPages
<1>3. Due(Entries(snap))
  BY <1>1 DEF WalkOK
<1>4. ASSUME NEW id \in walk.owed, id \notin {page[i].id : i \in DOMAIN page}
      PROVE  \E x \in Matching(log, query) :
               /\ x.id = id /\ Rank(x, Matching(log, query)) > query.page * query.limit
               /\ x \in E /\ Rank(x, E) > query.page * query.limit
  <2>1. PICK x \in E : x.id = id /\ Rank(x, E) > (query.page - 1) * query.limit
    BY <1>3 DEF Due
  <2> QED
    BY <1>1, <1>4, <2>1, BelowThePage
<1>5. /\ walk'.next = IF query.page < pages THEN [query EXCEPT !.page = @ + 1] ELSE Null
      /\ walk'.owed = walk.owed \ {page[i].id : i \in DOMAIN page}
  BY DEF Walked
<1>6. CASE query.page < pages
  <2> DEFINE q == [query EXCEPT !.page = @ + 1]
  <2>1. /\ q \in Filters /\ q # Null /\ q.page = query.page + 1 /\ q.limit = query.limit
        /\ Matching(log, q) = Matching(log, query)
    <3>1. q \in Filters
      BY <1>1, <1>2 DEF Filters
    <3>2. /\ q.page = query.page + 1 /\ q.limit = query.limit /\ q.actor = query.actor
          /\ q.action = query.action /\ q.type = query.type /\ q.entity = query.entity
      BY <1>1 DEF Filters
    <3> QED
      BY <3>1, <3>2, LogAssumption DEF Matching
  <2> HIDE DEF q
  <2>2. walk'.next = q
    BY <1>5, <1>6 DEF q
  <2>3. (q.page - 1) * q.limit = query.page * query.limit
    BY <1>2, <2>1
  <2>4. Due(log)'
    BY <1>4, <1>5, <2>1, <2>2, <2>3 DEF Due
  <2> QED
    BY <1>2, <2>1, <2>2, <2>4 DEF WalkOK
<1>7. CASE ~(query.page < pages)
  <2>1. ASSUME NEW id \in walk'.owed PROVE FALSE
    <3>1. PICK x \in E : Rank(x, E) > query.page * query.limit
      BY <1>4, <1>5, <2>1
    <3>2. Ranked(E)
      BY EntriesRanked
    <3>3. total \in Nat /\ Rank(x, E) \in 1..total
      BY <1>1, <3>2, RankBounds, FS_CardinalityType DEF Ranked
    <3>4. pages \in Int /\ pages * query.limit >= total
      BY <1>2, <3>3, PagesEnough
    <3>5. pages <= query.page
      BY <1>2, <1>7, <3>4
    <3>6. query.page * query.limit >= pages * query.limit
      <4> DEFINE p == pages
                 l == query.limit
                 k == query.page
      <4>1. p \in Int /\ l \in Int /\ k \in Int /\ l >= 1 /\ p <= k
        BY <1>2, <3>4, <3>5
      <4> HIDE DEF p, l, k
      <4>2. k * l = p * l + (k - p) * l /\ (k - p) * l >= 0
        BY <4>1
      <4>3. p * l \in Int /\ (k - p) * l \in Int /\ k * l \in Int
        BY <4>1
      <4>4. k * l >= p * l
        BY <4>2, <4>3
      <4> QED
        BY <4>4 DEF p, l, k
    <3>7. pages * query.limit \in Int /\ query.page * query.limit \in Int
      BY <1>2, <3>4
    <3> QED
      BY <3>1, <3>3, <3>4, <3>6, <3>7
  <2> QED
    BY <1>5, <1>7, <2>1 DEF WalkOK
<1> QED
  BY <1>6, <1>7

\* Steps that neither add rows nor ask for a page.
LEMMA WalkRests ==
  ASSUME WalkOK, UNCHANGED <<walk, log>>,
         step' = "idle" \/ (step # "idle" /\ UNCHANGED <<query, past>>)
  PROVE  WalkOK'
<1>1. Due(log)' = Due(log)
  BY DEF Due
<1>2. ASSUME NEW v PROVE Due(Entries(v))' = Due(Entries(v))
  BY DEF Due, Entries
<1>3. CASE step' = "idle"
  BY <1>1, <1>3 DEF WalkOK
<1>4. CASE step # "idle" /\ UNCHANGED <<query, past>>
  <2>1. ASSUME walk.next # Null, walk.next = query, NEW v \in past
        PROVE  Due(Entries(v))'
    BY <1>2, <1>4, <2>1 DEF WalkOK
  <2> QED
    BY <1>1, <1>4, <2>1 DEF WalkOK
<1> QED
  BY <1>3, <1>4

LEMMA ReceiveWalk ==
  ASSUME LogOK, WalkOK, Receive
  PROVE  WalkOK'
<1>1. UNCHANGED log
  BY ListsOnlyRead
<1>2. PICK q \in Queries \cup ({walk.next} \ {Null}) :
        \/ /\ Refusal(q) = "OK"
           /\ step' = "Check" /\ query' = q /\ past' = {Now} /\ walk' = Walk(q)
        \/ step' = "idle" /\ UNCHANGED walk
  BY DEF Receive, Answer
<1>3. CASE step' = "idle" /\ UNCHANGED walk
  BY <1>1, <1>3, WalkRests
<1>4. CASE /\ Refusal(q) = "OK"
           /\ step' = "Check" /\ query' = q /\ past' = {Now} /\ walk' = Walk(q)
  <2>1. q \in Filters /\ q # Null /\ Valid(q)
    BY <1>2, <1>4, WalksAreFilters DEF Refusal
  <2>2. q.page \in Int /\ q.limit \in Int /\ q.page >= 1 /\ q.limit >= 1
    BY <2>1, ValidPages
  <2>3. Entries(Now)' = log
    BY <1>1 DEF Entries, Now
  <2>4. ASSUME walk'.next # Null, Due(log)'
        PROVE  \A v \in past' : Due(Entries(v))'
    <3> SUFFICES ASSUME NEW v \in past' PROVE Due(Entries(v))'
      OBVIOUS
    <3>1. v = Now
      BY <1>4
    <3>2. {r \in log' : r.id \in v.ids} = log'
      BY <1>1, <3>1 DEF Now
    <3>3. Entries(v)' = log'
      BY <3>2 DEF Entries
    <3> QED
      BY <2>4, <3>3 DEF Due
  <2>5. CASE q = walk.next
    <3>1. UNCHANGED walk
      BY <1>4, <2>5 DEF Walk
    <3>2. Due(log)'
      BY <1>1, <2>1, <2>5, <3>1 DEF Due, WalkOK
    <3> QED
      BY <1>4, <2>1, <2>4, <2>5, <3>1, <3>2 DEF WalkOK
  <2>6. CASE q # walk.next /\ q.page = 1 /\ q.entity # Null
    <3>1. walk'.next = q /\ walk'.owed = {r.id : r \in Matching(log, q)}
      BY <1>4, <2>6 DEF Walk
    <3>2. \A x \in Matching(log, q) : Rank(x, Matching(log, q)) > 0
      <4>1. Ranked(Matching(log, q))
        BY EntriesRanked
      <4>2. Cardinality(Matching(log, q)) \in Nat
        BY <4>1, FS_CardinalityType DEF Ranked
      <4> QED
        BY <4>1, <4>2, RankBounds
    <3>3. (q.page - 1) * q.limit = 0
      BY <2>2, <2>6
    <3>4. Due(log)'
      BY <1>1, <3>1, <3>2, <3>3 DEF Due
    <3> QED
      BY <2>1, <2>2, <2>4, <3>1, <3>4 DEF WalkOK
  <2>7. CASE q # walk.next /\ ~(q.page = 1 /\ q.entity # Null)
    <3>1. walk'.next = Null /\ walk'.owed = {}
      BY <1>4, <2>7 DEF Walk, NoWalk
    <3> QED
      BY <3>1 DEF WalkOK
  <2> QED
    BY <2>5, <2>6, <2>7
<1> QED
  BY <1>2, <1>3, <1>4

\* What a page answers: its entries, or that one of them cannot be shown.
LEMMA ListOutcome ==
  ASSUME List
  PROVE  \E listing \in Listings(Matching(Entries(snap), query)) :
           LET page == Cut(listing, query)
               pages == TotalPages(total, query.limit)
               data == [i \in DOMAIN page |-> Entry(page[i])]
           IN  \/ /\ \E i \in DOMAIN page : ~Readable(page[i])
                  /\ reply' = [query |-> query, past |-> past, code |-> "INTERNAL_ERROR",
                               body |-> Null]
                  /\ UNCHANGED walk
               \/ /\ \A i \in DOMAIN page : Readable(page[i])
                  /\ reply' = [query |-> query, past |-> past, code |-> "OK",
                               body |-> [data |-> data, total |-> total, pages |-> pages]]
                  /\ walk' = IF walk.next = query THEN Walked(page, pages) ELSE walk
<1>1. PICK listing \in Listings(Matching(Entries(snap), query)) :
        LET page == Cut(listing, query)
            pages == TotalPages(total, query.limit)
            data == [i \in DOMAIN page |-> Entry(page[i])]
            refused == \E i \in DOMAIN data : Refused \in {data[i].old, data[i].new}
        IN \/ refused /\ Error("INTERNAL_ERROR")
           \/ /\ ~refused
              /\ Answer(query, past, "OK", [data |-> data, total |-> total, pages |-> pages])
              /\ walk' = IF walk.next = query THEN Walked(page, pages) ELSE walk
  BY DEF List, View
<1> DEFINE page == Cut(listing, query)
           data == [i \in DOMAIN page |-> Entry(page[i])]
<1>2. DOMAIN data = DOMAIN page
  OBVIOUS
<1>3. \A i \in DOMAIN page : Refused \in {data[i].old, data[i].new} <=> ~Readable(page[i])
  BY DEF Entry, Readable
<1> QED
  BY <1>1, <1>2, <1>3 DEF Error, Answer

LEMMA WalkInv ==
  ASSUME Grows, LogOK, LogOK', ReadOK, WalkOK, AuditNext
  PROVE  WalkOK'
<1>1. CASE Elsewhere
  <2>1. UNCHANGED <<step, query, walk>>
    BY <1>1 DEF Elsewhere
  <2>2. CASE walk.next = Null
    BY <2>1, <2>2 DEF WalkOK
  <2>3. CASE walk.next # Null
    <3>1. Due(log)' /\ walk.next \in Filters
      BY <2>1, <2>3, DueStays DEF WalkOK
    <3>2. ASSUME step # "idle", walk.next = query, NEW v \in past'
          PROVE  Due(Entries(v))'
      <4>1. CASE v \in past
        <5>1. Due(Entries(v)) /\ v.ids \subseteq LogIds
          BY <2>3, <3>2, <4>1 DEF WalkOK, ReadOK
        <5>2. Entries(v)' = Entries(v)
          BY <5>1, EntriesStay
        <5> QED
          BY <2>1, <5>1, <5>2 DEF Due
      <4>2. CASE v = Now'
        <5>1. {r \in log' : r.id \in v.ids} = log'
          BY <4>2 DEF Now
        <5>2. Entries(v)' = log'
          BY <5>1 DEF Entries
        <5> QED
          BY <3>1, <5>2 DEF Due
      <4> QED
        BY <1>1, <3>2, <4>1, <4>2 DEF Elsewhere
    <3> QED
      BY <2>1, <3>1, <3>2 DEF WalkOK
  <2> QED
    BY <2>2, <2>3
<1>2. CASE Receive
  BY <1>2, ReceiveWalk
<1>3. CASE Check \/ Count \/ Fail
  <2>1. /\ UNCHANGED <<walk, log>>
        /\ step' = "idle" \/ (step # "idle" /\ UNCHANGED <<query, past>>)
    BY <1>3 DEF Check, Count, Fail, AtStep, Proceed, Error, Answer
  <2> QED
    BY <2>1, WalkRests
<1>4. CASE List
  <2>1. step = "List" /\ step' = "idle" /\ UNCHANGED log
    BY <1>4, ListsOnlyRead DEF List, AtStep, Error, Answer
  <2>2. PICK listing \in Listings(Matching(Entries(snap), query)) :
          \/ UNCHANGED walk
          \/ walk' = IF walk.next = query
                       THEN Walked(Cut(listing, query), TotalPages(total, query.limit)) ELSE walk
    BY <1>4, ListOutcome
  <2>3. CASE UNCHANGED walk
    BY <2>1, <2>3, WalkRests
  <2>4. CASE /\ walk.next = query
             /\ walk' = Walked(Cut(listing, query), TotalPages(total, query.limit))
    BY <2>1, <2>4, WalkedInv
  <2> QED
    BY <2>2, <2>3, <2>4
<1> QED
  BY <1>1, <1>2, <1>3, <1>4, Steps

-----------------------------------------------------------------------------
(***************************************************************************)
(* Answers.                                                                *)
(***************************************************************************)
ReplyOK == ListAnswersOneState /\ OnlyPublicFields

\* A refusal is right in the state it is decided in.
LEMMA RefusalIsRight ==
  ASSUME NEW q, NEW states, Now \in states, NEW code, code # "OK",
         \/ code = Permitted(Now, q.reader)
         \/ Permitted(Now, q.reader) = "OK" /\ ~Valid(q) /\ code = "VALIDATION_ERROR",
         reply' = [query |-> q, past |-> states, code |-> code, body |-> Null]
  PROVE  ReplyOK'
<1>1. /\ reply'.query = q /\ reply'.past = states /\ reply'.code = code
  OBVIOUS
<1>2. PICK u \in reply'.past : u = Now
  BY <1>1
<1>3. RightAnswer(u)'
  BY <1>1, <1>2 DEF RightAnswer
<1>4. ListAnswersOneState'
  BY <1>2, <1>3 DEF ListAnswersOneState
<1>5. OnlyPublicFields'
  BY <1>1 DEF OnlyPublicFields
<1> QED
  BY <1>4, <1>5 DEF ReplyOK

\* A page is right in the state that its transaction looks at.
LEMMA PageIsRight ==
  ASSUME LogOK, ReadOK, List
  PROVE  ListAnswersOneState'
<1> DEFINE E == Matching(Entries(snap), query)
           pages == TotalPages(total, query.limit)
           on == OnPage(E, query)
           offset == (query.page - 1) * query.limit
<1>1. PICK listing \in Listings(E) :
        LET page == Cut(listing, query)
            data == [i \in DOMAIN page |-> Entry(page[i])]
        IN \/ /\ \E i \in DOMAIN page : ~Readable(page[i])
              /\ reply' = [query |-> query, past |-> past, code |-> "INTERNAL_ERROR",
                           body |-> Null]
           \/ /\ \A i \in DOMAIN page : Readable(page[i])
              /\ reply' = [query |-> query, past |-> past, code |-> "OK",
                           body |-> [data |-> data, total |-> total, pages |-> pages]]
  BY ListOutcome
<1> DEFINE page == Cut(listing, query)
           data == [i \in DOMAIN page |-> Entry(page[i])]
<1>2. /\ query \in Filters /\ Valid(query) /\ snap \in past
      /\ Permitted(snap, query.reader) = "OK" /\ total = Cardinality(E)
  BY DEF List, AtStep, ReadOK
<1>3. Ranked(E)
  BY EntriesRanked
<1>4. query.page \in Int /\ query.limit \in Int /\ query.page >= 1 /\ query.limit >= 1
  BY <1>2, ValidPages
<1>5. /\ page \in Seq(E) /\ Len(page) = Cardinality(on)
      /\ \A i \in 1..Len(page) : page[i] \in on
      /\ \A x \in on : Rank(x, E) - offset \in 1..Len(page) /\ page[Rank(x, E) - offset] = x
  BY <1>3, <1>4, PageHas
<1>6. DOMAIN page = 1..Len(page) /\ Len(page) \in Nat
  BY <1>5, LenProperties
<1>7. /\ total \in Nat /\ pages \in Int
      /\ pages * query.limit >= total /\ (pages - 1) * query.limit < total
  BY <1>2, <1>3, <1>4, FS_CardinalityType, PagesEnough DEF Ranked
<1>8. (\A x \in on : Readable(x)) <=> \A i \in DOMAIN page : Readable(page[i])
  BY <1>5, <1>6
<1>9. Len(data) = Len(page)
  <2>1. \E n \in Nat : DOMAIN data = 1..n /\ n = Len(page)
    BY <1>6
  <2> QED
    BY <1>6, <2>1
<1>10. \A x \in on : data[Rank(x, E) - offset].id = x.id
  BY <1>5, <1>6 DEF Entry
<1>11. RightPage([data |-> data, total |-> total, pages |-> pages], E, query)
  <2> DEFINE body == [data |-> data, total |-> total, pages |-> pages]
  <2>1. body.data = data /\ body.total = total /\ body.pages = pages
    OBVIOUS
  <2> HIDE DEF body, data, pages, page, E
  <2> QED
    BY <1>2, <1>5, <1>7, <1>9, <1>10, <2>1 DEF RightPage, body
<1>12. UNCHANGED log
  BY ListsOnlyRead
<1>13. reply'.query = query /\ reply'.past = past
  BY <1>1
<1>14. PICK v \in reply'.past : v = snap
  BY <1>2, <1>13
<1>15. Matching(Entries(v)', query) = E
  BY <1>12, <1>14 DEF Entries
<1> HIDE DEF E, page, data, pages, on, offset
<1>16. CASE /\ \E i \in DOMAIN page : ~Readable(page[i])
            /\ reply' = [query |-> query, past |-> past, code |-> "INTERNAL_ERROR",
                         body |-> Null]
  <2>1. RightAnswer(v)'
    BY <1>2, <1>8, <1>14, <1>15, <1>16 DEF RightAnswer, on
  <2> QED
    BY <1>14, <2>1 DEF ListAnswersOneState
<1>17. CASE /\ \A i \in DOMAIN page : Readable(page[i])
            /\ reply' = [query |-> query, past |-> past, code |-> "OK",
                         body |-> [data |-> data, total |-> total, pages |-> pages]]
  <2>1. RightAnswer(v)'
    BY <1>2, <1>8, <1>11, <1>14, <1>15, <1>17 DEF RightAnswer, on
  <2> QED
    BY <1>14, <2>1 DEF ListAnswersOneState
<1> QED
  BY <1>1, <1>16, <1>17 DEF page, data

\* A page tells public fields only.
LEMMA PageIsPublic ==
  ASSUME LogOK, ReadOK, List
  PROVE  OnlyPublicFields'
<1> DEFINE E == Matching(Entries(snap), query)
<1>1. PICK listing \in Listings(E) :
        LET page == Cut(listing, query)
            data == [i \in DOMAIN page |-> Entry(page[i])]
        IN \/ reply'.code = "INTERNAL_ERROR"
           \/ /\ \A i \in DOMAIN page : Readable(page[i])
              /\ reply'.body.data = data
  BY ListOutcome
<1> DEFINE page == Cut(listing, query)
           data == [i \in DOMAIN page |-> Entry(page[i])]
<1>2. query \in Filters /\ Valid(query)
  BY DEF List, AtStep, ReadOK
<1>3. query.page \in Int /\ query.limit \in Int /\ query.page >= 1 /\ query.limit >= 1
  BY <1>2, ValidPages
<1>4. Ranked(E) /\ E \subseteq log
  BY EntriesRanked DEF Matching, Entries
<1>5. page \in Seq(E)
  BY <1>3, <1>4, PageHas
<1>6. \A i \in DOMAIN page : page[i] \in log
  BY <1>4, <1>5, LenProperties
<1>7. ASSUME reply'.code # "INTERNAL_ERROR", NEW i \in DOMAIN reply'.body.data,
             NEW value \in {reply'.body.data[i].old, reply'.body.data[i].new} \ {Null},
             NEW f \in DOMAIN value
      PROVE  f \in PublicFields(reply'.body.data[i].type) /\ value[f] # "other"
  <2>1. /\ i \in DOMAIN page /\ reply'.body.data[i] = Entry(page[i]) /\ Readable(page[i])
    BY <1>1, <1>7
  <2> DEFINE r == page[i]
  <2> HIDE DEF r
  <2>2. r.type \in Types /\ Readable(r) /\ reply'.body.data[i] = Entry(r)
    BY <1>6, <2>1 DEF r, LogOK, WellFormed
  <2>3. /\ Entry(r).type = r.type /\ Entry(r).old = Sanitize(r.type, r.old)
        /\ Entry(r).new = Sanitize(r.type, r.new)
    BY DEF Entry
  <2>4. CASE value = Sanitize(r.type, r.old)
    <3>1. Sanitize(r.type, r.old) \notin {Null, Refused} /\ f \in DOMAIN Sanitize(r.type, r.old)
      BY <1>7, <2>2, <2>4 DEF Readable
    <3> QED
      BY <2>2, <2>3, <2>4, <3>1, ShownIsPublic
  <2>5. CASE value = Sanitize(r.type, r.new)
    <3>1. Sanitize(r.type, r.new) \notin {Null, Refused} /\ f \in DOMAIN Sanitize(r.type, r.new)
      BY <1>7, <2>2, <2>5 DEF Readable
    <3> QED
      BY <2>2, <2>3, <2>5, <3>1, ShownIsPublic
  <2> QED
    BY <1>7, <2>2, <2>3, <2>4, <2>5
<1> QED
  BY <1>7 DEF OnlyPublicFields

LEMMA ReplyInv ==
  ASSUME LogOK, ReadOK, AuditNext
  PROVE  ReplyOK'
<1>1. CASE reply' = Null
  BY <1>1 DEF ReplyOK, ListAnswersOneState, OnlyPublicFields, Answered
<1>2. CASE reply' # Null /\ Receive
  <2>1. PICK q \in Queries \cup ({walk.next} \ {Null}) :
          Refusal(q) # "OK" /\ Answer(q, {Now}, Refusal(q), Null)
    BY <1>2 DEF Receive
  <2>2. reply' = [query |-> q, past |-> {Now}, code |-> Refusal(q), body |-> Null]
    BY <2>1 DEF Answer
  <2>3. \/ Refusal(q) = Permitted(Now, q.reader)
        \/ Permitted(Now, q.reader) = "OK" /\ ~Valid(q) /\ Refusal(q) = "VALIDATION_ERROR"
    BY <2>1 DEF Refusal
  <2> DEFINE code == Refusal(q)
  <2>4. Now \in {Now} /\ code # "OK"
    BY <2>1
  <2> HIDE DEF code
  <2> QED
    BY <2>2, <2>3, <2>4, RefusalIsRight DEF code
<1>3. CASE reply' # Null /\ Check
  <2>1. /\ Permitted(Now, query.reader) # "OK" /\ Now \in past
        /\ reply' = [query |-> query, past |-> past, code |-> Permitted(Now, query.reader),
                     body |-> Null]
    BY <1>3 DEF Check, AtStep, Proceed, Error, Answer, ReadOK
  <2> QED
    BY <2>1, RefusalIsRight
<1>4. CASE List
  BY <1>4, PageIsRight, PageIsPublic DEF ReplyOK
<1>5. CASE Fail
  <2>1. reply'.code = "FAILED"
    BY <1>5 DEF Fail, Answer
  <2> QED
    BY <2>1 DEF ReplyOK, ListAnswersOneState, OnlyPublicFields, Answered
<1>6. CASE Count
  BY <1>1, <1>6 DEF Count, Proceed
<1> QED
  BY <1>1, <1>2, <1>3, <1>4, <1>5, <1>6, Steps DEF Elsewhere

AuditInv == Inv /\ Reading /\ ReplyOK

LEMMA InitAuditInv == AuditInit => AuditInv
<1> SUFFICES ASSUME AuditInit PROVE AuditInv
  OBVIOUS
<1>1. Inv /\ answered = 0
  BY InitInv DEF AuditInit, Init
<1>2. LogOK
  BY <1>1, LogAssumption DEF AuditInit, LogOK, WellFormed
<1>3. KnownOK
  BY DEF AuditInit, KnownOK
<1>4. ReadOK
  BY DEF AuditInit, ReadOK
<1>5. WalkOK
  BY DEF AuditInit, WalkOK, NoWalk
<1>6. ReplyOK
  BY DEF AuditInit, ReplyOK, ListAnswersOneState, OnlyPublicFields, Answered
<1> QED
  BY <1>1, <1>2, <1>3, <1>4, <1>5, <1>6 DEF AuditInv, Reading

LEMMA StepAuditInv ==
  ASSUME AuditInv, [AuditNext]_auditVars
  PROVE  AuditInv'
<1>1. CASE AuditNext
  <2>1. Inv /\ LogOK /\ KnownOK /\ ReadOK /\ WalkOK
    BY DEF AuditInv, Reading
  <2>2. Inv'
    BY <1>1, <2>1, StepsAreRows, StepInv
  <2>3. Grows /\ LogOK'
    BY <1>1, <2>1, <2>2, LogGrows, LogInv
  <2> QED
    BY <1>1, <2>1, <2>2, <2>3, KnownInv, ReadInv, WalkInv, ReplyInv DEF AuditInv, Reading
<1>2. CASE UNCHANGED auditVars
  <2>1. /\ UNCHANGED vars
        /\ UNCHANGED <<log, known, active, step, query, snap, total, past, walk, reply>>
    BY <1>2 DEF auditVars, rows, reading, vars
  <2>2. Inv'
    BY <2>1, StepInv DEF AuditInv
  <2>3. /\ LogOK' = LogOK /\ KnownOK' = KnownOK
    BY <2>1 DEF LogOK, KnownOK, WellFormed, LogIds, vars
  <2>4. ReadOK' = ReadOK
    BY <2>1 DEF ReadOK, LogIds, Valid, Permitted, Now, Matching, Entries
  <2>5. WalkOK' = WalkOK
    BY <2>1 DEF WalkOK, Due, Matching, Entries
  <2>6. ListAnswersOneState' = ListAnswersOneState
    BY <2>1 DEF ListAnswersOneState, Answered, RightAnswer, Entries
  <2>7. OnlyPublicFields' = OnlyPublicFields
    BY <2>1 DEF OnlyPublicFields, Answered
  <2> QED
    BY <2>2, <2>3, <2>4, <2>5, <2>6, <2>7 DEF AuditInv, Reading, ReplyOK
<1> QED
  BY <1>1, <1>2

LEMMA AuditInvariant == AuditSpec => []AuditInv
BY InitAuditInv, StepAuditInv, PTL DEF AuditSpec

\* The audit log keeps the times of Timestamps: its steps are steps of the row or none.
THEOREM AuditKeepsTime == AuditSpec => Spec
<1>1. AuditInit => Init
  BY DEF AuditInit
<1>2. [AuditNext]_auditVars => [Next]_vars
  BY StepsAreRows DEF auditVars, rows, vars
<1> QED
  BY <1>1, <1>2, PTL DEF AuditSpec, Spec

\* Whatever is written while a list is served, its answer is that of one moment between
\* the request and the reply: permission, total and entries are of one state of the log.
THEOREM ListsAreAtomic == AuditSpec => []ListAnswersOneState
<1>1. AuditInv => ListAnswersOneState
  BY DEF AuditInv, ReplyOK
<1> QED
  BY <1>1, AuditInvariant, PTL

\* However many rows there are and whatever is added between two pages, a walk from the
\* first page to the last has shown every entry that was there when it began.
THEOREM WalksAreComplete == AuditSpec => []WalksMissNothing
<1>1. AuditInv => WalksMissNothing
  BY DEF AuditInv, Reading, WalkOK, WalksMissNothing
<1> QED
  BY <1>1, AuditInvariant, PTL

\* Every snapshot that a service wrote is listed whole.
THEOREM WrittenIsListed == AuditSpec => []WritersAreShown
<1>1. AuditInv => WritersAreShown
  BY WrittenIsShown DEF AuditInv, Reading, LogOK, WellFormed, WritersAreShown, Entry
<1> QED
  BY <1>1, AuditInvariant, PTL

\* Whatever the log holds, a list tells public fields with plain values only.
THEOREM ListsArePublic == AuditSpec => []OnlyPublicFields
<1>1. AuditInv => OnlyPublicFields
  BY DEF AuditInv, ReplyOK
<1> QED
  BY <1>1, AuditInvariant, PTL

\* A change that began after another was answered is listed above it.
THEOREM RealTimeOrder == AuditSpec => ListedInRealTime
<1>1. AuditInv /\ [AuditNext]_auditVars =>
        [\A s \in Sessions : At(s, "Commit") /\ At(s, "idle")' =>
           \A r \in log' \ log, x \in log : x.id \in known[s] => Precedes(r, x)]_auditVars
  <2> SUFFICES ASSUME AuditInv, AuditNext, NEW s \in Sessions, At(s, "Commit"), At(s, "idle")',
                      NEW r \in log' \ log, NEW x \in log, x.id \in known[s]
               PROVE  Precedes(r, x)
    OBVIOUS
  <2>1. PICK t \in Sessions : CommitAudited(t)
    BY OnlyCommitsAdd
  <2>2. t = s
    BY <2>1 DEF CommitAudited, Commit, End, Goto, At, AuditInv, Inv, TypeOK
  <2>3. r.created_at = begun[s] /\ WellFormed(r)
    BY <2>1, <2>2, CommitRows DEF AuditInv, Reading
  <2>4. x.created_at < begun[s]
    BY DEF AuditInv, Reading, KnownOK
  <2>5. x.created_at \in Int /\ r.created_at \in Int
    BY <2>3 DEF AuditInv, Reading, LogOK, WellFormed
  <2> QED
    BY <2>3, <2>4, <2>5 DEF Precedes
<1> QED
  BY <1>1, AuditInvariant, PTL DEF AuditSpec, ListedInRealTime
=============================================================================
