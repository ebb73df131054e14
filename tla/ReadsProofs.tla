---------------------------- MODULE ReadsProofs ----------------------------
(***************************************************************************)
(* The reads, for every set of accounts, assets, orders, reads in service  *)
(* and queries, beside every sequence of writes.                           *)
(***************************************************************************)
EXTENDS Reads, FiniteSetTheorems, SequenceTheorems, TLAPS

(***************************************************************************)
(* The tables, and the states of them that a read lives through.           *)
(***************************************************************************)
AccountsOK(accounts) ==
  \A u \in Users : accounts[u] # Null => accounts[u].role \in Roles

\* The caller of a read in service has a role, in each of its states.
Lived(t, q) == t.users[q.actor].role \in Roles

TablesOK == DOMAIN users = Users /\ AccountsOK(users)

(***************************************************************************)
(* What a read has shown when it comes to a statement.                     *)
(***************************************************************************)
Statements == {"idle", "Check", "Get", "Scope", "Filter", "Count", "List"}

Permitted(t, q) == CheckIn(t, q.actor, Permission(q)) = "OK"

ReadOK(s) ==
  /\ pc[s] \in Statements
  /\ pc[s] # "idle" =>
       /\ query[s] \in Queries /\ InBounds(query[s])
       /\ Tables \in past[s] /\ \A t \in past[s] : Lived(t, query[s])
  /\ pc[s] \in Statements \ {"idle", "Check"} => snap[s] \in past[s] /\ Permitted(snap[s], query[s])
  /\ pc[s] \in {"Get", "Scope"} => query[s].op \in Gets
  /\ pc[s] = "Scope" => /\ query[s].op \in {"GetOrder", "GetAsset"}
                        /\ RowOf(snap[s], query[s]) \notin {Null, Gone}
  /\ pc[s] = "Filter" => query[s].op = "ListOrders"
  /\ pc[s] \in {"Count", "List"} =>
       /\ query[s].op \in Lists
       /\ query[s].op = "ListOrders" =>
            AssignmentFilterAllowed(snap[s].users[query[s].actor].role, query[s].actor,
                                    query[s].assignee)
  /\ pc[s] = "List" => total[s] = Cardinality(RowsOf(snap[s], query[s]))

\* What an idle session has answered is right.
AnswerOK(s) ==
  pc[s] = "idle" /\ reply[s] # Null /\ reply[s].code # "FAILED" =>
    \E t \in past[s] : RightAnswer(t, query[s], reply[s])

TypeOK ==
  /\ pc \in [Sessions -> Statements]
  /\ DOMAIN query = Sessions /\ DOMAIN snap = Sessions /\ DOMAIN total = Sessions
  /\ DOMAIN reply = Sessions /\ DOMAIN past = Sessions

Inv == TablesOK /\ TypeOK /\ \A s \in Sessions : ReadOK(s) /\ AnswerOK(s)

-----------------------------------------------------------------------------
(***************************************************************************)
(* Lists.  Ids are ranked as they are ordered.                             *)
(***************************************************************************)
Ids(rows) == IsFiniteSet(rows) /\ rows \subseteq Int

Above(x, rows) == {y \in rows : y >= x}

LEMMA ListingRank ==
  ASSUME NEW rows, Ids(rows), NEW l \in Listings(rows), NEW k \in 1..Cardinality(rows)
  PROVE  l[k] \in rows /\ Rank(l[k], rows) = k
<1> DEFINE n == Cardinality(rows)
           first == [j \in 1..k |-> l[j]]
           upTo == Above(l[k], rows)
<1>1. n \in Nat
  BY FS_CardinalityType DEF Ids
<1>2. /\ l \in [1..n -> rows]
      /\ \A y \in rows : \E j \in 1..n : l[j] = y
      /\ \A i, j \in 1..n : i < j => l[i] > l[j]
  BY DEF Listings, Bijection, Injection, Surjection
<1> HIDE DEF n
<1>3. l[k] \in rows /\ k \in 1..n
  BY <1>2 DEF n
<1>4. \A j \in 1..n : l[j] \in upTo <=> j <= k
  <2> SUFFICES ASSUME NEW j \in 1..n PROVE l[j] \in upTo <=> j <= k
    OBVIOUS
  <2>1. l[j] \in rows /\ l[j] \in Int /\ l[k] \in Int
    BY <1>2, <1>3 DEF Ids
  <2>2. (j < k => l[j] > l[k]) /\ (k < j => l[k] > l[j])
    BY <1>2, <1>3
  <2> QED
    BY <1>1, <1>3, <2>1, <2>2 DEF Above
<1>5. \A j \in 1..k : j \in 1..n /\ j <= k
  BY <1>1, <1>3
<1>6. first \in [1..k -> upTo]
  BY <1>4, <1>5
<1>7. \A i, j \in 1..k : first[i] = first[j] => i = j
  <2>1. \A i, j \in 1..n : l[i] = l[j] => i = j
    BY DEF Listings, Bijection, Injection, IsInjective, n
  <2> QED
    BY <1>5, <2>1
<1>8. \A y \in upTo : \E j \in 1..k : first[j] = y
  <2> SUFFICES ASSUME NEW y \in upTo PROVE \E j \in 1..k : first[j] = y
    OBVIOUS
  <2>1. PICK j \in 1..n : l[j] = y
    BY <1>2 DEF Above
  <2>2. j \in 1..k
    BY <1>1, <1>3, <1>4, <2>1
  <2> QED
    BY <2>1, <2>2
<1>9. ExistsBijection(1..k, upTo)
  BY <1>6, <1>7, <1>8 DEF ExistsBijection, Bijection, Injection, Surjection, IsInjective
<1>10. Cardinality(upTo) = k
  BY <1>9, FS_CountingElements
<1> QED
  BY <1>3, <1>10 DEF Rank, Above

\* How many pages there are.
LEMMA PagesEnough ==
  ASSUME NEW n \in Nat, NEW limit \in Int, limit >= 1
  PROVE  /\ TotalPages(n, limit) \in Int
         /\ TotalPages(n, limit) * limit >= n
         /\ (TotalPages(n, limit) - 1) * limit < n
<1> DEFINE m == n + limit - 1
           d == m \div limit
<1>1. m \in Int /\ d \in Int
  OBVIOUS
<1>2. m = limit * d + (m % limit) /\ (m % limit) \in 0 .. limit - 1
  OBVIOUS
<1>3. m % limit \in Int /\ 0 <= m % limit /\ m % limit <= limit - 1
  BY <1>2
<1> HIDE DEF d
<1>4. d * limit >= n /\ (d - 1) * limit < n
  <2>1. limit * d = d * limit /\ (d - 1) * limit = d * limit - limit /\ d * limit \in Int
    BY <1>1
  <2> QED
    BY <1>2, <1>3, <2>1
<1> QED
  BY <1>1, <1>4 DEF TotalPages, d

\* The page of a listing is the right one.
LEMMA PageIsRight ==
  ASSUME NEW rows, Ids(rows), NEW l \in Listings(rows),
         NEW q, q.page \in Int, q.limit \in Int, q.page >= 1, q.limit >= 1
  PROVE  RightPage([data |-> PageOf(l, q), total |-> Cardinality(rows),
                    pages |-> TotalPages(Cardinality(rows), q.limit)], rows, q)
<1> DEFINE n == Cardinality(rows)
           offset == Offset(q)
           last == IF offset + q.limit < n THEN offset + q.limit ELSE n
           data == PageOf(l, q)
           pages == TotalPages(n, q.limit)
<1>1. n \in Nat
  BY FS_CardinalityType DEF Ids
<1>2. offset \in Nat
  BY DEF Offset
<1>3. l \in [1..n -> rows] /\ \A x \in rows : \E k \in 1..n : l[k] = x
  BY DEF Listings, Bijection, Injection, Surjection
<1>4. Len(l) = n
  BY <1>1, <1>3
<1>5. data = SubSeq(l, offset + 1, last)
  BY <1>4 DEF PageOf
<1>6. \A k \in 1..n : l[k] \in rows /\ Rank(l[k], rows) = k
  BY ListingRank
<1>7. pages * q.limit >= n /\ (pages - 1) * q.limit < n
  BY <1>1, PagesEnough
<1> HIDE DEF n, offset, data, pages
<1>8. last \in Int /\ offset + 1 \in Int /\ \A i \in offset + 1 .. last : i \in 1..n
  BY <1>1, <1>2
<1>9. /\ Len(data) = IF offset + 1 <= last THEN last - offset ELSE 0
      /\ \A i \in 1 .. last - offset : data[i] = l[offset + i]
  <2>1. \A i \in offset + 1 .. last : l[i] \in rows
    BY <1>6, <1>8
  <2>2. /\ Len(SubSeq(l, offset + 1, last)) =
             IF offset + 1 <= last THEN last - (offset + 1) + 1 ELSE 0
        /\ \A i \in 1 .. last - (offset + 1) + 1 :
             SubSeq(l, offset + 1, last)[i] = l[offset + 1 + i - 1]
    BY <1>8, <2>1, SubSeqProperties
  <2>3. \A i \in 1 .. last - offset : offset + 1 + i - 1 = offset + i
    BY <1>2, <1>8
  <2>4. last - (offset + 1) + 1 = last - offset
    BY <1>2, <1>8
  <2> QED
    BY <1>5, <2>2, <2>3, <2>4
<1>10. ASSUME NEW i \in 1..Len(data)
       PROVE  data[i] \in rows /\ Rank(data[i], rows) = offset + i
  <2>1. offset + i \in 1..n /\ data[i] = l[offset + i]
    BY <1>1, <1>2, <1>8, <1>9
  <2> QED
    BY <1>6, <2>1
<1>11. ASSUME NEW x \in rows, Rank(x, rows) \in offset + 1 .. offset + q.limit
       PROVE  \E i \in 1..Len(data) : data[i] = x
  <2>1. PICK k \in 1..n : l[k] = x
    BY <1>3
  <2>2. k \in offset + 1 .. offset + q.limit
    BY <1>6, <1>11, <2>1
  <2>3. k - offset \in 1 .. last - offset /\ k - offset \in 1..Len(data) /\ offset + (k - offset) = k
    BY <1>1, <1>2, <1>9, <2>2
  <2>4. data[k - offset] = x
    BY <1>9, <2>1, <2>3
  <2> QED
    BY <2>3, <2>4
<1> DEFINE page == [data |-> data, total |-> n, pages |-> pages]
<1>12. page.data = data /\ page.total = n /\ page.pages = pages
  OBVIOUS
<1> HIDE DEF page
<1>13. RightPage(page, rows, q)
  BY <1>7, <1>10, <1>11, <1>12 DEF RightPage, offset, n
<1> QED
  BY <1>13 DEF page, data, n, pages

-----------------------------------------------------------------------------
(***************************************************************************)
(* Answers, on one state of the tables.                                    *)
(***************************************************************************)
LEMMA Refused ==
  ASSUME NEW t, NEW q, NEW code,
         \/ ~t.users[q.actor].active /\ code \in {"UNAUTHENTICATED", "FORBIDDEN"}
         \/ /\ t.users[q.actor].active /\ ~Permitted(t, q)
            /\ code = "FORBIDDEN"
         \/ Permitted(t, q) /\ ~InBounds(q) /\ code = "VALIDATION_ERROR"
  PROVE  RightAnswer(t, q, Reply(code, Null))
<1>1. Reply(code, Null).code = code
  BY DEF Reply
<1>2. ~InBounds(q) => q.op \in Lists
  BY DEF InBounds
<1> QED
  BY <1>1, <1>2 DEF RightAnswer, Permitted, CheckIn

LEMMA Told ==
  ASSUME NEW t, NEW q, Permitted(t, q), q.op \in Gets, NEW answer,
         \/ RowOf(t, q) \in {Null, Gone} /\ answer = Reply(NotFound(q), Null)
         \/ /\ RowOf(t, q) \notin {Null, Gone} /\ (q.op = "GetUser" \/ Visible(t, q))
            /\ answer = Reply("OK", RowOf(t, q))
         \/ /\ RowOf(t, q) \notin {Null, Gone} /\ q.op # "GetUser" /\ ~Visible(t, q)
            /\ answer = Reply("FORBIDDEN", Null)
  PROVE  RightAnswer(t, q, answer)
<1>1. \A c, b : Reply(c, b).code = c /\ Reply(c, b).body = b
  BY DEF Reply
<1>2. q.op \notin Lists
  BY DEF Gets, Lists
<1>3. t.users[q.actor].active /\ Permission(q) \in RolePermissions(t.users[q.actor].role)
  BY DEF Permitted, CheckIn
<1> QED
  BY <1>1, <1>2, <1>3 DEF RightAnswer

LEMMA FilterRefused ==
  ASSUME NEW t, NEW q, Permitted(t, q), InBounds(q), Lived(t, q), q.op = "ListOrders",
         ~AssignmentFilterAllowed(t.users[q.actor].role, q.actor, q.assignee)
  PROVE  RightAnswer(t, q, Reply("FORBIDDEN", Null))
<1>1. Reply("FORBIDDEN", Null).code = "FORBIDDEN" /\ q.op \in Lists
  BY DEF Reply, Lists
<1>2. t.users[q.actor].role = "TECHNICIAN" /\ q.assignee \notin {Null, q.actor}
  BY DEF AssignmentFilterAllowed, Lived, Roles
<1>3. t.users[q.actor].active /\ Permission(q) \in RolePermissions(t.users[q.actor].role)
  BY DEF Permitted, CheckIn
<1> QED
  BY <1>1, <1>2, <1>3 DEF RightAnswer

\* The WHERE of a list keeps what Get would show.
LEMMA RowsAreShown ==
  ASSUME NEW t, NEW q, Lived(t, q), q.op \in Lists
  PROVE  RowsOf(t, q) = Shown(t, q) /\ Ids(RowsOf(t, q))
<1> DEFINE role == t.users[q.actor].role
<1>1. role \in {"ADMIN", "MANAGER", "TECHNICIAN"}
  BY DEF Lived, Roles
<1>2. CASE q.op = "ListOrders"
  <2>1. RowsOf(t, q) = OrderRows(t, q)
    BY <1>2 DEF RowsOf
  <2>2. OrderRows(t, q) = Shown(t, q)
    BY <1>1, <1>2 DEF OrderRows, Shown, Scoped, AssignedScope
  <2>3. OrderRows(t, q) \in SUBSET Orders
    BY DEF OrderRows
  <2> QED
    BY <2>1, <2>2, <2>3, FS_Subset, IdsAssumption DEF Ids
<1>3. CASE q.op = "ListAssets"
  <2>1. RowsOf(t, q) = AssetRows(t, q)
    BY <1>3 DEF RowsOf
  <2>2. AssetRows(t, q) = Shown(t, q)
    BY <1>3 DEF AssetRows, Shown, Scoped, AssetVisibleTo
  <2>3. AssetRows(t, q) \in SUBSET Assets
    BY DEF AssetRows
  <2> QED
    BY <2>1, <2>2, <2>3, FS_Subset, IdsAssumption DEF Ids
<1>4. CASE q.op = "ListUsers"
  <2>1. RowsOf(t, q) = UserRows(t, q)
    BY <1>4 DEF RowsOf
  <2>2. UserRows(t, q) = Shown(t, q)
    BY <1>4 DEF UserRows, Shown
  <2>3. UserRows(t, q) \in SUBSET Users
    BY DEF UserRows
  <2> QED
    BY <2>1, <2>2, <2>3, FS_Subset, IdsAssumption DEF Ids
<1> QED
  BY <1>2, <1>3, <1>4 DEF Lists

LEMMA Listed ==
  ASSUME NEW t, NEW q \in Queries, Permitted(t, q), InBounds(q), Lived(t, q), q.op \in Lists,
         q.op = "ListOrders" =>
           AssignmentFilterAllowed(t.users[q.actor].role, q.actor, q.assignee),
         NEW l \in Listings(RowsOf(t, q)), NEW n, n = Cardinality(RowsOf(t, q))
  PROVE  RightAnswer(t, q, Reply("OK", [data |-> PageOf(l, q), total |-> n,
                                        pages |-> TotalPages(n, q.limit)]))
<1> DEFINE page == [data |-> PageOf(l, q), total |-> n, pages |-> TotalPages(n, q.limit)]
<1>1. q.page \in Int /\ q.limit \in Int /\ q.page >= 1 /\ q.limit >= 1
  <2>1. q.page \in Int /\ q.limit \in Int /\ MaxPage \in Int /\ MaxLimit \in Int
    BY ReadsAssumption DEF MaxPage, MaxLimit
  <2>2. q.page \in 1..MaxPage /\ q.limit \in 1..MaxLimit
    BY DEF InBounds
  <2> QED
    BY <2>1, <2>2
<1>2. RowsOf(t, q) = Shown(t, q) /\ Ids(RowsOf(t, q))
  BY RowsAreShown
<1>3. RightPage(page, Shown(t, q), q)
  BY <1>1, <1>2, PageIsRight
<1> HIDE DEF page
<1>4. Reply("OK", page).code = "OK" /\ Reply("OK", page).body = page
  BY DEF Reply
<1>5. ~(q.op = "ListOrders" /\ t.users[q.actor].role = "TECHNICIAN"
          /\ q.assignee \notin {Null, q.actor})
  BY DEF AssignmentFilterAllowed
<1>6. t.users[q.actor].active /\ Permission(q) \in RolePermissions(t.users[q.actor].role)
  BY DEF Permitted, CheckIn
<1>7. RightAnswer(t, q, Reply("OK", page))
  BY <1>3, <1>4, <1>5, <1>6 DEF RightAnswer
<1> QED
  BY <1>7 DEF page

-----------------------------------------------------------------------------
(***************************************************************************)
(* The steps.                                                              *)
(***************************************************************************)

\* A write keeps the roles of accounts.
LEMMA WritesKeepRoles ==
  ASSUME TablesOK, Writes!Next
  PROVE  TablesOK' /\ \A u \in Users : users[u].role \in Roles => users'[u].role \in Roles
<1>1. PICK r \in Requests : Writes!Do(r)
  BY DEF Writes!Next
<1>2. CASE UNCHANGED users
  BY <1>2 DEF TablesOK, AccountsOK
<1>3. CASE Writes!PatchUser(r)
  <2> DEFINE x == [role |-> users[r.id].role, active |-> Writes!Merge(r.active, users[r.id].active),
                   email |-> Writes!Merge(r.email, users[r.id].email),
                   name |-> Writes!Merge(r.name, users[r.id].name),
                   password |-> Writes!Merge(r.password, users[r.id].password)]
  <2>1. users' = [users EXCEPT ![r.id] = x] /\ x.role = users[r.id].role
    BY <1>3 DEF Writes!PatchUser
  <2> HIDE DEF x
  <2>2. r.id \in Users => users[r.id] # Null /\ users[r.id].role \in Roles
    BY <1>3 DEF Writes!PatchUser, TablesOK, AccountsOK
  <2> QED
    BY <2>1, <2>2 DEF TablesOK, AccountsOK
<1>4. CASE Writes!AddUser(r) /\ r.op \in {"CreateUser", "Bootstrap"}
  <2> DEFINE x == [role |-> r.role, active |-> TRUE, email |-> r.email,
                   name |-> r.name, password |-> r.password]
  <2>1. PICK v \in Users : users' = [users EXCEPT ![v] = x]
    BY <1>4 DEF Writes!AddUser
  <2>3. x.role = r.role
    OBVIOUS
  <2> HIDE DEF x
  <2>2. r.role \in Roles
    BY <1>4, ReadsAssumption
  <2> QED
    BY <2>1, <2>2, <2>3 DEF TablesOK, AccountsOK
<1>5. Writes!Do(r) => UNCHANGED users \/ Writes!PatchUser(r)
                        \/ (Writes!AddUser(r) /\ r.op \in {"CreateUser", "Bootstrap"})
  BY DEF Writes!Do, Writes!CreateUser, Writes!Bootstrap, Writes!CreateAsset, Writes!PatchAsset,
         Writes!DeleteAsset, Writes!CreateOrder, Writes!PatchOrder, Writes!AssignOrder,
         Writes!StatusOrder
<1> QED
  BY <1>1, <1>2, <1>3, <1>4, <1>5

\* A step of one read leaves the others alone.
LEMMA OtherReads ==
  ASSUME NEW w \in Sessions, ReadOK(w), AnswerOK(w), UNCHANGED tables,
         pc'[w] = pc[w], query'[w] = query[w], snap'[w] = snap[w], total'[w] = total[w],
         reply'[w] = reply[w], past'[w] = past[w]
  PROVE  ReadOK(w)' /\ AnswerOK(w)'
<1>1. Tables' = Tables
  BY DEF Tables, tables
<1> QED
  BY <1>1 DEF ReadOK, AnswerOK

LEMMA WriteKeepsReads ==
  ASSUME Inv, WriteCommits
  PROVE  Inv'
<1>1. TablesOK' /\ \A u \in Users : users[u].role \in Roles => users'[u].role \in Roles
  BY WritesKeepRoles DEF Inv, WriteCommits
<1>2. TypeOK'
  BY DEF Inv, WriteCommits, TypeOK
<1>3. ASSUME NEW w \in Sessions
      PROVE  ReadOK(w)' /\ AnswerOK(w)'
  <2>1. /\ pc'[w] = pc[w] /\ query'[w] = query[w] /\ snap'[w] = snap[w]
        /\ total'[w] = total[w] /\ reply'[w] = reply[w]
    BY DEF WriteCommits
  <2>2. ReadOK(w) /\ AnswerOK(w)
    BY DEF Inv
  <2>3. CASE pc[w] = "idle"
    <3>1. past'[w] = past[w]
      BY <2>3 DEF WriteCommits, At
    <3> QED
      BY <2>1, <2>2, <2>3, <3>1 DEF ReadOK, AnswerOK, Statements
  <2>4. CASE pc[w] # "idle"
    <3>1. past'[w] = past[w] \cup {Tables'}
      BY <2>4 DEF WriteCommits, At, Tables
    <3>2. query[w].actor \in Users /\ Lived(Tables, query[w])
      BY <2>2, <2>4, ReadsAssumption DEF ReadOK
    <3>3. Tables.users = users /\ Tables'.users = users'
      BY DEF Tables
    <3>4. Lived(Tables', query[w])
      BY <1>1, <3>2, <3>3 DEF Lived
    <3>5. AnswerOK(w)'
      BY <2>1, <2>4 DEF AnswerOK
    <3>6. ReadOK(w)'
      BY <2>1, <2>2, <2>4, <3>1, <3>4 DEF ReadOK
    <3> QED
      BY <3>5, <3>6
  <2> QED
    BY <2>3, <2>4
<1> QED
  BY <1>1, <1>2, <1>3 DEF Inv

\* A read that answers has only to be right.
LEMMA Answered ==
  ASSUME Inv, NEW s \in Sessions, NEW code, NEW body, Answer(s, code, body),
         code = "FAILED" \/ \E t \in past[s] : RightAnswer(t, query[s], Reply(code, body))
  PROVE  ReadOK(s)' /\ AnswerOK(s)'
<1>1. pc'[s] = "idle" /\ reply'[s] = Reply(code, body)
  BY DEF Inv, TypeOK, Answer
<1>2. query'[s] = query[s] /\ past'[s] = past[s]
  BY DEF Answer
<1>3. Reply(code, body).code = code
  BY DEF Reply
<1> QED
  BY <1>1, <1>2, <1>3 DEF ReadOK, AnswerOK, Statements

\* A read that goes on has only to know what its next statement needs.
LEMMA Proceeded ==
  ASSUME Inv, NEW s \in Sessions, NEW statement \in {"Scope", "Count"}, Proceed(s, statement),
         pc[s] \in Statements \ {"idle", "Check"},
         statement = "Scope" => /\ query[s].op \in {"GetOrder", "GetAsset"}
                                /\ RowOf(snap[s], query[s]) \notin {Null, Gone},
         statement = "Count" =>
           /\ query[s].op = "ListOrders"
           /\ AssignmentFilterAllowed(snap[s].users[query[s].actor].role, query[s].actor,
                                      query[s].assignee)
  PROVE  ReadOK(s)' /\ AnswerOK(s)'
<1>1. pc'[s] = statement /\ UNCHANGED <<tables, query, snap, total, reply, past>>
  BY DEF Inv, TypeOK, Proceed
<1>2. Tables' = Tables
  BY <1>1 DEF Tables, tables
<1>3. ReadOK(s)
  BY DEF Inv
<1> QED
  BY <1>1, <1>2, <1>3 DEF ReadOK, AnswerOK, Statements, Gets, Lists

LEMMA ReceiveStep ==
  ASSUME Inv, NEW s \in Sessions, Receive(s)
  PROVE  ReadOK(s)' /\ AnswerOK(s)'
<1>1. PICK q \in Queries :
        /\ users[q.actor] # Null
        /\ query' = [query EXCEPT ![s] = q]
        /\ \/ Refusals(q) = {} /\ pc' = [pc EXCEPT ![s] = "Check"]
                               /\ reply' = [reply EXCEPT ![s] = Null]
           \/ \E code \in Refusals(q) :
                reply' = [reply EXCEPT ![s] = Reply(code, Null)] /\ UNCHANGED pc
  BY DEF Receive
<1>2. Tables' = Tables /\ past'[s] = {Tables} /\ query'[s] = q /\ pc[s] = "idle"
  BY <1>1 DEF Receive, Tables, tables, Inv, TypeOK, At
<1>3. Tables.users = users
  BY DEF Tables
<1>4. q.actor \in Users /\ Lived(Tables, q)
  BY <1>1, <1>3, ReadsAssumption DEF Lived, Inv, TablesOK, AccountsOK
<1>5. CASE Refusals(q) = {} /\ pc' = [pc EXCEPT ![s] = "Check"]
                            /\ reply' = [reply EXCEPT ![s] = Null]
  <2>1. pc'[s] = "Check" /\ reply'[s] = Null
    BY <1>5 DEF Inv, TypeOK
  <2>2. InBounds(q)
    BY <1>5 DEF Refusals
  <2> QED
    BY <1>2, <1>4, <2>1, <2>2 DEF ReadOK, AnswerOK, Statements
<1>6. CASE \E code \in Refusals(q) :
             reply' = [reply EXCEPT ![s] = Reply(code, Null)] /\ UNCHANGED pc
  <2>1. PICK code \in Refusals(q) :
          reply' = [reply EXCEPT ![s] = Reply(code, Null)] /\ UNCHANGED pc
    BY <1>6
  <2>2. reply'[s] = Reply(code, Null) /\ pc'[s] = "idle"
    BY <1>2, <2>1 DEF Inv, TypeOK
  <2>3. RightAnswer(Tables, q, Reply(code, Null))
    <3>1. \/ ~Tables.users[q.actor].active /\ code \in {"UNAUTHENTICATED", "FORBIDDEN"}
          \/ /\ Tables.users[q.actor].active /\ ~Permitted(Tables, q)
             /\ code = "FORBIDDEN"
          \/ Permitted(Tables, q) /\ ~InBounds(q) /\ code = "VALIDATION_ERROR"
      BY <1>3, <2>1 DEF Refusals, Permitted
    <3> QED
      BY <3>1, Refused
  <2> QED
    BY <1>2, <2>2, <2>3 DEF ReadOK, AnswerOK, Statements
<1> QED
  BY <1>1, <1>5, <1>6

LEMMA CheckStep ==
  ASSUME Inv, NEW s \in Sessions, Check(s)
  PROVE  ReadOK(s)' /\ AnswerOK(s)'
<1> DEFINE q == query[s]
           answer == CheckIn(Tables, q.actor, Permission(q))
<1>1. ReadOK(s) /\ pc[s] = "Check"
  BY DEF Inv, Check, At
<1>2. /\ snap'[s] = Tables /\ query'[s] = q /\ past'[s] = past[s] /\ Tables' = Tables
      /\ Tables \in past[s] /\ q \in Queries
  BY <1>1 DEF Check, Inv, TypeOK, Tables, tables, ReadOK
<1>3. q.op \in Gets \cup Lists
  BY <1>2, ReadsAssumption
<1>4. CASE answer = "OK"
  <2>1. Permitted(Tables, q)
    BY <1>4 DEF Permitted
  <2>2. /\ pc'[s] = CASE q.op = "ListOrders" -> "Filter"
                      [] q.op \in Lists \ {"ListOrders"} -> "Count"
                      [] OTHER -> "Get"
    BY <1>4 DEF Check, Inv, TypeOK
  <2>3. \/ pc'[s] = "Filter" /\ q.op = "ListOrders"
        \/ pc'[s] = "Count" /\ q.op \in Lists /\ q.op # "ListOrders"
        \/ pc'[s] = "Get" /\ q.op \in Gets
    BY <1>3, <2>2 DEF Lists
  <2> QED
    BY <1>1, <1>2, <2>1, <2>3 DEF ReadOK, AnswerOK, Statements
<1>5. CASE answer # "OK"
  <2>1. pc'[s] = "idle" /\ reply'[s] = Reply(answer, Null)
    BY <1>5 DEF Check, Inv, TypeOK
  <2>2. RightAnswer(Tables, q, Reply(answer, Null))
    <3>1. \/ ~Tables.users[q.actor].active /\ answer \in {"UNAUTHENTICATED", "FORBIDDEN"}
          \/ /\ Tables.users[q.actor].active /\ ~Permitted(Tables, q)
             /\ answer = "FORBIDDEN"
      BY <1>5 DEF CheckIn, Permitted
    <3> HIDE DEF answer
    <3> QED
      BY <3>1, Refused
  <2> HIDE DEF answer
  <2> QED
    BY <1>2, <2>1, <2>2 DEF ReadOK, AnswerOK, Statements
<1> QED
  BY <1>4, <1>5

LEMMA GetStep ==
  ASSUME Inv, NEW s \in Sessions, Get(s)
  PROVE  ReadOK(s)' /\ AnswerOK(s)'
<1> DEFINE q == query[s]
           t == snap[s]
           row == RowOf(t, q)
<1>1. pc[s] = "Get" /\ t \in past[s] /\ Permitted(t, q) /\ q.op \in Gets
  BY DEF Inv, ReadOK, Get, At, Statements
<1>2. \/ row \in {Null, Gone} /\ Error(s, NotFound(q))
      \/ row \notin {Null, Gone} /\ q.op = "GetUser" /\ Answer(s, "OK", row)
      \/ row \notin {Null, Gone} /\ q.op # "GetUser" /\ Proceed(s, "Scope")
  BY DEF Get, View
<1> HIDE DEF t, q
<1>3. CASE row \in {Null, Gone} /\ Error(s, NotFound(q))
  <2>1. RightAnswer(t, q, Reply(NotFound(q), Null))
    BY <1>1, <1>3, Told
  <2> QED
    BY <1>1, <1>3, <2>1, Answered DEF Error, q, t
<1>4. CASE row \notin {Null, Gone} /\ q.op = "GetUser" /\ Answer(s, "OK", row)
  <2>1. RightAnswer(t, q, Reply("OK", row))
    BY <1>1, <1>4, Told
  <2> QED
    BY <1>1, <1>4, <2>1, Answered DEF q, t
<1>5. CASE row \notin {Null, Gone} /\ q.op # "GetUser" /\ Proceed(s, "Scope")
  BY <1>1, <1>5, Proceeded DEF q, t, Gets, Statements
<1> QED
  BY <1>2, <1>3, <1>4, <1>5

LEMMA ScopeStep ==
  ASSUME Inv, NEW s \in Sessions, Scope(s)
  PROVE  ReadOK(s)' /\ AnswerOK(s)'
<1> DEFINE q == query[s]
           t == snap[s]
           row == RowOf(t, q)
<1>1. /\ t \in past[s] /\ Permitted(t, q) /\ q.op \in Gets /\ q.op # "GetUser"
      /\ row \notin {Null, Gone}
  BY DEF Inv, ReadOK, Scope, At, Statements
<1>2. \/ Visible(t, q) /\ Answer(s, "OK", row)
      \/ ~Visible(t, q) /\ Error(s, "FORBIDDEN")
  BY DEF Scope, View
<1> HIDE DEF t, q
<1>3. CASE Visible(t, q) /\ Answer(s, "OK", row)
  <2>1. RightAnswer(t, q, Reply("OK", row))
    BY <1>1, <1>3, Told
  <2> QED
    BY <1>1, <1>3, <2>1, Answered DEF q, t
<1>4. CASE ~Visible(t, q) /\ Error(s, "FORBIDDEN")
  <2>1. RightAnswer(t, q, Reply("FORBIDDEN", Null))
    BY <1>1, <1>4, Told
  <2> QED
    BY <1>1, <1>4, <2>1, Answered DEF Error, q, t
<1> QED
  BY <1>2, <1>3, <1>4

LEMMA FilterStep ==
  ASSUME Inv, NEW s \in Sessions, Filter(s)
  PROVE  ReadOK(s)' /\ AnswerOK(s)'
<1> DEFINE q == query[s]
           t == snap[s]
           allowed == AssignmentFilterAllowed(t.users[q.actor].role, q.actor, q.assignee)
<1>1. /\ t \in past[s] /\ Permitted(t, q) /\ InBounds(q) /\ Lived(t, q) /\ q.op = "ListOrders"
      /\ pc[s] = "Filter"
  BY DEF Inv, ReadOK, Filter, At, Statements
<1>2. \/ allowed /\ Proceed(s, "Count")
      \/ ~allowed /\ Error(s, "FORBIDDEN")
  BY DEF Filter, View
<1> HIDE DEF t, q
<1>3. CASE allowed /\ Proceed(s, "Count")
  BY <1>1, <1>3, Proceeded DEF q, t, Statements
<1>4. CASE ~allowed /\ Error(s, "FORBIDDEN")
  <2>1. RightAnswer(t, q, Reply("FORBIDDEN", Null))
    BY <1>1, <1>4, FilterRefused
  <2> QED
    BY <1>1, <1>4, <2>1, Answered DEF Error, q, t
<1> QED
  BY <1>2, <1>3, <1>4

LEMMA CountStep ==
  ASSUME Inv, NEW s \in Sessions, Count(s)
  PROVE  ReadOK(s)' /\ AnswerOK(s)'
<1>1. ReadOK(s) /\ pc[s] = "Count"
  BY DEF Inv, Count, At
<1>2. /\ pc'[s] = "List" /\ total'[s] = Cardinality(RowsOf(snap[s], query[s]))
      /\ UNCHANGED <<tables, query, snap, reply, past>>
  BY DEF Count, View, Inv, TypeOK
<1>3. Tables' = Tables
  BY <1>2 DEF Tables, tables
<1> QED
  BY <1>1, <1>2, <1>3 DEF ReadOK, AnswerOK, Statements

LEMMA ListStep ==
  ASSUME Inv, NEW s \in Sessions, List(s)
  PROVE  ReadOK(s)' /\ AnswerOK(s)'
<1> DEFINE q == query[s]
           t == snap[s]
           n == total[s]
<1>1. /\ q \in Queries /\ t \in past[s] /\ Permitted(t, q) /\ InBounds(q) /\ Lived(t, q)
      /\ q.op \in Lists /\ n = Cardinality(RowsOf(t, q))
      /\ q.op = "ListOrders" =>
           AssignmentFilterAllowed(t.users[q.actor].role, q.actor, q.assignee)
  BY DEF Inv, ReadOK, List, At, Statements
<1>2. PICK l \in Listings(RowsOf(t, q)) :
        Answer(s, "OK", [data |-> PageOf(l, q), total |-> n, pages |-> TotalPages(n, q.limit)])
  BY DEF List, View
<1> HIDE DEF t, q, n
<1>3. RightAnswer(t, q, Reply("OK", [data |-> PageOf(l, q), total |-> n,
                                     pages |-> TotalPages(n, q.limit)]))
  BY <1>1, Listed
<1> QED
  BY <1>1, <1>2, <1>3, Answered DEF q, t

Leaves(s) ==
  \A w \in Sessions \ {s} :
    /\ pc'[w] = pc[w] /\ query'[w] = query[w] /\ snap'[w] = snap[w]
    /\ total'[w] = total[w] /\ reply'[w] = reply[w] /\ past'[w] = past[w]

Advances(s) ==
  Receive(s) \/ Check(s) \/ Get(s) \/ Scope(s) \/ Filter(s) \/ Count(s) \/ List(s) \/ Fail(s)

LEMMA ReadStep ==
  ASSUME Inv, NEW s \in Sessions, Advances(s)
  PROVE  Inv'
<1>1. UNCHANGED tables
  BY DEF Advances, Receive, Check, Get, Scope, Filter, Count, List, Fail, Error, Answer, Proceed
<1>2. TablesOK'
  BY <1>1 DEF Inv, TablesOK, AccountsOK, tables
<1>3. ReadOK(s)' /\ AnswerOK(s)'
  <2>1. CASE Fail(s)
    BY <2>1, Answered DEF Fail, Error
  <2> QED
    BY <2>1, ReceiveStep, CheckStep, GetStep, ScopeStep, FilterStep, CountStep, ListStep
       DEF Advances
<1>4. TypeOK' /\ Leaves(s)
  <2>1. CASE Receive(s)
    BY <2>1 DEF Receive, Inv, TypeOK, Statements, Leaves
  <2>2. CASE Check(s)
    BY <2>2 DEF Check, Inv, TypeOK, Statements, Leaves
  <2>3. CASE Count(s)
    BY <2>3 DEF Count, Inv, TypeOK, Statements, Leaves
  <2>4. ASSUME NEW code, NEW body, Answer(s, code, body)
        PROVE  TypeOK' /\ Leaves(s)
    BY <2>4 DEF Answer, Inv, TypeOK, Statements, Leaves
  <2>5. ASSUME NEW statement \in {"Scope", "Count"}, Proceed(s, statement)
        PROVE  TypeOK' /\ Leaves(s)
    BY <2>5 DEF Proceed, Inv, TypeOK, Statements, Leaves
  <2>6. \/ Receive(s) \/ Check(s) \/ Count(s)
        \/ \E code, body : Answer(s, code, body)
        \/ \E statement \in {"Scope", "Count"} : Proceed(s, statement)
    BY DEF Advances, Get, Scope, Filter, List, Fail, Error
  <2> QED
    BY <2>1, <2>2, <2>3, <2>4, <2>5, <2>6
<1>5. \A w \in Sessions \ {s} : ReadOK(w)' /\ AnswerOK(w)'
  <2> SUFFICES ASSUME NEW w \in Sessions \ {s} PROVE ReadOK(w)' /\ AnswerOK(w)'
    OBVIOUS
  <2>1. ReadOK(w) /\ AnswerOK(w)
    BY DEF Inv
  <2> QED
    BY <1>1, <1>4, <2>1, OtherReads DEF Leaves
<1> QED
  BY <1>2, <1>3, <1>4, <1>5 DEF Inv

\* A read answers as at one moment: permission, scope, rows, total and pages all belong to
\* one state of the tables that the read lived through, whatever the services commit meanwhile
\* (internal/workorders/service.go, List; internal/platform/database/transaction.go, InReadTx).
THEOREM AnswersOfOneState == Spec => []AnswersOneState
<1>1. Init => Inv
  <2> SUFFICES ASSUME Init PROVE Inv
    OBVIOUS
  <2>1. users = InitUsers
    BY DEF Init, Writes!Init
  <2>2. TablesOK
    BY <2>1, ReadsAssumption DEF TablesOK, AccountsOK
  <2>3. TypeOK
    BY DEF Init, TypeOK, Statements
  <2>4. \A s \in Sessions : pc[s] = "idle" /\ reply[s] = Null
    BY DEF Init
  <2>5. \A s \in Sessions : ReadOK(s) /\ AnswerOK(s)
    BY <2>4 DEF ReadOK, AnswerOK, Statements
  <2> QED
    BY <2>2, <2>3, <2>5 DEF Inv
<1>2. Inv /\ [Next]_vars => Inv'
  <2>1. ASSUME Inv, UNCHANGED vars PROVE Inv'
    <3>1. UNCHANGED tables /\ TablesOK' /\ TypeOK'
      BY <2>1 DEF Inv, vars, tables, TablesOK, AccountsOK, TypeOK
    <3>2. \A s \in Sessions : ReadOK(s)' /\ AnswerOK(s)'
      <4> SUFFICES ASSUME NEW s \in Sessions PROVE ReadOK(s)' /\ AnswerOK(s)'
        OBVIOUS
      <4>1. ReadOK(s) /\ AnswerOK(s)
        BY <2>1 DEF Inv
      <4> QED
        BY <2>1, <3>1, <4>1, OtherReads DEF vars
    <3> QED
      BY <3>1, <3>2 DEF Inv
  <2> QED
    BY <2>1, WriteKeepsReads, ReadStep DEF Next, Advances
<1>3. Inv => AnswersOneState
  BY DEF Inv, AnswerOK, AnswersOneState
<1> QED
  BY <1>1, <1>2, <1>3, PTL DEF Spec
=============================================================================
