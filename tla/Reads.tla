------------------------------- MODULE Reads -------------------------------
(***************************************************************************)
(* The read side: Get and List of internal/users, internal/assets and      *)
(* internal/workorders.  A read is one REPEATABLE READ transaction of      *)
(* several statements, while the services commit writes; the writes are    *)
(* the atomic ones of GoWorkAtomic, which GoWork implements.               *)
(***************************************************************************)
EXTENDS Integers, Sequences, FiniteSets, Functions, Rbac

CONSTANTS
  Users, Assets, Orders, AssetFields, OrderFields, Null, Gone,
  Requests, InitUsers, InitAssets, InitOrders,
  Sessions,   \* reads in service at once
  Queries,    \* the reads clients send
  Overlap     \* a bound: the states of the tables one read may live through

VARIABLES
  users, assets, orders,   \* the committed rows
  pc,      \* per session, its next statement
  query,   \* per session, the read it serves
  snap,    \* per session, the snapshot of its transaction
  total,   \* per session, the result of its count
  reply,   \* per session, its last answer
  past     \* per session, every state of the tables since its request arrived

tables == <<users, assets, orders>>
vars == <<users, assets, orders, pc, query, snap, total, reply, past>>

Gets == {"GetOrder", "GetAsset", "GetUser"}
Lists == {"ListOrders", "ListAssets", "ListUsers"}

ASSUME IdsAssumption ==
  /\ IsFiniteSet(Users) /\ IsFiniteSet(Assets) /\ IsFiniteSet(Orders)
  /\ Users \cup Assets \cup Orders \subseteq Int

\* Rows and new accounts have a role; a read is the request of somebody.
ASSUME ReadsAssumption ==
  /\ DOMAIN InitUsers = Users
  /\ \A u \in Users : InitUsers[u] # Null => InitUsers[u].role \in Roles
  /\ \A r \in Requests : r.op \in {"CreateUser", "Bootstrap"} => r.role \in Roles
  /\ \A q \in Queries :
       /\ q.op \in Gets \cup Lists /\ q.actor \in Users
       /\ q.op \in Lists => q.page \in Int /\ q.limit \in Int

Writes == INSTANCE GoWorkAtomic WITH users <- users, assets <- assets, orders <- orders

Tables == [users |-> users, assets |-> assets, orders |-> orders]

\* Variant: READ COMMITTED, every statement sees the latest commits.
ReadCommitted(s) == Tables

\* REPEATABLE READ: every statement sees what the first one saw.
View(s) == snap[s]

(***************************************************************************)
(* Filters and pages.  Ids are ordered as the lists are, by created_at     *)
(* and id; a row created late may have an early created_at and so any id.  *)
(* An absent filter is Null.  The filters on free text and on priority     *)
(* narrow a list as the status does and are left out.                      *)
(***************************************************************************)
MaxPage == 100000
MaxLimit == 100

\* ParseFilter refuses a page or a limit out of range.
InBounds(q) == q.op \in Lists => q.page \in 1..MaxPage /\ q.limit \in 1..MaxLimit

Offset(q) == (q.page - 1) * q.limit

TotalPages(n, limit) == (n + limit - 1) \div limit

Allows(filter, value) == filter = Null \/ filter = value

\* ORDER BY ... DESC.
Listings(rows) ==
  {l \in Bijection(1..Cardinality(rows), rows) : \A i, j \in DOMAIN l : i < j => l[i] > l[j]}

\* LIMIT limit OFFSET offset.
PageOf(listing, q) ==
  LET last == IF Offset(q) + q.limit < Len(listing) THEN Offset(q) + q.limit ELSE Len(listing)
  IN SubSeq(listing, Offset(q) + 1, last)

(***************************************************************************)
(* The queries, on the tables v.                                           *)
(***************************************************************************)
Permission(q) ==
  CASE q.op \in {"GetOrder", "ListOrders"} -> "work_order:read"
    [] q.op \in {"GetAsset", "ListAssets"} -> "asset:read"
    [] q.op \in {"GetUser", "ListUsers"}   -> "user:read"

CheckIn(v, u, permission) ==
  CASE ~v.users[u].active -> "UNAUTHENTICATED"
    [] v.users[u].active /\ permission \notin RolePermissions(v.users[u].role) -> "FORBIDDEN"
    [] OTHER -> "OK"

Scoped(v, u) == v.users[u].role = "TECHNICIAN"

AssignmentFilterAllowed(role, actor, filter) ==
  IF role = "TECHNICIAN" THEN filter \in {Null, actor} ELSE role \in {"ADMIN", "MANAGER"}

\* WHERE of CountWorkOrders and ListWorkOrders.
OrderRows(v, q) ==
  {o \in Orders : /\ v.orders[o] # Null
                  /\ Allows(q.status, v.orders[o].status)
                  /\ Allows(q.asset, v.orders[o].asset)
                  /\ Allows(q.assignee, v.orders[o].assignee)
                  /\ Scoped(v, q.actor) => v.orders[o].assignee = q.actor}

AssetVisibleTo(v, a, u) ==
  \E o \in Orders : v.orders[o] # Null /\ v.orders[o].asset = a /\ v.orders[o].assignee = u

\* WHERE of CountAssets and ListAssets.
AssetRows(v, q) ==
  {a \in Assets : /\ v.assets[a] \notin {Null, Gone}
                  /\ Allows(q.status, v.assets[a].status)
                  /\ Scoped(v, q.actor) => AssetVisibleTo(v, a, q.actor)}

\* WHERE of CountUsers and ListUsers.
UserRows(v, q) ==
  {u \in Users : /\ v.users[u] # Null
                 /\ Allows(q.role, v.users[u].role)
                 /\ Allows(q.active, v.users[u].active)}

RowsOf(v, q) ==
  CASE q.op = "ListOrders" -> OrderRows(v, q)
    [] q.op = "ListAssets" -> AssetRows(v, q)
    [] q.op = "ListUsers"  -> UserRows(v, q)

\* The row a Get names, as the client sees it.
RowOf(v, q) ==
  CASE q.op = "GetOrder" -> v.orders[q.id]
    [] q.op = "GetAsset" -> v.assets[q.id]
    [] q.op = "GetUser"  -> v.users[q.id]

NotFound(q) ==
  CASE q.op = "GetOrder" -> "WORK_ORDER_NOT_FOUND"
    [] q.op = "GetAsset" -> "ASSET_NOT_FOUND"
    [] q.op = "GetUser"  -> "USER_NOT_FOUND"

(***************************************************************************)
(* The statements of a read.                                               *)
(***************************************************************************)
At(s, statement) == pc[s] = statement

Proceed(s, statement) ==
  /\ pc' = [pc EXCEPT ![s] = statement]
  /\ UNCHANGED <<tables, query, snap, total, reply, past>>

Reply(code, body) == [code |-> code, body |-> body]

Answer(s, code, body) ==
  /\ reply' = [reply EXCEPT ![s] = Reply(code, body)]
  /\ pc' = [pc EXCEPT ![s] = "idle"]
  /\ UNCHANGED <<tables, query, snap, total, past>>

Error(s, code) == Answer(s, code, Null)

(***************************************************************************)
(* A read arrives: authentication and require on the pool, where an        *)
(* account deactivated meanwhile is told 401 or 403, then its filter.      *)
(***************************************************************************)
Refusals(q) ==
  CASE ~users[q.actor].active -> {"UNAUTHENTICATED", "FORBIDDEN"}
    [] users[q.actor].active /\ CheckIn(Tables, q.actor, Permission(q)) # "OK" -> {"FORBIDDEN"}
    [] OTHER -> IF InBounds(q) THEN {} ELSE {"VALIDATION_ERROR"}

Receive(s) ==
  /\ At(s, "idle")
  /\ \E q \in Queries :
       /\ users[q.actor] # Null
       /\ query' = [query EXCEPT ![s] = q]
       /\ \/ Refusals(q) = {} /\ pc' = [pc EXCEPT ![s] = "Check"]
                              /\ reply' = [reply EXCEPT ![s] = Null]
          \/ \E code \in Refusals(q) : reply' = [reply EXCEPT ![s] = Reply(code, Null)] /\ UNCHANGED pc
  /\ past' = [past EXCEPT ![s] = {Tables}]
  /\ total' = [total EXCEPT ![s] = 0]
  /\ UNCHANGED <<tables, snap>>

\* The first statement of the transaction fixes its snapshot: rbac.Check again.
Check(s) ==
  /\ At(s, "Check")
  /\ snap' = [snap EXCEPT ![s] = Tables]
  /\ LET q == query[s]
         answer == CheckIn(Tables, q.actor, Permission(q))
     IN IF answer = "OK"
          THEN /\ pc' = [pc EXCEPT ![s] = CASE q.op = "ListOrders" -> "Filter"
                                            [] q.op \in Lists \ {"ListOrders"} -> "Count"
                                            [] OTHER -> "Get"]
               /\ UNCHANGED reply
          ELSE /\ pc' = [pc EXCEPT ![s] = "idle"]
               /\ reply' = [reply EXCEPT ![s] = Reply(answer, Null)]
  /\ UNCHANGED <<tables, query, total, past>>

\* Get: the row, then its visibility for the role of the caller.
Get(s) ==
  /\ At(s, "Get")
  /\ LET row == RowOf(View(s), query[s]) IN
       \/ row \in {Null, Gone} /\ Error(s, NotFound(query[s]))
       \/ row \notin {Null, Gone} /\ query[s].op = "GetUser" /\ Answer(s, "OK", row)
       \/ row \notin {Null, Gone} /\ query[s].op # "GetUser" /\ Proceed(s, "Scope")

Visible(v, q) ==
  CASE q.op = "GetOrder" -> AssignedScope(v.users[q.actor].role, q.actor, v.orders[q.id].assignee)
    [] q.op = "GetAsset" -> Scoped(v, q.actor) => AssetVisibleTo(v, q.id, q.actor)

Scope(s) ==
  /\ At(s, "Scope")
  /\ \/ Visible(View(s), query[s]) /\ Answer(s, "OK", RowOf(View(s), query[s]))
     \/ ~Visible(View(s), query[s]) /\ Error(s, "FORBIDDEN")

\* List of orders: a technician may only filter by themselves.
Filter(s) ==
  /\ At(s, "Filter")
  /\ LET q == query[s]
         allowed == AssignmentFilterAllowed(View(s).users[q.actor].role, q.actor, q.assignee)
     IN \/ allowed /\ Proceed(s, "Count")
        \/ ~allowed /\ Error(s, "FORBIDDEN")

Count(s) ==
  /\ At(s, "Count")
  /\ total' = [total EXCEPT ![s] = Cardinality(RowsOf(View(s), query[s]))]
  /\ pc' = [pc EXCEPT ![s] = "List"]
  /\ UNCHANGED <<tables, query, snap, reply, past>>

List(s) ==
  /\ At(s, "List")
  /\ \E listing \in Listings(RowsOf(View(s), query[s])) :
       Answer(s, "OK", [data  |-> PageOf(listing, query[s]), total |-> total[s],
                        pages |-> TotalPages(total[s], query[s].limit)])

\* A statement or the commit fails: a read never leaves an outcome in doubt.
Fail(s) == ~At(s, "idle") /\ Error(s, "FAILED")

\* A write commits while the reads are in service.
WriteCommits ==
  /\ Writes!Next
  /\ \A s \in Sessions : ~At(s, "idle") => Cardinality(past[s]) < Overlap
  /\ past' = [s \in Sessions |->
                IF At(s, "idle") THEN past[s]
                ELSE past[s] \cup {[users |-> users', assets |-> assets', orders |-> orders']}]
  /\ UNCHANGED <<pc, query, snap, total, reply>>

Init ==
  /\ Writes!Init
  /\ pc = [s \in Sessions |-> "idle"]
  /\ query = [s \in Sessions |-> Null]
  /\ snap = [s \in Sessions |-> Tables]
  /\ total = [s \in Sessions |-> 0]
  /\ reply = [s \in Sessions |-> Null]
  /\ past = [s \in Sessions |-> {}]

Next ==
  \/ WriteCommits
  \/ \E s \in Sessions :
       Receive(s) \/ Check(s) \/ Get(s) \/ Scope(s) \/ Filter(s) \/ Count(s) \/ List(s) \/ Fail(s)

Spec == Init /\ [][Next]_vars

-----------------------------------------------------------------------------
(***************************************************************************)
(* What a read answers if it happens all at once on the tables t: the      *)
(* reference the statements are held to.                                   *)
(***************************************************************************)

\* What Get would show of an order decides what List shows of it.
Shown(t, q) ==
  CASE q.op = "ListOrders" ->
         {o \in Orders : /\ t.orders[o] # Null
                         /\ AssignedScope(t.users[q.actor].role, q.actor, t.orders[o].assignee)
                         /\ Allows(q.status, t.orders[o].status)
                         /\ Allows(q.asset, t.orders[o].asset)
                         /\ Allows(q.assignee, t.orders[o].assignee)}
    [] q.op = "ListAssets" ->
         {a \in Assets : /\ t.assets[a] \notin {Null, Gone}
                         /\ Allows(q.status, t.assets[a].status)
                         /\ \/ t.users[q.actor].role # "TECHNICIAN"
                            \/ \E o \in Orders : /\ t.orders[o] # Null
                                                 /\ t.orders[o].asset = a
                                                 /\ t.orders[o].assignee = q.actor}
    [] q.op = "ListUsers" ->
         {u \in Users : /\ t.users[u] # Null
                        /\ Allows(q.role, t.users[u].role)
                        /\ Allows(q.active, t.users[u].active)}

\* The k-th newest of rows is the one with k-1 newer ones.
Rank(x, rows) == Cardinality({y \in rows : y >= x})

RightPage(page, rows, q) ==
  /\ page.total = Cardinality(rows)
  /\ page.pages * q.limit >= page.total /\ (page.pages - 1) * q.limit < page.total
  /\ \A i \in 1..Len(page.data) :
       page.data[i] \in rows /\ Rank(page.data[i], rows) = Offset(q) + i
  /\ \A x \in rows : Rank(x, rows) \in Offset(q) + 1 .. Offset(q) + q.limit =>
                       \E i \in 1..Len(page.data) : page.data[i] = x

RightAnswer(t, q, answer) ==
  LET role == t.users[q.actor].role
      row == RowOf(t, q)
      Refused(codes) == answer.code \in codes
      Given == answer.code = "OK" /\ answer.body = row
  IN CASE ~t.users[q.actor].active -> Refused({"UNAUTHENTICATED", "FORBIDDEN"})
       [] t.users[q.actor].active /\ Permission(q) \notin RolePermissions(role) ->
            Refused({"FORBIDDEN"})
       [] OTHER ->
            IF q.op \in Lists
              THEN IF ~InBounds(q) THEN Refused({"VALIDATION_ERROR"})
                   ELSE IF q.op = "ListOrders" /\ role = "TECHNICIAN" /\ q.assignee \notin {Null, q.actor}
                     THEN Refused({"FORBIDDEN"})
                     ELSE answer.code = "OK" /\ RightPage(answer.body, Shown(t, q), q)
              ELSE IF row \in {Null, Gone} THEN Refused({NotFound(q)})
              ELSE IF q.op = "GetUser" \/ Visible(t, q) THEN Given
              ELSE Refused({"FORBIDDEN"})

\* A read answers as if it had happened at one moment between its request and its
\* reply: permission, scope, total and rows all belong to one state of the tables, and
\* a technician's list holds exactly the orders Get would show them (rbac/policy.go:38).
AnswersOneState ==
  \A s \in Sessions :
    pc[s] = "idle" /\ reply[s] # Null /\ reply[s].code # "FAILED" =>
      \E t \in past[s] : RightAnswer(t, query[s], reply[s])
=============================================================================
