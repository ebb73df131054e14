------------------------------ MODULE AuditLog ------------------------------
(***************************************************************************)
(* The audit rows as their readers see them (internal/auditlog).  The      *)
(* transactions of Timestamps write one work order and insert their audit  *)
(* rows, stamped with the start of the transaction; a client meanwhile     *)
(* lists rows page by page, each list being one REPEATABLE READ            *)
(* transaction, and its account may be deactivated at any time.            *)
(***************************************************************************)
EXTENDS Timestamps, Integers, Sequences, FiniteSets, Functions, Rbac

CONSTANTS
  Ids,        \* a bound: per action, the ids its rows get; integers, ordered as the UUIDs
  Roster,     \* the role of each account that reads
  Leavers,    \* those of them that are deactivated at times
  Author,     \* the account whose requests write
  WorkOrder,  \* the entity id of the work order
  InitLog,    \* the audit rows when the model starts
  Queries,    \* the lists clients ask for
  Overlap     \* a bound: the states one list may live through

VARIABLES
  log,      \* the committed audit rows
  known,    \* per session, the ids answered for at an instant before it began
  active,   \* the readers whose accounts are active
  step,     \* the next statement of the list in service
  query,    \* the list it serves
  snap,     \* the snapshot of its transaction
  total,    \* the result of its count
  past,     \* every state of log and accounts since the request arrived
  walk,     \* the page a client that walks through a list asks next, what it has to see
  reply     \* the answer given in this step, if any

rows == <<clock, order, pc, begun, holder, next, answered>>
reading == <<step, query, snap, total>>
auditVars == <<rows, log, known, active, reading, past, walk, reply>>

\* What a reader depends on; entries are never changed nor removed.
Now == [ids |-> {r.id : r \in log}, active |-> active]

Entries(v) == {r \in log : r.id \in v.ids}

(***************************************************************************)
(* Snapshots: which fields a JSON object has, and of what kind each value  *)
(* is.  "other" is a number, an array or an object.  Null is SQL NULL.     *)
(***************************************************************************)
Kinds == {"string", "bool", "null", "other"}

UserStrings == {"id", "name", "email", "role"}
AssetStrings == {"id", "asset_code", "name", "category", "location", "status",
                 "created_at", "updated_at"}
OrderStrings == {"id", "work_order_number", "asset_id", "title", "description", "priority",
                 "status", "created_by", "created_at", "updated_at"}

Strings(type) ==
  CASE type = "user" -> UserStrings [] type = "asset" -> AssetStrings
    [] type = "work_order" -> OrderStrings

Bools(type) == IF type = "user" THEN {"is_active", "password_changed"} ELSE {}

\* Variant: the time of completion is taken for an ordinary time.
AssigneeOnly(type) == IF type = "work_order" THEN {"assigned_to"} ELSE {}

Nullables(type) == IF type = "work_order" THEN {"assigned_to", "completed_at"} ELSE {}

\* The fields that Sanitize knows.
Known(type) == Strings(type) \cup Bools(type) \cup Nullables(type)

\* The value of a known field has the kind expected of it.
Accepts(type, field, kind) ==
  \/ kind = "string" /\ field \in Strings(type) \cup Nullables(type)
  \/ kind = "null" /\ field \in Nullables(type)
  \/ kind = "bool" /\ field \in Bools(type)

\* Every snapshot is NULL or an object.
Snapshots(raw) == raw = Null \/ raw \in [DOMAIN raw -> Kinds]

Refused == [refused |-> "invalid audit snapshot"]

\* Variant: fields nobody knows are passed on.
SanitizeAllowingUnknown(type, raw) ==
  IF raw = Null THEN Null
  ELSE IF \A f \in DOMAIN raw \cap Known(type) : Accepts(type, f, raw[f]) THEN raw
  ELSE Refused

\* Unknown fields are dropped; a known one of another kind refuses the snapshot.
Sanitize(type, raw) ==
  LET fields == DOMAIN raw \cap Known(type) IN
    IF raw = Null THEN Null
    ELSE IF \A f \in fields : Accepts(type, f, raw[f]) THEN [f \in fields |-> raw[f]]
    ELSE Refused

\* What public() and json.Marshal make of a work order.
OrderSnapshot(r, assigned) ==
  [f \in OrderStrings \cup {"assigned_to", "completed_at"} |->
     CASE f = "assigned_to" -> IF assigned THEN "string" ELSE "null"
       [] f = "completed_at" -> IF r.completed_at # Null THEN "string" ELSE "null"
       [] OTHER -> "string"]

(***************************************************************************)
(* The writers: each transaction of Timestamps inserts its audit rows      *)
(* before it commits, one per action, and they become visible with it.     *)
(***************************************************************************)

\* The actions of a write: a creation, an assignment of an open order, a step of the
\* work.  assigned says whether the order had an assignee.
Writes(s) ==
  IF order = Null THEN {[actions |-> <<"WORK_ORDER_CREATED">>, assigned |-> FALSE]}
  ELSE {[actions |-> <<"WORK_ORDER_STATUS_CHANGED">>, assigned |-> TRUE]}
         \cup IF next[s].completed_at # Null THEN {}
              ELSE {[actions |-> <<"WORK_ORDER_ASSIGNED", "WORK_ORDER_STATUS_CHANGED">>,
                     assigned |-> FALSE]}

\* InsertAudit; created_at takes its default.
AuditRow(s, id, action, assigned) ==
  [id |-> id, created_at |-> begun[s], actor |-> Author, action |-> action,
   type |-> "work_order", entity |-> WorkOrder,
   old |-> IF order = Null THEN Null ELSE OrderSnapshot(order, assigned),
   new |-> OrderSnapshot(next[s], order # Null)]

Numbered == UNION {Ids[a] : a \in DOMAIN Ids}

\* The reader does nothing; a list in service lives through at most Overlap states.
Unseen == reply' = Null /\ UNCHANGED <<reading, walk, past>>

Seen ==
  /\ step # "idle" => Cardinality(past) < Overlap
  /\ past' = IF step = "idle" THEN past ELSE past \cup {Now'}
  /\ reply' = Null /\ UNCHANGED <<reading, walk>>

BeginAudited(s) ==
  /\ Begin(s)
  /\ known' = [known EXCEPT ![s] = IF clock > answered THEN {r.id : r \in log} ELSE {}]
  /\ UNCHANGED <<log, active>> /\ Unseen

CommitAudited(s) ==
  /\ Commit(s)
  /\ \E w \in Writes(s) : \E ids \in [DOMAIN w.actions -> Numbered] :
       /\ \A i \in DOMAIN ids : ids[i] \in Ids[w.actions[i]] \ {r.id : r \in log}
       /\ IsInjective(ids)
       /\ log' = log \cup {AuditRow(s, ids[i], w.actions[i], w.assigned) : i \in DOMAIN ids}
  /\ known' = [known EXCEPT ![s] = {}]
  /\ UNCHANGED active /\ Seen

RollbackAudited(s) ==
  /\ Rollback(s) /\ known' = [known EXCEPT ![s] = {}]
  /\ UNCHANGED <<log, active>> /\ Unseen

\* Statements that show nothing to a reader.
Hidden(s) ==
  /\ InsertWorkOrder(s) \/ LockWorkOrder(s) \/ UpdateWorkOrder(s)
  /\ UNCHANGED <<log, known, active>> /\ Unseen

Time == Tick /\ UNCHANGED <<log, known, active>> /\ Unseen

\* A reader is deactivated, or comes back.
SetActive(u) ==
  /\ active' = IF u \in active THEN active \ {u} ELSE active \cup {u}
  /\ UNCHANGED <<rows, log, known>> /\ Seen

(***************************************************************************)
(* Filters and pages.  An absent filter is Null; "extra" says that the     *)
(* query string has an unknown or a repeated parameter.                    *)
(***************************************************************************)
Types == {"user", "asset", "work_order"}
Actions ==
  {"USER_BOOTSTRAPPED", "USER_CREATED", "USER_UPDATED", "ASSET_CREATED", "ASSET_UPDATED",
   "ASSET_DELETED", "WORK_ORDER_CREATED", "WORK_ORDER_ASSIGNED",
   "WORK_ORDER_STATUS_CHANGED", "WORK_ORDER_UPDATED"}

\* What a client asks for: the page, its size and the filters.
Filters == [reader: DOMAIN Roster, page: Int, limit: Int, actor: STRING \cup {Null},
            action: STRING \cup {Null}, type: STRING \cup {Null}, entity: STRING \cup {Null},
            extra: BOOLEAN]

\* The rows the model starts from are older than it, and keep the constraints of audit_logs.
ASSUME LogAssumption ==
  /\ IsFiniteSet(InitLog)
  /\ \A r \in InitLog :
       /\ r.id \in Int /\ r.created_at \in Int /\ r.created_at <= 0 /\ r.type \in Types
       /\ Snapshots(r.old) /\ Snapshots(r.new)
  /\ \A r, x \in InitLog : r.id = x.id => r = x
  /\ \A a \in DOMAIN Ids : Ids[a] \subseteq Int
  /\ Queries \subseteq Filters /\ Null \notin Filters

MaxPage == 100000

\* ParseFilter, and List once more.
Valid(q) ==
  /\ ~q.extra
  /\ q.page \in 1..MaxPage /\ q.limit \in 1..100
  /\ q.action \in Actions \cup {Null}
  /\ q.type \in Types \cup {Null}
  /\ q.entity # Null => q.type # Null

Allows(filter, value) == filter = Null \/ filter = value

\* WHERE of CountAuditLogs and ListAuditLogs.
Matching(entries, q) ==
  {r \in entries : /\ Allows(q.actor, r.actor) /\ Allows(q.action, r.action)
                   /\ Allows(q.type, r.type) /\ Allows(q.entity, r.entity)}

\* Variants: one of the two columns of the order is missing.
ByTime(x, y) == x.created_at > y.created_at
ById(x, y) == x.id > y.id

\* ORDER BY created_at DESC, id DESC.
Precedes(x, y) == x.created_at > y.created_at \/ (x.created_at = y.created_at /\ x.id > y.id)

\* Every sequence that the ORDER BY allows.
Listings(entries) ==
  {q \in Bijection(1..Cardinality(entries), entries) :
     \A i, j \in DOMAIN q : i < j => ~Precedes(q[j], q[i])}

\* LIMIT limit OFFSET (page - 1) * limit.
Cut(listing, q) ==
  LET offset == (q.page - 1) * q.limit
      last == IF offset + q.limit < Len(listing) THEN offset + q.limit ELSE Len(listing)
  IN SubSeq(listing, offset + 1, last)

TotalPages(n, limit) == (n + limit - 1) \div limit

Entry(r) == [id |-> r.id, type |-> r.type,
             old |-> Sanitize(r.type, r.old), new |-> Sanitize(r.type, r.new)]

Permitted(v, u) ==
  CASE u \notin v.active -> "UNAUTHENTICATED"
    [] u \in v.active /\ "audit:read" \notin RolePermissions(Roster[u]) -> "FORBIDDEN"
    [] OTHER -> "OK"

(***************************************************************************)
(* The statements of a list.                                               *)
(***************************************************************************)
AtStep(statement) == step = statement

\* The list goes on with its next statement.
Proceed(statement) ==
  /\ step' = statement /\ reply' = Null
  /\ UNCHANGED <<rows, log, known, active, query, past, walk>>

\* The list ends with an answer, kept with the states it was in service in.
Answer(q, states, code, body) ==
  /\ reply' = [query |-> q, past |-> states, code |-> code, body |-> body]
  /\ step' = "idle" /\ query' = Null /\ snap' = Null /\ total' = 0 /\ past' = {}
  /\ UNCHANGED <<rows, log, known, active>>

Error(code) == Answer(query, past, code, Null) /\ UNCHANGED walk

NoWalk == [next |-> Null, owed |-> {}]

\* A client walks through a list from its first page on; a failed page may be asked again.
Walk(q) ==
  IF q = walk.next THEN walk
  ELSE IF q.page = 1 /\ q.entity # Null THEN [next |-> q, owed |-> {r.id : r \in Matching(log, q)}]
  ELSE NoWalk

Walked(page, pages) ==
  [next |-> IF query.page < pages THEN [query EXCEPT !.page = @ + 1] ELSE Null,
   owed |-> walk.owed \ {page[i].id : i \in DOMAIN page}]

\* Authenticate and Authorize on the pool, then ParseFilter.
Refusal(q) ==
  IF Permitted(Now, q.reader) # "OK" THEN Permitted(Now, q.reader)
  ELSE IF ~Valid(q) THEN "VALIDATION_ERROR" ELSE "OK"

Receive ==
  /\ AtStep("idle")
  /\ \E q \in Queries \cup ({walk.next} \ {Null}) :
       \/ /\ Refusal(q) = "OK"
          /\ step' = "Check" /\ query' = q /\ past' = {Now} /\ walk' = Walk(q) /\ reply' = Null
          /\ UNCHANGED <<rows, log, known, active, snap, total>>
       \/ Refusal(q) # "OK" /\ Answer(q, {Now}, Refusal(q), Null) /\ UNCHANGED walk

\* rbac.Check again, in the transaction: its first statement fixes the snapshot.
Check ==
  /\ AtStep("Check")
  /\ LET answer == Permitted(Now, query.reader) IN
       \/ answer = "OK" /\ snap' = Now /\ Proceed("Count") /\ UNCHANGED total
       \/ answer # "OK" /\ Error(answer)

\* Variant: READ COMMITTED.
ReadCommitted == Now

\* REPEATABLE READ: every statement sees what the first one saw.
View == snap

Count ==
  /\ AtStep("Count")
  /\ total' = Cardinality(Matching(Entries(View), query))
  /\ Proceed("List") /\ UNCHANGED snap

\* One refused snapshot refuses the page.
List ==
  /\ AtStep("List")
  /\ \E listing \in Listings(Matching(Entries(View), query)) :
       LET page == Cut(listing, query)
           pages == TotalPages(total, query.limit)
           data == [i \in DOMAIN page |-> Entry(page[i])]
           refused == \E i \in DOMAIN data : Refused \in {data[i].old, data[i].new}
       IN \/ refused /\ Error("INTERNAL_ERROR")
          \/ /\ ~refused
             /\ Answer(query, past, "OK", [data |-> data, total |-> total, pages |-> pages])
             /\ walk' = IF walk.next = query THEN Walked(page, pages) ELSE walk

\* A statement or the commit of the read-only transaction fails.
Fail == ~AtStep("idle") /\ Answer(Null, {}, "FAILED", Null) /\ UNCHANGED walk

AuditInit ==
  /\ Init
  /\ log = InitLog /\ active = DOMAIN Roster
  /\ known = [s \in Sessions |-> {}]
  /\ step = "idle" /\ query = Null /\ snap = Null /\ total = 0 /\ past = {}
  /\ walk = NoWalk /\ reply = Null

AuditNext ==
  \/ Time
  \/ \E s \in Sessions : BeginAudited(s) \/ Hidden(s) \/ CommitAudited(s) \/ RollbackAudited(s)
  \/ \E u \in Leavers : SetActive(u)
  \/ Receive \/ Check \/ Count \/ List \/ Fail

AuditSpec == AuditInit /\ [][AuditNext]_auditVars

-----------------------------------------------------------------------------
(***************************************************************************)
(* The reference: the answer of a list that happens all at once in the     *)
(* state v.  The k-th newest entry has k-1 newer ones.                     *)
(***************************************************************************)
Rank(x, entries) ==
  Cardinality({y \in entries : y.created_at > x.created_at
                                 \/ (y.created_at = x.created_at /\ y.id >= x.id)})

OnPage(entries, q) ==
  {x \in entries : Rank(x, entries) \in (q.page - 1) * q.limit + 1 .. q.page * q.limit}

Readable(r) == Refused \notin {Sanitize(r.type, r.old), Sanitize(r.type, r.new)}

RightPage(page, entries, q) ==
  /\ page.total = Cardinality(entries)
  /\ page.pages * q.limit >= page.total /\ (page.pages - 1) * q.limit < page.total
  /\ Len(page.data) = Cardinality(OnPage(entries, q))
  /\ \A x \in OnPage(entries, q) :
       page.data[Rank(x, entries) - (q.page - 1) * q.limit].id = x.id

RightAnswer(v) ==
  LET q == reply.query IN
  IF Permitted(v, q.reader) # "OK" THEN reply.code = Permitted(v, q.reader)
  ELSE IF ~Valid(q) THEN reply.code = "VALIDATION_ERROR"
  ELSE LET entries == Matching(Entries(v), q) IN
         IF \A x \in OnPage(entries, q) : Readable(x)
           THEN reply.code = "OK" /\ RightPage(reply.body, entries, q)
           ELSE reply.code = "INTERNAL_ERROR"

Answered == reply # Null /\ reply.code # "FAILED"

\* A list answers as if it had happened at one moment between its request and its
\* reply: permission, total and entries belong to one state of the log, and a page fails
\* exactly when it has an entry that cannot be shown (List under REPEATABLE READ).
ListAnswersOneState == Answered => \E v \in reply.past : RightAnswer(v)

\* A client that asks for page after page, and again after a failure, has seen by the
\* last page every entry that was there when it began, whatever is written meanwhile
\* (ORDER BY created_at DESC, id DESC of ListAuditLogs).
WalksMissNothing == walk.next = Null => walk.owed = {}

\* What the services write: the snapshots of audit/writer.go, users.Patch, assets and
\* workorders.
Written(type, raw) ==
  \/ raw = Null
  \/ /\ type = "user"
     /\ DOMAIN raw \in {UserStrings \cup {"is_active"},
                        UserStrings \cup {"is_active", "password_changed"}}
     /\ \A f \in DOMAIN raw : raw[f] = IF f \in UserStrings THEN "string" ELSE "bool"
  \/ type = "asset" /\ raw = [f \in AssetStrings |-> "string"]
  \/ /\ type = "work_order"
     /\ DOMAIN raw = OrderStrings \cup {"assigned_to", "completed_at"}
     /\ \A f \in DOMAIN raw : raw[f] = "string" \/ (f \notin OrderStrings /\ raw[f] = "null")

\* Every entry that a service wrote is listed with both its snapshots whole: the public
\* fields that Sanitize knows are the ones the writers have (Sanitize).
WritersAreShown ==
  \A r \in log : Written(r.type, r.old) /\ Written(r.type, r.new) =>
    Entry(r).old = r.old /\ Entry(r).new = r.new

\* Whatever is stored, an answer has only the public fields of docs/contracts.md, each
\* a plain value: no secret of an older row, at the top or nested, is told (Sanitize).
PublicFields(type) ==
  CASE type = "user" -> {"id", "name", "email", "role", "is_active", "password_changed"}
    [] type = "asset" -> AssetStrings
    [] type = "work_order" -> OrderStrings \cup {"assigned_to", "completed_at"}

OnlyPublicFields ==
  Answered /\ reply.code = "OK" =>
    \A i \in DOMAIN reply.body.data :
      LET e == reply.body.data[i] IN
        \A value \in {e.old, e.new} \ {Null} :
          \A f \in DOMAIN value : f \in PublicFields(e.type) /\ value[f] # "other"

\* The entries of a change that began after another change had been answered are listed
\* above the entries of that change (created_at is the start of the transaction).
ListedInRealTime ==
  [][\A s \in Sessions : At(s, "Commit") /\ At(s, "idle")' =>
       \A r \in log' \ log, x \in log : x.id \in known[s] => Precedes(r, x)]_auditVars
=============================================================================
