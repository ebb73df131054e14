----------------------------- MODULE MCEndpoints -----------------------------
(***************************************************************************)
(* A small instance of Endpoints: every route with calls that are right or *)
(* wrong in one part, from an administrator and a technician, and every    *)
(* object of up to two members, and some of three, sent to PATCH users.    *)
(***************************************************************************)
EXTENDS Endpoints
LOCAL INSTANCE SequencesExt

AllKeys == UNION {DOMAIN FieldsOf(route) : route \in Routes} \cup {"extra"}
AllValues == {"good", "bad", "OPEN", "IN_PROGRESS", "CANCELLED"}

M(key, kind, value) == [key |-> key, kind |-> kind, value |-> value]
Object(members, end) ==
  [media |-> TRUE, size |-> "fits", object |-> TRUE, members |-> members, end |-> end]
Whole(members) == Object(members, "closed")

Parts ==
  {M("name", kind, "good") : kind \in Kinds} \cup {M("name", "string", "bad")}
    \cup {M("is_active", kind, "good") : kind \in {"bool", "string"}}
    \cup {M("extra", kind, "good") : kind \in {"other", "null", "malformed"}}
FewParts ==
  {M("name", "string", "good"), M("name", "null", "good"),
   M("is_active", "bool", "good"), M("extra", "other", "good")}

Envelopes ==
  {[Whole(<<>>) EXCEPT !.media = FALSE], [Whole(<<>>) EXCEPT !.size = "large"],
   [Whole(<<>>) EXCEPT !.size = "broken"], [Whole(<<>>) EXCEPT !.object = FALSE]}

Objects ==
  Envelopes
    \cup {Object(m, end) : m \in UNION {[1..n -> Parts] : n \in 0..2},
                           end \in {"closed", "open", "trailing"}}
    \cup {Whole(m) : m \in [1..3 -> FewParts]}

\* Every field, one of them missing, bad or of the wrong type, or one too many.
Field(route, k) ==
  M(k, FieldsOf(route)[k], IF route = "StatusOrder" THEN "IN_PROGRESS" ELSE "good")
Fields(route) == SetToSeq({Field(route, k) : k \in DOMAIN FieldsOf(route)})

RouteBodies(route) ==
  LET all == Fields(route)
  IN {Whole(all), Whole(all \o <<M("extra", "other", "good")>>), Object(all, "trailing")}
       \cup {Whole(RemoveAt(all, i)) : i \in DOMAIN all}
       \cup {Whole([all EXCEPT ![i].value = "bad"]) : i \in DOMAIN all}
       \cup {Whole([all EXCEPT ![i].kind = "other"]) : i \in DOMAIN all}

StatusBodies ==
  {Whole(<<M("status", "string", target)>>) : target \in {"OPEN", "CANCELLED"}}

BodiesOf(route) ==
  CASE route = "PatchUser"    -> Objects
    [] route = "StatusOrder"  -> RouteBodies(route) \cup StatusBodies
    [] ~TakesBody(route)      -> {NoBody}
    [] OTHER                  -> RouteBodies(route)

\* A query of one or two parameters.
One(name, value) == [n \in {name} |-> <<value>>]
Two(n1, v1, n2, v2) == [n \in {n1, n2} |-> IF n = n1 THEN <<v1>> ELSE <<v2>>]

Queries(route) ==
  {NoValues} \cup
  IF route \notin Lists THEN {One("page", 1)}
  ELSE {One("page", n) : n \in {-1, 0, 1, 100000, 100001}}
         \cup {One("limit", n) : n \in {0, 100, 101}}
         \cup {One(name, value) : name \in Parameters(route), value \in {"good", "bad"}}
         \cup {One("extra", "good"), [n \in {"page"} |-> <<1, 2>>]}
         \cup (IF route = "ListAudit" THEN {Two("entity_id", "good", "entity_type", "good")} ELSE {})

Call(route, role, bearer, id, query, b) ==
  [route |-> route, role |-> role, bearer |-> bearer, id |-> id, query |-> query, body |-> b]

Usual(route) == IF TakesBody(route) THEN Whole(Fields(route)) ELSE NoBody

\* One part of a call varies at a time; whoever has no bearer sends a wrong one.
CallsOf(route, role) ==
  {Call(route, role, TRUE, TRUE, NoValues, b) : b \in BodiesOf(route)}
    \cup {Call(route, role, TRUE, TRUE, q, Usual(route)) : q \in Queries(route)}
    \cup {Call(route, role, bearer, FALSE, NoValues, Usual(route)) : bearer \in BOOLEAN}

SomeCalls ==
  UNION {CallsOf(route, role) : route \in Routes \ {"PatchUser"}, role \in {"ADMIN", "TECHNICIAN"}}
    \cup CallsOf("PatchUser", "ADMIN")
    \cup {Call("PatchUser", "MANAGER", TRUE, TRUE, NoValues, b) : b \in Envelopes}
=============================================================================
