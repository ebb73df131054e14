------------------------------ MODULE Endpoints ------------------------------
(***************************************************************************)
(* The handlers: what a request passes before a service runs it, in the    *)
(* order of its route, and the answer a client is given.  The account is   *)
(* read more than once on the way, and the body is read while it may be    *)
(* disabled.  Transactions are the business of GoWork, Reads and AuditLog. *)
(***************************************************************************)
EXTENDS Decoding, Rbac, Lifecycle

CONSTANTS
  Calls,   \* the requests clients send
  Null     \* no call, no answer

VARIABLES
  call,    \* the request in service
  stage,   \* how far along its path it is
  active,  \* whether the account of the caller is active
  past,    \* the states of that account since the request arrived
  reply    \* the last answer, with the call it is for

handling == <<call, stage, active, past, reply>>
endpointVars == <<handling, decoding>>

Lists == {"ListUsers", "ListAssets", "ListOrders", "ListAudit"}
Gets == {"GetUser", "GetAsset", "GetOrder"}
Creates == {"CreateUser", "CreateAsset", "CreateOrder"}
Patches == {"PatchUser", "PatchAsset", "PatchOrder"}
Routes == Lists \cup Gets \cup Creates \cup Patches
            \cup {"DeleteAsset", "AssignOrder", "StatusOrder", "Login", "Me"}

\* The routes that need no permission.
Public(route) == route \in {"Login", "Me"}

\* Where a technician may be refused what is not his: an asset that none of his orders is
\* about, an order of another, and a list filtered by an assignee.
AssetScope(c) == c.route = "GetAsset"
OrderScope(c) == c.route \in {"GetOrder", "StatusOrder"}
FilterScope(c) == c.route = "ListOrders" /\ "assigned_to" \in DOMAIN c.query

Scoped(c) == c.role = "TECHNICIAN" /\ (AssetScope(c) \/ OrderScope(c) \/ FilterScope(c))

\* What a request passes in each handler, and before it.
Authorize == <<"CheckUser", "CheckPermission">>
Decode == <<"Body", "Decoded">>

LoginPath == <<"NoQuery">> \o Decode \o <<"Validate">>
MePath == <<"Authenticate", "NoQuery">>
CreatePath == <<"NoQuery">> \o Decode \o Authorize \o <<"Validate">>
PatchPath == <<"Target">> \o Decode \o Authorize \o <<"Validate">>
AssignPath == <<"Target">> \o Decode \o <<"Validate">>
StatusPath == Decode \o Authorize \o <<"Target">> \o Authorize \o <<"Validate">>

RequirePath(path) == <<"Authenticate">> \o Authorize \o path

\* Variant: the body is decoded before the permission of the route is checked.
DecodeFirst(route) ==
  (CASE route = "Login"       -> LoginPath
     [] route = "Me"          -> MePath
     [] route = "StatusOrder" -> <<"Authenticate">> \o StatusPath
     [] route \in Lists       -> RequirePath(<<"Filter">>)
     [] route \in Creates     -> <<"Authenticate">> \o CreatePath
     [] route \in Patches     -> <<"Authenticate">> \o PatchPath
     [] route = "AssignOrder" -> <<"Authenticate">> \o PatchPath
     [] OTHER                 -> RequirePath(<<"Target">>)) \o <<"Serve">>

Path(route) ==
  (CASE route = "Login"       -> LoginPath
     [] route = "Me"          -> MePath
     [] route = "StatusOrder" -> <<"Authenticate">> \o StatusPath
     [] route \in Lists       -> RequirePath(<<"Filter">>)
     [] route \in Creates     -> RequirePath(CreatePath)
     [] route \in Patches     -> RequirePath(PatchPath)
     [] route = "AssignOrder" -> RequirePath(AssignPath)
     [] OTHER                 -> RequirePath(<<"Target">>)) \o <<"Serve">>

(***************************************************************************)
(* The filters of lists: a query maps the name of a parameter to its       *)
(* values, as many as it is given.  "bad" is a value its parameter does    *)
(* not take, -1 a page or a limit that is no number.                       *)
(***************************************************************************)
UserFilters == {"role", "is_active"}
AssetFilters == {"status", "category", "search"}
OrderFilters == {"status", "priority", "asset_id", "assigned_to"}
AuditFilters == {"action", "entity_type", "actor_id", "entity_id"}

Parameters(route) ==
  CASE route = "ListUsers"  -> UserFilters
    [] route = "ListAssets" -> AssetFilters
    [] route = "ListOrders" -> OrderFilters
    [] route = "ListAudit"  -> AuditFilters

AcceptsParameter(route, name, value) ==
  CASE name = "page"            -> value \in 1..100000
    [] name = "limit"           -> value \in 1..100
    [] name \in Parameters(route) -> value # "bad"
    [] OTHER                    -> FALSE

ParseFilter(route, query) ==
  /\ \A name \in DOMAIN query :
       Len(query[name]) = 1 /\ AcceptsParameter(route, name, query[name][1])
  /\ route = "ListAudit" /\ "entity_id" \in DOMAIN query => "entity_type" \in DOMAIN query

\* What the router and net/http make of any request: a query gives every parameter the
\* sequence of its values, and a page or a limit is read as a number.
QueryRead(query) ==
  \A name \in DOMAIN query :
    /\ Len(query[name]) \in Nat
    /\ query[name] = [i \in 1..Len(query[name]) |-> query[name][i]]
    /\ name \in {"page", "limit"} => \A i \in 1..Len(query[name]) : query[name][i] \in Int

ASSUME CallsAssumption ==
  /\ Null \notin Calls
  /\ \A c \in Calls :
       /\ c.route \in Routes /\ c.role \in Roles
       /\ c.bearer \in BOOLEAN /\ c.id \in BOOLEAN
       /\ QueryRead(c.query) /\ c.body \in Body

(***************************************************************************)
(* The bodies.                                                             *)
(***************************************************************************)
Strings(names) == [k \in names |-> "string"]

\* The fields each handler asks DecodeObject for, and the ones its service needs.
FieldsOf(route) ==
  CASE route = "CreateUser"  -> Strings({"name", "email", "password", "role"})
    [] route = "PatchUser"   -> [k \in {"name", "email", "password", "is_active"} |->
                                   IF k = "is_active" THEN "bool" ELSE "string"]
    [] route = "CreateAsset" -> Strings({"asset_code", "name", "category", "location", "status"})
    [] route = "PatchAsset"  -> Strings({"name", "category", "location", "status"})
    [] route = "CreateOrder" -> Strings({"asset_id", "title", "description", "priority"})
    [] route = "PatchOrder"  -> Strings({"title", "description", "priority"})
    [] route = "AssignOrder" -> Strings({"assigned_to"})
    [] route = "StatusOrder" -> Strings({"status"})
    [] route = "Login"       -> Strings({"email", "password"})
    [] OTHER                 -> Strings({})

Optional == {"description", "priority", "status"}
Required(route) ==
  CASE route \in Patches     -> {}
    [] route = "StatusOrder" -> {"status"}
    [] OTHER                 -> DOMAIN FieldsOf(route) \ Optional

PermissionFor(route, target) ==
  CASE route \in {"ListUsers", "GetUser"}   -> "user:read"
    [] route = "CreateUser"                 -> "user:create"
    [] route = "PatchUser"                  -> "user:update"
    [] route \in {"ListAssets", "GetAsset"} -> "asset:read"
    [] route = "CreateAsset"                -> "asset:create"
    [] route = "PatchAsset"                 -> "asset:update"
    [] route = "DeleteAsset"                -> "asset:delete"
    [] route \in {"ListOrders", "GetOrder"} -> "work_order:read"
    [] route = "CreateOrder"                -> "work_order:create"
    [] route = "PatchOrder"                 -> "work_order:update"
    [] route = "AssignOrder"                -> "work_order:assign"
    [] route = "StatusOrder"                -> StatusPermission(target)
    [] route = "ListAudit"                  -> "audit:read"

(***************************************************************************)
(* Errors and answers: the handlers' fail.                                 *)
(***************************************************************************)
\* Errors of the database: by SQLSTATE, or none.
Technical == {"connection", "deadline", "other"}
Conflicts == {"serialization", "deadlock"}

\* What the service of a route refuses for, beyond what every route may be refused for.
DomainErrors(route) ==
  CASE route = "Login"       -> {"INVALID_CREDENTIALS"}
    [] route = "GetUser"     -> {"USER_NOT_FOUND"}
    [] route = "CreateUser"  -> {"users_email_key"}
    [] route = "PatchUser"   -> {"USER_NOT_FOUND", "SELF_DEACTIVATION", "LAST_ADMIN",
                                 "USER_HAS_ACTIVE_WORK_ORDERS", "users_email_key"}
    [] route = "GetAsset"    -> {"ASSET_NOT_FOUND"}
    [] route = "CreateAsset" -> {"assets_asset_code_key"}
    [] route = "PatchAsset"  -> {"ASSET_NOT_FOUND", "ASSET_HAS_OPEN_WORK_ORDERS"}
    [] route = "DeleteAsset" -> {"ASSET_NOT_FOUND", "ASSET_IN_USE", "work_orders_asset_id_fkey"}
    [] route = "GetOrder"    -> {"WORK_ORDER_NOT_FOUND"}
    [] route = "CreateOrder" -> {"ASSET_NOT_FOUND", "ASSET_NOT_AVAILABLE"}
    [] route = "PatchOrder"  -> {"WORK_ORDER_NOT_FOUND", "WORK_ORDER_TERMINAL"}
    [] route = "AssignOrder" -> {"WORK_ORDER_NOT_FOUND", "WORK_ORDER_TERMINAL", "INVALID_ASSIGNEE",
                                 "INVALID_ASSIGNMENT_STATE", "ALREADY_ASSIGNED"}
    [] route = "StatusOrder" -> {"WORK_ORDER_NOT_FOUND", "WORK_ORDER_TERMINAL",
                                 "INVALID_STATUS_TRANSITION"}
    [] OTHER                 -> {}

Writes(route) == route \notin Lists \cup Gets \cup {"Login", "Me"}

Errors(route) ==
  DomainErrors(route)
    \cup (IF route = "Me" THEN {} ELSE Technical)
    \cup (IF Public(route) THEN {} ELSE {"UNAUTHENTICATED", "FORBIDDEN"})
    \cup (IF Writes(route) THEN Conflicts \cup {"outcome unknown"} ELSE {})

\* The constraints whose violation has a code.
Constraints ==
  [users_email_key |-> "EMAIL_CONFLICT", assets_asset_code_key |-> "ASSET_CODE_CONFLICT",
   work_orders_asset_id_fkey |-> "ASSET_IN_USE"]

NotFound == {"USER_NOT_FOUND", "ASSET_NOT_FOUND", "WORK_ORDER_NOT_FOUND"}

Answer(code, status) == [code |-> code, status |-> status]

\* Variant: only the resource of the route itself is ever missing.
OwnMissing == {"USER_NOT_FOUND", "WORK_ORDER_NOT_FOUND"}

Missing == NotFound

Failure(error) ==
  CASE error = "UNAUTHENTICATED"           -> Answer(error, 401)
    [] error = "INVALID_CREDENTIALS"       -> Answer(error, 401)
    [] error = "FORBIDDEN"                 -> Answer(error, 403)
    [] error = "VALIDATION_ERROR"          -> Answer(error, 422)
    [] error \in Missing                   -> Answer(error, 404)
    [] error = "outcome unknown"           -> Answer("WRITE_OUTCOME_UNKNOWN", 503)
    [] error \in DOMAIN Constraints        -> Answer(Constraints[error], 409)
    [] error \in Conflicts                 -> Answer("CONCURRENT_MODIFICATION", 409)
    [] error \in {"connection", "deadline"} -> Answer("SERVICE_UNAVAILABLE", 503)
    [] error = "other"                     -> Answer("INTERNAL_ERROR", 500)
    [] OTHER                               -> Answer(error, 409)

Success(route) ==
  CASE route \in Creates      -> Answer("OK", 201)
    [] route = "DeleteAsset"  -> Answer("OK", 204)
    [] OTHER                  -> Answer("OK", 200)

\* DecodeObject answers by itself.
BodyFailure(code) ==
  Answer(code, CASE code = "UNSUPPORTED_MEDIA_TYPE" -> 415 [] code = "PAYLOAD_TOO_LARGE" -> 413
                 [] code = "INVALID_JSON" -> 400 [] code = "VALIDATION_ERROR" -> 422)

(***************************************************************************)
(* The steps of a request.                                                 *)
(***************************************************************************)
NoBody == [media |-> FALSE, size |-> "fits", object |-> FALSE, members |-> <<>>, end |-> "open"]

At(step) == call # Null /\ Path(call.route)[stage] = step

Pass ==
  /\ stage' = stage + 1
  /\ UNCHANGED <<call, active, past, reply>>

Reply(answer) ==
  /\ reply' = [call |-> call, past |-> past, code |-> answer.code, status |-> answer.status]
  /\ call' = Null /\ stage' = 0 /\ past' = {}
  /\ UNCHANGED active

\* The step answers with an error if the condition fails.
Require(condition, error) ==
  /\ IF condition THEN Pass ELSE Reply(Failure(error))
  /\ UNCHANGED decoding

Receive ==
  /\ call = Null /\ reply = Null
  /\ \E c \in Calls : call' = c
  /\ stage' = 1 /\ past' = {active}
  /\ UNCHANGED <<active, reply, decoding>>

\* The client has its answer; nothing of the request is kept.
Finish ==
  /\ reply # Null /\ reply' = Null
  /\ Open(NoBody, NoValues)
  /\ UNCHANGED <<call, stage, active, past>>

\* The bearer token, and the account it names.
Authenticate == At("Authenticate") /\ Require(call.bearer /\ active, "UNAUTHENTICATED")

Target == IF "status" \in DOMAIN values THEN values["status"] ELSE ""

Permission == PermissionFor(call.route, Target)

\* rbac.Check, whose two statements are separate reads.
CheckUser == At("CheckUser") /\ Require(active, "UNAUTHENTICATED")

CheckPermission ==
  At("CheckPermission")
    /\ Require(active /\ Permission \in RolePermissions(call.role), "FORBIDDEN")

NoQuery == At("NoQuery") /\ Require(call.query = NoValues, "VALIDATION_ERROR")

\* target: no query, then an id that is a UUID.
TargetId == At("Target") /\ Require(call.query = NoValues /\ call.id, "VALIDATION_ERROR")

Filter == At("Filter") /\ Require(ParseFilter(call.route, call.query), "VALIDATION_ERROR")

ReadBody == At("Body") /\ Open(call.body, FieldsOf(call.route)) /\ Pass

Decoded ==
  /\ At("Decoded")
  /\ \/ (ReadMember \/ Close) /\ UNCHANGED handling
     \/ decoded = "OK" /\ Pass /\ UNCHANGED decoding
     \/ decoded \notin {"reading", "OK"} /\ Reply(BodyFailure(decoded)) /\ UNCHANGED decoding

AcceptsField(route, value) ==
  IF route = "StatusOrder" THEN value \in StatusTargets ELSE value # "bad"

\* Variant: a patch of nothing is let through.
AllowsEmpty(route) ==
  /\ Required(route) \subseteq DOMAIN values
  /\ \A k \in DOMAIN values : AcceptsField(route, values[k])

\* What the handler and the service ask of the values before the transaction.
Acceptable(route) ==
  /\ Required(route) \subseteq DOMAIN values
  /\ route \in Patches => DOMAIN values # {}
  /\ \A k \in DOMAIN values : AcceptsField(route, values[k])

Validate == At("Validate") /\ Require(Acceptable(call.route), "VALIDATION_ERROR")

\* The service runs; its transaction checks the account again, and then what is owned.
Serve ==
  /\ At("Serve")
  /\ \/ Reply(Success(call.route))
     \/ \E error \in Errors(call.route) :
          /\ error = "UNAUTHENTICATED" => ~active
          /\ error = "FORBIDDEN" => ~active \/ Scoped(call)
          /\ Reply(Failure(error))
  /\ UNCHANGED decoding

\* A read of the account fails.
Break ==
  /\ \/ At("CheckUser") \/ At("CheckPermission")
     \/ At("Authenticate") /\ call.bearer
  /\ \E error \in Technical : Reply(Failure(IF At("Authenticate") THEN "connection" ELSE error))
  /\ UNCHANGED decoding

\* An administrator disables or enables the account.
SetActive ==
  /\ active' = ~active
  /\ past' = IF call = Null THEN past ELSE past \cup {active'}
  /\ UNCHANGED <<call, stage, reply, decoding>>

EndpointInit ==
  /\ call = Null /\ stage = 0 /\ active = TRUE /\ past = {} /\ reply = Null
  /\ body = NoBody /\ fields = NoValues
  /\ pos = 1 /\ seen = {} /\ invalid = FALSE /\ values = NoValues
  /\ decoded = Envelope(NoBody)

EndpointNext ==
  \/ Receive \/ Authenticate \/ CheckUser \/ CheckPermission
  \/ NoQuery \/ TargetId \/ Filter \/ ReadBody \/ Decoded \/ Validate \/ Serve
  \/ Break \/ Finish \/ SetActive

EndpointSpec == EndpointInit /\ [][EndpointNext]_endpointVars

-----------------------------------------------------------------------------
(***************************************************************************)
(* The contract, said of whole requests (docs/contracts.md).               *)
(***************************************************************************)
ContractStatus(code) ==
  CASE code = "INVALID_JSON"                                   -> 400
    [] code \in {"UNAUTHENTICATED", "INVALID_CREDENTIALS"}     -> 401
    [] code = "FORBIDDEN"                                      -> 403
    [] code \in {"USER_NOT_FOUND", "ASSET_NOT_FOUND", "WORK_ORDER_NOT_FOUND"} -> 404
    [] code \in {"EMAIL_CONFLICT", "ASSET_CODE_CONFLICT", "ASSET_IN_USE",
                 "ASSET_HAS_OPEN_WORK_ORDERS", "ASSET_NOT_AVAILABLE", "INVALID_ASSIGNEE",
                 "USER_HAS_ACTIVE_WORK_ORDERS", "SELF_DEACTIVATION", "LAST_ADMIN",
                 "WORK_ORDER_TERMINAL", "INVALID_STATUS_TRANSITION",
                 "INVALID_ASSIGNMENT_STATE", "ALREADY_ASSIGNED", "CONCURRENT_MODIFICATION"} -> 409
    [] code = "PAYLOAD_TOO_LARGE"                              -> 413
    [] code = "UNSUPPORTED_MEDIA_TYPE"                         -> 415
    [] code = "VALIDATION_ERROR"                               -> 422
    [] code = "INTERNAL_ERROR"                                 -> 500
    [] code \in {"SERVICE_UNAVAILABLE", "WRITE_OUTCOME_UNKNOWN"} -> 503

Says(b, key, value) == \E i \in DOMAIN b.members : b.members[i].key = key
                                                     /\ b.members[i].value = value

TakesBody(route) == DOMAIN FieldsOf(route) # {}

GoodBody(c) ==
  /\ Meaning(c.body, FieldsOf(c.route)) = "OK"
  /\ c.route \in Patches => c.body.members # <<>>
  /\ \A k \in Required(c.route) : \E v \in Values : Says(c.body, k, v)
  /\ \A k \in DOMAIN FieldsOf(c.route), v \in Values :
       Says(c.body, k, v) => AcceptsField(c.route, v)

\* One value for each parameter, of the parameters the list has, within its range.
GoodQuery(c) ==
  /\ DOMAIN c.query \subseteq {"page", "limit"} \cup Parameters(c.route)
  /\ \A name \in DOMAIN c.query : \E value \in {c.query[name][1]} :
       /\ c.query[name] = <<value>>
       /\ name = "page" => 0 < value /\ value <= 100000
       /\ name = "limit" => 0 < value /\ value <= 100
       /\ name \in Parameters(c.route) => value # "bad"
  /\ "entity_id" \in DOMAIN c.query => "entity_type" \in DOMAIN c.query

GoodCall(c) ==
  /\ IF c.route \in Lists THEN GoodQuery(c) ELSE c.query = NoValues
  /\ c.route \notin Lists \cup Creates \cup {"Login", "Me"} => c.id
  /\ TakesBody(c.route) => GoodBody(c)

\* The permissions a call may need: a status request has the one of its target.
Needs(c) ==
  IF c.route = "StatusOrder"
    THEN {PermissionFor(c.route, IF Says(c.body, "status", "CANCELLED") THEN "CANCELLED" ELSE "")}
    ELSE {PermissionFor(c.route, "")}

\* Only calls that are right in every part reach a service, from an account that was
\* active and holds the permission of this very call (the handlers and the checks of the
\* services before their transactions).
ServedCallsAreGood ==
  call # Null /\ At("Serve") =>
    /\ GoodCall(call)
    /\ call.route # "Login" => call.bearer /\ TRUE \in past
    /\ ~Public(call.route) => Needs(call) \subseteq RolePermissions(call.role)

\* An error names a fault that the call has, or that its account had while it was in
\* service, under the status that the contract gives its code (fail, DecodeObject).  What is
\* forbidden to an active account with the permission of the call is a good call of a
\* technician for an asset, an order or a list of orders that may be another's (the Get of
\* assets and of work orders, List and mutate of work orders).
RefusalsAreTrue ==
  reply # Null =>
    LET c == reply.call IN
    /\ reply.code # "OK" => reply.status = ContractStatus(reply.code)
    /\ reply.code = "UNAUTHENTICATED" => ~c.bearer \/ FALSE \in reply.past
    /\ reply.code = "FORBIDDEN" =>
         \/ FALSE \in reply.past
         \/ ~Needs(c) \subseteq RolePermissions(c.role)
         \/ Scoped(c) /\ GoodCall(c)
    /\ reply.code = "VALIDATION_ERROR" => ~GoodCall(c)
    /\ reply.code \in {"INVALID_JSON", "UNSUPPORTED_MEDIA_TYPE", "PAYLOAD_TOO_LARGE"} =>
         TakesBody(c.route) /\ reply.code = Meaning(c.body, FieldsOf(c.route))

\* Whoever may not do what a route is for learns nothing from it: neither whether a body,
\* an id or a query is right, nor anything of the resource.  The status endpoint reads
\* the body to know what is asked, and tells no more of it than whether it is an object
\* of the right fields (the order of the handlers).
StrangersLearnNothing ==
  reply # Null /\ ~Public(reply.call.route) =>
    LET c == reply.call
        stranger == ~c.bearer \/ TRUE \notin reply.past
    IN /\ stranger => reply.code \in {"UNAUTHENTICATED", "SERVICE_UNAVAILABLE"}
       /\ ~Needs(c) \subseteq RolePermissions(c.role) =>
            \/ reply.code \in {"UNAUTHENTICATED", "FORBIDDEN", "SERVICE_UNAVAILABLE", "INTERNAL_ERROR"}
            \/ c.route = "StatusOrder" /\ reply.code = Meaning(c.body, FieldsOf(c.route))
=============================================================================
