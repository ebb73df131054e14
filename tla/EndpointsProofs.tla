--------------------------- MODULE EndpointsProofs --------------------------
(***************************************************************************)
(* Theorems about Endpoints and Decoding, for any calls: every body a      *)
(* handler reads is judged for what it means as a whole, and every call is *)
(* served or refused for what it is.                                       *)
(***************************************************************************)
EXTENDS Endpoints, TLAPS

\* The members read so far have distinct keys and right types.
PrefixRight ==
  /\ pos \in 1..Len(body.members) + 1
  /\ seen = {body.members[i].key : i \in 1..pos - 1}
  /\ \A i, j \in 1..pos - 1 : i # j => body.members[i].key # body.members[j].key
  /\ \A i \in 1..pos - 1 :
       body.members[i].kind # "malformed" /\ ~WrongType(body.members[i], fields)

\* Those that are noted have been noted, and the others are in the values.
PrefixKept ==
  /\ invalid \in BOOLEAN
  /\ invalid <=> \E i \in 1..pos - 1 : Noted(body.members[i])
  /\ \A i \in 1..pos - 1 :
       ~Noted(body.members[i]) =>
         /\ body.members[i].key \in DOMAIN values
         /\ values[body.members[i].key] = body.members[i].value
  /\ \A k \in DOMAIN values : \E i \in 1..pos - 1 : k = body.members[i].key

DecodingInv ==
  /\ call \in Calls \cup {Null}
  /\ body \in Body
  /\ PrefixRight
  /\ PrefixKept
  /\ decoded = "reading" => Envelope(body) = "reading"
  /\ DecodingExact

LEMMA MembersFact ==
  ASSUME NEW b \in Body
  PROVE  /\ b.members \in Seq(Member)
         /\ Len(b.members) \in Nat
         /\ \A i \in 1..Len(b.members) : b.members[i] \in Member
         /\ b.media \in BOOLEAN /\ b.object \in BOOLEAN
         /\ b.size \in {"fits", "large", "broken"}
         /\ b.end \in {"closed", "open", "trailing"}
BY DEF Body

LEMMA EnvelopeFact ==
  ASSUME NEW b \in Body, NEW schema
  PROVE  /\ Envelope(b) # "reading" => Envelope(b) = Meaning(b, schema) /\ Envelope(b) # "OK"
         /\ Envelope(b) = "reading" => b.media /\ b.size = "fits" /\ b.object
BY MembersFact DEF Envelope, Meaning, NoObject

\* A request begins with nothing read of its body.
LEMMA OpenEstablishes ==
  ASSUME NEW b \in Body, NEW schema, Open(b, schema), call' \in Calls \cup {Null}
  PROVE  DecodingInv'
<1>1. /\ body' = b /\ fields' = schema /\ pos' = 1 /\ seen' = {} /\ invalid' = FALSE
      /\ values' = NoValues /\ decoded' = Envelope(b)
  BY DEF Open
<1>2. PrefixRight'
  BY <1>1, MembersFact DEF PrefixRight
<1>3. PrefixKept'
  <2>1. 1..pos' - 1 = {} /\ DOMAIN values' = {}
    BY <1>1 DEF NoValues
  <2> QED
    BY <1>1, <2>1 DEF PrefixKept
<1>4. DecodingExact'
  BY <1>1, EnvelopeFact DEF DecodingExact
<1> QED
  BY <1>1, <1>2, <1>3, <1>4 DEF DecodingInv

\* One more member is read.
LEMMA ReadMemberPreserves ==
  ASSUME DecodingInv, ReadMember, UNCHANGED call
  PROVE  DecodingInv'
<1> DEFINE m == body.members[pos]
<1>1. /\ body \in Body /\ body' = body /\ fields' = fields
      /\ decoded = "reading" /\ pos <= Len(body.members) /\ pos \in 1..Len(body.members)
      /\ Envelope(body) = "reading" /\ PrefixRight /\ PrefixKept
  BY MembersFact DEF DecodingInv, ReadMember, PrefixRight
<1>2. body.media /\ body.size = "fits" /\ body.object /\ m \in Member
  BY <1>1, EnvelopeFact, MembersFact
<1>3. CASE Bad(m) /\ decoded' = "INVALID_JSON" /\ UNCHANGED <<pos, seen, invalid, values>>
  <2>1. NoObject(body, fields)
    <3>1. CASE m.key \in seen
      <4>1. PICK i \in 1..pos - 1 : m.key = body.members[i].key
        BY <1>1, <3>1 DEF PrefixRight
      <4>2. i \in 1..Len(body.members) /\ i # pos
        BY <1>1, <4>1, MembersFact
      <4> QED
        BY <1>1, <4>1, <4>2 DEF NoObject, Repeats
    <3>2. CASE m.kind = "malformed"
      BY <1>1, <3>2 DEF NoObject
    <3>3. CASE m.key \in DOMAIN fields /\ m.kind \notin {fields[m.key], "null"}
      BY <1>1, <3>3 DEF NoObject, WrongType
    <3> QED
      BY <1>3, <3>1, <3>2, <3>3 DEF Bad
  <2>2. DecodingExact'
    BY <1>1, <1>2, <1>3, <2>1 DEF DecodingExact, Meaning
  <2>3. PrefixRight' /\ PrefixKept'
    BY <1>1, <1>3 DEF PrefixRight, PrefixKept, Noted
  <2> QED
    BY <1>1, <1>3, <2>2, <2>3 DEF DecodingInv
<1>4. CASE /\ ~Bad(m)
           /\ pos' = pos + 1
           /\ seen' = Remember(m.key)
           /\ invalid' = (invalid \/ Noted(m))
           /\ values' = IF Noted(m) THEN values ELSE AddValue(m)
           /\ UNCHANGED decoded
  <2>1. /\ pos' - 1 = pos /\ pos' \in 1..Len(body.members) + 1
        /\ 1..pos = (1..pos - 1) \cup {pos} /\ pos \notin 1..pos - 1
    BY <1>1, <1>4, MembersFact
  <2>2. m.key \notin seen /\ m.kind # "malformed" /\ ~WrongType(m, fields)
    BY <1>4 DEF Bad, WrongType
  <2>3. \A i \in 1..pos - 1 : body.members[i].key # m.key
    BY <1>1, <2>2 DEF PrefixRight
  <2>4. PrefixRight'
    BY <1>1, <1>4, <2>1, <2>2, <2>3 DEF PrefixRight, Remember, WrongType
  <2>5. invalid' \in BOOLEAN /\ (invalid' <=> \E i \in 1..pos' - 1 : Noted(body.members[i])')
    BY <1>1, <1>4, <2>1 DEF PrefixKept, Noted
  <2>6. ASSUME Noted(m) PROVE PrefixKept'
    <3>1. values' = values
      BY <1>4, <2>6
    <3> QED
      BY <1>1, <2>1, <2>5, <2>6, <3>1 DEF PrefixKept, Noted
  <2>7. ASSUME ~Noted(m) PROVE PrefixKept'
    <3>1. /\ DOMAIN values' = DOMAIN values \cup {m.key}
          /\ \A k \in DOMAIN values' : values'[k] = IF k = m.key THEN m.value ELSE values[k]
      BY <1>4, <2>7 DEF AddValue
    <3>2. \A i \in 1..pos :
            ~Noted(body.members[i]) =>
              /\ body.members[i].key \in DOMAIN values'
              /\ values'[body.members[i].key] = body.members[i].value
      BY <1>1, <2>1, <2>3, <3>1 DEF PrefixKept
    <3>3. \A k \in DOMAIN values' : \E i \in 1..pos : k = body.members[i].key
      BY <1>1, <2>1, <3>1 DEF PrefixKept
    <3>4. /\ \A i \in 1..pos' - 1 :
               ~Noted(body.members[i]) =>
                 /\ body.members[i].key \in DOMAIN values'
                 /\ values'[body.members[i].key] = body.members[i].value
          /\ \A k \in DOMAIN values' : \E i \in 1..pos' - 1 : k = body.members[i].key
      BY <2>1, <3>2, <3>3
    <3> HIDE DEF m
    <3> QED
      BY <1>1, <2>5, <3>4 DEF PrefixKept, Noted
  <2>8. PrefixKept'
    BY <2>6, <2>7
  <2> QED
    BY <1>1, <1>4, <2>4, <2>8 DEF DecodingInv, DecodingExact
<1> QED
  BY <1>3, <1>4 DEF ReadMember

\* The object ends.
LEMMA ClosePreserves ==
  ASSUME DecodingInv, Close, UNCHANGED call
  PROVE  DecodingInv'
<1>1. /\ body \in Body /\ UNCHANGED <<body, fields, pos, seen, invalid, values>>
      /\ decoded = "reading" /\ pos > Len(body.members)
      /\ Envelope(body) = "reading" /\ PrefixRight /\ PrefixKept
  BY DEF DecodingInv, Close
<1>2. body.media /\ body.size = "fits" /\ body.object /\ body.end \in {"closed", "open", "trailing"}
  BY <1>1, EnvelopeFact, MembersFact
<1>3. 1..pos - 1 = 1..Len(body.members)
  BY <1>1, MembersFact DEF PrefixRight
<1>4. NoObject(body, fields) <=> body.end # "closed"
  BY <1>1, <1>2, <1>3 DEF PrefixRight, NoObject, Repeats
<1>5. Unwelcome(body, fields) <=> invalid
  BY <1>1, <1>3 DEF PrefixKept, Unwelcome, Noted
<1>6. invalid \in BOOLEAN
  BY <1>1 DEF PrefixKept
<1>7. /\ decoded' = Meaning(body, fields)
      /\ decoded' \in {"INVALID_JSON", "VALIDATION_ERROR", "OK"}
      /\ decoded' = "OK" => ~invalid
  <2>1. decoded' = CASE body.end # "closed" -> "INVALID_JSON"
                     [] body.end = "closed" /\ invalid -> "VALIDATION_ERROR"
                     [] body.end = "closed" /\ ~invalid -> "OK"
    BY DEF Close
  <2>2. CASE body.end # "closed"
    BY <1>2, <1>4, <2>1, <2>2 DEF Meaning
  <2>3. CASE body.end = "closed" /\ invalid
    BY <1>2, <1>4, <1>5, <2>1, <2>3 DEF Meaning
  <2>4. CASE body.end = "closed" /\ ~invalid
    BY <1>2, <1>4, <1>5, <2>1, <2>4 DEF Meaning
  <2> QED
    BY <1>6, <2>2, <2>3, <2>4
<1>8. ~invalid =>
        /\ DOMAIN values = {body.members[i].key : i \in 1..Len(body.members)}
        /\ \A i \in 1..Len(body.members) : values[body.members[i].key] = body.members[i].value
  BY <1>1, <1>3 DEF PrefixKept
<1>9. DecodingExact'
  BY <1>1, <1>7, <1>8 DEF DecodingExact
<1>10. PrefixRight' /\ PrefixKept'
  BY <1>1 DEF PrefixRight, PrefixKept, Noted
<1> QED
  BY <1>1, <1>7, <1>9, <1>10 DEF DecodingInv

\* Nothing of the body is touched.
LEMMA StutterPreserves ==
  ASSUME DecodingInv, UNCHANGED decoding, call' \in Calls \cup {Null}
  PROVE  DecodingInv'
BY DEF DecodingInv, PrefixRight, PrefixKept, Noted, DecodingExact, decoding

LEMMA EmptyBody == NoBody \in Body
BY DEF NoBody, Body

LEMMA DecodingAlways == EndpointSpec => []DecodingInv
<1>1. EndpointInit => DecodingInv
  <2> SUFFICES ASSUME EndpointInit PROVE DecodingInv
    OBVIOUS
  <2>1. /\ call = Null /\ body = NoBody /\ fields = NoValues /\ pos = 1 /\ seen = {}
        /\ invalid = FALSE /\ values = NoValues /\ decoded = Envelope(NoBody)
    BY DEF EndpointInit
  <2>2. PrefixRight
    BY <2>1, EmptyBody, MembersFact DEF PrefixRight
  <2>3. PrefixKept
    <3>1. 1..pos - 1 = {} /\ DOMAIN values = {}
      BY <2>1 DEF NoValues
    <3> QED
      BY <2>1, <3>1 DEF PrefixKept
  <2>4. DecodingExact
    BY <2>1, EmptyBody, EnvelopeFact DEF DecodingExact
  <2> QED
    BY <2>1, <2>2, <2>3, <2>4, EmptyBody DEF DecodingInv
<1>2. DecodingInv /\ [EndpointNext]_endpointVars => DecodingInv'
  <2> SUFFICES ASSUME DecodingInv, [EndpointNext]_endpointVars PROVE DecodingInv'
    OBVIOUS
  <2> USE DEF handling
  <2>1. call \in Calls \cup {Null}
    BY DEF DecodingInv
  <2>2. CASE Receive
    BY <2>1, <2>2, StutterPreserves DEF Receive
  <2>3. CASE Finish
    BY <2>1, <2>3, EmptyBody, OpenEstablishes DEF Finish
  <2>4. CASE ReadBody
    <3>1. call \in Calls /\ call' = call /\ Open(call.body, FieldsOf(call.route))
      BY <2>1, <2>4 DEF ReadBody, At, Pass
    <3> QED
      BY <3>1, CallsAssumption, OpenEstablishes
  <2>5. CASE Decoded
    <3>1. CASE (ReadMember \/ Close) /\ UNCHANGED handling
      BY <3>1, ReadMemberPreserves, ClosePreserves
    <3>2. CASE decoded = "OK" /\ Pass /\ UNCHANGED decoding
      BY <2>1, <3>2, StutterPreserves DEF Pass
    <3>3. CASE decoded \notin {"reading", "OK"} /\ Reply(BodyFailure(decoded)) /\ UNCHANGED decoding
      BY <3>3, StutterPreserves DEF Reply
    <3> QED
      BY <2>5, <3>1, <3>2, <3>3 DEF Decoded
  <2>6. ASSUME NEW condition, NEW error, Require(condition, error) PROVE DecodingInv'
    BY <2>1, <2>6, StutterPreserves DEF Require, Pass, Reply
  <2>7. CASE \/ Authenticate \/ CheckUser \/ CheckPermission \/ NoQuery \/ TargetId \/ Filter
             \/ Validate
    BY <2>6, <2>7
       DEF Authenticate, CheckUser, CheckPermission, NoQuery, TargetId, Filter, Validate
  <2>8. CASE Serve \/ Break
    BY <2>8, StutterPreserves DEF Serve, Break, Reply
  <2>9. CASE SetActive
    BY <2>1, <2>9, StutterPreserves DEF SetActive
  <2>10. CASE UNCHANGED endpointVars
    BY <2>1, <2>10, StutterPreserves DEF endpointVars
  <2> QED
    BY <2>2, <2>3, <2>4, <2>5, <2>7, <2>8, <2>9, <2>10 DEF EndpointNext
<1> QED
  BY <1>1, <1>2, PTL DEF EndpointSpec

\* Whatever a client sends, the handler's answer to it, or the values it goes on with, is
\* what the whole body means (DecodeObject).
THEOREM DecodingIsExact == EndpointSpec => []DecodingExact
<1>1. DecodingInv => DecodingExact
  BY DEF DecodingInv
<1> QED
  BY DecodingAlways, <1>1, PTL

-----------------------------------------------------------------------------
(***************************************************************************)
(* The path of each route, step by step, and what its order implies.       *)
(***************************************************************************)
LEMMA LoginPathIs ==
  /\ Len(Path("Login")) = 5 /\ Path("Login")[1] = "NoQuery" /\ Path("Login")[2] = "Body"
  /\ Path("Login")[3] = "Decoded" /\ Path("Login")[4] = "Validate"
  /\ Path("Login")[5] = "Serve"
<1> DEFINE p == (<<"NoQuery">> \o <<"Body", "Decoded">> \o <<"Validate">>)
               \o <<"Serve">>
<1>1. Path("Login") = p
  BY DEF Path, LoginPath, Decode, Lists, Gets, Creates, Patches
<1>2. /\ Len(p) = 5 /\ p[1] = "NoQuery" /\ p[2] = "Body" /\ p[3] = "Decoded"
      /\ p[4] = "Validate" /\ p[5] = "Serve"
  OBVIOUS
<1> HIDE DEF p
<1> QED
  BY <1>1, <1>2

LEMMA MePathIs ==
  /\ Len(Path("Me")) = 3 /\ Path("Me")[1] = "Authenticate" /\ Path("Me")[2] = "NoQuery"
  /\ Path("Me")[3] = "Serve"
<1> DEFINE p == <<"Authenticate", "NoQuery">>
               \o <<"Serve">>
<1>1. Path("Me") = p
  BY DEF Path, MePath, Lists, Gets, Creates, Patches
<1>2. /\ Len(p) = 3 /\ p[1] = "Authenticate" /\ p[2] = "NoQuery" /\ p[3] = "Serve"
  OBVIOUS
<1> HIDE DEF p
<1> QED
  BY <1>1, <1>2

LEMMA StatusPathIs ==
  /\ Len(Path("StatusOrder")) = 10 /\ Path("StatusOrder")[1] = "Authenticate"
  /\ Path("StatusOrder")[2] = "Body" /\ Path("StatusOrder")[3] = "Decoded"
  /\ Path("StatusOrder")[4] = "CheckUser" /\ Path("StatusOrder")[5] = "CheckPermission"
  /\ Path("StatusOrder")[6] = "Target" /\ Path("StatusOrder")[7] = "CheckUser"
  /\ Path("StatusOrder")[8] = "CheckPermission" /\ Path("StatusOrder")[9] = "Validate"
  /\ Path("StatusOrder")[10] = "Serve"
<1> DEFINE p == (<<"Authenticate">> \o
                 (<<"Body", "Decoded">> \o <<"CheckUser", "CheckPermission">> \o <<"Target">>
                   \o <<"CheckUser", "CheckPermission">> \o <<"Validate">>))
               \o <<"Serve">>
<1>1. Path("StatusOrder") = p
  BY DEF Path, StatusPath, Decode, Authorize, Lists, Gets, Creates, Patches
<1>2. /\ Len(p) = 10 /\ p[1] = "Authenticate" /\ p[2] = "Body" /\ p[3] = "Decoded"
      /\ p[4] = "CheckUser" /\ p[5] = "CheckPermission" /\ p[6] = "Target"
      /\ p[7] = "CheckUser" /\ p[8] = "CheckPermission" /\ p[9] = "Validate"
      /\ p[10] = "Serve"
  OBVIOUS
<1> HIDE DEF p
<1> QED
  BY <1>1, <1>2

LEMMA ListPathIs ==
  ASSUME NEW r \in Lists
  PROVE  /\ Len(Path(r)) = 5 /\ Path(r)[1] = "Authenticate" /\ Path(r)[2] = "CheckUser"
         /\ Path(r)[3] = "CheckPermission" /\ Path(r)[4] = "Filter" /\ Path(r)[5] = "Serve"
<1> DEFINE p == (<<"Authenticate">> \o <<"CheckUser", "CheckPermission">> \o <<"Filter">>)
               \o <<"Serve">>
<1>1. Path(r) = p
  BY DEF Path, RequirePath, Authorize, Lists, Gets, Creates, Patches
<1>2. /\ Len(p) = 5 /\ p[1] = "Authenticate" /\ p[2] = "CheckUser"
      /\ p[3] = "CheckPermission" /\ p[4] = "Filter" /\ p[5] = "Serve"
  OBVIOUS
<1> HIDE DEF p
<1> QED
  BY <1>1, <1>2

LEMMA CreatePathIs ==
  ASSUME NEW r \in Creates
  PROVE  /\ Len(Path(r)) = 10 /\ Path(r)[1] = "Authenticate" /\ Path(r)[2] = "CheckUser"
         /\ Path(r)[3] = "CheckPermission" /\ Path(r)[4] = "NoQuery" /\ Path(r)[5] = "Body"
         /\ Path(r)[6] = "Decoded" /\ Path(r)[7] = "CheckUser"
         /\ Path(r)[8] = "CheckPermission" /\ Path(r)[9] = "Validate"
         /\ Path(r)[10] = "Serve"
<1> DEFINE p == (<<"Authenticate">> \o <<"CheckUser", "CheckPermission">> \o
                 (<<"NoQuery">> \o <<"Body", "Decoded">> \o <<"CheckUser", "CheckPermission">>
                   \o <<"Validate">>))
               \o <<"Serve">>
<1>1. Path(r) = p
  BY DEF Path, RequirePath, CreatePath, Decode, Authorize, Lists, Gets, Creates, Patches
<1>2. /\ Len(p) = 10 /\ p[1] = "Authenticate" /\ p[2] = "CheckUser"
      /\ p[3] = "CheckPermission" /\ p[4] = "NoQuery" /\ p[5] = "Body" /\ p[6] = "Decoded"
      /\ p[7] = "CheckUser" /\ p[8] = "CheckPermission" /\ p[9] = "Validate"
      /\ p[10] = "Serve"
  OBVIOUS
<1> HIDE DEF p
<1> QED
  BY <1>1, <1>2

LEMMA PatchPathIs ==
  ASSUME NEW r \in Patches
  PROVE  /\ Len(Path(r)) = 10 /\ Path(r)[1] = "Authenticate" /\ Path(r)[2] = "CheckUser"
         /\ Path(r)[3] = "CheckPermission" /\ Path(r)[4] = "Target" /\ Path(r)[5] = "Body"
         /\ Path(r)[6] = "Decoded" /\ Path(r)[7] = "CheckUser"
         /\ Path(r)[8] = "CheckPermission" /\ Path(r)[9] = "Validate"
         /\ Path(r)[10] = "Serve"
<1> DEFINE p == (<<"Authenticate">> \o <<"CheckUser", "CheckPermission">> \o
                 (<<"Target">> \o <<"Body", "Decoded">> \o <<"CheckUser", "CheckPermission">>
                   \o <<"Validate">>))
               \o <<"Serve">>
<1>1. Path(r) = p
  BY DEF Path, RequirePath, PatchPath, Decode, Authorize, Lists, Gets, Creates, Patches
<1>2. /\ Len(p) = 10 /\ p[1] = "Authenticate" /\ p[2] = "CheckUser"
      /\ p[3] = "CheckPermission" /\ p[4] = "Target" /\ p[5] = "Body" /\ p[6] = "Decoded"
      /\ p[7] = "CheckUser" /\ p[8] = "CheckPermission" /\ p[9] = "Validate"
      /\ p[10] = "Serve"
  OBVIOUS
<1> HIDE DEF p
<1> QED
  BY <1>1, <1>2

LEMMA AssignPathIs ==
  /\ Len(Path("AssignOrder")) = 8 /\ Path("AssignOrder")[1] = "Authenticate"
  /\ Path("AssignOrder")[2] = "CheckUser" /\ Path("AssignOrder")[3] = "CheckPermission"
  /\ Path("AssignOrder")[4] = "Target" /\ Path("AssignOrder")[5] = "Body"
  /\ Path("AssignOrder")[6] = "Decoded" /\ Path("AssignOrder")[7] = "Validate"
  /\ Path("AssignOrder")[8] = "Serve"
<1> DEFINE p == (<<"Authenticate">> \o <<"CheckUser", "CheckPermission">> \o
                 (<<"Target">> \o <<"Body", "Decoded">> \o <<"Validate">>))
               \o <<"Serve">>
<1>1. Path("AssignOrder") = p
  BY DEF Path, RequirePath, AssignPath, Decode, Authorize, Lists, Gets, Creates, Patches
<1>2. /\ Len(p) = 8 /\ p[1] = "Authenticate" /\ p[2] = "CheckUser"
      /\ p[3] = "CheckPermission" /\ p[4] = "Target" /\ p[5] = "Body" /\ p[6] = "Decoded"
      /\ p[7] = "Validate" /\ p[8] = "Serve"
  OBVIOUS
<1> HIDE DEF p
<1> QED
  BY <1>1, <1>2

LEMMA TargetPathIs ==
  ASSUME NEW r \in Gets \cup {"DeleteAsset"}
  PROVE  /\ Len(Path(r)) = 5 /\ Path(r)[1] = "Authenticate" /\ Path(r)[2] = "CheckUser"
         /\ Path(r)[3] = "CheckPermission" /\ Path(r)[4] = "Target" /\ Path(r)[5] = "Serve"
<1> DEFINE p == (<<"Authenticate">> \o <<"CheckUser", "CheckPermission">> \o <<"Target">>)
               \o <<"Serve">>
<1>1. Path(r) = p
  BY DEF Path, RequirePath, Authorize, Lists, Gets, Creates, Patches
<1>2. /\ Len(p) = 5 /\ p[1] = "Authenticate" /\ p[2] = "CheckUser"
      /\ p[3] = "CheckPermission" /\ p[4] = "Target" /\ p[5] = "Serve"
  OBVIOUS
<1> HIDE DEF p
<1> QED
  BY <1>1, <1>2


\* One step of a path comes before another.
Before(p, i, step) == \E j \in 1..i - 1 : p[j] = step

LEMMA BodyTakers ==
  ASSUME NEW r \in Routes
  PROVE  TakesBody(r) <=> r \in Creates \cup Patches \cup {"AssignOrder", "StatusOrder", "Login"}
<1>1. DOMAIN Strings({}) = {}
  BY DEF Strings
<1>2. CASE r \in Lists \cup Gets \cup {"DeleteAsset", "Me"}
  BY <1>1, <1>2 DEF TakesBody, FieldsOf, Lists, Gets, Creates, Patches
<1>3. CASE r = "CreateUser"
  BY <1>3 DEF TakesBody, FieldsOf, Strings, Creates
<1>4. CASE r = "PatchUser"
  BY <1>4 DEF TakesBody, FieldsOf, Strings, Patches
<1>5. CASE r = "CreateAsset"
  BY <1>5 DEF TakesBody, FieldsOf, Strings, Creates
<1>6. CASE r = "PatchAsset"
  BY <1>6 DEF TakesBody, FieldsOf, Strings, Patches
<1>7. CASE r = "CreateOrder"
  BY <1>7 DEF TakesBody, FieldsOf, Strings, Creates
<1>8. CASE r = "PatchOrder"
  BY <1>8 DEF TakesBody, FieldsOf, Strings, Patches
<1>9. CASE r = "AssignOrder"
  BY <1>9 DEF TakesBody, FieldsOf, Strings
<1>10. CASE r = "StatusOrder"
  BY <1>10 DEF TakesBody, FieldsOf, Strings
<1>11. CASE r = "Login"
  BY <1>11 DEF TakesBody, FieldsOf, Strings
<1> QED
  BY <1>2, <1>3, <1>4, <1>5, <1>6, <1>7, <1>8, <1>9, <1>10, <1>11 DEF Routes, Creates, Patches

\* What a request has passed wherever it is on its way, and what it has at the end.
OrderedAt(r, p, i) ==
  /\ p[i] # "Serve" => i < Len(p)
  /\ p[i] \in {"Body", "Decoded", "Validate"} => TakesBody(r)
  /\ p[i] = "Body" => \A step \in {"Body", "Decoded", "Validate"} : ~Before(p, i, step)
  /\ p[i] = "Decoded" => Before(p, i, "Body")
  /\ p[i] = "Validate" => Before(p, i, "Body") /\ Before(p, i, "Decoded")
  /\ r # "Login" /\ p[i] # "Authenticate" => Before(p, i, "Authenticate")
  /\ p[i] \in {"CheckUser", "CheckPermission"} => ~Public(r)
  /\ r = "StatusOrder" /\ p[i] = "CheckPermission" =>
       Before(p, i, "Body") /\ Before(p, i, "Decoded")
  /\ ~Public(r) =>
       \/ p[i] \in {"Authenticate", "CheckUser", "CheckPermission"}
       \/ Before(p, i, "CheckPermission")
       \/ r = "StatusOrder" /\ p[i] \in {"Body", "Decoded"}
  /\ p[i] = "NoQuery" => r \notin Lists
  /\ p[i] = "Target" => r \notin Lists \cup Creates \cup {"Login", "Me"}
  /\ p[i] = "Filter" => r \in Lists
  /\ p[i] = "Serve" =>
       /\ IF r \in Lists THEN Before(p, i, "Filter")
                         ELSE Before(p, i, "NoQuery") \/ Before(p, i, "Target")
       /\ r \notin Lists \cup Creates \cup {"Login", "Me"} => Before(p, i, "Target")
       /\ TakesBody(r) =>
            \A step \in {"Body", "Decoded", "Validate"} : Before(p, i, step)

Ordered(r) ==
  /\ Len(Path(r)) \in Nat \ {0}
  /\ \A i \in 1..Len(Path(r)) : OrderedAt(r, Path(r), i)

\* What has been passed stays so.
LEMMA BeforeLater ==
  ASSUME NEW p, NEW step, NEW i \in Nat, Before(p, i, step), NEW k \in Nat, i <= k
  PROVE  Before(p, k, step)
BY DEF Before

LEMMA PathsOrdered == ASSUME NEW r \in Routes PROVE Ordered(r)
<1> DEFINE p == Path(r)
<1>0. /\ TakesBody(r) <=> r \in Creates \cup Patches \cup {"AssignOrder", "StatusOrder", "Login"}
      /\ Public(r) <=> r \in {"Login", "Me"}
  BY BodyTakers DEF Public
<1>1. CASE r = "Login"
  BY <1>0, <1>1, LoginPathIs
     DEF Ordered, OrderedAt, Before, Lists, Creates, Patches, Gets, Routes
<1>2. CASE r = "Me"
  BY <1>0, <1>2, MePathIs
     DEF Ordered, OrderedAt, Before, Lists, Creates, Patches, Gets, Routes
<1>3. CASE r = "StatusOrder"
  <2>1. /\ Before(p, 2, "Authenticate") /\ Before(p, 3, "Body") /\ Before(p, 4, "Decoded")
        /\ Before(p, 6, "CheckPermission") /\ Before(p, 7, "Target") /\ Before(p, 10, "Validate")
    BY <1>3, StatusPathIs DEF Before
  <2>2. \A step \in {"Body", "Decoded", "Validate"} : ~Before(p, 2, step)
    BY <1>3, StatusPathIs DEF Before
  <2>3. /\ TakesBody(r) /\ ~Public(r) /\ r = "StatusOrder"
        /\ r \notin Lists \cup Creates \cup {"Login", "Me"}
    BY <1>0, <1>3 DEF Lists, Creates, Patches
  <2>4. /\ Len(p) = 10 /\ p[1] = "Authenticate" /\ p[2] = "Body" /\ p[3] = "Decoded"
        /\ p[4] = "CheckUser" /\ p[5] = "CheckPermission" /\ p[6] = "Target" /\ p[7] = "CheckUser"
        /\ p[8] = "CheckPermission" /\ p[9] = "Validate" /\ p[10] = "Serve"
    BY <1>3, StatusPathIs
  <2> HIDE DEF p
  <2>5. ASSUME NEW i \in 1..10 PROVE OrderedAt(r, p, i)
    <3>1. i \in {1, 2, 3, 4, 5, 6, 7, 8, 9, 10}
      OBVIOUS
    <3> QED
      BY ONLY <2>1, <2>2, <2>3, <2>4, <3>1, BeforeLater DEF OrderedAt
  <2> QED
    BY <2>4, <2>5 DEF Ordered, p
<1>4. CASE r \in Lists
  BY <1>0, <1>4, ListPathIs
     DEF Ordered, OrderedAt, Before, Lists, Creates, Patches, Gets, Routes
<1>5. CASE r \in Creates
  <2>1. /\ Before(p, 2, "Authenticate") /\ Before(p, 4, "CheckPermission")
        /\ Before(p, 5, "NoQuery") /\ Before(p, 6, "Body") /\ Before(p, 7, "Decoded")
        /\ Before(p, 10, "Validate")
    BY <1>5, CreatePathIs DEF Before
  <2>2. \A step \in {"Body", "Decoded", "Validate"} : ~Before(p, 5, step)
    BY <1>5, CreatePathIs DEF Before
  <2>3. /\ TakesBody(r) /\ ~Public(r) /\ r # "StatusOrder" /\ r # "Login"
        /\ r \in Creates /\ r \notin Lists
    BY <1>0, <1>5 DEF Lists, Creates, Patches
  <2>4. /\ Len(p) = 10 /\ p[1] = "Authenticate" /\ p[2] = "CheckUser" /\ p[3] = "CheckPermission"
        /\ p[4] = "NoQuery" /\ p[5] = "Body" /\ p[6] = "Decoded" /\ p[7] = "CheckUser"
        /\ p[8] = "CheckPermission" /\ p[9] = "Validate" /\ p[10] = "Serve"
    BY <1>5, CreatePathIs
  <2> HIDE DEF p
  <2>5. ASSUME NEW i \in 1..10 PROVE OrderedAt(r, p, i)
    <3>1. i \in {1, 2, 3, 4, 5, 6, 7, 8, 9, 10}
      OBVIOUS
    <3> QED
      BY ONLY <2>1, <2>2, <2>3, <2>4, <3>1, BeforeLater DEF OrderedAt
  <2> QED
    BY <2>4, <2>5 DEF Ordered, p
<1>6. CASE r \in Patches
  <2>1. /\ Before(p, 2, "Authenticate") /\ Before(p, 4, "CheckPermission") /\ Before(p, 5, "Target")
        /\ Before(p, 6, "Body") /\ Before(p, 7, "Decoded") /\ Before(p, 10, "Validate")
    BY <1>6, PatchPathIs DEF Before
  <2>2. \A step \in {"Body", "Decoded", "Validate"} : ~Before(p, 5, step)
    BY <1>6, PatchPathIs DEF Before
  <2>3. /\ TakesBody(r) /\ ~Public(r) /\ r # "StatusOrder" /\ r # "Login"
        /\ r \notin Lists \cup Creates \cup {"Login", "Me"}
    BY <1>0, <1>6 DEF Lists, Creates, Patches
  <2>4. /\ Len(p) = 10 /\ p[1] = "Authenticate" /\ p[2] = "CheckUser" /\ p[3] = "CheckPermission"
        /\ p[4] = "Target" /\ p[5] = "Body" /\ p[6] = "Decoded" /\ p[7] = "CheckUser"
        /\ p[8] = "CheckPermission" /\ p[9] = "Validate" /\ p[10] = "Serve"
    BY <1>6, PatchPathIs
  <2> HIDE DEF p
  <2>5. ASSUME NEW i \in 1..10 PROVE OrderedAt(r, p, i)
    <3>1. i \in {1, 2, 3, 4, 5, 6, 7, 8, 9, 10}
      OBVIOUS
    <3> QED
      BY ONLY <2>1, <2>2, <2>3, <2>4, <3>1, BeforeLater DEF OrderedAt
  <2> QED
    BY <2>4, <2>5 DEF Ordered, p
<1>7. CASE r = "AssignOrder"
  <2>1. /\ Before(p, 2, "Authenticate") /\ Before(p, 4, "CheckPermission") /\ Before(p, 5, "Target")
        /\ Before(p, 6, "Body") /\ Before(p, 7, "Decoded") /\ Before(p, 8, "Validate")
    BY <1>7, AssignPathIs DEF Before
  <2>2. \A step \in {"Body", "Decoded", "Validate"} : ~Before(p, 5, step)
    BY <1>7, AssignPathIs DEF Before
  <2> QED
    BY <1>0, <1>7, <2>1, <2>2, AssignPathIs, BeforeLater
       DEF Ordered, OrderedAt, Lists, Creates, Patches, Gets, Routes
<1>8. CASE r \in Gets \cup {"DeleteAsset"}
  BY <1>0, <1>8, TargetPathIs, SMTT(30)
     DEF Ordered, OrderedAt, Before, Lists, Creates, Patches, Gets, Routes
<1> QED
  BY <1>1, <1>2, <1>3, <1>4, <1>5, <1>6, <1>7, <1>8 DEF Lists, Creates, Patches, Gets, Routes

-----------------------------------------------------------------------------
(***************************************************************************)
(* What a call has shown on its way.                                       *)
(***************************************************************************)
Shown(step) ==
  /\ step = "Authenticate" => call.bearer /\ TRUE \in past
  /\ step = "NoQuery" => call.query = NoValues
  /\ step = "Target" => call.query = NoValues /\ call.id
  /\ step = "Filter" => ParseFilter(call.route, call.query)
  /\ step = "Body" => body = call.body /\ fields = FieldsOf(call.route)
  /\ step = "Decoded" => decoded = "OK"
  /\ step = "CheckPermission" => Needs(call) \subseteq RolePermissions(call.role)
  /\ step = "Validate" => Acceptable(call.route)

OnTheWay ==
  call # Null =>
    /\ stage \in 1..Len(Path(call.route))
    /\ active \in past
    /\ \A j \in 1..stage - 1 : Shown(Path(call.route)[j])

\* What RefusalsAreTrue and StrangersLearnNothing say of one answer.
Truthful(c, states, code, status) ==
  /\ code # "OK" => status = ContractStatus(code)
  /\ code = "UNAUTHENTICATED" => ~c.bearer \/ FALSE \in states
  /\ code = "FORBIDDEN" =>
       \/ FALSE \in states
       \/ ~Needs(c) \subseteq RolePermissions(c.role)
       \/ Scoped(c) /\ GoodCall(c)
  /\ code = "VALIDATION_ERROR" => ~GoodCall(c)
  /\ code \in {"INVALID_JSON", "UNSUPPORTED_MEDIA_TYPE", "PAYLOAD_TOO_LARGE"} =>
       TakesBody(c.route) /\ code = Meaning(c.body, FieldsOf(c.route))

Discreet(c, states, code) ==
  ~Public(c.route) =>
    /\ ~c.bearer \/ TRUE \notin states => code \in {"UNAUTHENTICATED", "SERVICE_UNAVAILABLE"}
    /\ ~Needs(c) \subseteq RolePermissions(c.role) =>
         \/ code \in {"UNAUTHENTICATED", "FORBIDDEN", "SERVICE_UNAVAILABLE", "INTERNAL_ERROR"}
         \/ c.route = "StatusOrder" /\ code = Meaning(c.body, FieldsOf(c.route))

HandlingInv ==
  /\ active \in BOOLEAN /\ past \subseteq BOOLEAN
  /\ OnTheWay
  /\ reply # Null =>
       /\ call = Null
       /\ Truthful(reply.call, reply.past, reply.code, reply.status)
       /\ Discreet(reply.call, reply.past, reply.code)

\* What the order of the path implies for the call in service.
LEMMA Passing ==
  ASSUME DecodingInv, HandlingInv, call # Null
  PROVE  /\ call \in Calls /\ call.route \in Routes
         /\ stage \in 1..Len(Path(call.route)) /\ OrderedAt(call.route, Path(call.route), stage)
         /\ \A step : Before(Path(call.route), stage, step) => Shown(step)
<1>1. call \in Calls /\ call.route \in Routes
  BY CallsAssumption DEF DecodingInv
<1>2. Ordered(call.route)
  BY <1>1, PathsOrdered
<1>3. stage \in 1..Len(Path(call.route)) /\ \A j \in 1..stage - 1 : Shown(Path(call.route)[j])
  BY DEF HandlingInv, OnTheWay
<1>4. \A step : Before(Path(call.route), stage, step) => Shown(step)
  BY <1>3 DEF Before
<1> QED
  BY <1>1, <1>2, <1>3, <1>4 DEF Ordered

(***************************************************************************)
(* What the values say is what the body says.                              *)
(***************************************************************************)
LEMMA SequenceDomain ==
  ASSUME NEW S, NEW s \in Seq(S)
  PROVE  DOMAIN s = 1..Len(s) /\ (Len(s) = 0 <=> s = <<>>)
OBVIOUS

LEMMA OneValue ==
  ASSUME NEW s, Len(s) \in Nat, s = [i \in 1..Len(s) |-> s[i]]
  PROVE  Len(s) = 1 <=> s = <<s[1]>>
<1>1. Len(s) = 1 => s = <<s[1]>>
  <2> HAVE Len(s) = 1
  <2>1. s = [i \in 1..1 |-> s[i]]
    OBVIOUS
  <2>2. <<s[1]>> = [i \in 1..1 |-> s[i]]
    OBVIOUS
  <2> QED
    BY <2>1, <2>2
<1>2. \A x : Len(<<x>>) = 1
  OBVIOUS
<1>3. s = <<s[1]>> => Len(s) = 1
  BY <1>2
<1> QED
  BY <1>1, <1>3

LEMMA ValuesSay ==
  ASSUME DecodingInv, decoded = "OK"
  PROVE  /\ Meaning(body, fields) = "OK"
         /\ \A k, v : Says(body, k, v) <=> k \in DOMAIN values /\ values[k] = v
         /\ \A k \in DOMAIN values : values[k] \in Values /\ k \in DOMAIN fields
         /\ DOMAIN values = {} <=> body.members = <<>>
<1>1. /\ Meaning(body, fields) = "OK"
      /\ DOMAIN values = {body.members[i].key : i \in 1..Len(body.members)}
      /\ \A i \in 1..Len(body.members) : values[body.members[i].key] = body.members[i].value
  BY DEF DecodingInv, DecodingExact
<1>2. /\ body.members \in Seq(Member) /\ Len(body.members) \in Nat
      /\ DOMAIN body.members = 1..Len(body.members)
      /\ \A i \in 1..Len(body.members) : body.members[i].value \in Values
  <2>1. body.members \in Seq(Member) /\ Len(body.members) \in Nat
    BY MembersFact DEF DecodingInv
  <2>2. \A i \in 1..Len(body.members) : body.members[i] \in Member
    BY MembersFact DEF DecodingInv
  <2>3. DOMAIN body.members = 1..Len(body.members)
    BY <2>1, SequenceDomain
  <2> QED
    BY <2>1, <2>2, <2>3 DEF Member
<1>3. \A k, v : Says(body, k, v) <=> k \in DOMAIN values /\ values[k] = v
  BY <1>1, <1>2 DEF Says
<1>4. ~Unwelcome(body, fields)
  BY <1>1 DEF Meaning
<1>5. \A k \in DOMAIN values : values[k] \in Values /\ k \in DOMAIN fields
  BY <1>1, <1>2, <1>4 DEF Unwelcome
<1>6. DOMAIN values = {} <=> body.members = <<>>
  <2>1. Len(body.members) = 0 <=> body.members = <<>>
    BY <1>2, SequenceDomain
  <2>2. 1..Len(body.members) = {} <=> Len(body.members) = 0
    BY <1>2
  <2> QED
    BY <1>1, <2>1, <2>2
<1> QED
  BY <1>1, <1>3, <1>5, <1>6

\* What the handler and the service accept is a good body.
LEMMA AcceptableIsGood ==
  ASSUME DecodingInv, call # Null, decoded = "OK", body = call.body, fields = FieldsOf(call.route)
  PROVE  Acceptable(call.route) <=> GoodBody(call)
<1>1. /\ Meaning(body, fields) = "OK"
      /\ \A k, v : Says(body, k, v) <=> k \in DOMAIN values /\ values[k] = v
      /\ \A k \in DOMAIN values : values[k] \in Values /\ k \in DOMAIN fields
      /\ DOMAIN values = {} <=> body.members = <<>>
  BY ValuesSay
<1>2. Required(call.route) \subseteq DOMAIN values <=>
        \A k \in Required(call.route) : \E v \in Values : Says(call.body, k, v)
  BY <1>1
<1>3. (\A k \in DOMAIN values : AcceptsField(call.route, values[k])) <=>
        \A k \in DOMAIN FieldsOf(call.route), v \in Values :
          Says(call.body, k, v) => AcceptsField(call.route, v)
  BY <1>1
<1> QED
  BY <1>1, <1>2, <1>3 DEF Acceptable, GoodBody

\* The permission that is checked is the one the call needs.
LEMMA PermissionNeeded ==
  ASSUME DecodingInv, call \in Calls, ~Public(call.route),
         call.route = "StatusOrder" => decoded = "OK" /\ body = call.body
  PROVE  Needs(call) = {Permission}
<1>1. CASE call.route # "StatusOrder"
  BY <1>1, CallsAssumption
     DEF Needs, Permission, PermissionFor, Routes, Public, Lists, Gets, Creates, Patches
<1>2. CASE call.route = "StatusOrder"
  <2>1. \A v : Says(body, "status", v) <=> "status" \in DOMAIN values /\ values["status"] = v
    BY <1>2, ValuesSay
  <2>2. Target = "CANCELLED" <=> Says(call.body, "status", "CANCELLED")
    BY <1>2, <2>1 DEF Target
  <2>3. \A t : PermissionFor("StatusOrder", t) = StatusPermission(t)
    BY DEF PermissionFor
  <2>4. Permission = StatusPermission(Target)
    BY <1>2, <2>3 DEF Permission
  <2>5. Needs(call) = {StatusPermission(IF Says(call.body, "status", "CANCELLED")
                                          THEN "CANCELLED" ELSE "")}
    BY <1>2, <2>3 DEF Needs
  <2> QED
    BY <2>2, <2>4, <2>5 DEF StatusPermission
<1> QED
  BY <1>1, <1>2

\* A filter is accepted if and only if the query is good.
LEMMA FilterIsGood ==
  ASSUME NEW c \in Calls, c.route \in Lists
  PROVE  ParseFilter(c.route, c.query) <=> GoodQuery(c)
<1> DEFINE Fine(name) ==
      /\ c.query[name] = <<c.query[name][1]>>
      /\ name = "page" => 0 < c.query[name][1] /\ c.query[name][1] <= 100000
      /\ name = "limit" => 0 < c.query[name][1] /\ c.query[name][1] <= 100
      /\ name \in Parameters(c.route) => c.query[name][1] # "bad"
<1>1. QueryRead(c.query)
  BY CallsAssumption
<1>2. "page" \notin Parameters(c.route) /\ "limit" \notin Parameters(c.route)
  BY DEF Parameters, Lists, UserFilters, AssetFilters, OrderFilters, AuditFilters
<1>3. "entity_id" \in Parameters(c.route) => c.route = "ListAudit"
  BY DEF Parameters, Lists, UserFilters, AssetFilters, OrderFilters, AuditFilters
<1>4. ASSUME NEW name \in DOMAIN c.query
      PROVE  /\ Len(c.query[name]) = 1 <=> c.query[name] = <<c.query[name][1]>>
             /\ name \in {"page", "limit"} /\ Len(c.query[name]) = 1 => c.query[name][1] \in Int
  <2> DEFINE s == c.query[name]
  <2>1. /\ Len(s) \in Nat /\ s = [i \in 1..Len(s) |-> s[i]]
        /\ name \in {"page", "limit"} => \A i \in 1..Len(s) : s[i] \in Int
    BY <1>1, <1>4 DEF QueryRead
  <2> HIDE DEF s
  <2>2. Len(s) = 1 <=> s = <<s[1]>>
    BY <2>1, OneValue
  <2>3. name \in {"page", "limit"} /\ Len(s) = 1 => s[1] \in Int
    BY <2>1
  <2> QED
    BY <2>2, <2>3 DEF s
<1>5. ASSUME NEW name \in DOMAIN c.query
      PROVE  Len(c.query[name]) = 1 /\ AcceptsParameter(c.route, name, c.query[name][1])
               <=> Fine(name) /\ name \in {"page", "limit"} \cup Parameters(c.route)
  <2> DEFINE v == c.query[name][1]
             one == c.query[name] = <<v>>
             accepted == AcceptsParameter(c.route, name, v)
             most == 100000
  <2>1. /\ Len(c.query[name]) = 1 <=> one
        /\ one /\ name \in {"page", "limit"} => v \in Int
    BY <1>4, <1>5
  <2>2. Fine(name) <=>
          /\ one
          /\ name = "page" => 0 < v /\ v <= most
          /\ name = "limit" => 0 < v /\ v <= 100
          /\ name \in Parameters(c.route) => v # "bad"
    OBVIOUS
  <2>3. accepted <=>
          CASE name = "page"  -> v \in 1..most
            [] name = "limit" -> v \in 1..100
            [] name \in Parameters(c.route) -> v # "bad"
            [] OTHER -> FALSE
    BY DEF AcceptsParameter
  <2> HIDE DEF v, one, accepted, Fine, most
  <2>4. one /\ accepted <=> Fine(name) /\ name \in {"page", "limit"} \cup Parameters(c.route)
    <3>1. CASE name = "page" /\ one
      <4>1. v \in Int /\ most \in Int
        BY <2>1, <3>1 DEF most
      <4>2. accepted <=> v \in 1..most
        BY <1>2, <2>3, <3>1, <4>1
      <4>3. Fine(name) <=> 0 < v /\ v <= most
        BY <1>2, <2>2, <3>1
      <4> QED
        BY <3>1, <4>1, <4>2, <4>3
    <3>2. CASE name = "limit" /\ one
      <4>1. v \in Int
        BY <2>1, <3>2
      <4>2. accepted <=> v \in 1..100
        BY <1>2, <2>3, <3>2, <4>1
      <4>3. Fine(name) <=> 0 < v /\ v <= 100
        BY <1>2, <2>2, <3>2
      <4> QED
        BY <3>2, <4>1, <4>2, <4>3
    <3>3. CASE name # "page" /\ name # "limit" /\ name \in Parameters(c.route)
      <4>1. accepted <=> v # "bad"
        BY <2>3, <3>3
      <4>2. Fine(name) <=> one /\ v # "bad"
        BY <2>2, <3>3
      <4> QED
        BY <3>3, <4>1, <4>2
    <3>4. CASE name # "page" /\ name # "limit" /\ name \notin Parameters(c.route)
      <4>1. ~accepted
        BY <2>3, <3>4
      <4> QED
        BY <3>4, <4>1
    <3>5. CASE ~one
      BY <2>2, <3>5
    <3> QED
      BY <3>1, <3>2, <3>3, <3>4, <3>5
  <2> QED
    BY <2>1, <2>4 DEF accepted, v
<1>6. GoodQuery(c) <=>
        /\ DOMAIN c.query \subseteq {"page", "limit"} \cup Parameters(c.route)
        /\ \A name \in DOMAIN c.query : Fine(name)
        /\ "entity_id" \in DOMAIN c.query => "entity_type" \in DOMAIN c.query
  BY DEF GoodQuery
<1> HIDE DEF Fine
<1> QED
  BY <1>3, <1>5, <1>6 DEF ParseFilter

-----------------------------------------------------------------------------
(***************************************************************************)
(* Steps that answer.                                                      *)
(***************************************************************************)
\* A call in service whose caller may do what the route is for.
LEMMA Admitted ==
  ASSUME DecodingInv, HandlingInv, call # Null, ~Public(call.route),
         Path(call.route)[stage] \notin {"Authenticate", "CheckUser", "CheckPermission"},
         call.route = "StatusOrder" => Path(call.route)[stage] \notin {"Body", "Decoded"}
  PROVE  call.bearer /\ TRUE \in past /\ Needs(call) \subseteq RolePermissions(call.role)
BY Passing DEF OrderedAt, Shown, Public

\* Where the body has been decoded, the call is held to what it says.
LEMMA Held ==
  ASSUME DecodingInv, HandlingInv, call # Null, Path(call.route)[stage] \in {"Validate", "Serve"},
         TakesBody(call.route)
  PROVE  decoded = "OK" /\ body = call.body /\ fields = FieldsOf(call.route)
BY Passing DEF OrderedAt, Shown

\* An answer that is truthful and discreet keeps the invariant.
LEMMA ReplyKeeps ==
  ASSUME HandlingInv, call # Null, NEW answer, Reply(answer),
         Truthful(call, past, answer.code, answer.status), Discreet(call, past, answer.code)
  PROVE  HandlingInv'
<1>1. /\ reply' = [call |-> call, past |-> past, code |-> answer.code, status |-> answer.status]
      /\ call' = Null /\ past' = {} /\ active' = active
  BY DEF Reply
<1>2. /\ reply'.call = call /\ reply'.past = past
      /\ reply'.code = answer.code /\ reply'.status = answer.status
  BY <1>1
<1>3. Truthful(call, past, answer.code, answer.status)
        = Truthful(reply'.call, reply'.past, reply'.code, reply'.status)
  BY <1>2
<1>4. Discreet(call, past, answer.code) = Discreet(reply'.call, reply'.past, reply'.code)
  BY <1>2
<1> QED
  BY <1>1, <1>3, <1>4 DEF HandlingInv, OnTheWay, Truthful, Discreet

(***************************************************************************)
(* Errors and their answers.                                               *)
(***************************************************************************)
Refused409 ==
  {"SELF_DEACTIVATION", "LAST_ADMIN", "USER_HAS_ACTIVE_WORK_ORDERS", "ASSET_HAS_OPEN_WORK_ORDERS",
   "ASSET_IN_USE", "ASSET_NOT_AVAILABLE", "WORK_ORDER_TERMINAL", "INVALID_ASSIGNEE",
   "INVALID_ASSIGNMENT_STATE", "ALREADY_ASSIGNED", "INVALID_STATUS_TRANSITION"}

Named == {"UNAUTHENTICATED", "INVALID_CREDENTIALS", "FORBIDDEN", "VALIDATION_ERROR"}

AllErrors ==
  Named \cup Refused409 \cup NotFound \cup Technical \cup Conflicts
    \cup {"outcome unknown", "users_email_key", "assets_asset_code_key", "work_orders_asset_id_fkey"}

Meant == {"INVALID_JSON", "UNSUPPORTED_MEDIA_TYPE", "PAYLOAD_TOO_LARGE"}

LEMMA ConstraintCodes ==
  /\ DOMAIN Constraints =
       {"users_email_key", "assets_asset_code_key", "work_orders_asset_id_fkey"}
  /\ Constraints["users_email_key"] = "EMAIL_CONFLICT"
  /\ Constraints["assets_asset_code_key"] = "ASSET_CODE_CONFLICT"
  /\ Constraints["work_orders_asset_id_fkey"] = "ASSET_IN_USE"
BY DEF Constraints

LEMMA FailureCodes ==
  ASSUME NEW error \in AllErrors
  PROVE  /\ Failure(error).status = ContractStatus(Failure(error).code)
         /\ error \in Named => Failure(error).code = error
         /\ error \notin Named => Failure(error).code \notin Named \cup Meant
         /\ error \in Named => error \notin Meant
<1> USE ConstraintCodes DEF Missing, NotFound, Conflicts
<1>0. ASSUME NEW code, NEW status, Failure(error) = Answer(code, status)
      PROVE  Failure(error).code = code /\ Failure(error).status = status
  BY <1>0 DEF Answer
<1>1. CASE error \in {"UNAUTHENTICATED", "INVALID_CREDENTIALS"}
  <2>1. Failure(error) = Answer(error, 401)
    <3>1. CASE error = "UNAUTHENTICATED"
      BY <3>1 DEF Failure
    <3>2. CASE error = "INVALID_CREDENTIALS"
      BY <3>2 DEF Failure
    <3> QED
      BY <1>1, <3>1, <3>2
  <2>2. ContractStatus(error) = 401
    BY <1>1 DEF ContractStatus
  <2> QED
    BY <1>0, <1>1, <2>1, <2>2 DEF Named, Meant
<1>2. CASE error = "FORBIDDEN"
  <2>1. Failure(error) = Answer(error, 403)
    BY <1>2 DEF Failure
  <2>2. ContractStatus(error) = 403
    BY <1>2 DEF ContractStatus
  <2> QED
    BY <1>0, <1>2, <2>1, <2>2 DEF Named, Meant
<1>3. CASE error = "VALIDATION_ERROR"
  <2>1. Failure(error) = Answer(error, 422)
    BY <1>3 DEF Failure
  <2>2. ContractStatus(error) = 422
    BY <1>3 DEF ContractStatus
  <2> QED
    BY <1>0, <1>3, <2>1, <2>2 DEF Named, Meant
<1>4. CASE error \in NotFound
  <2>1. Failure(error) = Answer(error, 404)
    <3>1. CASE error = "USER_NOT_FOUND"
      BY <3>1 DEF Failure
    <3>2. CASE error = "ASSET_NOT_FOUND"
      BY <3>2 DEF Failure
    <3>3. CASE error = "WORK_ORDER_NOT_FOUND"
      BY <3>3 DEF Failure
    <3> QED
      BY <1>4, <3>1, <3>2, <3>3
  <2>2. ContractStatus(error) = 404
    BY <1>4 DEF ContractStatus
  <2> QED
    BY <1>0, <1>4, <2>1, <2>2 DEF Named, Meant
<1>5. CASE error \in Refused409
  <2>1. Failure(error) = Answer(error, 409)
    <3>1. /\ error # "UNAUTHENTICATED" /\ error # "INVALID_CREDENTIALS" /\ error # "FORBIDDEN"
          /\ error # "VALIDATION_ERROR" /\ error \notin Missing /\ error # "outcome unknown"
          /\ error \notin DOMAIN Constraints /\ error \notin Conflicts
          /\ error \notin {"connection", "deadline"} /\ error # "other"
      BY <1>5 DEF Refused409
    <3> QED
      BY ONLY <3>1 DEF Failure
  <2>2. ContractStatus(error) = 409
    BY <1>5 DEF ContractStatus, Refused409
  <2> QED
    BY <1>0, <1>5, <2>1, <2>2 DEF Named, Meant, Refused409
<1>6. CASE error \in {"connection", "deadline"}
  <2>1. Failure(error) = Answer("SERVICE_UNAVAILABLE", 503)
    BY <1>6 DEF Failure
  <2>2. ContractStatus("SERVICE_UNAVAILABLE") = 503
    BY <1>6 DEF ContractStatus
  <2> QED
    BY <1>0, <1>6, <2>1, <2>2 DEF Named, Meant
<1>7. CASE error = "other"
  <2>1. Failure(error) = Answer("INTERNAL_ERROR", 500)
    BY <1>7 DEF Failure
  <2>2. ContractStatus("INTERNAL_ERROR") = 500
    BY <1>7 DEF ContractStatus
  <2> QED
    BY <1>0, <1>7, <2>1, <2>2 DEF Named, Meant
<1>8. CASE error \in Conflicts
  <2>1. Failure(error) = Answer("CONCURRENT_MODIFICATION", 409)
    BY <1>8 DEF Failure
  <2>2. ContractStatus("CONCURRENT_MODIFICATION") = 409
    BY <1>8 DEF ContractStatus
  <2> QED
    BY <1>0, <1>8, <2>1, <2>2 DEF Named, Meant
<1>9. CASE error = "outcome unknown"
  <2>1. Failure(error) = Answer("WRITE_OUTCOME_UNKNOWN", 503)
    BY <1>9 DEF Failure
  <2>2. ContractStatus("WRITE_OUTCOME_UNKNOWN") = 503
    BY <1>9 DEF ContractStatus
  <2>3. Failure(error).code = "WRITE_OUTCOME_UNKNOWN" /\ Failure(error).status = 503
    BY <1>0, <2>1
  <2>4. error \notin Named /\ "WRITE_OUTCOME_UNKNOWN" \notin Named \cup Meant
    BY <1>9 DEF Named, Meant
  <2> QED
    BY ONLY <2>2, <2>3, <2>4
<1>10. CASE error \in DOMAIN Constraints
  <2>1. Failure(error) = Answer(Constraints[error], 409)
    BY <1>10 DEF Failure
  <2>2. ContractStatus(Constraints[error]) = 409
    BY <1>10 DEF ContractStatus
  <2> QED
    BY <1>0, <1>10, <2>1, <2>2 DEF Named, Meant
<1> QED
  BY <1>1, <1>2, <1>3, <1>4, <1>5, <1>6, <1>7, <1>8, <1>9, <1>10
     DEF AllErrors, Named, Technical

\* What a service may refuse a request for.
LEMMA ServiceErrors ==
  ASSUME NEW route \in Routes
  PROVE  /\ Errors(route) \subseteq AllErrors \ {"VALIDATION_ERROR"}
         /\ Public(route) => "FORBIDDEN" \notin Errors(route) /\ "UNAUTHENTICATED" \notin Errors(route)
<1>1. DomainErrors(route) \subseteq AllErrors \ {"VALIDATION_ERROR", "FORBIDDEN", "UNAUTHENTICATED"}
  BY DEF DomainErrors, AllErrors, Named, Refused409, NotFound, Routes, Lists, Gets, Creates, Patches
<1> QED
  BY <1>1 DEF Errors, AllErrors, Named, Technical, Conflicts, Refused409, NotFound

LEMMA BodyCodes ==
  ASSUME NEW code \in Meant \cup {"VALIDATION_ERROR"}
  PROVE  BodyFailure(code).code = code /\ BodyFailure(code).status = ContractStatus(code)
BY DEF Meant, BodyFailure, Answer, ContractStatus

LEMMA SuccessCode == ASSUME NEW route PROVE Success(route).code = "OK"
BY DEF Success, Answer

(***************************************************************************)
(* Steps that pass.                                                        *)
(***************************************************************************)
LEMMA PassKeeps ==
  ASSUME DecodingInv, HandlingInv, call # Null, Pass, Path(call.route)[stage] # "Serve",
         NEW step, step = Path(call.route)[stage], Shown(step)',
         \A j \in 1..stage - 1 : Shown(Path(call.route)[j])'
  PROVE  HandlingInv'
<1>1. stage \in 1..Len(Path(call.route)) /\ stage < Len(Path(call.route))
  BY Passing DEF OrderedAt
<1>2. Len(Path(call.route)) \in Nat
  BY Passing, PathsOrdered DEF Ordered
<1>3. stage' = stage + 1 /\ UNCHANGED <<call, active, past, reply>>
  BY DEF Pass
<1>4. \A j \in 1..stage' - 1 : j = stage \/ j \in 1..stage - 1
  BY <1>1, <1>2, <1>3
<1>5. OnTheWay'
  <2>1. stage' \in 1..Len(Path(call.route)) /\ active \in past
    BY <1>1, <1>2, <1>3 DEF OnTheWay, HandlingInv
  <2>2. \A j \in 1..stage' - 1 : Shown(Path(call.route)[j])'
    BY <1>3, <1>4
  <2> QED
    BY <1>3, <2>1, <2>2 DEF OnTheWay
<1> QED
  BY <1>3, <1>5 DEF HandlingInv, Truthful, Discreet

LEMMA RequireKeeps ==
  ASSUME DecodingInv, HandlingInv, call # Null,
         NEW step, step \notin {"Serve", "Body", "Decoded"}, At(step),
         NEW condition, NEW error, Require(condition, error),
         condition => Shown(step),
         ~condition =>
           /\ Truthful(call, past, Failure(error).code, Failure(error).status)
           /\ Discreet(call, past, Failure(error).code)
  PROVE  HandlingInv'
<1>1. UNCHANGED decoding /\ step = Path(call.route)[stage]
  BY DEF Require, At
<1>2. CASE condition
  <2>1. Pass /\ UNCHANGED <<call, past>>
    BY <1>2 DEF Require, Pass
  <2>2. ASSUME NEW x, Shown(x) PROVE Shown(x)'
    BY <1>1, <2>1, <2>2 DEF Shown, Acceptable, decoding
  <2>3. \A j \in 1..stage - 1 : Shown(Path(call.route)[j])
    BY DEF HandlingInv, OnTheWay
  <2>4. \A j \in 1..stage - 1 : Shown(Path(call.route)[j])'
    BY <2>1, <2>2, <2>3
  <2> QED
    BY <1>1, <1>2, <2>1, <2>2, <2>4, PassKeeps
<1>3. CASE ~condition
  BY <1>3, ReplyKeeps DEF Require
<1> QED
  BY <1>2, <1>3

\* What makes a refusal for a fault of the account, or of the call, right.
LEMMA RefusedInTruth ==
  ASSUME NEW error \in Named,
         error = "UNAUTHENTICATED" => ~call.bearer \/ FALSE \in past,
         error = "FORBIDDEN" =>
           \/ FALSE \in past
           \/ ~Needs(call) \subseteq RolePermissions(call.role)
           \/ Scoped(call) /\ GoodCall(call),
         error = "VALIDATION_ERROR" => ~GoodCall(call)
  PROVE  Truthful(call, past, Failure(error).code, Failure(error).status)
<1>1. error \in AllErrors
  BY DEF AllErrors
<1>2. Failure(error).code = error /\ Failure(error).status = ContractStatus(error) /\ error \notin Meant
  BY <1>1, FailureCodes
<1> QED
  BY <1>2 DEF Truthful, Meant

LEMMA AuthenticateKeeps ==
  ASSUME DecodingInv, HandlingInv, call # Null, Authenticate PROVE HandlingInv'
<1>1. At("Authenticate") /\ Require(call.bearer /\ active, "UNAUTHENTICATED")
  BY DEF Authenticate
<1>2. active \in past /\ active \in BOOLEAN
  BY DEF HandlingInv, OnTheWay
<1>3. call.bearer /\ active => Shown("Authenticate")
  BY <1>2 DEF Shown
<1>4. ~(call.bearer /\ active) => ~call.bearer \/ FALSE \in past
  BY <1>2
<1>5. Failure("UNAUTHENTICATED").code = "UNAUTHENTICATED"
  BY FailureCodes DEF AllErrors, Named
<1>6. Discreet(call, past, "UNAUTHENTICATED")
  BY DEF Discreet
<1>7. ~(call.bearer /\ active) =>
         Truthful(call, past, Failure("UNAUTHENTICATED").code, Failure("UNAUTHENTICATED").status)
  BY <1>4, RefusedInTruth DEF Named
<1> QED
  BY <1>1, <1>3, <1>5, <1>6, <1>7, RequireKeeps

LEMMA CheckUserKeeps ==
  ASSUME DecodingInv, HandlingInv, call # Null, CheckUser PROVE HandlingInv'
<1>1. At("CheckUser") /\ Require(active, "UNAUTHENTICATED")
  BY DEF CheckUser
<1>2. active \in past /\ active \in BOOLEAN
  BY DEF HandlingInv, OnTheWay
<1>3. Shown("CheckUser")
  BY DEF Shown
<1>4. Failure("UNAUTHENTICATED").code = "UNAUTHENTICATED"
  BY FailureCodes DEF AllErrors, Named
<1>5. Discreet(call, past, "UNAUTHENTICATED")
  BY DEF Discreet
<1>6. ~active =>
         Truthful(call, past, Failure("UNAUTHENTICATED").code, Failure("UNAUTHENTICATED").status)
  BY <1>2, RefusedInTruth DEF Named
<1> QED
  BY <1>1, <1>3, <1>4, <1>5, <1>6, RequireKeeps

LEMMA CheckPermissionKeeps ==
  ASSUME DecodingInv, HandlingInv, call # Null, CheckPermission PROVE HandlingInv'
<1> DEFINE may == active /\ Permission \in RolePermissions(call.role)
<1>1. At("CheckPermission") /\ Require(may, "FORBIDDEN")
  BY DEF CheckPermission
<1>2. active \in past /\ active \in BOOLEAN
  BY DEF HandlingInv, OnTheWay
<1>3. /\ ~Public(call.route) /\ call \in Calls /\ call.bearer /\ TRUE \in past
      /\ call.route = "StatusOrder" => decoded = "OK" /\ body = call.body
  BY <1>1, Passing DEF OrderedAt, Shown, At, Public
<1>4. Needs(call) = {Permission}
  BY <1>3, PermissionNeeded
<1>5. may => Shown("CheckPermission")
  BY <1>4 DEF Shown
<1>6. Failure("FORBIDDEN").code = "FORBIDDEN"
  BY FailureCodes DEF AllErrors, Named
<1>7. Discreet(call, past, "FORBIDDEN")
  BY <1>3 DEF Discreet
<1>8. ~may => Truthful(call, past, Failure("FORBIDDEN").code, Failure("FORBIDDEN").status)
  BY <1>2, <1>4, RefusedInTruth DEF Named
<1> HIDE DEF may
<1> QED
  BY <1>1, <1>5, <1>6, <1>7, <1>8, RequireKeeps

\* The steps that look at the call itself: what they refuse is wrong with it.
LEMMA FaultKeeps ==
  ASSUME DecodingInv, HandlingInv, call # Null,
         NEW step \in {"NoQuery", "Target", "Filter", "Validate"}, At(step),
         NEW condition, Require(condition, "VALIDATION_ERROR"),
         condition => Shown(step), ~condition => ~GoodCall(call)
  PROVE  HandlingInv'
<1>1. Failure("VALIDATION_ERROR").code = "VALIDATION_ERROR"
  BY FailureCodes DEF AllErrors, Named
<1>2. Discreet(call, past, "VALIDATION_ERROR")
  BY Admitted DEF Discreet, At
<1>3. ~condition =>
         Truthful(call, past, Failure("VALIDATION_ERROR").code, Failure("VALIDATION_ERROR").status)
  BY RefusedInTruth DEF Named
<1> QED
  BY <1>1, <1>2, <1>3, RequireKeeps

LEMMA FaultsKeep ==
  ASSUME DecodingInv, HandlingInv, call # Null, NoQuery \/ TargetId \/ Filter \/ Validate
  PROVE  HandlingInv'
<1>1. call \in Calls /\ OrderedAt(call.route, Path(call.route), stage)
  BY Passing
<1>2. CASE NoQuery
  <2>1. At("NoQuery") /\ Require(call.query = NoValues, "VALIDATION_ERROR")
    BY <1>2 DEF NoQuery
  <2>2. call.route \notin Lists
    BY <1>1, <2>1 DEF OrderedAt, At
  <2>3. call.query # NoValues => ~GoodCall(call)
    BY <2>2 DEF GoodCall
  <2>4. call.query = NoValues => Shown("NoQuery")
    BY DEF Shown
  <2> QED
    BY <2>1, <2>3, <2>4, FaultKeeps
<1>3. CASE TargetId
  <2> DEFINE given == call.query = NoValues /\ call.id
  <2>1. At("Target") /\ Require(given, "VALIDATION_ERROR")
    BY <1>3 DEF TargetId
  <2>2. call.route \notin Lists \cup Creates \cup {"Login", "Me"}
    BY <1>1, <2>1 DEF OrderedAt, At
  <2>3. ~given => ~GoodCall(call)
    BY <2>2 DEF GoodCall
  <2>4. given => Shown("Target")
    BY DEF Shown
  <2> HIDE DEF given
  <2> QED
    BY <2>1, <2>3, <2>4, FaultKeeps
<1>4. CASE Filter
  <2>1. At("Filter") /\ Require(ParseFilter(call.route, call.query), "VALIDATION_ERROR")
    BY <1>4 DEF Filter
  <2>2. call.route \in Lists
    BY <1>1, <2>1 DEF OrderedAt, At
  <2>3. ~ParseFilter(call.route, call.query) => ~GoodCall(call)
    BY <1>1, <2>2, FilterIsGood DEF GoodCall
  <2>4. ParseFilter(call.route, call.query) => Shown("Filter")
    BY DEF Shown
  <2> QED
    BY <2>1, <2>3, <2>4, FaultKeeps
<1>5. CASE Validate
  <2>1. At("Validate") /\ Require(Acceptable(call.route), "VALIDATION_ERROR")
    BY <1>5 DEF Validate
  <2>2. TakesBody(call.route)
    BY <1>1, <2>1 DEF OrderedAt, At
  <2>3. decoded = "OK" /\ body = call.body /\ fields = FieldsOf(call.route)
    BY <2>1, <2>2, Held DEF At
  <2>4. ~Acceptable(call.route) => ~GoodCall(call)
    BY <2>2, <2>3, AcceptableIsGood DEF GoodCall
  <2>5. Acceptable(call.route) => Shown("Validate")
    BY DEF Shown
  <2> QED
    BY <2>1, <2>4, <2>5, FaultKeeps
<1> QED
  BY <1>2, <1>3, <1>4, <1>5

LEMMA ReadBodyKeeps ==
  ASSUME DecodingInv, HandlingInv, call # Null, ReadBody PROVE HandlingInv'
<1>1. Path(call.route)[stage] = "Body" /\ Open(call.body, FieldsOf(call.route)) /\ Pass
  BY DEF ReadBody, At
<1>2. body' = call.body /\ fields' = FieldsOf(call.route) /\ UNCHANGED <<call, past>>
  BY <1>1 DEF Open, Pass
<1>3. Shown("Body")'
  BY <1>2 DEF Shown
<1>4. ASSUME NEW j \in 1..stage - 1 PROVE Shown(Path(call.route)[j])'
  <2>1. PICK step : step = Path(call.route)[j]
    OBVIOUS
  <2>2. Shown(step)
    BY <2>1 DEF HandlingInv, OnTheWay
  <2>3. step \notin {"Body", "Decoded", "Validate"}
    BY <1>1, <2>1, Passing DEF OrderedAt, Before
  <2>4. Shown(step)'
    BY <1>2, <2>2, <2>3 DEF Shown
  <2> QED
    BY <1>2, <2>1, <2>4
<1> QED
  BY <1>1, <1>3, <1>4, PassKeeps

LEMMA DecodedKeeps ==
  ASSUME DecodingInv, HandlingInv, call # Null, Decoded PROVE HandlingInv'
<1>1. /\ call.route \in Routes /\ TakesBody(call.route)
      /\ body = call.body /\ fields = FieldsOf(call.route)
      /\ Path(call.route)[stage] = "Decoded" /\ OrderedAt(call.route, Path(call.route), stage)
  BY Passing DEF Decoded, At, OrderedAt, Shown
<1>2. \A j \in 1..stage - 1 : Shown(Path(call.route)[j])
  BY DEF HandlingInv, OnTheWay
<1>3. CASE (ReadMember \/ Close) /\ UNCHANGED handling
  <2>1. decoded = "reading" /\ UNCHANGED <<call, stage, active, past, reply, body, fields>>
    BY <1>3 DEF ReadMember, Close, handling
  <2>2. ASSUME NEW j \in 1..stage - 1 PROVE Shown(Path(call.route)[j])'
    <3>1. PICK step : step = Path(call.route)[j]
      OBVIOUS
    <3>2. Shown(step) /\ step # "Decoded"
      BY <1>2, <2>1, <3>1 DEF Shown
    <3>3. step # "Validate"
      <4>1. ASSUME step = "Validate" PROVE FALSE
        <5>1. j \in 1..Len(Path(call.route)) /\ OrderedAt(call.route, Path(call.route), j)
          <6>1. stage \in 1..Len(Path(call.route)) /\ Len(Path(call.route)) \in Nat
            BY <1>1, Passing, PathsOrdered DEF Ordered
          <6>2. j \in 1..Len(Path(call.route))
            BY <6>1
          <6> QED
            BY <1>1, <6>2, PathsOrdered DEF Ordered
        <5>2. Before(Path(call.route), j, "Decoded")
          BY <3>1, <4>1, <5>1 DEF OrderedAt
        <5>3. Before(Path(call.route), stage, "Decoded")
          BY <5>2, Passing DEF Before
        <5> QED
          BY <2>1, <5>3, Passing DEF Shown
      <4> QED
        BY <4>1
    <3>4. Shown(step)'
      BY <2>1, <3>2, <3>3 DEF Shown
    <3> QED
      BY <2>1, <3>1, <3>4
  <2>3. OnTheWay'
    BY <2>1, <2>2 DEF OnTheWay, HandlingInv
  <2> QED
    BY <2>1, <2>3 DEF HandlingInv, Truthful, Discreet
<1>4. CASE decoded = "OK" /\ Pass /\ UNCHANGED decoding
  <2>1. UNCHANGED <<call, past>> /\ decoded' = "OK"
    BY <1>4 DEF Pass, decoding
  <2>2. Shown("Decoded")'
    BY <2>1 DEF Shown
  <2>3. ASSUME NEW x, Shown(x) PROVE Shown(x)'
    BY <1>4, <2>1, <2>3 DEF Shown, Acceptable, decoding
  <2>4. \A j \in 1..stage - 1 : Shown(Path(call.route)[j])'
    BY <1>2, <2>1, <2>3
  <2> QED
    BY <1>1, <1>4, <2>2, <2>4, PassKeeps
<1>5. CASE decoded \notin {"reading", "OK"} /\ Reply(BodyFailure(decoded)) /\ UNCHANGED decoding
  <2>1. decoded = Meaning(call.body, FieldsOf(call.route))
    BY <1>1, <1>5 DEF DecodingInv, DecodingExact
  <2>2. decoded \in Meant \cup {"VALIDATION_ERROR"}
    BY <1>5, <2>1 DEF Meaning, Meant
  <2>3. BodyFailure(decoded).code = decoded
        /\ BodyFailure(decoded).status = ContractStatus(decoded)
    BY <2>2, BodyCodes
  <2>4. ~GoodCall(call)
    BY <1>1, <1>5, <2>1 DEF GoodCall, GoodBody
  <2>5. Truthful(call, past, decoded, ContractStatus(decoded))
    BY <1>1, <2>1, <2>2, <2>4 DEF Truthful, Meant
  <2>6. Discreet(call, past, decoded)
    <3>1. CASE call.route # "StatusOrder"
      BY <1>1, <3>1, Admitted DEF Discreet
    <3>2. CASE call.route = "StatusOrder"
      BY <1>1, <2>1, <3>2, Passing DEF Discreet, OrderedAt, Shown
    <3> QED
      BY <3>1, <3>2
  <2> QED
    BY <1>5, <2>3, <2>5, <2>6, ReplyKeeps
<1> QED
  BY <1>3, <1>4, <1>5 DEF Decoded

\* What has come to be served is right in every part.
LEMMA ServedGood ==
  ASSUME DecodingInv, HandlingInv, call # Null, At("Serve")
  PROVE  /\ GoodCall(call)
         /\ call.route # "Login" => call.bearer /\ TRUE \in past
         /\ ~Public(call.route) => Needs(call) \subseteq RolePermissions(call.role)
<1>1. /\ Path(call.route)[stage] = "Serve" /\ call \in Calls
      /\ OrderedAt(call.route, Path(call.route), stage)
      /\ \A step : Before(Path(call.route), stage, step) => Shown(step)
  BY Passing DEF At
<1>2. IF call.route \in Lists THEN GoodQuery(call) ELSE call.query = NoValues
  BY <1>1, FilterIsGood DEF OrderedAt, Shown
<1>3. call.route \notin Lists \cup Creates \cup {"Login", "Me"} => call.id
  BY <1>1 DEF OrderedAt, Shown
<1>4. TakesBody(call.route) => GoodBody(call)
  <2> HAVE TakesBody(call.route)
  <2>1. decoded = "OK" /\ body = call.body /\ fields = FieldsOf(call.route)
    BY <1>1, Held
  <2>2. Acceptable(call.route)
    BY <1>1 DEF OrderedAt, Shown
  <2> QED
    BY <2>1, <2>2, AcceptableIsGood
<1>5. call.route # "Login" => call.bearer /\ TRUE \in past
  BY <1>1 DEF OrderedAt, Shown
<1>6. ~Public(call.route) => Needs(call) \subseteq RolePermissions(call.role)
  BY <1>1, Admitted
<1> QED
  BY <1>2, <1>3, <1>4, <1>5, <1>6 DEF GoodCall

LEMMA ServeKeeps ==
  ASSUME DecodingInv, HandlingInv, call # Null, Serve PROVE HandlingInv'
<1>1. /\ GoodCall(call)
      /\ call.route # "Login" => call.bearer /\ TRUE \in past
      /\ ~Public(call.route) => Needs(call) \subseteq RolePermissions(call.role)
  BY ServedGood DEF Serve
<1>2. \A code : Discreet(call, past, code)
  BY <1>1 DEF Discreet, Public
<1>3. active \in past /\ active \in BOOLEAN
  BY DEF HandlingInv, OnTheWay
<1>4. CASE Reply(Success(call.route))
  <2>1. Truthful(call, past, Success(call.route).code, Success(call.route).status)
    BY SuccessCode DEF Truthful
  <2> QED
    BY <1>2, <1>4, <2>1, ReplyKeeps
<1>5. ASSUME NEW error \in Errors(call.route),
             error = "UNAUTHENTICATED" => ~active,
             error = "FORBIDDEN" => ~active \/ Scoped(call),
             Reply(Failure(error))
      PROVE  HandlingInv'
  <2>1. error \in AllErrors \ {"VALIDATION_ERROR"}
    BY <1>5, ServiceErrors, Passing
  <2>2. CASE error \in Named
    <3>1. Truthful(call, past, Failure(error).code, Failure(error).status)
      BY <1>1, <1>3, <1>5, <2>1, <2>2, RefusedInTruth
    <3> QED
      BY <1>2, <1>5, <3>1, ReplyKeeps
  <2>3. CASE error \notin Named
    <3>1. /\ Failure(error).code \notin Named \cup Meant
          /\ Failure(error).status = ContractStatus(Failure(error).code)
      BY <2>1, <2>3, FailureCodes
    <3>2. Truthful(call, past, Failure(error).code, Failure(error).status)
      BY <3>1 DEF Truthful, Named, Meant
    <3> QED
      BY <1>2, <1>5, <3>2, ReplyKeeps
  <2> QED
    BY <2>2, <2>3
<1> QED
  BY <1>4, <1>5 DEF Serve

LEMMA BreakKeeps ==
  ASSUME DecodingInv, HandlingInv, call # Null, Break PROVE HandlingInv'
<1>1. PICK error \in Technical : Reply(Failure(IF At("Authenticate") THEN "connection" ELSE error))
  BY DEF Break
<1>2. PICK e \in Technical : e = (IF At("Authenticate") THEN "connection" ELSE error)
  BY DEF Technical
<1>3. Failure(e).code \in {"SERVICE_UNAVAILABLE", "INTERNAL_ERROR"}
      /\ Failure(e).status = ContractStatus(Failure(e).code)
      /\ (e = "connection" => Failure(e).code = "SERVICE_UNAVAILABLE")
  <2>1. Failure(e).status = ContractStatus(Failure(e).code)
    BY FailureCodes DEF AllErrors
  <2>2. CASE e = "connection" \/ e = "deadline"
    BY <2>1, <2>2, ConstraintCodes DEF Failure, Answer, Missing, NotFound, Conflicts
  <2>3. CASE e = "other"
    BY <2>1, <2>3, ConstraintCodes DEF Failure, Answer, Missing, NotFound, Conflicts
  <2> QED
    BY <2>2, <2>3 DEF Technical
<1>4. Truthful(call, past, Failure(e).code, Failure(e).status)
  BY <1>3 DEF Truthful
<1>5. Discreet(call, past, Failure(e).code)
  <2>1. CASE At("Authenticate")
    BY <1>2, <1>3, <2>1 DEF Discreet
  <2>2. CASE ~At("Authenticate")
    BY <1>3, <2>2, Passing DEF Discreet, Break, At, OrderedAt, Shown, Public
  <2> QED
    BY <2>1, <2>2
<1> QED
  BY <1>1, <1>2, <1>4, <1>5, ReplyKeeps

LEMMA SetActiveKeeps == ASSUME DecodingInv, HandlingInv, SetActive PROVE HandlingInv'
<1>1. /\ active' \in BOOLEAN /\ UNCHANGED <<call, stage, reply, decoding>>
      /\ past' = IF call = Null THEN past ELSE past \cup {active'}
  BY DEF SetActive, HandlingInv
<1>2. ASSUME NEW x, Shown(x) PROVE Shown(x)'
  BY <1>1, <1>2 DEF Shown, Acceptable, decoding
<1>3. OnTheWay'
  BY <1>1, <1>2 DEF OnTheWay, HandlingInv
<1> QED
  BY <1>1, <1>3 DEF HandlingInv, Truthful, Discreet

-----------------------------------------------------------------------------
(***************************************************************************)
(* The theorems about the handlers.                                        *)
(***************************************************************************)
LEMMA HandlingAlways == EndpointSpec => []HandlingInv
<1>1. EndpointInit => HandlingInv
  BY DEF EndpointInit, HandlingInv, OnTheWay
<1>2. DecodingInv /\ HandlingInv /\ [EndpointNext]_endpointVars => HandlingInv'
  <2> SUFFICES ASSUME DecodingInv, HandlingInv, [EndpointNext]_endpointVars PROVE HandlingInv'
    OBVIOUS
  <2>1. CASE Receive
    <3>1. /\ call' \in Calls /\ stage' = 1 /\ past' = {active} /\ UNCHANGED <<active, reply>>
          /\ reply = Null
      BY <2>1 DEF Receive
    <3>2. Ordered(call'.route)
      BY <3>1, CallsAssumption, PathsOrdered
    <3>3. OnTheWay'
      BY <3>1, <3>2 DEF OnTheWay, Ordered, HandlingInv
    <3> QED
      BY <3>1, <3>3 DEF HandlingInv
  <2>2. CASE Finish
    BY <2>2 DEF Finish, HandlingInv, OnTheWay
  <2>3. CASE UNCHANGED endpointVars
    <3>1. UNCHANGED <<call, stage, active, past, reply, decoding>>
      BY <2>3 DEF endpointVars, handling
    <3>2. ASSUME NEW x, Shown(x) PROVE Shown(x)'
      BY <3>1, <3>2 DEF Shown, Acceptable, decoding
    <3>3. OnTheWay'
      BY <3>1, <3>2 DEF OnTheWay, HandlingInv
    <3> QED
      BY <3>1, <3>3 DEF HandlingInv, Truthful, Discreet
  <2>4. CASE SetActive
    BY <2>4, SetActiveKeeps
  <2>5. CASE /\ call # Null
             /\ \/ Authenticate \/ CheckUser \/ CheckPermission
                \/ NoQuery \/ TargetId \/ Filter \/ ReadBody \/ Decoded \/ Validate \/ Serve
                \/ Break
    BY <2>5, AuthenticateKeeps, CheckUserKeeps, CheckPermissionKeeps, FaultsKeep, ReadBodyKeeps,
       DecodedKeeps, ServeKeeps, BreakKeeps
  <2> QED
    BY <2>1, <2>2, <2>3, <2>4, <2>5
       DEF EndpointNext, Authenticate, CheckUser, CheckPermission, NoQuery, TargetId, Filter,
           ReadBody, Decoded, Validate, Serve, Break, At
<1> QED
  BY <1>1, <1>2, DecodingAlways, PTL DEF EndpointSpec

\* A service runs only calls that are right in every part, from an account that was active
\* while the request was in service and has the permission this very call needs (the
\* handlers, rbac.Check).
THEOREM ServedCallsGood == EndpointSpec => []ServedCallsAreGood
<1>1. DecodingInv /\ HandlingInv => ServedCallsAreGood
  BY ServedGood DEF ServedCallsAreGood
<1> QED
  BY <1>1, DecodingAlways, HandlingAlways, PTL

\* Whatever a client is refused for is so, and has the status the contract gives it
\* (fail, DecodeObject); whoever is active and holds the permission of his call is forbidden
\* only, as a technician, what may be another's (assets.Get, workorders.Get, List, mutate).
THEOREM RefusalsTrue == EndpointSpec => []RefusalsAreTrue
<1>1. HandlingInv => RefusalsAreTrue
  BY DEF HandlingInv, RefusalsAreTrue, Truthful
<1> QED
  BY <1>1, HandlingAlways, PTL

\* Nobody learns from a refusal what he may not know: whoever is not authenticated learns
\* nothing, and whoever lacks the permission of a call learns that (the order of the
\* handlers).
THEOREM StrangersDoNotLearn == EndpointSpec => []StrangersLearnNothing
<1>1. HandlingInv => StrangersLearnNothing
  BY DEF HandlingInv, StrangersLearnNothing, Discreet
<1> QED
  BY <1>1, HandlingAlways, PTL
=============================================================================
