------------------------------ MODULE Decoding ------------------------------
(***************************************************************************)
(* DecodeObject of internal/platform/httpx/decode.go: the body of a        *)
(* request is read once, member by member, into the values of the fields   *)
(* that the route knows.                                                   *)
(***************************************************************************)
EXTENDS Naturals, Sequences

CONSTANTS
  Keys,     \* names of members
  Values    \* what their values say

VARIABLES
  body,     \* the body in hand
  fields,   \* the fields it may have
  pos,      \* the next member
  seen,     \* the keys of the members before it
  invalid,  \* whether one of them was unknown or null
  values,   \* the values of the others
  decoded   \* "reading", or the outcome

decoding == <<body, fields, pos, seen, invalid, values, decoded>>

Kinds == {"string", "bool", "null", "other", "malformed"}

Member == [key: Keys, kind: Kinds, value: Values]

\* media: the content type is application/json; size: "fits", "large", or "broken" when the
\* connection fails; object: the text is UTF-8 and begins an object; end: what follows
\* the last member, "closed", "open" when the brace is missing, or "trailing" text.
Body == [media: BOOLEAN, size: {"fits", "large", "broken"}, object: BOOLEAN,
         members: Seq(Member), end: {"closed", "open", "trailing"}]

NoValues == [k \in {} |-> ""]

\* The checks before the first member.
Envelope(b) ==
  CASE ~b.media -> "UNSUPPORTED_MEDIA_TYPE"
    [] b.media /\ b.size = "large" -> "PAYLOAD_TOO_LARGE"
    [] b.media /\ (b.size = "broken" \/ (b.size = "fits" /\ ~b.object)) -> "INVALID_JSON"
    [] OTHER -> "reading"

Open(b, schema) ==
  /\ body' = b /\ fields' = schema
  /\ pos' = 1 /\ seen' = {} /\ invalid' = FALSE /\ values' = NoValues
  /\ decoded' = Envelope(b)

\* Variant: only the keys of known fields are remembered.
KnownOnly(key) == seen \cup ({key} \cap DOMAIN fields)

Remember(key) == seen \cup {key}

\* A repeated key, known or not, a value that is no JSON, or one of the wrong type.
Bad(m) ==
  \/ m.key \in seen \/ m.kind = "malformed"
  \/ m.key \in DOMAIN fields /\ m.kind \notin {fields[m.key], "null"}

\* Unknown and null members are only noted: what follows them may still be no JSON.
Noted(m) == m.key \notin DOMAIN fields \/ m.kind = "null"

AddValue(m) ==
  [k \in DOMAIN values \cup {m.key} |-> IF k = m.key THEN m.value ELSE values[k]]

ReadMember ==
  /\ decoded = "reading" /\ pos <= Len(body.members)
  /\ LET m == body.members[pos] IN
       \/ Bad(m) /\ decoded' = "INVALID_JSON" /\ UNCHANGED <<pos, seen, invalid, values>>
       \/ /\ ~Bad(m)
          /\ pos' = pos + 1
          /\ seen' = Remember(m.key)
          /\ invalid' = (invalid \/ Noted(m))
          /\ values' = IF Noted(m) THEN values ELSE AddValue(m)
          /\ UNCHANGED decoded
  /\ UNCHANGED <<body, fields>>

Close ==
  /\ decoded = "reading" /\ pos > Len(body.members)
  /\ decoded' = CASE body.end # "closed" -> "INVALID_JSON"
                  [] body.end = "closed" /\ invalid -> "VALIDATION_ERROR"
                  [] body.end = "closed" /\ ~invalid -> "OK"
  /\ UNCHANGED <<body, fields, pos, seen, invalid, values>>

-----------------------------------------------------------------------------
(***************************************************************************)
(* What a body means, said of the whole of it (docs/contracts.md,          *)
(* "Serialization, pagination and validation").                            *)
(***************************************************************************)
Repeats(b) == \E i, j \in 1..Len(b.members) : i # j /\ b.members[i].key = b.members[j].key

WrongType(m, schema) == m.key \in DOMAIN schema /\ m.kind \notin {schema[m.key], "null"}

NoObject(b, schema) ==
  \/ b.size = "broken" \/ ~b.object \/ b.end # "closed" \/ Repeats(b)
  \/ \E i \in 1..Len(b.members) :
       b.members[i].kind = "malformed" \/ WrongType(b.members[i], schema)

Unwelcome(b, schema) ==
  \E i \in 1..Len(b.members) :
    b.members[i].key \notin DOMAIN schema \/ b.members[i].kind = "null"

Meaning(b, schema) ==
  IF ~b.media THEN "UNSUPPORTED_MEDIA_TYPE"
  ELSE IF b.size = "large" THEN "PAYLOAD_TOO_LARGE"
  ELSE IF NoObject(b, schema) THEN "INVALID_JSON"
  ELSE IF Unwelcome(b, schema) THEN "VALIDATION_ERROR" ELSE "OK"

\* A body is judged as a whole, wherever its faults are: 400 for what is not one JSON
\* object of the right types with distinct keys, 422 only for a well-formed object with a
\* member the route does not take, and otherwise every member has reached the handler
\* under its key, and nothing else (DecodeObject).
DecodingExact ==
  decoded # "reading" =>
    /\ decoded = Meaning(body, fields)
    /\ decoded = "OK" =>
         /\ DOMAIN values = {body.members[i].key : i \in 1..Len(body.members)}
         /\ \A i \in 1..Len(body.members) :
              values[body.members[i].key] = body.members[i].value
=============================================================================
