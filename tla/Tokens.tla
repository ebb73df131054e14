------------------------------- MODULE Tokens -------------------------------
(***************************************************************************)
(* Login and bearer tokens: internal/auth (service.go, token.go and the    *)
(* Authenticate middleware).  A request reads the clock and the database   *)
(* at different moments, on replicas whose clocks differ, while accounts   *)
(* are deactivated and change their passwords.  A token is never stored:   *)
(* it stays with the client and is judged by what is written in it.        *)
(***************************************************************************)
EXTENDS Integers, FiniteSets

CONSTANTS
  Accounts, Passwords,
  Sessions,     \* requests in service at once
  Null,         \* no account with that address, no token
  TokenTTL,     \* in ticks of the clock
  Leeway,       \* the tolerance of the validator
  Second,       \* ticks in a second: claims are written in whole seconds
  MaxSkew,      \* how far the clocks of the replicas are apart
  Horizon, MaxTokens, MaxSecrets   \* bounds of the model: time, logins, rotations

ASSUME DurationAssumption ==
  /\ TokenTTL \in Nat /\ Leeway \in Nat /\ MaxSkew \in Nat /\ Second \in Nat \ {0}
  /\ Horizon \in Nat /\ MaxTokens \in Nat /\ MaxSecrets \in Nat
  /\ TokenTTL > 0 /\ TokenTTL % Second = 0

\* The clocks of the replicas agree as well as the validator tolerates, less the second
\* that the claims lose.
ASSUME SkewAssumption == MaxSkew + Second <= Leeway + 1

Answers == {"TOKEN", "INVALID_CREDENTIALS", "AUTHENTICATED", "UNAUTHENTICATED",
            "SERVICE_UNAVAILABLE"}

ASSUME NullAssumption == Null \notin [active: BOOLEAN, password: Passwords] /\ Null \notin Answers

VARIABLES
  time,      \* real time
  accounts,  \* per address, the row of the account
  secret,    \* the signing secret of the processes
  issued,    \* the tokens clients have been given, each with the time it was born
  pc,        \* per session, its next step
  request,   \* per session, what it was sent
  row,       \* per session, the row it has read
  reply,     \* per session, its last answer
  past       \* per session, the rows its account has had since the request arrived

vars == <<time, accounts, secret, issued, pc, request, row, reply, past>>

Row == [active: BOOLEAN, password: Passwords]

\* Claims as Issue writes them, and the secret that signs them.
Token == [sub: Accounts, iat: Int, exp: Int, secret: 0..MaxSecrets, born: 0..Horizon]

LoginRequest == [op: {"Login"}, sub: Accounts, password: Passwords]
BearerRequest == [op: {"Bearer"}, sub: Accounts, token: Token]

Init ==
  /\ time = 0 /\ secret = 0 /\ issued = {}
  /\ accounts \in [Accounts -> Row \cup {Null}]
  /\ pc = [s \in Sessions |-> "idle"]
  /\ request = [s \in Sessions |-> Null]
  /\ row = [s \in Sessions |-> Null]
  /\ reply = [s \in Sessions |-> Null]
  /\ past = [s \in Sessions |-> {}]

At(s, place) == pc[s] = place
Goto(s, place) == pc' = [pc EXCEPT ![s] = place]

Answer(s, code) == Goto(s, "idle") /\ reply' = [reply EXCEPT ![s] = code]

\* What the clock of some replica shows.
Now == time .. time + MaxSkew

-----------------------------------------------------------------------------
Arrive(s, r) ==
  /\ request' = [request EXCEPT ![s] = r]
  /\ past' = [past EXCEPT ![s] = {accounts[r.sub]}]
  /\ reply' = [reply EXCEPT ![s] = Null]
  /\ UNCHANGED <<time, accounts, secret, issued, row>>

Logins == {s \in Sessions : pc[s] \in {"GetLoginUser", "Compare", "Issue"}}

ReceiveLogin(s) ==
  /\ At(s, "idle") /\ Cardinality(issued) + Cardinality(Logins) < MaxTokens
  /\ \E a \in Accounts, p \in Passwords : Arrive(s, [op |-> "Login", sub |-> a, password |-> p])
  /\ Goto(s, "GetLoginUser")

ReceiveBearer(s) ==
  /\ At(s, "idle")
  /\ \E t \in issued : Arrive(s, [op |-> "Bearer", sub |-> t.sub, token |-> t])
  /\ Goto(s, "Verify")

(***************************************************************************)
(* Login: the row, then the slow comparison (with a dummy hash when there  *)
(* is no row), then the token.                                             *)
(***************************************************************************)
GetLoginUser(s) ==
  /\ At(s, "GetLoginUser")
  /\ row' = [row EXCEPT ![s] = accounts[request[s].sub]]
  /\ Goto(s, "Compare")
  /\ UNCHANGED <<time, accounts, secret, issued, request, reply, past>>

\* Variant: is_active is left to the requests that use the token.
PasswordOnly(u, password) == u # Null /\ u.password = password

Credentials(u, password) == u # Null /\ u.password = password /\ u.active

Compare(s) ==
  /\ At(s, "Compare")
  /\ \/ /\ Credentials(row[s], request[s].password)
        /\ Goto(s, "Issue") /\ UNCHANGED reply
     \/ ~Credentials(row[s], request[s].password) /\ Answer(s, "INVALID_CREDENTIALS")
  /\ UNCHANGED <<time, accounts, secret, issued, request, row, past>>

\* jwt.NewNumericDate drops the fraction of the second.
NumericDate(t) == t - (t % Second)

Claims(sub, now) ==
  [sub |-> sub, iat |-> NumericDate(now), exp |-> NumericDate(now + TokenTTL),
   secret |-> secret, born |-> time]

Issue(s) ==
  /\ At(s, "Issue")
  /\ \E now \in Now : issued' = issued \cup {Claims(request[s].sub, now)}
  /\ Answer(s, "TOKEN")
  /\ UNCHANGED <<time, accounts, secret, request, row, past>>

(***************************************************************************)
(* Authenticate: the token against the clock, then the account as it is.   *)
(***************************************************************************)
\* Variant: no leeway.
Strict(t, now) == t.iat <= now /\ now < t.exp

\* Variant: the lifetime is checked but not the expiry itself.
LifetimeOnly(t, now) == t.iat - Leeway <= now

\* jwt: used before issued, expired.
InTime(t, now) == t.iat - Leeway <= now /\ now < t.exp + Leeway

Valid(t, now) ==
  /\ t.secret = secret
  /\ InTime(t, now)
  /\ t.exp - t.iat > 0 /\ t.exp - t.iat <= TokenTTL

Verify(s) ==
  /\ At(s, "Verify")
  /\ \E now \in Now :
       \/ Valid(request[s].token, now) /\ Goto(s, "GetCurrentUser") /\ UNCHANGED reply
       \/ ~Valid(request[s].token, now) /\ Answer(s, "UNAUTHENTICATED")
  /\ UNCHANGED <<time, accounts, secret, issued, request, row, past>>

Current(u) == u # Null /\ u.active

GetCurrentUser(s) ==
  /\ At(s, "GetCurrentUser")
  /\ Answer(s, IF Current(accounts[request[s].sub]) THEN "AUTHENTICATED" ELSE "UNAUTHENTICATED")
  /\ UNCHANGED <<time, accounts, secret, issued, request, row, past>>

\* The database does not answer, or the deadline of the request has passed.
Unavailable(s) ==
  /\ pc[s] \in {"GetLoginUser", "Compare", "GetCurrentUser"}
  /\ Answer(s, "SERVICE_UNAVAILABLE")
  /\ UNCHANGED <<time, accounts, secret, issued, request, row, past>>

(***************************************************************************)
(* Around them: time passes, accounts are created and patched, and a new   *)
(* secret comes with a restart, which ends the requests in service.        *)
(***************************************************************************)
Tick == time < Horizon /\ time' = time + 1
          /\ UNCHANGED <<accounts, secret, issued, pc, request, row, reply, past>>

Administer ==
  /\ \E a \in Accounts, u \in Row :
       /\ accounts' = [accounts EXCEPT ![a] = u]
       /\ past' = [s \in Sessions |-> IF ~At(s, "idle") /\ request[s].sub = a
                                        THEN past[s] \cup {u} ELSE past[s]]
  /\ UNCHANGED <<time, secret, issued, pc, request, row, reply>>

RotateSecret ==
  /\ secret < MaxSecrets /\ secret' = secret + 1
  /\ pc' = [s \in Sessions |-> "idle"]
  /\ reply' = [s \in Sessions |-> IF At(s, "idle") THEN reply[s] ELSE Null]
  /\ UNCHANGED <<time, accounts, issued, request, row, past>>

Handle(s) ==
  \/ ReceiveLogin(s) \/ GetLoginUser(s) \/ Compare(s) \/ Issue(s)
  \/ ReceiveBearer(s) \/ Verify(s) \/ GetCurrentUser(s) \/ Unavailable(s)

Next == (\E s \in Sessions : Handle(s)) \/ Tick \/ Administer \/ RotateSecret

Spec == Init /\ [][Next]_vars

-----------------------------------------------------------------------------
\* An answer is the right one for the account as it was at one moment between the
\* request and the reply: a login succeeds only with the password of that moment, and
\* once a deactivation is committed the next request is refused (Login, Current).
DecidedAtOneMoment ==
  \A s \in Sessions :
    /\ reply[s] \in {"TOKEN", "INVALID_CREDENTIALS"} =>
         \E u \in past[s] :
           (reply[s] = "TOKEN") <=>
             (u # Null /\ u.active /\ u.password = request[s].password)
    /\ reply[s] = "AUTHENTICATED" => \E u \in past[s] : u # Null /\ u.active

Passes(s) == At(s, "Verify") /\ pc'[s] = "GetCurrentUser"
Fails(s) == At(s, "Verify") /\ reply'[s] = "UNAUTHENTICATED"

\* However the clocks of the replicas disagree, no token is taken longer than its
\* lifetime, the tolerance and the disagreement together, nor after its secret is gone
\* (Verify).
TokensExpire ==
  [][\A s \in Sessions : Passes(s) =>
       LET t == request[s].token IN
         t.secret = secret /\ time < t.born + TokenTTL + Leeway + MaxSkew]_vars

\* And none is refused before its lifetime is over, from the moment it is issued
\* (Issue against Verify on another replica).
TokensLast ==
  [][\A s \in Sessions : Fails(s) =>
       LET t == request[s].token IN
         t.secret # secret \/ time >= t.born + TokenTTL]_vars
=============================================================================
