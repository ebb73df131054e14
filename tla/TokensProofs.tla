---------------------------- MODULE TokensProofs ----------------------------
(***************************************************************************)
(* Theorems about Tokens, for every lifetime, tolerance and disagreement   *)
(* of clocks that Tokens assumes.                                          *)
(***************************************************************************)
EXTENDS Tokens, TLAPS

Places == {"idle", "GetLoginUser", "Compare", "Issue", "Verify", "GetCurrentUser"}

Rows == Row \cup {Null}

TypeOK ==
  /\ time \in 0..Horizon /\ secret \in 0..MaxSecrets
  /\ accounts \in [Accounts -> Rows]
  /\ issued \subseteq Token
  /\ pc \in [Sessions -> Places]
  /\ request \in [Sessions -> LoginRequest \cup BearerRequest \cup {Null}]
  /\ row \in [Sessions -> Rows]
  /\ reply \in [Sessions -> Answers \cup {Null}]
  /\ past \in [Sessions -> SUBSET Rows]

\* A token lives as long as its claims say, from a moment near its birth.
Genuine(t) ==
  /\ t.exp = t.iat + TokenTTL
  /\ t.iat <= t.born + MaxSkew /\ t.born < t.iat + Second
  /\ t.born <= time

\* What a request in service knows.
Knows(s) ==
  /\ pc[s] \in {"GetLoginUser", "Compare", "Issue"} => request[s] \in LoginRequest
  /\ pc[s] \in {"Verify", "GetCurrentUser"} =>
       request[s] \in BearerRequest /\ Genuine(request[s].token)
  /\ pc[s] # "idle" => accounts[request[s].sub] \in past[s] /\ reply[s] = Null
  /\ pc[s] \in {"Compare", "Issue"} => row[s] \in past[s]
  /\ pc[s] = "Issue" => row[s] # Null /\ row[s].active /\ row[s].password = request[s].password

\* The part of DecidedAtOneMoment that is about one session.
Decided(s) ==
  /\ reply[s] \in {"TOKEN", "INVALID_CREDENTIALS"} =>
       \E u \in past[s] :
         (reply[s] = "TOKEN") <=>
           (u # Null /\ u.active /\ u.password = request[s].password)
  /\ reply[s] = "AUTHENTICATED" => \E u \in past[s] : u # Null /\ u.active

Inv ==
  /\ TypeOK
  /\ \A t \in issued : Genuine(t)
  /\ \A s \in Sessions : Knows(s) /\ Decided(s)

-----------------------------------------------------------------------------
(***************************************************************************)
(* Whole seconds.                                                          *)
(***************************************************************************)
LEMMA SameQuotient ==
  ASSUME NEW d \in Nat \ {0}, NEW a \in Int, NEW b \in Int, NEW r \in 0 .. d - 1,
         NEW q \in 0 .. d - 1, d * a + r = d * b + q
  PROVE  r = q
<1>1. CASE a = b
  BY <1>1
<1>2. CASE a < b
  <2>1. d * b >= d * a + d
    <3>1. d * (a + 1) = d * a + d
      OBVIOUS
    <3>2. d * (a + 1) <= d * b
      BY <1>2
    <3> QED
      BY <3>1, <3>2
  <2> QED
    BY <2>1
<1>3. CASE b < a
  <2>1. d * a >= d * b + d
    <3>1. d * (b + 1) = d * b + d
      OBVIOUS
    <3>2. d * (b + 1) <= d * a
      BY <1>3
    <3> QED
      BY <3>1, <3>2
  <2> QED
    BY <2>1
<1> QED
  BY <1>1, <1>2, <1>3

LEMMA WholeSeconds ==
  ASSUME NEW n \in Nat
  PROVE  /\ NumericDate(n) \in Int
         /\ NumericDate(n) <= n /\ n < NumericDate(n) + Second
         /\ NumericDate(n + TokenTTL) = NumericDate(n) + TokenTTL
<1>1. /\ Second \in Nat \ {0} /\ TokenTTL \in Nat /\ TokenTTL % Second = 0
  BY DurationAssumption
<1>2. ASSUME NEW x \in Nat
      PROVE  /\ x % Second \in 0 .. Second - 1 /\ x \div Second \in Int
             /\ x = Second * (x \div Second) + (x % Second)
  BY <1>1
<1>3. (n + TokenTTL) % Second = n % Second
  <2>1. n + TokenTTL = Second * ((n + TokenTTL) \div Second) + ((n + TokenTTL) % Second)
    BY <1>1, <1>2
  <2>2. n + TokenTTL = Second * ((n \div Second) + (TokenTTL \div Second)) + (n % Second)
    <3>1. Second * ((n \div Second) + (TokenTTL \div Second))
            = Second * (n \div Second) + Second * (TokenTTL \div Second)
      BY <1>1, <1>2
    <3>2. n = Second * (n \div Second) + (n % Second) /\ TokenTTL = Second * (TokenTTL \div Second)
      BY <1>1, <1>2
    <3> QED
      BY <1>1, <1>2, <3>1, <3>2
  <2>3. /\ (n + TokenTTL) % Second \in 0 .. Second - 1 /\ n % Second \in 0 .. Second - 1
        /\ (n + TokenTTL) \div Second \in Int
        /\ (n \div Second) + (TokenTTL \div Second) \in Int
    <3>1. n + TokenTTL \in Nat
      BY <1>1
    <3> QED
      BY <1>1, <1>2, <3>1
  <2> DEFINE a == (n + TokenTTL) \div Second
             b == (n \div Second) + (TokenTTL \div Second)
             r == (n + TokenTTL) % Second
             q == n % Second
  <2>4. Second * a + r = Second * b + q
    BY <2>1, <2>2
  <2>5. a \in Int /\ b \in Int /\ r \in 0 .. Second - 1 /\ q \in 0 .. Second - 1
    BY <2>3
  <2> HIDE DEF a, b, r, q
  <2>6. r = q
    BY <1>1, <2>4, <2>5, SameQuotient
  <2> QED
    BY <2>6 DEF r, q
<1> QED
  BY <1>1, <1>2, <1>3 DEF NumericDate

LEMMA ClaimsGenuine ==
  ASSUME NEW a \in Accounts, NEW now \in Now, time \in 0..Horizon, secret \in 0..MaxSecrets
  PROVE  Claims(a, now) \in Token /\ Genuine(Claims(a, now))
<1>1. now \in Nat /\ time <= now /\ now <= time + MaxSkew
  BY DurationAssumption DEF Now
<1>2. /\ NumericDate(now) \in Int /\ NumericDate(now) <= now /\ now < NumericDate(now) + Second
      /\ NumericDate(now + TokenTTL) = NumericDate(now) + TokenTTL
  BY <1>1, WholeSeconds
<1>3. Claims(a, now) \in Token
  BY <1>2, DurationAssumption DEF Claims, Token
<1>4. Genuine(Claims(a, now))
  BY <1>1, <1>2, DurationAssumption DEF Claims, Genuine
<1> QED
  BY <1>3, <1>4

-----------------------------------------------------------------------------
(***************************************************************************)
(* The invariant.  A step of a request disturbs that request only.         *)
(***************************************************************************)
OthersKeep(s) ==
  \A t \in Sessions \ {s} :
    /\ pc'[t] = pc[t] /\ request'[t] = request[t] /\ row'[t] = row[t]
    /\ reply'[t] = reply[t] /\ past'[t] = past[t]

LEMMA OneSession ==
  ASSUME Inv, NEW s \in Sessions, TypeOK', Knows(s)', Decided(s)', OthersKeep(s),
         UNCHANGED <<time, accounts>>, \A t \in issued' : Genuine(t)
  PROVE  Inv'
<1>1. ASSUME NEW t \in issued' PROVE Genuine(t)'
  BY DEF Genuine
<1>2. ASSUME NEW t \in Sessions PROVE Knows(t)' /\ Decided(t)'
  <2>1. CASE t = s
    BY <2>1
  <2>2. CASE t # s
    <3>1. Knows(t) /\ Decided(t)
      BY DEF Inv
    <3>2. /\ pc'[t] = pc[t] /\ request'[t] = request[t] /\ row'[t] = row[t]
          /\ reply'[t] = reply[t] /\ past'[t] = past[t]
      BY <2>2 DEF OthersKeep
    <3>3. Knows(t)'
      BY <3>1, <3>2 DEF Knows, Genuine
    <3>4. Decided(t)'
      BY <3>1, <3>2 DEF Decided
    <3> QED
      BY <3>3, <3>4
  <2> QED
    BY <2>1, <2>2
<1> QED
  BY <1>1, <1>2 DEF Inv

LEMMA InitInv == Init => Inv
<1> SUFFICES ASSUME Init PROVE Inv
  OBVIOUS
<1>1. TypeOK
  BY DurationAssumption DEF Init, TypeOK, Rows, Places
<1>2. ASSUME NEW s \in Sessions PROVE Knows(s) /\ Decided(s)
  BY NullAssumption DEF Init, Answers, Knows, Decided
<1> QED
  BY <1>1, <1>2 DEF Inv, Init

LEMMA ArriveInv ==
  ASSUME Inv, NEW s \in Sessions, NEW r, NEW place \in Places, Arrive(s, r), Goto(s, place),
         \/ place = "GetLoginUser" /\ r \in LoginRequest
         \/ place = "Verify" /\ r \in BearerRequest /\ Genuine(r.token)
  PROVE  Inv'
<1>1. r.sub \in Accounts
  BY DEF LoginRequest, BearerRequest
<1>2. TypeOK'
  BY <1>1 DEF Inv, TypeOK, Arrive, Goto, Rows
<1>3. /\ pc'[s] = place /\ request'[s] = r /\ past'[s] = {accounts[r.sub]} /\ reply'[s] = Null
      /\ UNCHANGED <<time, accounts, issued>>
  BY DEF Inv, TypeOK, Arrive, Goto
<1>4. Knows(s)'
  BY <1>3 DEF Knows, Genuine
<1>5. Decided(s)'
  BY <1>3, NullAssumption DEF Decided, Answers
<1>6. OthersKeep(s)
  BY DEF Inv, TypeOK, Arrive, Goto, OthersKeep
<1> QED
  BY <1>2, <1>3, <1>4, <1>5, <1>6, OneSession DEF Inv

LEMMA ReceiveInv ==
  ASSUME Inv, NEW s \in Sessions, ReceiveLogin(s) \/ ReceiveBearer(s)
  PROVE  Inv'
<1>1. CASE ReceiveLogin(s)
  <2>1. PICK a \in Accounts, p \in Passwords :
          Arrive(s, [op |-> "Login", sub |-> a, password |-> p])
    BY <1>1 DEF ReceiveLogin
  <2>2. [op |-> "Login", sub |-> a, password |-> p] \in LoginRequest
    BY DEF LoginRequest
  <2> QED
    BY <1>1, <2>1, <2>2, ArriveInv DEF ReceiveLogin, Places
<1>2. CASE ReceiveBearer(s)
  <2>1. PICK t \in issued : Arrive(s, [op |-> "Bearer", sub |-> t.sub, token |-> t])
    BY <1>2 DEF ReceiveBearer
  <2>2. /\ [op |-> "Bearer", sub |-> t.sub, token |-> t] \in BearerRequest
        /\ Genuine(t)
    BY DEF Inv, TypeOK, BearerRequest, Token
  <2> QED
    BY <1>2, <2>1, <2>2, ArriveInv DEF ReceiveBearer, Places
<1> QED
  BY <1>1, <1>2

LEMMA GetLoginUserInv ==
  ASSUME Inv, NEW s \in Sessions, GetLoginUser(s)
  PROVE  Inv'
<1>1. Knows(s) /\ Decided(s)
  BY DEF Inv
<1>2. request[s].sub \in Accounts
  BY <1>1 DEF GetLoginUser, At, Knows, LoginRequest
<1>3. TypeOK'
  BY <1>2 DEF Inv, TypeOK, GetLoginUser, Goto, Places
<1>4. /\ pc'[s] = "Compare" /\ row'[s] = accounts[request[s].sub]
      /\ pc[s] = "GetLoginUser"
      /\ UNCHANGED <<time, accounts, issued, request, reply, past>>
  BY DEF Inv, TypeOK, GetLoginUser, Goto, At
<1>5. Knows(s)'
  BY <1>1, <1>4 DEF Knows
<1>6. Decided(s)'
  BY <1>1, <1>4 DEF Decided
<1>7. OthersKeep(s)
  BY DEF Inv, TypeOK, GetLoginUser, Goto, OthersKeep
<1> QED
  BY <1>3, <1>4, <1>5, <1>6, <1>7, OneSession DEF Inv

\* The end of a request: only its answer is left to be right.
LEMMA AnswerInv ==
  ASSUME Inv, NEW s \in Sessions, NEW code \in Answers, Answer(s, code),
         UNCHANGED <<time, accounts, secret, request, row, past>>,
         issued' \subseteq Token, \A t \in issued' : Genuine(t), Decided(s)'
  PROVE  Inv'
<1>1. TypeOK'
  BY DEF Inv, TypeOK, Answer, Goto, Places
<1>2. pc'[s] = "idle"
  BY DEF Inv, TypeOK, Answer, Goto
<1>3. Knows(s)'
  BY <1>2 DEF Knows
<1>4. OthersKeep(s)
  BY DEF Inv, TypeOK, Answer, Goto, OthersKeep
<1> QED
  BY <1>1, <1>3, <1>4, OneSession

LEMMA CompareInv ==
  ASSUME Inv, NEW s \in Sessions, Compare(s)
  PROVE  Inv'
<1>1. Knows(s) /\ Decided(s) /\ pc[s] = "Compare" /\ row[s] \in past[s]
  BY DEF Inv, Compare, At, Knows
<1>2. CASE Credentials(row[s], request[s].password) /\ Goto(s, "Issue") /\ UNCHANGED reply
  <2>1. /\ pc'[s] = "Issue" /\ UNCHANGED <<time, accounts, issued, request, row, reply, past>>
    BY <1>2 DEF Inv, TypeOK, Compare, Goto
  <2>2. TypeOK'
    BY <1>2 DEF Inv, TypeOK, Compare, Goto, Places
  <2>3. Knows(s)'
    BY <1>1, <1>2, <2>1 DEF Knows, Credentials
  <2>4. Decided(s)'
    BY <1>1, <2>1 DEF Decided
  <2>5. OthersKeep(s)
    BY <1>2 DEF Inv, TypeOK, Compare, Goto, OthersKeep
  <2> QED
    BY <2>1, <2>2, <2>3, <2>4, <2>5, OneSession DEF Inv
<1>3. CASE ~Credentials(row[s], request[s].password) /\ Answer(s, "INVALID_CREDENTIALS")
  <2>1. UNCHANGED <<time, accounts, secret, issued, request, row, past>>
    BY DEF Compare
  <2>2. reply'[s] = "INVALID_CREDENTIALS"
    BY <1>3 DEF Inv, TypeOK, Answer
  <2>3. Decided(s)'
    BY <1>1, <1>3, <2>1, <2>2 DEF Decided, Credentials
  <2> QED
    BY <1>3, <2>1, <2>3, AnswerInv DEF Inv, TypeOK, Answers
<1> QED
  BY <1>2, <1>3 DEF Compare

LEMMA IssueInv ==
  ASSUME Inv, NEW s \in Sessions, Issue(s)
  PROVE  Inv'
<1>1. Knows(s) /\ pc[s] = "Issue"
  BY DEF Inv, Issue, At
<1>2. PICK now \in Now : issued' = issued \cup {Claims(request[s].sub, now)}
  BY DEF Issue
<1>3. request[s].sub \in Accounts
  BY <1>1 DEF Knows, LoginRequest
<1>4. Claims(request[s].sub, now) \in Token /\ Genuine(Claims(request[s].sub, now))
  BY <1>3, ClaimsGenuine DEF Inv, TypeOK
<1>5. UNCHANGED <<time, accounts, secret, request, row, past>> /\ Answer(s, "TOKEN")
  BY DEF Issue
<1>6. reply'[s] = "TOKEN"
  BY <1>5 DEF Inv, TypeOK, Answer
<1>7. Decided(s)'
  BY <1>1, <1>5, <1>6 DEF Decided, Knows
<1> QED
  BY <1>2, <1>4, <1>5, <1>7, AnswerInv DEF Inv, TypeOK, Answers

LEMMA RefusalInv ==
  ASSUME Inv, NEW s \in Sessions, NEW code \in {"UNAUTHENTICATED", "SERVICE_UNAVAILABLE"},
         Answer(s, code), UNCHANGED <<time, accounts, secret, issued, request, row, past>>
  PROVE  Inv'
<1>1. reply'[s] = code
  BY DEF Inv, TypeOK, Answer
<1>2. Decided(s)'
  BY <1>1 DEF Decided
<1> QED
  BY <1>2, AnswerInv DEF Inv, TypeOK, Answers

LEMMA VerifyInv ==
  ASSUME Inv, NEW s \in Sessions, Verify(s)
  PROVE  Inv'
<1>1. UNCHANGED <<time, accounts, secret, issued, request, row, past>> /\ pc[s] = "Verify"
  BY DEF Verify, At
<1>2. CASE Goto(s, "GetCurrentUser") /\ UNCHANGED reply
  <2>1. pc'[s] = "GetCurrentUser"
    BY <1>2 DEF Inv, TypeOK, Goto
  <2>2. TypeOK'
    BY <1>1, <1>2 DEF Inv, TypeOK, Goto, Places
  <2>3. Knows(s) /\ Decided(s)
    BY DEF Inv
  <2>4. Knows(s)'
    BY <1>1, <1>2, <2>1, <2>3 DEF Knows, Genuine
  <2>5. Decided(s)'
    BY <1>1, <1>2, <2>3 DEF Decided
  <2>6. OthersKeep(s)
    BY <1>1, <1>2 DEF Inv, TypeOK, Goto, OthersKeep
  <2> QED
    BY <1>1, <2>2, <2>4, <2>5, <2>6, OneSession DEF Inv
<1>3. CASE Answer(s, "UNAUTHENTICATED")
  BY <1>1, <1>3, RefusalInv
<1> QED
  BY <1>2, <1>3 DEF Verify

LEMMA GetCurrentUserInv ==
  ASSUME Inv, NEW s \in Sessions, GetCurrentUser(s)
  PROVE  Inv'
<1>1. UNCHANGED <<time, accounts, secret, issued, request, row, past>>
  BY DEF GetCurrentUser
<1>2. CASE Current(accounts[request[s].sub])
  <2>1. Answer(s, "AUTHENTICATED")
    BY <1>2 DEF GetCurrentUser
  <2>2. reply'[s] = "AUTHENTICATED"
    BY <2>1 DEF Inv, TypeOK, Answer
  <2>3. accounts[request[s].sub] \in past[s]
    BY DEF Inv, Knows, GetCurrentUser, At
  <2>4. Decided(s)'
    BY <1>1, <1>2, <2>2, <2>3 DEF Decided, Current
  <2> QED
    BY <1>1, <2>1, <2>4, AnswerInv DEF Inv, TypeOK, Answers
<1>3. CASE ~Current(accounts[request[s].sub])
  BY <1>1, <1>3, RefusalInv DEF GetCurrentUser
<1> QED
  BY <1>2, <1>3

LEMMA EnvironmentInv ==
  ASSUME Inv, Tick \/ Administer \/ RotateSecret
  PROVE  Inv'
<1>1. CASE Tick
  <2>1. TypeOK'
    BY <1>1, DurationAssumption DEF Inv, TypeOK, Tick
  <2>2. ASSUME NEW t, t.born \in 0..Horizon, Genuine(t) PROVE Genuine(t)'
    BY <1>1, <2>2, DurationAssumption DEF Tick, Genuine, Inv, TypeOK
  <2>3. ASSUME NEW t \in issued' PROVE Genuine(t)'
    BY <1>1, <2>2 DEF Inv, TypeOK, Tick, Token
  <2>4. ASSUME NEW s \in Sessions PROVE Knows(s)' /\ Decided(s)'
    <3>1. Knows(s) /\ Decided(s)
      BY DEF Inv
    <3>2. UNCHANGED <<accounts, pc, request, row, reply, past>>
      BY <1>1 DEF Tick
    <3>3. pc[s] \in {"Verify", "GetCurrentUser"} =>
            request[s] \in BearerRequest /\ Genuine(request[s].token)'
      <4> SUFFICES ASSUME pc[s] \in {"Verify", "GetCurrentUser"}
                   PROVE  request[s] \in BearerRequest /\ Genuine(request[s].token)'
        OBVIOUS
      <4>1. request[s] \in BearerRequest /\ Genuine(request[s].token)
        BY <3>1 DEF Knows
      <4>2. request[s].token.born \in 0..Horizon
        BY <4>1 DEF BearerRequest, Token
      <4>3. time' = time + 1 /\ time \in Nat /\ UNCHANGED request
        BY <1>1, DurationAssumption DEF Tick, Inv, TypeOK
      <4>4. Genuine(request[s].token)'
        BY <4>1, <4>2, <4>3, DurationAssumption DEF Genuine
      <4> QED
        BY <4>1, <4>4
    <3>4. Knows(s)'
      BY <3>1, <3>2, <3>3 DEF Knows, Genuine
    <3>5. Decided(s)'
      BY <3>1, <3>2 DEF Decided
    <3> QED
      BY <3>4, <3>5
  <2> QED
    BY <2>1, <2>3, <2>4 DEF Inv
<1>2. CASE Administer
  <2>1. PICK a \in Accounts, u \in Row :
          /\ accounts' = [accounts EXCEPT ![a] = u]
          /\ past' = [s \in Sessions |-> IF ~At(s, "idle") /\ request[s].sub = a
                                           THEN past[s] \cup {u} ELSE past[s]]
    BY <1>2 DEF Administer
  <2>2. UNCHANGED <<time, secret, issued, pc, request, row, reply>>
    BY <1>2 DEF Administer
  <2>3. TypeOK'
    BY <2>1, <2>2 DEF Inv, TypeOK, Rows
  <2>4. ASSUME NEW s \in Sessions PROVE Knows(s)' /\ Decided(s)'
    <3>1. Knows(s) /\ Decided(s)
      BY DEF Inv
    <3>2. past[s] \subseteq past'[s]
      BY <2>1
    <3>3. pc[s] # "idle" => request[s].sub \in Accounts
      BY <3>1 DEF Knows, LoginRequest, BearerRequest, Inv, TypeOK, Places
    <3>4. pc[s] # "idle" => accounts'[request[s].sub] \in past'[s]
      BY <2>1, <3>1, <3>3 DEF Knows, At, Inv, TypeOK
    <3>5. Knows(s)'
      BY <2>2, <3>1, <3>2, <3>4 DEF Knows, Genuine
    <3>6. Decided(s)'
      BY <2>2, <3>1, <3>2 DEF Decided
    <3> QED
      BY <3>5, <3>6
  <2> QED
    BY <2>2, <2>3, <2>4 DEF Inv, Genuine
<1>3. CASE RotateSecret
  <2>1. TypeOK'
    BY <1>3, DurationAssumption DEF Inv, TypeOK, RotateSecret, Places
  <2>2. ASSUME NEW s \in Sessions PROVE Knows(s)' /\ Decided(s)'
    <3>1. pc'[s] = "idle" /\ reply'[s] \in {reply[s], Null}
          /\ UNCHANGED <<request, past>> /\ Decided(s)
      BY <1>3 DEF RotateSecret, Inv
    <3>2. Decided(s)'
      BY <3>1, NullAssumption DEF Decided, Answers
    <3> QED
      BY <3>1, <3>2 DEF Knows
  <2> QED
    BY <1>3, <2>1, <2>2 DEF Inv, Genuine, RotateSecret
<1> QED
  BY <1>1, <1>2, <1>3

LEMMA StepInv ==
  ASSUME Inv, [Next]_vars
  PROVE  Inv'
<1>1. ASSUME NEW s \in Sessions, Handle(s) PROVE Inv'
  <2>1. CASE Unavailable(s)
    BY <2>1, RefusalInv DEF Unavailable
  <2> QED
    BY <1>1, <2>1, ReceiveInv, GetLoginUserInv, CompareInv, IssueInv, VerifyInv,
       GetCurrentUserInv DEF Handle
<1>2. CASE UNCHANGED vars
  BY <1>2 DEF vars, Inv, TypeOK, Genuine, Knows, Decided
<1> QED
  BY <1>1, <1>2, EnvironmentInv DEF Next

-----------------------------------------------------------------------------
\* However many requests, accounts and rotations: a login and an authentication are
\* decided by one state of the account, between the request and its answer.
THEOREM OneMoment == Spec => []DecidedAtOneMoment
<1>1. Inv => DecidedAtOneMoment
  BY DEF Inv, Decided, DecidedAtOneMoment
<1> QED
  BY InitInv, StepInv, <1>1, PTL DEF Spec

\* What Verify answers, in terms of the real age of the token.
LEMMA Ages ==
  ASSUME Inv, Next, NEW s \in Sessions
  PROVE  LET t == request[s].token IN
         /\ Passes(s) => t.secret = secret /\ time < t.born + TokenTTL + Leeway + MaxSkew
         /\ Fails(s) => t.secret # secret \/ time >= t.born + TokenTTL
<1> DEFINE t == request[s].token
<1> SUFFICES ASSUME pc[s] = "Verify", pc'[s] = "GetCurrentUser" \/ reply'[s] = "UNAUTHENTICATED"
             PROVE  /\ pc'[s] = "GetCurrentUser" =>
                         t.secret = secret /\ time < t.born + TokenTTL + Leeway + MaxSkew
                    /\ reply'[s] = "UNAUTHENTICATED" =>
                         t.secret # secret \/ time >= t.born + TokenTTL
  BY DEF Passes, Fails, At
<1>1. Verify(s)
  <2>1. reply[s] = Null /\ "UNAUTHENTICATED" # Null
    BY NullAssumption DEF Inv, Knows, Answers
  <2>2. ASSUME NEW r \in Sessions, Handle(r) PROVE r = s
    <3>1. SUFFICES ASSUME r # s PROVE pc'[s] = pc[s] /\ reply'[s] = reply[s]
      BY <2>1
    <3> QED
      BY <2>2, <3>1 DEF Handle, ReceiveLogin, ReceiveBearer, Arrive, GetLoginUser, Compare, Issue,
         Verify, GetCurrentUser, Unavailable, Answer, Goto, Inv, TypeOK
  <2>3. ~Tick /\ ~Administer /\ ~RotateSecret
    BY <2>1 DEF Tick, Administer, RotateSecret, At
  <2>4. Handle(s)
    BY <2>2, <2>3 DEF Next
  <2> QED
    BY <2>4 DEF Handle, ReceiveLogin, ReceiveBearer, GetLoginUser, Compare, Issue, GetCurrentUser,
       Unavailable, At
<1>2. PICK now \in Now :
        \/ Valid(t, now) /\ Goto(s, "GetCurrentUser") /\ UNCHANGED reply
        \/ ~Valid(t, now) /\ Answer(s, "UNAUTHENTICATED")
  BY <1>1 DEF Verify
<1>3. Genuine(t) /\ t \in Token
  BY DEF Inv, Knows, BearerRequest
<1>4. /\ t.iat \in Int /\ t.exp \in Int /\ t.born \in Int /\ time \in Int /\ now \in Int
      /\ time <= now /\ now <= time + MaxSkew
      /\ t.exp = t.iat + TokenTTL /\ t.born <= time
      /\ t.iat <= t.born + MaxSkew /\ t.born < t.iat + Second
  BY <1>3, DurationAssumption DEF Token, Genuine, Now, Inv, TypeOK
<1>5. CASE Valid(t, now) /\ Goto(s, "GetCurrentUser") /\ UNCHANGED reply
  <2>1. reply'[s] # "UNAUTHENTICATED"
    BY <1>5, NullAssumption DEF Inv, Knows, Answers
  <2>2. t.secret = secret /\ now < t.exp + Leeway
    BY <1>5 DEF Valid, InTime
  <2>3. time < t.born + TokenTTL + Leeway + MaxSkew
    BY <1>4, <2>2, DurationAssumption
  <2> QED
    BY <2>1, <2>2, <2>3
<1>6. CASE ~Valid(t, now) /\ Answer(s, "UNAUTHENTICATED")
  <2>1. pc'[s] # "GetCurrentUser"
    BY <1>6 DEF Answer, Goto, Inv, TypeOK
  <2>2. ASSUME t.secret = secret PROVE now >= t.exp + Leeway
    <3>1. t.iat - Leeway <= now
      BY <1>4, DurationAssumption, SkewAssumption
    <3>2. t.exp - t.iat > 0 /\ t.exp - t.iat <= TokenTTL
      BY <1>4, DurationAssumption
    <3> QED
      BY <1>4, <1>6, <2>2, <3>1, <3>2, DurationAssumption DEF Valid, InTime
  <2>3. ASSUME t.secret = secret PROVE time >= t.born + TokenTTL
    BY <1>4, <2>2, <2>3, DurationAssumption, SkewAssumption
  <2> QED
    BY <2>1, <2>3
<1> HIDE DEF t
<1> QED
  BY <1>2, <1>5, <1>6

\* For every tolerance and every disagreement of the clocks within it, a token is taken
\* no longer than its lifetime and both of them, and never under another secret.
THEOREM Expiry == Spec => TokensExpire
<1>1. Inv /\ [Next]_vars =>
        [\A s \in Sessions : Passes(s) =>
           LET t == request[s].token IN
             t.secret = secret /\ time < t.born + TokenTTL + Leeway + MaxSkew]_vars
  BY Ages
<1> QED
  BY InitInv, StepInv, <1>1, PTL DEF Spec, TokensExpire

\* And it is refused by no replica before its lifetime is over.
THEOREM Lifetime == Spec => TokensLast
<1>1. Inv /\ [Next]_vars =>
        [\A s \in Sessions : Fails(s) =>
           LET t == request[s].token IN
             t.secret # secret \/ time >= t.born + TokenTTL]_vars
  BY Ages
<1> QED
  BY InitInv, StepInv, <1>1, PTL DEF Spec, TokensLast
=============================================================================
