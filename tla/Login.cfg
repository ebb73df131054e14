SPECIFICATION Spec
CONSTANTS
  Accounts = {a1}
  Passwords = {p1, p2}
  Sessions = {s1}
  Null = Null
  TokenTTL = 4
  Leeway = 3
  Second = 2
  MaxSkew = 2
  Horizon = 10
  MaxTokens = 1
  MaxSecrets = 1
INVARIANTS
  DecidedAtOneMoment
PROPERTIES
  TokensExpire
  TokensLast
