SPECIFICATION FairSpec
CONSTANTS
  Requests = {w1, p1}
  Probes = {p1}
  MaxConns = 1
INVARIANTS
  AnswersTellTheTruth
  DrainedMeansAnswered
PROPERTIES
  LeavesNoTransaction
  RequestsEnd
  Terminates
CHECK_DEADLOCK FALSE
