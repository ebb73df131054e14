SPECIFICATION Spec
CONSTANTS
  Requests = {w1}
  Probes = {}
  MaxConns = 1
INVARIANTS
  DoubtIsReported
CHECK_DEADLOCK FALSE
