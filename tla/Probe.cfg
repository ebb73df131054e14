SPECIFICATION Spec
CONSTANTS
  Requests = {p1}
  Probes = {p1}
  MaxConns = 1
PROPERTIES
  NotReadyWhileStopping
CHECK_DEADLOCK FALSE
