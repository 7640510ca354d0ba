SPECIFICATION StatsSpec
CONSTANTS
  c1 = c1
  c2 = c2
  c3 = c3
  c4 = c4
  Calls = {c1, c2, c3, c4}
  FailureThreshold = 3
  ResetTimeout = 4
  HalfOpenRequests = 2
  Timeout = 3
  StatBound = 1
  MayPanic = TRUE
  MayReset = TRUE
SYMMETRY Symmetry
INVARIANTS
  StatsTypeOK
  ProbeLimit
  ProbesDecide
  OpenShields
  ResetAtIsRight
