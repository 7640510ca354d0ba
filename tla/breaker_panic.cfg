SPECIFICATION Spec
CONSTANTS
  c1 = c1
  c2 = c2
  c3 = c3
  Calls = {c1, c2, c3}
  FailureThreshold = 2
  ResetTimeout = 3
  HalfOpenRequests = 1
  Timeout = 2
  MayPanic = TRUE
  MayReset = FALSE
INVARIANTS
  HalfOpenCanMove
