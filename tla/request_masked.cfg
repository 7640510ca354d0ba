SPECIFICATION Spec
CONSTANTS
  c1 = c1
  c2 = c2
  Calls = {c1, c2}
  MaxRetries = 1
  Delays = {1}
  SecondaryKey = TRUE
  Faults = {"outage"}
  FailureThreshold = 2
  ResetTimeout = 2
  HalfOpenRequests = 1
  Timeout = 1
INVARIANTS
  RejectedMeansUntouched
