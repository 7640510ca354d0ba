SPECIFICATION Spec
CONSTANTS
  c1 = c1
  Calls = {c1}
  MaxRetries = 1
  Delays = {1}
  SecondaryKey = TRUE
  Faults = {"revoke", "outage"}
  FailureThreshold = 3
  ResetTimeout = 2
  HalfOpenRequests = 1
  Timeout = 1
INVARIANTS
  AuthErrorIsFinal
