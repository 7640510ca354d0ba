SPECIFICATION FairSpec
CONSTANTS
  c1 = c1
  c2 = c2
  Calls = {c1, c2}
  MaxRetries = 2
  Delays = {1}
  SecondaryKey = TRUE
  Faults = {"outage", "cancel", "bad request", "redirect", "revoke"}
  FailureThreshold = 1
  ResetTimeout = 2
  HalfOpenRequests = 1
  Timeout = 1
INVARIANTS
  TypeOK
  RetryBudget
  OnlyLossDuplicates
  ServiceIsShielded
PROPERTIES
  KeepsContract
  RequestProgress
  EveryRequestReturns
  ServedWhenHealthy
