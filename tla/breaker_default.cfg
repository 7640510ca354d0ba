SPECIFICATION StatsFairSpec
CONSTANTS
  c1 = c1
  c2 = c2
  c3 = c3
  Calls = {c1, c2, c3}
  FailureThreshold = 2
  ResetTimeout = 4
  HalfOpenRequests = 1
  Timeout = 3
  StatBound = 6
  MayPanic = FALSE
  MayReset = FALSE
INVARIANTS
  HalfOpenCanMove
  StatsAddUp
PROPERTIES
  OpenHolds
  TripsAtThreshold
  ThreeStates
  OpenIsProbed
  Recovery
