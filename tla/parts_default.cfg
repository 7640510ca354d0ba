SPECIFICATION PartsSpec
CONSTANTS
  g1 = g1
  g2 = g2
  Readers = {g1, g2}
  Limit = 6
  m1 = m1
  m2 = m2
  m3 = m3
  Maps = {m1, m2, m3}
  Root = m1
  Fields = {"email", "note"}
  Sensitive = {"email"}
  Absent = Absent
  Leaf = Leaf
  Documents <- MCDocuments
  Word = 64
  Second = 5
  MaxRetries = 4
  Configs <- MCConfigs
  Statuses <- MCStatuses
  RetryAfters <- MCRetryAfters
  s1 = s1
  s2 = s2
  Structs = {s1, s2}
  Initial = s1
  Nil = Nil
  FlagSets <- MCFlagSets
  Messages <- MCMessages
INVARIANTS
  PartsTypeOK
  WarnsBelowAFifth
  SuccessesAreReported
  ReportsAreReal
  EachReportedOnce
  DepthIsBounded
  DelayIsBounded
  RetriesBackOff
  RetryAfterIsHonoured
  OneConfigPerMessage
PROPERTIES
  ScanEnds
  ScanProgress
  DelaysNeverShrink
