SPECIFICATION Spec
CONSTANTS
  g1 = g1
  g2 = g2
  Senders = {g1, g2}
  Budget = 2
  Failures = {"failed"}
  Cores <- MCCores
  Addresses <- MCAddresses
  TooLong <- MCTooLong
  MaxBulk = 2
  Precision = 4
  NoData = NoData
  Drafts <- MCDrafts
INVARIANTS
  TypeOK
  SameMail
  JudgedAsMeant
  InvalidIsUntouched
