SPECIFICATION FairSpec
CONSTANTS
  Ops = {a, b}
  MaxRequests = 3
INVARIANTS
  TypeOK
  ConfirmedSurvives
PROPERTIES
  KeepsEntries
  EnqueueCompletes
CHECK_DEADLOCK FALSE
