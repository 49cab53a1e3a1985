SPECIFICATION FairSpec
CONSTANTS
  near = near
  far = far
  Calls = {c1, c2}
  NoCall = NoCall
  Reports = {incident}
  Responders = {near, far}
  InRange <- MCInRange
  InDistrict = {incident}
  Located = {incident}
  MaxTasks = 2
  SweepLimit = 2
  NoTask = NoTask
INVARIANTS
  TypeOK
  DispatchFollowsDecision
  AcknowledgedFirst
PROPERTY OverdueIsHandled
CHECK_DEADLOCK FALSE
