SPECIFICATION FairSpec
CONSTANTS
  near = near
  far = far
  Calls = {c1}
  NoCall = NoCall
  Reports = {incident}
  Responders = {near, far}
  InRange <- MCInRange
  InDistrict = {incident}
  Located = {incident}
  MaxTasks = 1
  SweepLimit = 2
  NoTask = NoTask
PROPERTY UnansweredReachesDistrict
CHECK_DEADLOCK FALSE
