SPECIFICATION Spec
CONSTANTS
  r1 = r1
  r2 = r2
  NumOps = 1
  OpType <- MCReports
  Reqs <- MCReqs
  NoReq = NoReq
  OpFaults = {"app"}
  ServerFaults = {}
  Classes = {"GOOD", "OFFLINE"}
  WithPhoto = {}
  ServerPolicy <- MCPolicy
  FallbackPolicy <- MCPolicy
  ReplyFirst = FALSE
  MaxSwitches = 1
  MaxGiveUps = 0
SYMMETRY ReqSymmetry
INVARIANT NoSilentLoss
