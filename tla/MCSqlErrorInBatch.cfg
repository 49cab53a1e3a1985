SPECIFICATION PushSpec
CONSTANTS
  r1 = r1
  r2 = r2
  NumOps = 2
  OpType <- MCReports
  Reqs <- MCReqs
  OpFaults = {"sql"}
  ServerFaults = {}
  Classes = {"GOOD", "OFFLINE"}
  WithPhoto = {}
  ServerPolicy <- MCPolicy
  ReplyFirst = FALSE
SYMMETRY ReqSymmetry
INVARIANT AcceptedIsStored
