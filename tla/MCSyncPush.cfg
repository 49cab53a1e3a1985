SPECIFICATION PushSpec
CONSTANTS
  r1 = r1
  r2 = r2
  NumOps = 2
  OpType <- MCReportAndPing
  Reqs <- MCReqs
  OpFaults = {"app", "sql"}
  ServerFaults = {"running", "betweenCommits"}
  Classes = {"GOOD", "WEAK", "VERY_WEAK", "OFFLINE"}
  WithPhoto = {1}
  ServerPolicy <- MCPartialPolicy
  ReplyFirst = TRUE
SYMMETRY ReqSymmetry
INVARIANTS
  PushTypeOK
  OneReportPerOp
  AcceptedIsKept
  StoredIsLogged
  NoCircularWait
PROPERTIES
  LogIsWriteOnce
  KeepsLedger
