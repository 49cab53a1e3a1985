SPECIFICATION FairSpec
CONSTANTS
  r1 = r1
  r2 = r2
  NumOps = 2
  OpType <- MCReportThenPing
  Reqs <- MCReqs
  NoReq = NoReq
  OpFaults = {"app"}
  ServerFaults = {"running", "betweenCommits"}
  Classes = {"GOOD", "WEAK", "OFFLINE"}
  WithPhoto = {1}
  ServerPolicy <- MCStrictPolicy
  FallbackPolicy <- MCPolicy
  ReplyFirst = TRUE
  MaxSwitches = 2
  MaxGiveUps = 1
INVARIANTS
  TypeOK
  ReleasedIsKept
  SyncedIsLogged
PROPERTIES
  DeliversReports
  PendingIsSettled
