---------------------------- MODULE SyncPushProofs ----------------------------
(***************************************************************************)
(* Proofs about SyncPush for any number of ops and of requests, any sync   *)
(* policy and every combination of the faults, unless a theorem says       *)
(* otherwise.                                                              *)
(***************************************************************************)
EXTENDS SyncPush, FiniteSetTheorems, TLAPS

\* The types of the pieces the actions are made of.
LEMMA NoLogType == NoLog \in [Ops -> LogStatus] /\ NoLog \in [Ops -> Verdict]
BY DEF NoLog, LogStatus, Verdict

\* Giving an op its verdict keeps the types of the two variables it changes.
LEMMA VerdictType ==
  ASSUME PushTypeOK, NEW r \in Reqs, NEW op \in Ops, NEW verdict \in Verdict,
         SetVerdict(r, op, verdict)
  PROVE  /\ results' \in [Reqs -> [Ops -> Verdict]]
         /\ todo' \in [Reqs -> SUBSET Ops]
<1>1. [results[r] EXCEPT ![op] = verdict] \in [Ops -> Verdict]
  BY DEF PushTypeOK
<1>2. QED
  BY <1>1 DEF PushTypeOK, SetVerdict

\* Every step keeps the types.
LEMMA PushTypeStep ==
  ASSUME PushTypeOK, [PushNext]_pushVars
  PROVE  PushTypeOK'
<1> USE NoLogType, PushAssumption DEF PushTypeOK
<1>1. ASSUME NEW r \in Reqs, NEW batch \in SUBSET Ops, NEW class \in Classes,
             BeginPush(r, batch, class)
      PROVE  PushTypeOK'
  BY <1>1 DEF BeginPush, Goto, Phase
<1>2. ASSUME NEW r \in Reqs, AnswerGated(r) \/ AnswerDuplicate(r)
      PROVE  PushTypeOK'
  <2>1. PICK op \in Ops, verdict \in Verdict : SetVerdict(r, op, verdict)
    BY <1>2 DEF AnswerGated, AnswerDuplicate, GateAllows, GateVerdict, Verdict
  <2>2. QED
    BY <1>2, <2>1, VerdictType DEF AnswerGated, AnswerDuplicate
<1>3. ASSUME NEW r \in Reqs, StartApply(r) \/ EndBatch(r)
      PROVE  PushTypeOK'
  BY <1>3 DEF StartApply, EndBatch, Goto, Phase
<1>4. ASSUME NEW r \in Reqs, ApplyReport(r)
      PROVE  PushTypeOK'
  BY <1>4 DEF ApplyReport, InsertReport, Goto, Phase
<1>5. ASSUME NEW r \in Reqs, ApplyRaises(r) \/ ApplyFailsInSql(r)
      PROVE  PushTypeOK'
  BY <1>5 DEF ApplyRaises, ApplyFailsInSql, Goto, Phase
<1>6. ASSUME NEW r \in Reqs, LogAccepted(r) \/ LogRejected(r)
      PROVE  PushTypeOK'
  <2>1. PICK status \in {"ACCEPTED", "REJECTED"} : LogOp(r, status)
    BY <1>6 DEF LogAccepted, LogRejected
  <2>2. PICK op \in Ops :
          /\ newLog' = IF syncOpsLog[op] = "none"
                         THEN [newLog EXCEPT ![r][op] = status] ELSE newLog
          /\ SetVerdict(r, op, status)
    BY <2>1 DEF LogOp
  <2>3. status \in Verdict /\ status \in LogStatus
    BY DEF Verdict, LogStatus
  <2>4. newLog' \in [Reqs -> [Ops -> LogStatus]]
    BY <2>2, <2>3
  <2>5. phase' \in [Reqs -> Phase]
    BY <2>1 DEF LogOp, Goto, Phase
  <2>6. QED
    BY <2>1, <2>2, <2>3, <2>4, <2>5, VerdictType DEF LogOp
<1>7. ASSUME NEW r \in Reqs, CommitSystem(r)
      PROVE  PushTypeOK'
  BY <1>7 DEF CommitSystem, Goto, Phase
<1>8. ASSUME NEW r \in Reqs, CommitUser(r)
      PROVE  PushTypeOK'
  BY <1>8 DEF CommitUser, Goto, Phase
<1>9. ASSUME NEW r \in Reqs, PushDies(r) \/ FinishPush(r)
      PROVE  PushTypeOK'
  <2>1. Clear(r) /\ UNCHANGED <<fieldReports, syncOpsLog>> /\ undone' \subseteq Ops
    BY <1>9 DEF PushDies, FinishPush
  <2>2. results' \in [Reqs -> [Ops -> Verdict]]
    BY <2>1 DEF Clear
  <2>3. newLog' \in [Reqs -> [Ops -> LogStatus]]
    BY <2>1 DEF Clear
  <2>4. phase' \in [Reqs -> Phase] /\ reqClass' \in [Reqs -> Classes]
    BY <2>1 DEF Clear, Goto, Phase
  <2>5. /\ todo' \in [Reqs -> SUBSET Ops]
        /\ newRows' \in [Reqs -> SUBSET Ops]
        /\ txAborted' \in [Reqs -> BOOLEAN]
    BY <2>1 DEF Clear
  <2>6. QED
    BY <2>1, <2>2, <2>3, <2>4, <2>5
<1>10. CASE UNCHANGED pushVars
  BY <1>10 DEF pushVars
<1>11. QED
  BY <1>1, <1>2, <1>3, <1>4, <1>5, <1>6, <1>7, <1>8, <1>9, <1>10 DEF PushNext, PushStep

LEMMA PushInitType == PushInit => PushTypeOK
BY NoLogType, PushAssumption DEF PushInit, PushTypeOK, LogStatus, Verdict, Phase

\* Every variable keeps its type.
THEOREM PushTypeCorrect == PushSpec => []PushTypeOK
<1>1. PushInit => PushTypeOK
  BY PushInitType
<1>2. PushTypeOK /\ [PushNext]_pushVars => PushTypeOK'
  BY PushTypeStep
<1>3. QED
  BY <1>1, <1>2, PTL DEF PushSpec
-------------------------------------------------------------------------------
\* Why a report is stored at most once: an uncommitted row is the only row of
\* its op, and the log transaction of an op is the only one that has not
\* committed.
RowsAreFresh ==
  \A r \in Reqs : \A op \in newRows[r] :
    fieldReports[op] = 0 /\ \A q \in Reqs \ {r} : op \notin newRows[q]

OnceInv == PushTypeOK /\ OneReportPerOp /\ RowsAreFresh

LogsAreFresh ==
  \A r \in Reqs, op \in Ops : newLog[r][op] # "none" =>
    syncOpsLog[op] = "none" /\ \A q \in Reqs \ {r} : newLog[q][op] = "none"

\* Where a verdict stands while its request runs, and what has left the open
\* log transaction once it committed.
VerdictsAreLogged ==
  \A r \in Reqs, op \in Ops : results[r][op] \in {"ACCEPTED", "DUPLICATE"} =>
    syncOpsLog[op] # "none" \/ newLog[r][op] = results[r][op]

\* An op without a verdict has not been logged by its request.
TodoIsUnlogged == \A r \in Reqs : \A op \in todo[r] : newLog[r][op] = "none"

LogIsEmptyAfterCommit ==
  \A r \in Reqs, op \in Ops :
    phase[r] \in {"idle", "commitUser", "done"} => newLog[r][op] = "none"

\* An op that r is about to log, or has logged, as ACCEPTED was inserted, by r or
\* before, and has been rolled back at worst.
Safe(r, op) == fieldReports[op] > 0 \/ op \in newRows[r] \/ op \in undone

AcceptedIsCarried ==
  \A r \in Reqs, op \in Ops :
    /\ newLog[r][op] = "ACCEPTED" => Safe(r, op)
    /\ phase[r] = "logAccepted" /\ Current(r, op) => Safe(r, op)
-------------------------------------------------------------------------------
\* Steps that insert and commit no row, at most dropping uncommitted ones.
LEMMA OnceKept ==
  ASSUME OnceInv, UNCHANGED fieldReports,
         \A r \in Reqs : newRows'[r] \subseteq newRows[r]
  PROVE  OneReportPerOp' /\ RowsAreFresh'
BY DEF OnceInv, OneReportPerOp, RowsAreFresh

LEMMA OnceStep ==
  ASSUME OnceInv, [PushNext]_pushVars
  PROVE  OnceInv'
<1> USE DEF OnceInv, PushTypeOK
<1>1. PushTypeOK'
  BY PushTypeStep
<1>2. ASSUME NEW r \in Reqs, NEW batch \in SUBSET Ops, NEW class \in Classes,
             BeginPush(r, batch, class)
      PROVE  OneReportPerOp' /\ RowsAreFresh'
  BY <1>2, OnceKept DEF BeginPush
<1>3. ASSUME NEW r \in Reqs,
             \/ AnswerGated(r) \/ AnswerDuplicate(r) \/ StartApply(r) \/ ApplyRaises(r)
             \/ EndBatch(r) \/ CommitSystem(r)
      PROVE  OneReportPerOp' /\ RowsAreFresh'
  BY <1>3, OnceKept
  DEF AnswerGated, AnswerDuplicate, StartApply, ApplyRaises, EndBatch, CommitSystem
<1>4. ASSUME NEW r \in Reqs, LogAccepted(r) \/ LogRejected(r)
      PROVE  OneReportPerOp' /\ RowsAreFresh'
  BY <1>4, OnceKept DEF LogAccepted, LogRejected, LogOp
<1>5. ASSUME NEW r \in Reqs, ApplyReport(r)
      PROVE  OneReportPerOp' /\ RowsAreFresh'
  <2>1. PICK op \in Ops : RowFree(r, op) /\ InsertReport(r, op)
    BY <1>5 DEF ApplyReport
  <2>2. UNCHANGED fieldReports
    BY <1>5 DEF ApplyReport
  <2>3. CASE fieldReports[op] # 0
    BY <2>1, <2>2, <2>3, OnceKept DEF InsertReport
  <2>4. CASE fieldReports[op] = 0
    <3>1. newRows' = [newRows EXCEPT ![r] = @ \cup {op}]
      BY <2>1, <2>4 DEF InsertReport
    <3>2. RowsAreFresh'
      BY <2>1, <2>2, <2>4, <3>1 DEF RowFree, RowsAreFresh
    <3>3. QED
      BY <2>2, <3>2 DEF OneReportPerOp
  <2>5. QED
    BY <2>3, <2>4
<1>6. ASSUME NEW r \in Reqs, ApplyFailsInSql(r) \/ PushDies(r) \/ FinishPush(r)
      PROVE  OneReportPerOp' /\ RowsAreFresh'
  <2>1. UNCHANGED fieldReports /\ newRows' = [newRows EXCEPT ![r] = {}]
    BY <1>6 DEF ApplyFailsInSql, PushDies, FinishPush, Clear
  <2>2. QED
    BY <2>1, OnceKept
<1>7. ASSUME NEW r \in Reqs, CommitUser(r)
      PROVE  OneReportPerOp' /\ RowsAreFresh'
  <2>1. /\ newRows' = [newRows EXCEPT ![r] = {}]
        /\ \A op \in Ops : fieldReports'[op] = IF op \in newRows[r]
                                               THEN fieldReports[op] + 1
                                               ELSE fieldReports[op]
    BY <1>7 DEF CommitUser
  <2>2. OneReportPerOp'
    <3>1. SUFFICES ASSUME NEW op \in Ops PROVE fieldReports'[op] <= 1
      BY DEF OneReportPerOp
    <3>2. CASE op \in newRows[r]
      BY <2>1, <3>2 DEF RowsAreFresh
    <3>3. CASE op \notin newRows[r]
      BY <2>1, <3>3 DEF OneReportPerOp
    <3>4. QED
      BY <3>2, <3>3
  <2>3. RowsAreFresh'
    BY <2>1 DEF RowsAreFresh
  <2>4. QED
    BY <2>2, <2>3
<1>8. CASE UNCHANGED pushVars
  BY <1>8, OnceKept DEF pushVars
<1>9. QED
  BY <1>1, <1>2, <1>3, <1>4, <1>5, <1>6, <1>7, <1>8 DEF PushNext, PushStep

\* Idempotency: however often and however concurrently an op is pushed, and
\* whatever fails, the server stores at most one report of it.
THEOREM OneReport == PushSpec => []OneReportPerOp
<1>1. PushInit => OnceInv
  <2>1. PushInit => PushTypeOK
    BY PushInitType
  <2>2. QED
    BY <2>1 DEF PushInit, OnceInv, OneReportPerOp, RowsAreFresh
<1>2. OnceInv /\ [PushNext]_pushVars => OnceInv'
  BY OnceStep
<1>3. OnceInv => OneReportPerOp
  BY DEF OnceInv
<1>4. QED
  BY <1>1, <1>2, <1>3, PTL DEF PushSpec
-------------------------------------------------------------------------------
LogInv == /\ PushTypeOK /\ LogsAreFresh /\ VerdictsAreLogged
          /\ LogIsEmptyAfterCommit /\ TodoIsUnlogged

\* The parts of LogInv that are not about types.
LogParts == LogsAreFresh /\ VerdictsAreLogged /\ LogIsEmptyAfterCommit /\ TodoIsUnlogged

\* The log is written once, by one request, and every verdict stays backed by it.
LEMMA LogStep ==
  ASSUME LogInv, [PushNext]_pushVars
  PROVE  LogInv' /\ \A op \in Ops : syncOpsLog[op] # "none" => syncOpsLog'[op] = syncOpsLog[op]
<1> DEFINE Kept == \A op \in Ops : syncOpsLog[op] # "none" => syncOpsLog'[op] = syncOpsLog[op]
<1> USE DEF LogInv
<1>1. PushTypeOK'
  BY PushTypeStep
<1>2. ASSUME NEW r \in Reqs,
             \/ \E batch \in (SUBSET Ops) \ {{}}, class \in Classes : BeginPush(r, batch, class)
             \/ StartApply(r) \/ ApplyReport(r) \/ ApplyRaises(r) \/ ApplyFailsInSql(r)
             \/ EndBatch(r) \/ CommitUser(r)
      PROVE  LogParts' /\ Kept
  <2>1. UNCHANGED <<syncOpsLog, newLog, results>>
    BY <1>2 DEF BeginPush, StartApply, ApplyReport, ApplyRaises, ApplyFailsInSql, EndBatch, CommitUser
  <2>2. \A q \in Reqs : phase'[q] \in {"idle", "commitUser", "done"}
                        => phase[q] \in {"idle", "commitUser", "done"}
    BY <1>2 DEF PushTypeOK, BeginPush, StartApply, ApplyReport, ApplyRaises,
                ApplyFailsInSql, EndBatch, CommitUser, Goto
  <2>3. TodoIsUnlogged'
    <3>1. CASE UNCHANGED todo
      BY <2>1, <3>1 DEF TodoIsUnlogged
    <3>2. CASE phase[r] = "idle" /\ \A q \in Reqs \ {r} : todo'[q] = todo[q]
      <4>1. \A op \in Ops : newLog[r][op] = "none"
        BY <3>2 DEF LogIsEmptyAfterCommit
      <4>2. todo'[r] \subseteq Ops
        BY <1>1 DEF PushTypeOK
      <4>3. QED
        BY <2>1, <3>2, <4>1, <4>2 DEF TodoIsUnlogged
    <3>3. QED
      BY <1>2, <3>1, <3>2
      DEF BeginPush, StartApply, ApplyReport, ApplyRaises, ApplyFailsInSql, EndBatch, CommitUser,
          PushTypeOK
  <2>4. QED
    BY <2>1, <2>2, <2>3 DEF LogParts, LogsAreFresh, VerdictsAreLogged, LogIsEmptyAfterCommit
<1>3. ASSUME NEW r \in Reqs, AnswerGated(r) \/ AnswerDuplicate(r)
      PROVE  LogParts' /\ Kept
  <2>1. UNCHANGED <<syncOpsLog, newLog, phase>>
    BY <1>3 DEF AnswerGated, AnswerDuplicate
  <2>2. PICK op \in Ops, verdict \in {"REJECTED", "DEFERRED", "DUPLICATE"} :
          /\ op \in todo[r]
          /\ results' = [results EXCEPT ![r][op] = verdict]
          /\ todo' = [todo EXCEPT ![r] = @ \ {op}]
          /\ verdict = "DUPLICATE" => IsDuplicate(r, op)
    BY <1>3 DEF AnswerGated, AnswerDuplicate, GateAllows, GateVerdict, SetVerdict, Current
  <2>3. \A q \in Reqs, o \in Ops :
          results'[q][o] = IF q = r /\ o = op THEN verdict ELSE results[q][o]
    BY <2>2 DEF PushTypeOK
  <2>4. VerdictsAreLogged'
    BY <2>1, <2>2, <2>3 DEF VerdictsAreLogged, IsDuplicate, TodoIsUnlogged
  <2>5. TodoIsUnlogged'
    BY <2>1, <2>2 DEF TodoIsUnlogged, PushTypeOK
  <2>6. QED
    BY <2>1, <2>4, <2>5 DEF LogParts, LogsAreFresh, LogIsEmptyAfterCommit
<1>4. ASSUME NEW r \in Reqs, LogAccepted(r) \/ LogRejected(r)
      PROVE  LogParts' /\ Kept
  <2>1. PICK status \in {"ACCEPTED", "REJECTED"} : LogOp(r, status)
    BY <1>4 DEF LogAccepted, LogRejected
  <2>2. PICK op \in Ops :
          /\ LogFree(r, op)
          /\ newLog' = IF syncOpsLog[op] = "none"
                         THEN [newLog EXCEPT ![r][op] = status] ELSE newLog
          /\ results' = [results EXCEPT ![r][op] = status]
          /\ todo' = [todo EXCEPT ![r] = @ \ {op}]
    BY <2>1 DEF LogOp, SetVerdict
  <2>3. UNCHANGED syncOpsLog /\ phase' = [phase EXCEPT ![r] = "next"]
    BY <2>1 DEF LogOp, Goto
  <2>4. \A q \in Reqs, o \in Ops :
          /\ results'[q][o] = IF q = r /\ o = op THEN status ELSE results[q][o]
          /\ newLog'[q][o] = IF q = r /\ o = op /\ syncOpsLog[op] = "none"
                               THEN status ELSE newLog[q][o]
    BY <2>2 DEF PushTypeOK
  <2>5. LogsAreFresh'
    BY <2>2, <2>3, <2>4 DEF LogsAreFresh, LogFree
  <2>6. VerdictsAreLogged'
    BY <2>3, <2>4 DEF VerdictsAreLogged
  <2>7. LogIsEmptyAfterCommit'
    <3>1. \A q \in Reqs : phase'[q] = IF q = r THEN "next" ELSE phase[q]
      BY <2>3 DEF PushTypeOK
    <3>2. QED
      BY <2>4, <3>1 DEF LogIsEmptyAfterCommit
  <2>8. TodoIsUnlogged'
    <3>1. \A q \in Reqs : todo'[q] = IF q = r THEN todo[r] \ {op} ELSE todo[q]
      BY <2>2 DEF PushTypeOK
    <3>2. SUFFICES ASSUME NEW q \in Reqs, NEW o \in todo'[q] PROVE newLog'[q][o] = "none"
      BY DEF TodoIsUnlogged
    <3>3. o \in todo[q] /\ ~(q = r /\ o = op) /\ o \in Ops
      BY <3>1 DEF PushTypeOK
    <3>4. QED
      BY <2>4, <3>3 DEF TodoIsUnlogged
  <2>9. QED
    BY <2>3, <2>5, <2>6, <2>7, <2>8 DEF LogParts
<1>5. ASSUME NEW r \in Reqs, CommitSystem(r)
      PROVE  LogParts' /\ Kept
  <2>1. UNCHANGED results /\ phase' = [phase EXCEPT ![r] = "commitUser"]
    BY <1>5 DEF CommitSystem, Goto
  <2>2. \A q \in Reqs, o \in Ops :
          newLog'[q][o] = IF q = r THEN "none" ELSE newLog[q][o]
    BY <1>5 DEF CommitSystem, PushTypeOK, NoLog
  <2>3. \A o \in Ops :
          syncOpsLog'[o] = IF newLog[r][o] # "none" THEN newLog[r][o] ELSE syncOpsLog[o]
    BY <1>5 DEF CommitSystem
  <2>4. LogsAreFresh'
    BY <2>2, <2>3 DEF LogsAreFresh
  <2>5. VerdictsAreLogged'
    BY <2>1, <2>2, <2>3 DEF VerdictsAreLogged
  <2>6. LogIsEmptyAfterCommit'
    BY <2>1, <2>2 DEF LogIsEmptyAfterCommit, PushTypeOK
  <2>7. TodoIsUnlogged'
    BY <1>5, <2>2 DEF CommitSystem, TodoIsUnlogged, PushTypeOK
  <2>8. QED
    BY <2>3, <2>4, <2>5, <2>6, <2>7 DEF LogParts, LogsAreFresh
<1>6. ASSUME NEW r \in Reqs, PushDies(r) \/ FinishPush(r)
      PROVE  LogParts' /\ Kept
  <2>1. Clear(r) /\ UNCHANGED syncOpsLog
    BY <1>6 DEF PushDies, FinishPush
  <2>2. \A q \in Reqs, o \in Ops :
          /\ newLog'[q][o] = IF q = r THEN "none" ELSE newLog[q][o]
          /\ results'[q][o] = IF q = r THEN "none" ELSE results[q][o]
    BY <2>1 DEF Clear, PushTypeOK, NoLog
  <2>3. \A q \in Reqs : phase'[q] = IF q = r THEN "idle" ELSE phase[q]
    BY <2>1 DEF Clear, Goto, PushTypeOK
  <2>4. TodoIsUnlogged'
    BY <2>1, <2>2 DEF Clear, TodoIsUnlogged, PushTypeOK
  <2>5. QED
    BY <2>1, <2>2, <2>3, <2>4 DEF LogParts, LogsAreFresh, VerdictsAreLogged, LogIsEmptyAfterCommit
<1>7. ASSUME UNCHANGED pushVars
      PROVE  LogParts' /\ Kept
  BY <1>7 DEF pushVars, LogParts, LogsAreFresh, VerdictsAreLogged, LogIsEmptyAfterCommit, TodoIsUnlogged
<1>8. LogParts' /\ Kept
  BY <1>2, <1>3, <1>4, <1>5, <1>6, <1>7 DEF PushNext, PushStep
<1>9. QED
  BY <1>1, <1>8 DEF LogParts

LEMMA LogInvHolds == PushSpec => []LogInv
<1>1. PushInit => LogInv
  <2>1. PushInit => PushTypeOK
    BY PushInitType
  <2>2. QED
    BY <2>1
    DEF PushInit, LogInv, LogsAreFresh, VerdictsAreLogged, LogIsEmptyAfterCommit, TodoIsUnlogged, NoLog
<1>2. LogInv /\ [PushNext]_pushVars => LogInv'
  BY LogStep
<1>3. QED
  BY <1>1, <1>2, PTL DEF PushSpec

\* The verdict first committed for an op is never overwritten, although two
\* requests may both have found the op unlogged.
THEOREM LogWriteOnce == PushSpec => LogIsWriteOnce
<1>1. LogInv /\ [PushNext]_pushVars
        => [\A op \in Ops : syncOpsLog[op] # "none" => syncOpsLog'[op] = syncOpsLog[op]]_pushVars
  BY LogStep
<1>2. QED
  BY <1>1, LogInvHolds, PTL DEF PushSpec, LogIsWriteOnce

-------------------------------------------------------------------------------
\* Why only a rollback parts an ACCEPTED op from its report.
KeptInv == PushTypeOK /\ AcceptedIsCarried /\ AcceptedIsKept

KeptParts == AcceptedIsCarried /\ AcceptedIsKept

\* Only one op of a batch is current.
LEMMA CurrentIsUnique ==
  ASSUME NEW r \in Reqs, NEW op \in Ops, NEW o \in Ops, Current(r, op), Current(r, o)
  PROVE  op = o
BY PushAssumption DEF Current, Ops

\* A request that only advances, gives back no row and enters neither the log of
\* an accepted op nor its own commits.
LEMMA CarriedKept ==
  ASSUME KeptInv, NEW r \in Reqs,
         UNCHANGED <<fieldReports, syncOpsLog>>, undone \subseteq undone',
         phase[r] # "commitUser", phase'[r] # "logAccepted",
         \A q \in Reqs \ {r} : phase'[q] = phase[q] /\ todo'[q] = todo[q] /\ newLog'[q] = newLog[q]
                               /\ newRows'[q] = newRows[q],
         \A op \in Ops : newLog'[r][op] = "ACCEPTED" => Safe(r, op)'
  PROVE  KeptParts'
<1> USE DEF KeptInv
<1>1. AcceptedIsKept'
  BY DEF AcceptedIsKept, Landing
<1>2. AcceptedIsCarried'
  <2>1. SUFFICES ASSUME NEW q \in Reqs, NEW op \in Ops
                 PROVE  /\ newLog'[q][op] = "ACCEPTED" => Safe(q, op)'
                        /\ phase'[q] = "logAccepted" /\ Current(q, op)' => Safe(q, op)'
    BY DEF AcceptedIsCarried
  <2>2. CASE q = r
    BY <2>2
  <2>3. CASE q # r
    <3>1. Safe(q, op) => Safe(q, op)'
      BY <2>3 DEF Safe
    <3>2. Current(q, op)' <=> Current(q, op)
      BY <2>3 DEF Current
    <3>3. QED
      BY <2>3, <3>1, <3>2 DEF AcceptedIsCarried
  <2>4. QED
    BY <2>2, <2>3
<1>3. QED
  BY <1>1, <1>2 DEF KeptParts

LEMMA KeptStep ==
  ASSUME KeptInv, [PushNext]_pushVars
  PROVE  KeptInv'
<1> USE DEF KeptInv
<1>1. PushTypeOK'
  BY PushTypeStep
<1>2. ASSUME NEW r \in Reqs,
             \/ \E batch \in (SUBSET Ops) \ {{}}, class \in Classes : BeginPush(r, batch, class)
             \/ StartApply(r) \/ ApplyRaises(r) \/ EndBatch(r)
      PROVE  KeptParts'
  <2>1. /\ UNCHANGED <<fieldReports, syncOpsLog, newRows, newLog, undone>>
        /\ \E p \in {"next", "apply", "logRejected", "commitSystem"} : Goto(r, p)
        /\ phase[r] # "commitUser"
        /\ \A q \in Reqs \ {r} : todo'[q] = todo[q]
    BY <1>2 DEF BeginPush, StartApply, ApplyRaises, EndBatch, PushTypeOK
  <2>2. phase'[r] # "logAccepted" /\ \A q \in Reqs \ {r} : phase'[q] = phase[q]
    BY <2>1 DEF Goto, PushTypeOK
  <2>3. \A op \in Ops : newLog'[r][op] = "ACCEPTED" => Safe(r, op)'
    BY <2>1 DEF AcceptedIsCarried, Safe
  <2>4. QED
    BY <2>1, <2>2, <2>3, CarriedKept
<1>3. ASSUME NEW r \in Reqs, AnswerGated(r) \/ AnswerDuplicate(r)
      PROVE  KeptParts'
  <2>1. /\ UNCHANGED <<fieldReports, syncOpsLog, phase, newRows, newLog, undone>>
        /\ phase[r] = "next"
        /\ \A q \in Reqs \ {r} : todo'[q] = todo[q]
    BY <1>3 DEF AnswerGated, AnswerDuplicate, SetVerdict, PushTypeOK
  <2>2. \A op \in Ops : newLog'[r][op] = "ACCEPTED" => Safe(r, op)'
    BY <2>1 DEF AcceptedIsCarried, Safe
  <2>3. QED
    BY <2>1, <2>2, CarriedKept
<1>4. ASSUME NEW r \in Reqs, ApplyReport(r)
      PROVE  KeptParts'
  <2>1. PICK op \in Ops : Current(r, op) /\ InsertReport(r, op)
    BY <1>4 DEF ApplyReport
  <2>2. /\ UNCHANGED <<fieldReports, syncOpsLog, todo, newLog, undone>>
        /\ phase[r] = "apply"
        /\ phase' = [phase EXCEPT ![r] = "logAccepted"]
    BY <1>4 DEF ApplyReport, Goto
  <2>3. /\ \A q \in Reqs : newRows[q] \subseteq newRows'[q]
        /\ fieldReports[op] = 0 => op \in newRows'[r]
    BY <2>1 DEF InsertReport, PushTypeOK
  <2>4. Safe(r, op)'
    BY <2>2, <2>3 DEF Safe, PushTypeOK
  <2>5. \A q \in Reqs, o \in Ops : Safe(q, o) => Safe(q, o)'
    BY <2>2, <2>3 DEF Safe
  <2>6. AcceptedIsCarried'
    <3>1. SUFFICES ASSUME NEW q \in Reqs, NEW o \in Ops
                   PROVE  /\ newLog'[q][o] = "ACCEPTED" => Safe(q, o)'
                          /\ phase'[q] = "logAccepted" /\ Current(q, o)' => Safe(q, o)'
      BY DEF AcceptedIsCarried
    <3>2. newLog'[q][o] = "ACCEPTED" => Safe(q, o)'
      BY <2>2, <2>5 DEF AcceptedIsCarried
    <3>3. Current(q, o)' <=> Current(q, o)
      BY <2>2 DEF Current
    <3>4. CASE q = r
      BY <2>1, <2>4, <3>2, <3>3, <3>4, CurrentIsUnique
    <3>5. CASE q # r
      BY <2>2, <2>5, <3>2, <3>3, <3>5 DEF AcceptedIsCarried, PushTypeOK
    <3>6. QED
      BY <3>4, <3>5
  <2>7. AcceptedIsKept'
    BY <2>2, <2>3 DEF AcceptedIsKept, Landing, PushTypeOK
  <2>8. QED
    BY <2>6, <2>7 DEF KeptParts
<1>5. ASSUME NEW r \in Reqs, ApplyFailsInSql(r)
      PROVE  KeptParts'
  <2>1. /\ UNCHANGED <<fieldReports, syncOpsLog, todo, newLog>>
        /\ phase[r] = "apply" /\ phase' = [phase EXCEPT ![r] = "logRejected"]
        /\ newRows' = [newRows EXCEPT ![r] = {}]
        /\ undone' = undone \cup newRows[r]
    BY <1>5 DEF ApplyFailsInSql, Goto
  <2>2. \A o \in Ops : newLog'[r][o] = "ACCEPTED" => Safe(r, o)'
    BY <2>1 DEF AcceptedIsCarried, Safe
  <2>3. \A q \in Reqs \ {r} : phase'[q] = phase[q] /\ todo'[q] = todo[q] /\ newLog'[q] = newLog[q]
                              /\ newRows'[q] = newRows[q]
    BY <2>1 DEF PushTypeOK
  <2>4. phase'[r] # "logAccepted"
    BY <2>1 DEF PushTypeOK
  <2>5. QED
    BY <2>1, <2>2, <2>3, <2>4, CarriedKept
<1>6. ASSUME NEW r \in Reqs, LogAccepted(r) \/ LogRejected(r)
      PROVE  KeptParts'
  <2>1. PICK status \in {"ACCEPTED", "REJECTED"} :
          LogOp(r, status) /\ (status = "ACCEPTED" => phase[r] = "logAccepted")
    BY <1>6 DEF LogAccepted, LogRejected
  <2>2. PICK op \in Ops :
          /\ Current(r, op)
          /\ newLog' = IF syncOpsLog[op] = "none"
                         THEN [newLog EXCEPT ![r][op] = status] ELSE newLog
          /\ todo' = [todo EXCEPT ![r] = @ \ {op}]
    BY <2>1 DEF LogOp, SetVerdict
  <2>3. /\ UNCHANGED <<fieldReports, syncOpsLog, newRows, undone>>
        /\ phase' = [phase EXCEPT ![r] = "next"]
        /\ phase[r] # "commitUser"
    BY <1>6, <2>1 DEF LogOp, Goto, LogAccepted, LogRejected
  <2>4. \A o \in Ops : newLog'[r][o] = "ACCEPTED" => Safe(r, o)'
    <3>1. SUFFICES ASSUME NEW o \in Ops, newLog'[r][o] = "ACCEPTED" PROVE Safe(r, o)
      BY <2>3 DEF Safe
    <3>2. newLog[r][o] = "ACCEPTED" \/ (o = op /\ status = "ACCEPTED")
      BY <2>2, <3>1 DEF PushTypeOK
    <3>3. QED
      BY <2>1, <2>2, <3>2 DEF AcceptedIsCarried
  <2>5. \A q \in Reqs \ {r} : /\ phase'[q] = phase[q] /\ todo'[q] = todo[q]
                              /\ newLog'[q] = newLog[q] /\ newRows'[q] = newRows[q]
    BY <2>2, <2>3 DEF PushTypeOK
  <2>6. phase'[r] # "logAccepted"
    BY <2>3 DEF PushTypeOK
  <2>7. QED
    BY <2>3, <2>4, <2>5, <2>6, CarriedKept
<1>7. ASSUME NEW r \in Reqs, CommitSystem(r)
      PROVE  KeptParts'
  <2>1. /\ UNCHANGED <<fieldReports, todo, newRows, undone>>
        /\ phase' = [phase EXCEPT ![r] = "commitUser"]
        /\ phase[r] = "commitSystem"
        /\ \A o \in Ops :
             syncOpsLog'[o] = IF newLog[r][o] # "none" THEN newLog[r][o] ELSE syncOpsLog[o]
    BY <1>7 DEF CommitSystem, Goto
  <2>2. \A q \in Reqs, o \in Ops : newLog'[q][o] = "ACCEPTED" => newLog[q][o] = "ACCEPTED"
    BY <1>7 DEF CommitSystem, PushTypeOK, NoLog
  <2>3. AcceptedIsKept'
    <3>1. SUFFICES ASSUME NEW o \in Ops, syncOpsLog'[o] = "ACCEPTED"
                   PROVE  fieldReports[o] > 0 \/ Landing(o)' \/ o \in undone
      BY <2>1 DEF AcceptedIsKept
    <3>2. CASE newLog[r][o] = "ACCEPTED"
      BY <2>1, <3>2 DEF AcceptedIsCarried, Safe, Landing, PushTypeOK
    <3>3. CASE newLog[r][o] # "ACCEPTED"
      <4>1. fieldReports[o] > 0 \/ Landing(o) \/ o \in undone
        BY <2>1, <3>1, <3>3 DEF AcceptedIsKept
      <4>2. QED
        BY <2>1, <4>1 DEF Landing, PushTypeOK
    <3>4. QED
      BY <3>2, <3>3
  <2>4. AcceptedIsCarried'
    <3>1. \A q \in Reqs : phase'[q] = "logAccepted" => phase[q] = "logAccepted"
      BY <2>1 DEF PushTypeOK
    <3>2. QED
      BY <2>1, <2>2, <3>1 DEF AcceptedIsCarried, Safe, Current
  <2>5. QED
    BY <2>3, <2>4 DEF KeptParts
<1>8. ASSUME NEW r \in Reqs, CommitUser(r)
      PROVE  KeptParts'
  <2>1. /\ UNCHANGED <<syncOpsLog, todo, newLog>>
        /\ undone' = undone \ newRows[r]
        /\ phase' = [phase EXCEPT ![r] = "done"]
        /\ newRows' = [newRows EXCEPT ![r] = {}]
        /\ \A o \in Ops : fieldReports'[o] = IF o \in newRows[r]
                                              THEN fieldReports[o] + 1 ELSE fieldReports[o]
    BY <1>8 DEF CommitUser, Goto
  <2>2. \A o \in Ops : /\ o \in newRows[r] => fieldReports'[o] > 0
                       /\ fieldReports[o] > 0 => fieldReports'[o] > 0
    BY <2>1 DEF PushTypeOK
  <2>3. \A q \in Reqs, o \in Ops : Safe(q, o) => Safe(q, o)'
    BY <2>1, <2>2 DEF Safe, PushTypeOK
  <2>4. AcceptedIsCarried'
    <3>1. \A q \in Reqs : phase'[q] = "logAccepted" => phase[q] = "logAccepted"
      BY <2>1 DEF PushTypeOK
    <3>2. QED
      BY <2>1, <2>3, <3>1 DEF AcceptedIsCarried, Current
  <2>5. AcceptedIsKept'
    <3>1. \A o \in Ops : Landing(o) => fieldReports'[o] > 0 \/ Landing(o)'
      BY <2>1, <2>2 DEF Landing, PushTypeOK
    <3>2. \A o \in Ops : o \in undone => fieldReports'[o] > 0 \/ o \in undone'
      BY <2>1, <2>2
    <3>3. QED
      BY <2>1, <2>2, <3>1, <3>2 DEF AcceptedIsKept
  <2>6. QED
    BY <2>4, <2>5 DEF KeptParts
<1>9. ASSUME NEW r \in Reqs, PushDies(r) \/ FinishPush(r)
      PROVE  KeptParts'
  <2>1. Clear(r) /\ UNCHANGED <<fieldReports, syncOpsLog>>
    BY <1>9 DEF PushDies, FinishPush
  <2>2. \A q \in Reqs \ {r} : /\ phase'[q] = phase[q] /\ todo'[q] = todo[q]
                              /\ newLog'[q] = newLog[q] /\ newRows'[q] = newRows[q]
    BY <2>1 DEF Clear, Goto, PushTypeOK
  <2>3. /\ phase'[r] = "idle"
        /\ \A o \in Ops : newLog'[r][o] = "none"
    BY <2>1 DEF Clear, Goto, NoLog, PushTypeOK
  <2>4. /\ undone \subseteq undone'
        /\ phase[r] = "commitUser" => newRows[r] \subseteq undone'
    BY <1>9 DEF PushDies, FinishPush, Binding
  <2>5. AcceptedIsKept'
    <3>1. \A o \in Ops : Landing(o) => Landing(o)' \/ o \in undone'
      BY <2>2, <2>4 DEF Landing, PushTypeOK
    <3>2. QED
      BY <2>1, <2>4, <3>1 DEF AcceptedIsKept
  <2>6. AcceptedIsCarried'
    <3>1. SUFFICES ASSUME NEW q \in Reqs, NEW o \in Ops, q # r
                   PROVE  /\ newLog'[q][o] = "ACCEPTED" => Safe(q, o)'
                          /\ phase'[q] = "logAccepted" /\ Current(q, o)' => Safe(q, o)'
      BY <2>3 DEF AcceptedIsCarried
    <3>2. Safe(q, o) => Safe(q, o)'
      BY <2>1, <2>2, <2>4, <3>1 DEF Safe
    <3>3. Current(q, o)' <=> Current(q, o)
      BY <2>2, <3>1 DEF Current
    <3>4. QED
      BY <2>2, <3>1, <3>2, <3>3 DEF AcceptedIsCarried
  <2>7. QED
    BY <2>5, <2>6 DEF KeptParts
<1>10. ASSUME UNCHANGED pushVars
       PROVE  KeptParts'
  BY <1>10 DEF pushVars, KeptParts, AcceptedIsCarried, AcceptedIsKept,
               Safe, Landing, Current
<1>11. KeptParts'
  BY <1>2, <1>3, <1>4, <1>5, <1>6, <1>7, <1>8, <1>9, <1>10 DEF PushNext, PushStep
<1>12. QED
  BY <1>1, <1>11 DEF KeptParts

LEMMA KeptInit == PushInit => KeptInv
<1>1. PushInit => PushTypeOK
  BY PushInitType
<1>2. QED
  BY <1>1 DEF PushInit, KeptInv, AcceptedIsCarried, AcceptedIsKept, NoLog

\* Under every fault and any interleaving of requests, an op logged as ACCEPTED has
\* its report, or is about to get it, or the report was rolled back: nothing but a
\* rollback parts the two transactions.  MCSqlErrorInBatch shows such a rollback.
THEOREM AcceptedKept == PushSpec => []AcceptedIsKept
<1>1. KeptInv /\ [PushNext]_pushVars => KeptInv'
  BY KeptStep
<1>2. KeptInv => AcceptedIsKept
  BY DEF KeptInv
<1>3. QED
  BY KeptInit, <1>1, <1>2, PTL DEF PushSpec
-------------------------------------------------------------------------------
\* Why a report never gets ahead of its log: a row of an open transaction has its
\* log entry, in the committed log or in the same request, or gets it next.
RowsAreLogged ==
  \A r \in Reqs : \A op \in newRows[r] :
    \/ syncOpsLog[op] # "none"
    \/ newLog[r][op] # "none"
    \/ phase[r] = "logAccepted" /\ Current(r, op)

TableIsLogged == \A op \in Ops : fieldReports[op] > 0 => syncOpsLog[op] # "none"

RowInv == LogInv /\ RowsAreLogged /\ TableIsLogged

\* A step of r that takes no row and no log entry away.
LEMMA RowsKept ==
  ASSUME RowInv, NEW r \in Reqs, UNCHANGED fieldReports,
         \A op \in Ops : syncOpsLog[op] # "none" => syncOpsLog'[op] # "none",
         \A q \in Reqs \ {r} : /\ phase'[q] = phase[q] /\ todo'[q] = todo[q]
                               /\ newRows'[q] = newRows[q] /\ newLog'[q] = newLog[q],
         \A op \in newRows'[r] : \/ syncOpsLog'[op] # "none" \/ newLog'[r][op] # "none"
                                 \/ phase'[r] = "logAccepted" /\ Current(r, op)'
  PROVE  RowsAreLogged' /\ TableIsLogged'
<1> USE DEF RowInv, LogInv, PushTypeOK
<1>1. TableIsLogged'
  BY DEF TableIsLogged
<1>2. ASSUME NEW q \in Reqs, q # r, NEW op \in newRows'[q]
      PROVE  \/ syncOpsLog'[op] # "none" \/ newLog'[q][op] # "none"
             \/ phase'[q] = "logAccepted" /\ Current(q, op)'
  BY <1>2 DEF RowsAreLogged, Current
<1>3. QED
  BY <1>1, <1>2 DEF RowsAreLogged

LEMMA RowStep ==
  ASSUME RowInv, [PushNext]_pushVars
  PROVE  RowInv'
<1> USE DEF RowInv, LogInv, PushTypeOK
<1>1. /\ LogInv'
      /\ \A op \in Ops : syncOpsLog[op] # "none" => syncOpsLog'[op] # "none"
  BY LogStep
<1>2. ASSUME NEW r \in Reqs,
             \/ \E b \in (SUBSET Ops) \ {{}}, class \in Classes : BeginPush(r, b, class)
             \/ AnswerGated(r) \/ AnswerDuplicate(r) \/ StartApply(r) \/ ApplyRaises(r) \/ EndBatch(r)
      PROVE  RowsAreLogged' /\ TableIsLogged'
  <2>1. /\ UNCHANGED <<fieldReports, syncOpsLog, newRows, newLog>>
        /\ phase[r] # "logAccepted"
        /\ \A q \in Reqs \ {r} : phase'[q] = phase[q] /\ todo'[q] = todo[q]
    BY <1>2 DEF BeginPush, AnswerGated, AnswerDuplicate, StartApply, ApplyRaises, EndBatch, SetVerdict, Goto
  <2>2. \A op \in newRows'[r] : syncOpsLog'[op] # "none" \/ newLog'[r][op] # "none"
    BY <2>1 DEF RowsAreLogged
  <2>3. QED
    BY <2>1, <2>2, RowsKept
<1>3. ASSUME NEW r \in Reqs, ApplyReport(r)
      PROVE  RowsAreLogged' /\ TableIsLogged'
  <2>1. PICK op \in Ops : Current(r, op) /\ InsertReport(r, op)
    BY <1>3 DEF ApplyReport
  <2>2. /\ UNCHANGED <<fieldReports, syncOpsLog, newLog, todo>>
        /\ phase[r] = "apply" /\ phase' = [phase EXCEPT ![r] = "logAccepted"]
    BY <1>3 DEF ApplyReport, Goto
  <2>3. newRows'[r] \subseteq newRows[r] \cup {op} /\ \A q \in Reqs \ {r} : newRows'[q] = newRows[q]
    BY <2>1 DEF InsertReport
  <2>4. phase'[r] = "logAccepted" /\ Current(r, op)'
    BY <2>1, <2>2 DEF Current
  <2>5. \A o \in newRows'[r] : \/ syncOpsLog'[o] # "none" \/ newLog'[r][o] # "none"
                               \/ phase'[r] = "logAccepted" /\ Current(r, o)'
    BY <2>2, <2>3, <2>4 DEF RowsAreLogged
  <2>6. QED
    BY <2>2, <2>3, <2>5, RowsKept
<1>4. ASSUME NEW r \in Reqs, LogAccepted(r) \/ LogRejected(r)
      PROVE  RowsAreLogged' /\ TableIsLogged'
  <2>1. PICK status \in {"ACCEPTED", "REJECTED"} : LogOp(r, status)
    BY <1>4 DEF LogAccepted, LogRejected
  <2>2. PICK op \in Ops :
          /\ Current(r, op)
          /\ newLog' = IF syncOpsLog[op] = "none"
                         THEN [newLog EXCEPT ![r][op] = status] ELSE newLog
          /\ todo' = [todo EXCEPT ![r] = @ \ {op}]
    BY <2>1 DEF LogOp, SetVerdict
  <2>3. UNCHANGED <<fieldReports, syncOpsLog, newRows>> /\ phase' = [phase EXCEPT ![r] = "next"]
    BY <2>1 DEF LogOp, Goto
  <2>4. \A o \in newRows[r] : syncOpsLog[o] # "none" \/ newLog[r][o] # "none" \/ o = op
    BY <2>2, CurrentIsUnique DEF RowsAreLogged
  <2>5. \A o \in newRows'[r] : syncOpsLog'[o] # "none" \/ newLog'[r][o] # "none"
    BY <2>2, <2>3, <2>4
  <2>6. \A q \in Reqs \ {r} : /\ phase'[q] = phase[q] /\ todo'[q] = todo[q]
                              /\ newRows'[q] = newRows[q] /\ newLog'[q] = newLog[q]
    BY <2>2, <2>3
  <2>7. QED
    BY <2>3, <2>5, <2>6, RowsKept
<1>5. ASSUME NEW r \in Reqs, CommitSystem(r)
      PROVE  RowsAreLogged' /\ TableIsLogged'
  <2>1. /\ UNCHANGED <<fieldReports, newRows, todo>>
        /\ phase[r] = "commitSystem" /\ phase' = [phase EXCEPT ![r] = "commitUser"]
        /\ newLog' = [newLog EXCEPT ![r] = NoLog]
        /\ \A o \in Ops :
             syncOpsLog'[o] = IF newLog[r][o] # "none" THEN newLog[r][o] ELSE syncOpsLog[o]
    BY <1>5 DEF CommitSystem, Goto
  <2>2. \A o \in newRows'[r] : syncOpsLog'[o] # "none"
    BY <2>1 DEF RowsAreLogged
  <2>3. \A q \in Reqs \ {r} : /\ phase'[q] = phase[q] /\ todo'[q] = todo[q]
                              /\ newRows'[q] = newRows[q] /\ newLog'[q] = newLog[q]
    BY <2>1
  <2>4. QED
    BY <1>1, <2>1, <2>2, <2>3, RowsKept
<1>6. ASSUME NEW r \in Reqs, CommitUser(r)
      PROVE  RowsAreLogged' /\ TableIsLogged'
  <2>1. /\ UNCHANGED <<syncOpsLog, todo, newLog>>
        /\ phase[r] = "commitUser" /\ phase' = [phase EXCEPT ![r] = "done"]
        /\ newRows' = [newRows EXCEPT ![r] = {}]
        /\ \A op \in Ops : fieldReports'[op] > 0 => fieldReports[op] > 0 \/ op \in newRows[r]
    BY <1>6 DEF CommitUser, Goto
  <2>2. \A op \in newRows[r] : syncOpsLog[op] # "none"
    BY <2>1 DEF RowsAreLogged, LogIsEmptyAfterCommit
  <2>3. TableIsLogged'
    BY <2>1, <2>2 DEF TableIsLogged
  <2>4. RowsAreLogged'
    BY <2>1 DEF RowsAreLogged, Current
  <2>5. QED
    BY <2>3, <2>4
<1>7. ASSUME NEW r \in Reqs, ApplyFailsInSql(r) \/ PushDies(r) \/ FinishPush(r)
      PROVE  RowsAreLogged' /\ TableIsLogged'
  <2>1. /\ UNCHANGED <<fieldReports, syncOpsLog>>
        /\ newRows' = [newRows EXCEPT ![r] = {}]
        /\ \A q \in Reqs \ {r} : phase'[q] = phase[q] /\ todo'[q] = todo[q] /\ newLog'[q] = newLog[q]
    BY <1>7 DEF ApplyFailsInSql, PushDies, FinishPush, Clear, Goto
  <2>2. QED
    BY <2>1, RowsKept
<1>8. ASSUME UNCHANGED pushVars
      PROVE  RowsAreLogged' /\ TableIsLogged'
  BY <1>8 DEF pushVars, RowsAreLogged, TableIsLogged, Current
<1>9. QED
  BY <1>1, <1>2, <1>3, <1>4, <1>5, <1>6, <1>7, <1>8 DEF PushNext, PushStep

LEMMA RowInvHolds == PushSpec => []RowInv
<1>1. PushInit => RowInv
  <2>1. PushInit => LogInv
    BY PushInitType
    DEF PushInit, LogInv, LogsAreFresh, VerdictsAreLogged, LogIsEmptyAfterCommit, TodoIsUnlogged, NoLog
  <2>2. QED
    BY <2>1 DEF PushInit, RowInv, RowsAreLogged, TableIsLogged
<1>2. RowInv /\ [PushNext]_pushVars => RowInv'
  BY RowStep
<1>3. QED
  BY <1>1, <1>2, PTL DEF PushSpec

\* Whatever fails, a report that is in the table or about to be has its op in the
\* committed log: a retry of it is answered, never applied again.
THEOREM StoredLogged == PushSpec => []StoredIsLogged
<1>1. RowInv => StoredIsLogged
  BY DEF RowInv, LogInv, PushTypeOK, StoredIsLogged, Landing, RowsAreLogged, TableIsLogged,
         LogIsEmptyAfterCommit
<1>2. QED
  BY <1>1, RowInvHolds, PTL
-------------------------------------------------------------------------------
\* Why requests cannot wait for each other in a circle: an op is logged before
\* any later op of the batch is touched, and inserted right before it is logged.
TakenInOrder ==
  \A r \in Reqs, op \in Ops : \A later \in todo[r] :
    /\ newLog[r][op] # "none" => op < later
    /\ op \in newRows[r] => op < later \/ (op = later /\ phase[r] = "logAccepted")

IdleHoldsNothing == \A r \in Reqs : phase[r] \in {"idle", "done"} => newRows[r] = {}

\* An op whose row was inserted goes on to be logged as ACCEPTED.
RowsAreAccepted == \A r \in Reqs : \A op \in newRows[r] : newLog[r][op] # "REJECTED"

OrderParts == TakenInOrder /\ IdleHoldsNothing /\ RowsAreAccepted
OrderInv   == LogInv /\ OrderParts

LEMMA OpsAreNumbers == Ops \subseteq Int
BY PushAssumption DEF Ops

\* A step of r that lets go of no op it has not finished.
LEMMA OrderKept ==
  ASSUME OrderInv, NEW r \in Reqs,
         \A q \in Reqs \ {r} : /\ phase'[q] = phase[q] /\ todo'[q] = todo[q]
                               /\ newRows'[q] = newRows[q] /\ newLog'[q] = newLog[q],
         \A op \in Ops : \A later \in todo'[r] :
           /\ newLog'[r][op] # "none" => op < later
           /\ op \in newRows'[r] => op < later \/ (op = later /\ phase'[r] = "logAccepted"),
         phase'[r] \in {"idle", "done"} => newRows'[r] = {},
         \A op \in newRows'[r] : newLog'[r][op] # "REJECTED"
  PROVE  OrderParts'
<1>1. TakenInOrder'
  <2>1. SUFFICES ASSUME NEW q \in Reqs, NEW op \in Ops, NEW later \in todo'[q]
                 PROVE  /\ newLog'[q][op] # "none" => op < later
                        /\ op \in newRows'[q]
                             => op < later \/ (op = later /\ phase'[q] = "logAccepted")
    BY DEF TakenInOrder
  <2>2. CASE q = r
    BY <2>2
  <2>3. CASE q # r
    BY <2>3 DEF OrderInv, OrderParts, TakenInOrder
  <2>4. QED
    BY <2>2, <2>3
<1>2. IdleHoldsNothing'
  BY DEF OrderInv, OrderParts, IdleHoldsNothing
<1>3. RowsAreAccepted'
  BY DEF OrderInv, OrderParts, RowsAreAccepted
<1>4. QED
  BY <1>1, <1>2, <1>3 DEF OrderParts

LEMMA OrderStep ==
  ASSUME OrderInv, [PushNext]_pushVars
  PROVE  OrderInv'
<1> USE DEF OrderInv, LogInv, PushTypeOK
<1>1. LogInv'
  BY LogStep
<1>2. ASSUME NEW r \in Reqs, NEW b \in SUBSET Ops, NEW class \in Classes, BeginPush(r, b, class)
      PROVE  OrderParts'
  <2>1. /\ UNCHANGED <<newRows, newLog>>
        /\ phase[r] = "idle" /\ phase' = [phase EXCEPT ![r] = "next"]
        /\ todo' = [todo EXCEPT ![r] = b]
    BY <1>2 DEF BeginPush, Goto
  <2>2. newRows[r] = {} /\ \A op \in Ops : newLog[r][op] = "none"
    BY <2>1 DEF OrderParts, IdleHoldsNothing, LogIsEmptyAfterCommit
  <2>3. QED
    BY <2>1, <2>2, OrderKept
<1>3. ASSUME NEW r \in Reqs,
             \/ AnswerGated(r) \/ AnswerDuplicate(r) \/ StartApply(r) \/ ApplyRaises(r) \/ EndBatch(r)
      PROVE  OrderParts'
  <2>1. /\ UNCHANGED <<newRows, newLog>>
        /\ phase[r] \in {"next", "apply"} /\ phase'[r] \notin {"idle", "done"}
        /\ todo'[r] \subseteq todo[r]
        /\ \A q \in Reqs \ {r} : phase'[q] = phase[q] /\ todo'[q] = todo[q]
    BY <1>3 DEF AnswerGated, AnswerDuplicate, StartApply, ApplyRaises, EndBatch, SetVerdict, Goto
  <2>2. \A o \in Ops : \A later \in todo'[r] :
          /\ newLog'[r][o] # "none" => o < later
          /\ o \in newRows'[r] => o < later \/ (o = later /\ phase'[r] = "logAccepted")
    BY <2>1 DEF OrderParts, TakenInOrder
  <2>3. \A o \in newRows'[r] : newLog'[r][o] # "REJECTED"
    BY <2>1 DEF OrderParts, RowsAreAccepted
  <2>4. QED
    BY <2>1, <2>2, <2>3, OrderKept
<1>4. ASSUME NEW r \in Reqs, ApplyReport(r)
      PROVE  OrderParts'
  <2>1. PICK op \in Ops : Current(r, op) /\ InsertReport(r, op)
    BY <1>4 DEF ApplyReport
  <2>2. /\ UNCHANGED <<newLog, todo>>
        /\ phase[r] = "apply" /\ phase' = [phase EXCEPT ![r] = "logAccepted"]
    BY <1>4 DEF ApplyReport, Goto
  <2>3. newRows'[r] \subseteq newRows[r] \cup {op} /\ \A q \in Reqs \ {r} : newRows'[q] = newRows[q]
    BY <2>1 DEF InsertReport
  <2>4. \A later \in todo[r] : op < later \/ op = later
    BY <2>1, OpsAreNumbers DEF Current
  <2>5. \A o \in Ops : \A later \in todo'[r] :
          /\ newLog'[r][o] # "none" => o < later
          /\ o \in newRows'[r] => o < later \/ (o = later /\ phase'[r] = "logAccepted")
    BY <2>2, <2>3, <2>4 DEF OrderParts, TakenInOrder
  <2>6. \A o \in newRows'[r] : newLog'[r][o] # "REJECTED"
    BY <2>1, <2>2, <2>3 DEF OrderParts, RowsAreAccepted, Current, TodoIsUnlogged
  <2>7. QED
    BY <2>2, <2>3, <2>5, <2>6, OrderKept
<1>5. ASSUME NEW r \in Reqs, LogAccepted(r) \/ LogRejected(r)
      PROVE  OrderParts'
  <2>1. PICK status \in {"ACCEPTED", "REJECTED"} :
          LogOp(r, status) /\ (status = "REJECTED" => phase[r] = "logRejected")
    BY <1>5 DEF LogAccepted, LogRejected
  <2>2. PICK op \in Ops :
          /\ Current(r, op)
          /\ newLog' = IF syncOpsLog[op] = "none"
                         THEN [newLog EXCEPT ![r][op] = status] ELSE newLog
          /\ todo' = [todo EXCEPT ![r] = @ \ {op}]
    BY <2>1 DEF LogOp, SetVerdict
  <2>3. UNCHANGED newRows /\ phase' = [phase EXCEPT ![r] = "next"]
    BY <2>1 DEF LogOp, Goto
  <2>4. \A later \in todo'[r] : later \in todo[r] /\ op < later
    BY <2>2, OpsAreNumbers DEF Current
  <2>5. \A o \in Ops : newLog'[r][o] # "none" => newLog[r][o] # "none" \/ o = op
    BY <2>2
  <2>6. \A o \in newRows'[r] : \A later \in todo'[r] : o < later
    <3>1. SUFFICES ASSUME NEW o \in newRows[r], NEW later \in todo'[r] PROVE o < later
      BY <2>3
    <3>2. o < later \/ o = later
      BY <2>4 DEF OrderParts, TakenInOrder
    <3>3. op \in todo[r] /\ (o < op \/ o = op)
      BY <2>2 DEF Current, OrderParts, TakenInOrder
    <3>4. QED
      BY <2>4, <3>2, <3>3, OpsAreNumbers
  <2>7. \A q \in Reqs \ {r} : /\ phase'[q] = phase[q] /\ todo'[q] = todo[q]
                              /\ newRows'[q] = newRows[q] /\ newLog'[q] = newLog[q]
    BY <2>2, <2>3
  <2>8. \A o \in Ops : \A later \in todo'[r] :
          /\ newLog'[r][o] # "none" => o < later
          /\ o \in newRows'[r] => o < later \/ (o = later /\ phase'[r] = "logAccepted")
    BY <2>4, <2>5, <2>6 DEF OrderParts, TakenInOrder
  <2>9. op \in newRows[r] => status # "REJECTED"
    BY <2>1, <2>2, OpsAreNumbers DEF Current, OrderParts, TakenInOrder
  <2>10. \A o \in newRows'[r] : newLog'[r][o] # "REJECTED"
    BY <2>2, <2>3, <2>9 DEF OrderParts, RowsAreAccepted
  <2>11. QED
    BY <2>3, <2>7, <2>8, <2>10, OrderKept
<1>6. ASSUME NEW r \in Reqs, CommitSystem(r) \/ CommitUser(r)
      PROVE  OrderParts'
  <2>1. /\ UNCHANGED todo
        /\ phase[r] # "logAccepted" /\ phase'[r] # "idle"
        /\ newRows'[r] \subseteq newRows[r] /\ (phase'[r] = "done" => newRows'[r] = {})
        /\ \A op \in Ops : newLog'[r][op] \in {"none", newLog[r][op]}
        /\ \A q \in Reqs \ {r} : /\ phase'[q] = phase[q]
                                 /\ newRows'[q] = newRows[q] /\ newLog'[q] = newLog[q]
    BY <1>6 DEF CommitSystem, CommitUser, Goto, NoLog
  <2>2. \A o \in Ops : \A later \in todo'[r] :
          /\ newLog'[r][o] # "none" => o < later
          /\ o \in newRows'[r] => o < later \/ (o = later /\ phase'[r] = "logAccepted")
    BY <2>1 DEF OrderParts, TakenInOrder
  <2>3. \A o \in newRows'[r] : newLog'[r][o] # "REJECTED"
    BY <2>1 DEF OrderParts, RowsAreAccepted
  <2>4. QED
    BY <2>1, <2>2, <2>3, OrderKept
<1>7. ASSUME NEW r \in Reqs, ApplyFailsInSql(r)
      PROVE  OrderParts'
  <2>1. /\ UNCHANGED <<todo, newLog>>
        /\ newRows' = [newRows EXCEPT ![r] = {}]
        /\ phase' = [phase EXCEPT ![r] = "logRejected"]
    BY <1>7 DEF ApplyFailsInSql, Goto
  <2>2. QED
    BY <2>1, OrderKept DEF OrderParts, TakenInOrder
<1>8. ASSUME NEW r \in Reqs, PushDies(r) \/ FinishPush(r)
      PROVE  OrderParts'
  <2>1. Clear(r)
    BY <1>8 DEF PushDies, FinishPush
  <2>2. QED
    BY <2>1, OrderKept DEF Clear, Goto
<1>9. ASSUME UNCHANGED pushVars
      PROVE  OrderParts'
  BY <1>9 DEF pushVars, OrderParts, TakenInOrder, IdleHoldsNothing, RowsAreAccepted
<1>10. QED
  BY <1>1, <1>2, <1>3, <1>4, <1>5, <1>6, <1>7, <1>8, <1>9 DEF PushNext, PushStep

LEMMA OrderInvHolds == PushSpec => []OrderInv
<1>1. PushInit => OrderInv
  <2>1. PushInit => LogInv
    BY PushInitType
    DEF PushInit, LogInv, LogsAreFresh, VerdictsAreLogged, LogIsEmptyAfterCommit, TodoIsUnlogged, NoLog
  <2>2. QED
    BY <2>1 DEF PushInit, OrderInv, OrderParts, TakenInOrder, IdleHoldsNothing, RowsAreAccepted
<1>2. OrderInv /\ [PushNext]_pushVars => OrderInv'
  BY OrderStep
<1>3. QED
  BY <1>1, <1>2, PTL DEF PushSpec

\* A nonempty set of numbers up to n has a greatest element.  The segments from
\* its elements up to n are finite sets, and inclusion is well-founded on those.
LEMMA HasGreatest ==
  ASSUME NEW n \in Nat, NEW S \in SUBSET (0 .. n), S # {}
  PROVE  \E i \in S : \A j \in S : j <= i
<1> DEFINE T == {i .. n : i \in S}
<1>1. T \subseteq FiniteSubsetsOf(Nat) /\ T # {}
  <2>1. ASSUME NEW i \in S
        PROVE  i .. n \subseteq Nat /\ IsFiniteSet(i .. n)
    <3>1. i \in Int /\ n \in Int /\ i >= 0
      OBVIOUS
    <3>2. IsFiniteSet(i .. n)
      BY <3>1, FS_Interval
    <3>3. QED
      BY <3>1, <3>2
  <2>2. QED
    BY <2>1 DEF FiniteSubsetsOf
<1>2. PICK x \in T : \A y \in T : ~ (<<y, x>> \in StrictSubsetOrdering(Nat))
  BY <1>1, WFMin, FS_StrictSubsetOrderingWellFounded
<1>3. PICK i \in S : x = i .. n
  OBVIOUS
<1>4. ASSUME NEW j \in S, j > i
      PROVE  FALSE
  <2>1. j .. n \subseteq i .. n /\ i \in i .. n /\ i \notin j .. n
    BY <1>4
  <2>2. <<j .. n, i .. n>> \in StrictSubsetOrdering(Nat)
    BY <2>1 DEF StrictSubsetOrdering
  <2>3. QED
    BY <1>2, <1>3, <2>2, <1>4
<1>5. QED
  BY <1>4

\* How far a request that waits has come: the op it is at, and whether it is
\* about to insert the op's row (0) or its log entry (1).
At(r, n) ==
  \E op \in Ops :
    /\ Current(r, op)
    /\ \/ phase[r] = "apply" /\ n = 2 * op
       \/ phase[r] \in {"logAccepted", "logRejected"} /\ n = 2 * op + 1

\* Who is waited for has come further than who waits.
LEMMA WaitsForTheFurther ==
  ASSUME OrderInv, NEW r \in Reqs, NEW q \in Reqs, WaitsFor(r, q),
         NEW m, NEW n, At(r, m), At(q, n)
  PROVE  m < n
<1>1. PICK op \in Ops :
        /\ Current(r, op)
        /\ \/ phase[r] = "apply" /\ op \in newRows[q]
           \/ phase[r] \in {"logAccepted", "logRejected"} /\ newLog[q][op] # "none"
  BY DEF WaitsFor
<1>2. m = IF phase[r] = "apply" THEN 2 * op ELSE 2 * op + 1
  BY <1>1, CurrentIsUnique DEF At
<1>3. PICK at \in Ops :
        /\ Current(q, at)
        /\ \/ phase[q] = "apply" /\ n = 2 * at
           \/ phase[q] \in {"logAccepted", "logRejected"} /\ n = 2 * at + 1
  BY DEF At
<1>4. at \in todo[q]
  BY <1>3 DEF Current
<1>5. CASE phase[r] = "apply"
  <2>1. op < at \/ (op = at /\ phase[q] = "logAccepted")
    BY <1>1, <1>4, <1>5 DEF OrderInv, OrderParts, TakenInOrder
  <2>2. QED
    BY <1>2, <1>3, <1>5, <2>1, OpsAreNumbers
<1>6. CASE phase[r] # "apply"
  <2>1. op < at
    BY <1>1, <1>4, <1>6 DEF OrderInv, OrderParts, TakenInOrder
  <2>2. QED
    BY <1>2, <1>3, <1>6, <2>1, OpsAreNumbers
<1>7. QED
  BY <1>5, <1>6

\* However many requests carry however many ops in common, they never wait for
\* each other in a circle: of those that wait, the one that has come furthest
\* waits for none of them.
THEOREM WaitsAreNotCircular == PushSpec => []NoCircularWait
<1>1. ASSUME OrderInv
      PROVE  NoCircularWait
  <2>1. SUFFICES ASSUME NEW S \in (SUBSET Reqs) \ {{}}, \A r \in S : \E q \in S : WaitsFor(r, q)
                 PROVE  FALSE
    BY DEF NoCircularWait
  <2> DEFINE Places == {n \in 0 .. 2 * NumOps + 1 : \E r \in S : At(r, n)}
  <2>2. \A r \in S : \E n \in Places : At(r, n)
    <3>1. SUFFICES ASSUME NEW r \in S PROVE \E n \in Places : At(r, n)
      OBVIOUS
    <3>2. PICK op \in Ops :
            Current(r, op) /\ phase[r] \in {"apply", "logAccepted", "logRejected"}
      BY <2>1 DEF WaitsFor
    <3>3. PICK n \in {2 * op, 2 * op + 1} : At(r, n)
      BY <3>2 DEF At
    <3>4. n \in 0 .. 2 * NumOps + 1
      BY PushAssumption, <3>3 DEF Ops
    <3>5. QED
      BY <3>3, <3>4
  <2>3. 2 * NumOps + 1 \in Nat /\ Places \in SUBSET (0 .. 2 * NumOps + 1) /\ Places # {}
    <3>1. 2 * NumOps + 1 \in Nat
      BY PushAssumption
    <3>2. Places \in SUBSET (0 .. 2 * NumOps + 1)
      OBVIOUS
    <3>3. PICK r \in S : TRUE
      OBVIOUS
    <3>4. \E n \in Places : At(r, n)
      BY <2>2
    <3>5. QED
      BY <3>1, <3>2, <3>4
  <2>4. PICK n \in Places : \A m \in Places : m <= n
    <3> HIDE DEF Places
    <3>1. QED
      BY <2>3, HasGreatest
  <2>5. PICK r \in S : At(r, n)
    BY <2>4
  <2>6. PICK q \in S : WaitsFor(r, q)
    BY <2>1
  <2>7. PICK k \in Places : At(q, k)
    BY <2>2
  <2>8. n < k
    BY <1>1, <2>5, <2>6, <2>7, WaitsForTheFurther
  <2>9. QED
    BY <2>4, <2>7, <2>8
<1>2. OrderInv => NoCircularWait
  BY <1>1
<1>3. QED
  BY <1>2, OrderInvHolds, PTL
-------------------------------------------------------------------------------
\* What a client may rely on once it has an answer for op: the verdict is in the
\* log, or its request is still to commit, or was rolled back.
Backed(op) == syncOpsLog[op] # "none" \/ Underway(op) \/ op \in undone

\* No step of a request takes that back.
LEMMA BackedStays ==
  ASSUME RowInv, OrderInv, [PushNext]_pushVars, NEW op \in Ops, Backed(op)
  PROVE  Backed(op)'
<1> USE DEF RowInv, LogInv, PushTypeOK
<1>1. syncOpsLog[op] # "none" => syncOpsLog'[op] # "none"
  BY LogStep
<1>2. ASSUME NEW r \in Reqs, undone \subseteq undone',
             \A q \in Reqs \ {r} : phase'[q] = phase[q] /\ newRows'[q] = newRows[q],
             Binding(r) /\ op \in newRows[r] => (Binding(r) /\ op \in newRows[r])' \/ op \in undone'
      PROVE  Backed(op)'
  BY <1>1, <1>2 DEF Backed, Underway, Binding, Answered
<1>3. ASSUME NEW r \in Reqs, ~Binding(r), undone \subseteq undone',
             \A q \in Reqs \ {r} : phase'[q] = phase[q] /\ newRows'[q] = newRows[q]
      PROVE  Backed(op)'
  BY <1>2, <1>3
<1>4. ASSUME NEW r \in Reqs,
             \/ \E b \in (SUBSET Ops) \ {{}}, class \in Classes : BeginPush(r, b, class)
             \/ AnswerGated(r) \/ AnswerDuplicate(r) \/ StartApply(r) \/ ApplyRaises(r)
             \/ ApplyReport(r) \/ ApplyFailsInSql(r) \/ LogAccepted(r) \/ LogRejected(r)
             \/ EndBatch(r)
      PROVE  Backed(op)'
  <2>1. /\ phase[r] \in {"idle", "next", "apply", "logAccepted", "logRejected"}
        /\ undone \subseteq undone'
        /\ \A q \in Reqs \ {r} : phase'[q] = phase[q] /\ newRows'[q] = newRows[q]
    BY <1>4 DEF BeginPush, AnswerGated, AnswerDuplicate, StartApply, ApplyRaises, ApplyReport,
                InsertReport, ApplyFailsInSql, LogAccepted, LogRejected, LogOp, EndBatch, Goto
  <2>2. QED
    BY <1>3, <2>1 DEF Binding, Answered
<1>5. ASSUME NEW r \in Reqs, CommitSystem(r)
      PROVE  Backed(op)'
  <2>1. /\ UNCHANGED <<undone, newRows>> /\ phase'[r] = "commitUser"
        /\ \A q \in Reqs \ {r} : phase'[q] = phase[q]
    BY <1>5 DEF CommitSystem, Goto
  <2>2. QED
    BY <1>2, <2>1 DEF Binding
<1>6. ASSUME NEW r \in Reqs, CommitUser(r)
      PROVE  Backed(op)'
  <2>1. /\ UNCHANGED syncOpsLog /\ undone' = undone \ newRows[r]
        /\ phase[r] = "commitUser"
        /\ \A q \in Reqs \ {r} : phase'[q] = phase[q] /\ newRows'[q] = newRows[q]
    BY <1>6 DEF CommitUser, Goto
  <2>2. CASE op \in newRows[r]
    BY <2>1, <2>2 DEF Backed, RowsAreLogged, LogIsEmptyAfterCommit
  <2>3. CASE op \notin newRows[r]
    BY <2>1, <2>3 DEF Backed, Underway, Binding, Answered
  <2>4. QED
    BY <2>2, <2>3
<1>7. ASSUME NEW r \in Reqs, PushDies(r) \/ FinishPush(r)
      PROVE  Backed(op)'
  <2>1. /\ undone \subseteq undone'
        /\ \A q \in Reqs \ {r} : phase'[q] = phase[q] /\ newRows'[q] = newRows[q]
    BY <1>7 DEF PushDies, FinishPush, Clear, Goto
  <2>2. Binding(r) /\ op \in newRows[r] => op \in undone'
    BY <1>7 DEF PushDies, FinishPush, OrderInv, OrderParts, IdleHoldsNothing
  <2>3. QED
    BY <1>2, <2>1, <2>2
<1>8. ASSUME UNCHANGED pushVars
      PROVE  Backed(op)'
  BY <1>8 DEF pushVars, Backed, Underway, Binding, Answered
<1>9. QED
  BY <1>4, <1>5, <1>6, <1>7, <1>8 DEF PushNext, PushStep

\* Nor is an answer given without it, and what is backed is accounted for.
LEMMA AnswerIsBacked ==
  ASSUME RowInv, KeptInv, NEW r \in Reqs, Answered(r), NEW op \in Ops,
         results[r][op] \in {"ACCEPTED", "DUPLICATE"}
  PROVE  Backed(op)
<1>1. CASE syncOpsLog[op] = "none"
  <2>1. newLog[r][op] = "ACCEPTED"
    BY <1>1 DEF RowInv, LogInv, VerdictsAreLogged, PushTypeOK, LogStatus
  <2>2. Safe(r, op)
    BY <2>1 DEF KeptInv, AcceptedIsCarried
  <2>3. QED
    BY <1>1, <2>2 DEF RowInv, TableIsLogged, Safe, Backed, Underway, Binding
<1>2. QED
  BY <1>1 DEF Backed

LEMMA BackedIsKept ==
  ASSUME KeptInv, NEW op \in Ops, Backed(op)
  PROVE  fieldReports[op] > 0 \/ Underway(op) \/ syncOpsLog[op] = "REJECTED" \/ op \in undone
BY DEF Backed, KeptInv, AcceptedIsKept, Landing, Underway, Binding, PushTypeOK, LogStatus
-------------------------------------------------------------------------------
\* The refinement of OpLedger: of all the steps of a request only its two commits
\* touch the ledger.
LedgerInv == OnceInv /\ RowInv

LEMMA CommitSystemRecords ==
  ASSUME LedgerInv, NEW r \in Reqs, CommitSystem(r)
  PROVE  Ledger!LedgerNext
<1> DEFINE S == {op \in Ops : newLog[r][op] # "none"}
<1> USE DEF LedgerInv, RowInv, LogInv, PushTypeOK
<1>1. \A op \in S : syncOpsLog[op] = "none"
  BY DEF LogsAreFresh
<1>2. [op \in S |-> newLog[r][op]] \in [S -> {"ACCEPTED", "REJECTED"}]
  BY DEF LogStatus
<1>3. syncOpsLog' = [op \in Ops |-> IF op \in S THEN [o \in S |-> newLog[r][o]][op] ELSE syncOpsLog[op]]
  BY DEF CommitSystem
<1>4. UNCHANGED fieldReports
  BY DEF CommitSystem
<1>5. S \in SUBSET Ops
  OBVIOUS
<1> HIDE DEF S
<1>6. Ledger!Record(S)
  BY <1>1, <1>2, <1>3, <1>4 DEF Ledger!Record
<1>7. QED
  BY <1>5, <1>6 DEF Ledger!LedgerNext

LEMMA CommitUserTakesEffect ==
  ASSUME LedgerInv, NEW r \in Reqs, CommitUser(r)
  PROVE  Ledger!LedgerNext
<1> USE DEF LedgerInv, OnceInv, RowInv, LogInv, PushTypeOK
<1>1. \A op \in newRows[r] : fieldReports[op] = 0
  BY DEF RowsAreFresh
<1>2. \A op \in newRows[r] : syncOpsLog[op] # "none"
  BY DEF CommitUser, RowsAreLogged, LogIsEmptyAfterCommit
<1>3. fieldReports' = [op \in Ops |-> IF op \in newRows[r] THEN 1 ELSE fieldReports[op]]
  BY <1>1 DEF CommitUser
<1>4. UNCHANGED syncOpsLog /\ newRows[r] \in SUBSET Ops
  BY DEF CommitUser
<1>5. Ledger!TakeEffect(newRows[r])
  BY <1>1, <1>2, <1>3, <1>4 DEF Ledger!TakeEffect
<1>6. QED
  BY <1>4, <1>5 DEF Ledger!LedgerNext

LEMMA StepIsLedgerStep ==
  ASSUME LedgerInv, [PushNext]_pushVars
  PROVE  [Ledger!LedgerNext]_(Ledger!ledgerVars)
<1>1. ASSUME NEW r \in Reqs, PushStep(r), ~CommitSystem(r), ~CommitUser(r)
      PROVE  UNCHANGED <<syncOpsLog, fieldReports>>
  BY <1>1
  DEF PushStep, AnswerGated, AnswerDuplicate, StartApply, ApplyReport, ApplyRaises, ApplyFailsInSql,
      LogAccepted, LogRejected, LogOp, EndBatch
<1>2. ASSUME NEW r \in Reqs,
             \/ \E b \in (SUBSET Ops) \ {{}}, class \in Classes : BeginPush(r, b, class)
             \/ PushDies(r) \/ FinishPush(r)
      PROVE  UNCHANGED <<syncOpsLog, fieldReports>>
  BY <1>2 DEF BeginPush, PushDies, FinishPush
<1>3. CASE UNCHANGED pushVars
  BY <1>3 DEF pushVars, Ledger!ledgerVars
<1>4. QED
  BY <1>1, <1>2, <1>3, CommitSystemRecords, CommitUserTakesEffect DEF PushNext, Ledger!ledgerVars

\* The server keeps the ledger it promises: under any interleaving of requests,
\* any retries and every combination of faults, an op is recorded once and for
\* good, and creates at most one report, after it was recorded.
THEOREM LedgerKept == PushSpec => KeepsLedger
<1>1. PushInit => Ledger!LedgerInit
  BY DEF PushInit, NoLog, Ledger!LedgerInit
<1>2. PushSpec => []LedgerInv
  <2>1. PushInit => OnceInv
    BY PushInitType DEF PushInit, OnceInv, OneReportPerOp, RowsAreFresh
  <2>2. OnceInv /\ [PushNext]_pushVars => OnceInv'
    BY OnceStep
  <2>3. PushSpec => []OnceInv
    BY <2>1, <2>2, PTL DEF PushSpec
  <2>4. OnceInv /\ RowInv => LedgerInv
    BY DEF LedgerInv
  <2>5. QED
    BY <2>3, <2>4, RowInvHolds, PTL
<1>3. LedgerInv /\ [PushNext]_pushVars => [Ledger!LedgerNext]_(Ledger!ledgerVars)
  BY StepIsLedgerStep
<1>4. QED
  BY <1>1, <1>2, <1>3, PTL DEF PushSpec, KeepsLedger, Ledger!LedgerSpec
===============================================================================
