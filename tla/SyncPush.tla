------------------------------- MODULE SyncPush -------------------------------
(***************************************************************************)
(* The server half of offline synchronisation: POST /sync/push             *)
(* (backend/app/sync/router.py) down to the two tables it writes.          *)
(*                                                                         *)
(* A request runs in TWO database transactions.  `db', the user session,   *)
(* holds the field_reports rows; `system_db' holds sync_ops_log.  Both     *)
(* stay open while the ops of the batch are applied one after the other.   *)
(* FastAPI leaves the sessions last-in first-out when the request ends;    *)
(* get_principal opens `db' before push opens `system_db', so the log      *)
(* commits first and the reports second.                                   *)
(***************************************************************************)
EXTENDS Integers, FiniteSets

CONSTANTS
  NumOps,        \* the client_op_ids are 1..NumOps, numbered in createdAt order
  OpType,        \* [1..NumOps -> OpTypes]
  Classes,       \* connectivity classes, EXCELLENT being no different from GOOD here
  WithPhoto,     \* the ops that carry a photo and are not CRITICAL
  Reqs,          \* slots for requests the server executes at the same time
  OpFaults,      \* subset of {"app", "sql"}: how applying an op may fail
  ServerFaults,  \* subset of {"running", "betweenCommits"}: when a request may die
  ServerPolicy,  \* the active sync_policies row: a ClassPolicy per class it knows
  ReplyFirst     \* TRUE: the reply leaves before the commits (FastAPI >= 0.118)

Ops       == 1 .. NumOps
OpTypes   == {"FIELD_REPORT", "GPS_PING"}
ClassPolicy == [maxOps : Nat, allowPhotos : BOOLEAN,
                allowedTypes : SUBSET (OpTypes \cup {"CRITICAL_FIELD_REPORT"})]

ASSUME PushAssumption ==
  /\ NumOps \in Nat
  /\ OpType \in [Ops -> OpTypes]
  /\ {"GOOD", "OFFLINE"} \subseteq Classes
  /\ WithPhoto \subseteq Ops
  /\ OpFaults \subseteq {"app", "sql"}
  /\ ServerFaults \subseteq {"running", "betweenCommits"}
  /\ DOMAIN ServerPolicy \subseteq Classes
  /\ ServerPolicy \in [DOMAIN ServerPolicy -> ClassPolicy]
  /\ ReplyFirst \in BOOLEAN

LogStatus == {"none", "ACCEPTED", "REJECTED"}
Verdict   == {"none", "ACCEPTED", "DUPLICATE", "REJECTED", "DEFERRED"}
Phase     == {"idle", "next", "apply", "logAccepted", "logRejected",
              "commitSystem", "commitUser", "done"}

VARIABLES
  fieldReports,  \* committed field_reports rows per client_op_id
  syncOpsLog,    \* committed sync_ops_log status per client_op_id
  phase,         \* where each request is
  reqClass,      \* body.connectivity
  todo,          \* ops of the batch without a verdict yet
  newRows,       \* rows inserted by the open user transaction
  txAborted,     \* the user transaction met an SQL error
  newLog,        \* log rows written by the open system transaction
  results,       \* verdicts of the response
  undone         \* history: ops whose row was rolled back behind an ACCEPTED

pushVars == <<fieldReports, syncOpsLog, phase, reqClass, todo, newRows,
              txAborted, newLog, results, undone>>

NoLog     == [op \in Ops |-> "none"]

PushTypeOK ==
  /\ fieldReports \in [Ops -> Nat]
  /\ syncOpsLog \in [Ops -> LogStatus]
  /\ phase \in [Reqs -> Phase]
  /\ reqClass \in [Reqs -> Classes]
  /\ todo \in [Reqs -> SUBSET Ops]
  /\ newRows \in [Reqs -> SUBSET Ops]
  /\ txAborted \in [Reqs -> BOOLEAN]
  /\ newLog \in [Reqs -> [Ops -> LogStatus]]
  /\ results \in [Reqs -> [Ops -> Verdict]]
  /\ undone \subseteq Ops

PushInit ==
  /\ fieldReports = [op \in Ops |-> 0]
  /\ syncOpsLog = NoLog
  /\ phase = [r \in Reqs |-> "idle"]
  /\ reqClass = [r \in Reqs |-> "OFFLINE"]
  /\ todo = [r \in Reqs |-> {}]
  /\ newRows = [r \in Reqs |-> {}]
  /\ txAborted = [r \in Reqs |-> FALSE]
  /\ newLog = [r \in Reqs |-> NoLog]
  /\ results = [r \in Reqs |-> NoLog]
  /\ undone = {}
-------------------------------------------------------------------------------
\* Mutant: the loop takes the ops of a batch in any order.
CurrentInAnyOrder(r, op) == op \in todo[r]

\* The loop takes the ops in the order the client sent them: createdAt order.
Current(r, op) == op \in todo[r] /\ \A other \in todo[r] : op <= other

\* gate_op: a class the active policy does not know is refused; an op waits for
\* a better link when the class carries no ops, not its type, or not its photo.
GateVerdict(r, op) ==
  IF reqClass[r] \notin DOMAIN ServerPolicy THEN "REJECTED"
  ELSE LET pol == ServerPolicy[reqClass[r]]
       IN  IF /\ pol.maxOps # 0
              /\ OpType[op] \in pol.allowedTypes
              /\ op \in WithPhoto => pol.allowPhotos
             THEN "ALLOWED" ELSE "DEFERRED"

GateAllows(r, op) == GateVerdict(r, op) = "ALLOWED"

\* Only the FIELD_REPORT branch copies client_op_id into the payload; the ping
\* branch reads payload["client_op_id"], which the app does not send.
PayloadHasOpId(op) == OpType[op] = "FIELD_REPORT"

\* is_duplicate: sees the committed log and this transaction's own rows.
IsDuplicate(r, op) == syncOpsLog[op] # "none" \/ newLog[r][op] # "none"

\* A unique index makes an insert wait for another open transaction's row.
RowFree(r, op) == \A q \in Reqs \ {r} : op \notin newRows[q]
LogFree(r, op) == \A q \in Reqs \ {r} : newLog[q][op] = "none"

SetVerdict(r, op, verdict) ==
  /\ results' = [results EXCEPT ![r][op] = verdict]
  /\ todo' = [todo EXCEPT ![r] = @ \ {op}]

Goto(r, p) == phase' = [phase EXCEPT ![r] = p]
-------------------------------------------------------------------------------
\* The request arrives; both sessions begin.
BeginPush(r, batch, class) ==
  /\ phase[r] = "idle"
  /\ Goto(r, "next")
  /\ todo' = [todo EXCEPT ![r] = batch]
  /\ reqClass' = [reqClass EXCEPT ![r] = class]
  /\ UNCHANGED <<fieldReports, syncOpsLog, newRows, txAborted, newLog, results, undone>>

\* Mutant: the verdict of the gate is logged as well.
AnswerGatedLogged(r) ==
  /\ phase[r] = "next"
  /\ \E op \in Ops :
       /\ Current(r, op)
       /\ ~GateAllows(r, op)
       /\ SetVerdict(r, op, GateVerdict(r, op))
       /\ newLog' = [newLog EXCEPT ![r][op] = GateVerdict(r, op)]
  /\ UNCHANGED <<fieldReports, syncOpsLog, phase, reqClass, newRows, txAborted, undone>>

\* What the gate says of an op is answered and not logged: it may be pushed again.
AnswerGated(r) ==
  /\ phase[r] = "next"
  /\ \E op \in Ops :
       /\ Current(r, op)
       /\ ~GateAllows(r, op)
       /\ SetVerdict(r, op, GateVerdict(r, op))
  /\ UNCHANGED <<fieldReports, syncOpsLog, phase, reqClass, newRows, txAborted, newLog, undone>>

\* A logged op is a duplicate, WHATEVER status was logged for it.
AnswerDuplicate(r) ==
  /\ phase[r] = "next"
  /\ \E op \in Ops :
       /\ Current(r, op)
       /\ GateAllows(r, op)
       /\ IsDuplicate(r, op)
       /\ SetVerdict(r, op, "DUPLICATE")
  /\ UNCHANGED <<fieldReports, syncOpsLog, phase, reqClass, newRows, txAborted, newLog, undone>>

\* The op is new to this request: apply it next.
StartApply(r) ==
  /\ phase[r] = "next"
  /\ \E op \in Ops : Current(r, op) /\ GateAllows(r, op) /\ ~IsDuplicate(r, op)
  /\ Goto(r, "apply")
  /\ UNCHANGED <<fieldReports, syncOpsLog, reqClass, todo, newRows, txAborted, newLog, results, undone>>

\* Mutant: a plain insert, no conflict clause.
InsertReportAlways(r, op) == newRows' = [newRows EXCEPT ![r] = @ \cup {op}]

\* Insert on conflict(client_op_id) do nothing; a replay returns the old row.
InsertReport(r, op) ==
  newRows' = [newRows EXCEPT ![r] = IF fieldReports[op] = 0 THEN @ \cup {op} ELSE @]

ApplyReport(r) ==
  /\ phase[r] = "apply"
  /\ ~txAborted[r]
  /\ \E op \in Ops :
       /\ Current(r, op)
       /\ PayloadHasOpId(op)
       /\ RowFree(r, op)
       /\ InsertReport(r, op)
  /\ Goto(r, "logAccepted")
  /\ UNCHANGED <<fieldReports, syncOpsLog, reqClass, todo, txAborted, newLog, results, undone>>

\* Applying raises in Python: scope denied, a key missing from the payload.
ApplyRaises(r) ==
  /\ phase[r] = "apply"
  /\ ~txAborted[r]
  /\ \E op \in Ops : Current(r, op) /\ ("app" \in OpFaults \/ ~PayloadHasOpId(op))
  /\ Goto(r, "logRejected")
  /\ UNCHANGED <<fieldReports, syncOpsLog, reqClass, todo, newRows, txAborted, newLog, results, undone>>

\* An SQL error (a cast, a constraint) aborts the whole user transaction: what
\* it had inserted is undone, and every later statement of it fails as well.
ApplyFailsInSql(r) ==
  /\ phase[r] = "apply"
  /\ "sql" \in OpFaults \/ txAborted[r]
  /\ txAborted' = [txAborted EXCEPT ![r] = TRUE]
  /\ newRows' = [newRows EXCEPT ![r] = {}]
  /\ undone' = undone \cup newRows[r]
  /\ Goto(r, "logRejected")
  /\ UNCHANGED <<fieldReports, syncOpsLog, reqClass, todo, newLog, results>>

\* Mutant: log_op as an upsert.
LogOpUpsert(r, status) ==
  /\ \E op \in Ops :
       /\ Current(r, op)
       /\ LogFree(r, op)
       /\ newLog' = [newLog EXCEPT ![r][op] = status]
       /\ SetVerdict(r, op, status)
  /\ Goto(r, "next")
  /\ UNCHANGED <<fieldReports, syncOpsLog, reqClass, newRows, txAborted, undone>>

\* log_op: insert on conflict(client_op_id) do nothing, then the verdict.
LogOp(r, status) ==
  /\ \E op \in Ops :
       /\ Current(r, op)
       /\ LogFree(r, op)
       /\ newLog' = IF syncOpsLog[op] = "none"
                      THEN [newLog EXCEPT ![r][op] = status] ELSE newLog
       /\ SetVerdict(r, op, status)
  /\ Goto(r, "next")
  /\ UNCHANGED <<fieldReports, syncOpsLog, reqClass, newRows, txAborted, undone>>

\* Mutant: the success path answers without log_op.
LogAcceptedForgotten(r) ==
  /\ phase[r] = "logAccepted"
  /\ \E op \in Ops : Current(r, op) /\ SetVerdict(r, op, "ACCEPTED")
  /\ Goto(r, "next")
  /\ UNCHANGED <<fieldReports, syncOpsLog, reqClass, newRows, txAborted, newLog, undone>>

LogAccepted(r) == phase[r] = "logAccepted" /\ LogOp(r, "ACCEPTED")
LogRejected(r) == phase[r] = "logRejected" /\ LogOp(r, "REJECTED")

\* Mutant: the user session is the one that leaves first.
EndBatchUserFirst(r) ==
  /\ phase[r] = "next"
  /\ todo[r] = {}
  /\ Goto(r, "commitUser")
  /\ UNCHANGED <<fieldReports, syncOpsLog, reqClass, todo, newRows, txAborted, newLog, results, undone>>

\* The handler returns.
EndBatch(r) ==
  /\ phase[r] = "next"
  /\ todo[r] = {}
  /\ Goto(r, "commitSystem")
  /\ UNCHANGED <<fieldReports, syncOpsLog, reqClass, todo, newRows, txAborted, newLog, results, undone>>

\* get_system_db leaves first.
CommitSystem(r) ==
  /\ phase[r] = "commitSystem"
  /\ syncOpsLog' = [op \in Ops |->
                      IF newLog[r][op] # "none" THEN newLog[r][op] ELSE syncOpsLog[op]]
  /\ newLog' = [newLog EXCEPT ![r] = NoLog]
  /\ Goto(r, "commitUser")
  /\ UNCHANGED <<fieldReports, reqClass, todo, newRows, txAborted, results, undone>>

\* Mutant: get_db closes its session without committing.
CommitUserForgotten(r) ==
  /\ phase[r] = "commitUser"
  /\ newRows' = [newRows EXCEPT ![r] = {}]
  /\ Goto(r, "done")
  /\ UNCHANGED <<fieldReports, syncOpsLog, reqClass, todo, txAborted, newLog, results, undone>>

\* get_db leaves last.  COMMIT of an aborted transaction is a silent rollback.
CommitUser(r) ==
  /\ phase[r] = "commitUser"
  /\ fieldReports' = [op \in Ops |->
                        IF op \in newRows[r] THEN fieldReports[op] + 1 ELSE fieldReports[op]]
  /\ newRows' = [newRows EXCEPT ![r] = {}]
  /\ undone' = undone \ newRows[r]
  /\ Goto(r, "done")
  /\ UNCHANGED <<syncOpsLog, reqClass, todo, txAborted, newLog, results>>

Clear(r) ==
  /\ Goto(r, "idle")
  /\ reqClass' = [reqClass EXCEPT ![r] = "OFFLINE"]
  /\ todo' = [todo EXCEPT ![r] = {}]
  /\ newRows' = [newRows EXCEPT ![r] = {}]
  /\ txAborted' = [txAborted EXCEPT ![r] = FALSE]
  /\ newLog' = [newLog EXCEPT ![r] = NoLog]
  /\ results' = [results EXCEPT ![r] = NoLog]

\* When the response may reach the client.
Answered(r) ==
  \/ phase[r] = "done"
  \/ ReplyFirst /\ phase[r] \in {"commitSystem", "commitUser"}

\* The verdicts of r count: they are in the log, or the client may have them.
Binding(r) == phase[r] = "commitUser" \/ Answered(r)

\* The request dies (process killed, connection lost, COMMIT refused): what is
\* not committed is rolled back.
PushDies(r) ==
  /\ \/ "running" \in ServerFaults /\ phase[r] \notin {"idle", "commitUser", "done"}
     \/ "betweenCommits" \in ServerFaults /\ phase[r] = "commitUser"
  /\ undone' = IF Binding(r) THEN undone \cup newRows[r] ELSE undone
  /\ Clear(r)
  /\ UNCHANGED <<fieldReports, syncOpsLog>>

\* The response is out (or nobody waits for it any more): the slot is free.
FinishPush(r) ==
  /\ phase[r] = "done"
  /\ Clear(r)
  /\ UNCHANGED <<fieldReports, syncOpsLog, undone>>

PushStep(r) ==
  \/ AnswerGated(r) \/ AnswerDuplicate(r) \/ StartApply(r)
  \/ ApplyReport(r) \/ ApplyRaises(r) \/ ApplyFailsInSql(r)
  \/ LogAccepted(r) \/ LogRejected(r)
  \/ EndBatch(r) \/ CommitSystem(r) \/ CommitUser(r)

\* Any client may push any batch, again and again.
PushNext ==
  \E r \in Reqs :
    \/ \E batch \in (SUBSET Ops) \ {{}}, class \in Classes : BeginPush(r, batch, class)
    \/ PushStep(r) \/ PushDies(r) \/ FinishPush(r)

PushSpec == PushInit /\ [][PushNext]_pushVars
-------------------------------------------------------------------------------
\* Idempotency (docs/offline-strategy.md "without double effects"): replays and
\* concurrent pushes of one client_op_id create at most one report.
OneReportPerOp == \A op \in Ops : fieldReports[op] <= 1

\* A request that has committed its log and not yet its reports still holds op.
Landing(op) == \E r \in Reqs : phase[r] = "commitUser" /\ op \in newRows[r]

\* The same from the moment the verdict of op counts.
Underway(op) == \E r \in Reqs : Binding(r) /\ op \in newRows[r]

\* What a reader of the log expects, and the code does not hold (router.py
\* 102-138): an op that is logged as ACCEPTED has its report in the table, or
\* the request that logged it is about to commit it there.
AcceptedIsStored ==
  \A op \in Ops : syncOpsLog[op] = "ACCEPTED" => fieldReports[op] > 0 \/ Landing(op)

\* What the code does hold, whatever fails: the log and the report travel in two
\* transactions (router.py 102-138), and only a rollback of the second, by an SQL
\* error later in the batch or a death between the commits, parts an ACCEPTED op
\* from its report; no interleaving of requests does.
AcceptedIsKept ==
  \A op \in Ops :
    syncOpsLog[op] = "ACCEPTED" => fieldReports[op] > 0 \/ Landing(op) \/ op \in undone

\* The first verdict logged for an op is final, although two requests may both
\* have found the op unlogged before either commits.
LogIsWriteOnce ==
  [][\A op \in Ops : syncOpsLog[op] # "none" => syncOpsLog'[op] = syncOpsLog[op]]_pushVars

\* A report never gets ahead of its log: once a request may commit the row of an
\* op, the committed log knows the op, whatever fails, so every later push of it
\* is answered from the log and applies nothing (core/db.py: the system session
\* leaves first).
StoredIsLogged ==
  \A op \in Ops : fieldReports[op] > 0 \/ Landing(op) => syncOpsLog[op] # "none"

\* r has to wait for q: the key it inserts next is in an open transaction of q.
WaitsFor(r, q) ==
  /\ r # q
  /\ \E op \in Ops :
       /\ Current(r, op)
       /\ \/ phase[r] = "apply" /\ op \in newRows[q]
          \/ phase[r] \in {"logAccepted", "logRejected"} /\ newLog[q][op] # "none"

\* Requests that carry the same ops hold keys of two tables until they end, but
\* never wait for each other in a circle: in every set of requests there is one
\* that waits for none of the others.
NoCircularWait ==
  \A S \in (SUBSET Reqs) \ {{}} : \E r \in S : \A q \in S : ~WaitsFor(r, q)

\* The server as a ledger: whatever requests, retries and faults there are, its
\* two tables change only as OpLedger says.
Ledger == INSTANCE OpLedger
  WITH ClientOps <- Ops, verdicts <- syncOpsLog, effects <- fieldReports

KeepsLedger == Ledger!LedgerSpec
===============================================================================
