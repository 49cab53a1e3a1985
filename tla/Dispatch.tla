------------------------------- MODULE Dispatch --------------------------------
(***************************************************************************)
(* From a field report to a responder: validate_report (backend/app/field/ *)
(* service.py) with dispatch_for_report, the lifecycle of response tasks   *)
(* and the sweep that reassigns them (responders/service.py).              *)
(*                                                                         *)
(* Reports are those whose severity calls for a dispatch.  The alerts that *)
(* are raised on the way carry no dedup key and nothing reads them back:   *)
(* they appear as the set of reports or tasks they speak of, and as if     *)
(* PostgreSQL took their insert (see Alerts).                              *)
(***************************************************************************)
EXTENDS Requests, Naturals, Sequences, FiniteSets

CONSTANTS
  Reports,
  Responders,
  InRange,       \* [Reports -> Seq(Responders)]: within SEARCH_RADIUS_M, nearest first
  InDistrict,    \* reports that lie in a district, so that district_code is set
  Located,       \* reports with a position
  MaxTasks,      \* bound: response tasks ever created
  SweepLimit,    \* `limit 50' of the sweep
  NoTask

TaskIds      == 1 .. MaxTasks
ReportStatus == {"SUBMITTED", "VALIDATED", "REJECTED"}
TaskStatus   == {"PENDING", "ACKNOWLEDGED", "DISPATCHED", "ON_SITE", "RESOLVED", "CANCELLED"}
Task         == [report : Reports, responder : Responders, status : TaskStatus,
                 acknowledged : BOOLEAN, overdue : BOOLEAN]

\* What a request does, and what the sweep reads of a task.
Request  == RequestOf("report", Reports, ReportStatus) \cup RequestOf("task", TaskIds, TaskStatus)
SweepRow == [task : TaskIds, responder : Responders]

ASSUME DispatchAssumption ==
  /\ InRange \in [Reports -> Seq(Responders)]
  /\ InDistrict \subseteq Reports /\ Located \subseteq Reports
  /\ MaxTasks \in Nat /\ SweepLimit \in Nat \ {0}
  /\ NoCall \notin Request
  /\ NoTask \notin Task

VARIABLES
  reportStatus,   \* field_reports.status
  responders,     \* rows of responders; nothing ever makes one inactive
  tasks,          \* response_tasks; acknowledged: acknowledged_at is set, overdue:
                  \* PENDING and assigned longer ago than ACK_TIMEOUT_MINUTES
  uncovered,      \* reports with an alert "No responder in range"
  undispatched,   \* reports whose audit row says "dispatch_failed"
  notified,       \* tasks with an alert "Response task unacknowledged"
  sweepRows       \* the sweep's `overdue' rows while it is under way, or {}

dispatchVars == <<reportStatus, responders, tasks, uncovered, undispatched, notified, sweepRows>>
vars         == <<calls, dispatchVars>>

IsTask(t)    == tasks[t] # NoTask

TypeOK ==
  /\ calls \in [Calls -> Request \cup {NoCall}]
  /\ reportStatus \in [Reports -> ReportStatus]
  /\ responders \subseteq Responders
  /\ tasks \in [TaskIds -> Task \cup {NoTask}]
  /\ uncovered \subseteq Reports /\ undispatched \subseteq Reports
  /\ notified \subseteq TaskIds
  /\ sweepRows \subseteq SweepRow

Init ==
  /\ RequestsInit
  /\ reportStatus = [r \in Reports |-> "SUBMITTED"]
  /\ responders \in SUBSET Responders
  /\ tasks = [t \in TaskIds |-> NoTask]
  /\ uncovered = {} /\ undispatched = {} /\ notified = {}
  /\ sweepRows = {}

\* find_nearest, leaving out one responder.
Candidates(r, excluded) == {i \in 1 .. Len(InRange[r]) : InRange[r][i] \in responders \ excluded}
IsNearest(r, excluded, x) ==
  \E i \in Candidates(r, excluded) : x = InRange[r][i] /\ \A j \in Candidates(r, excluded) : i <= j
-------------------------------------------------------------------------------
\* POST /responders.
CreateResponder(x) ==
  /\ x \in Responders \ responders
  /\ responders' = responders \cup {x}
  /\ UNCHANGED <<reportStatus, tasks, uncovered, undispatched, notified, sweepRows, calls>>

\* validate_report, up to the check of the report.
LoadReport(c, r, decision) ==
  /\ reportStatus[r] = "SUBMITTED"
  /\ Begin(c, [on |-> "report", row |-> r, new |-> decision])
  /\ UNCHANGED dispatchVars

\* create_task.
CreateTask(r, x) ==
  \E t \in TaskIds :
    /\ \A other \in TaskIds : IsTask(other) <=> other < t
    /\ tasks' = [tasks EXCEPT ![t] = [report |-> r, responder |-> x, status |-> "PENDING",
                                      acknowledged |-> FALSE, overdue |-> FALSE]]

\* The nearest responder gets a task, or the district an alert.
CoverReport(r) ==
  \/ \E x \in responders : IsNearest(r, {}, x) /\ CreateTask(r, x) /\ UNCHANGED uncovered
  \/ /\ Candidates(r, {}) = {}
     /\ uncovered' = uncovered \cup {r}
     /\ UNCHANGED tasks

\* dispatch_for_report, which never raises: what fails in it, before or after the
\* row is written, becomes a line of the audit row.
DispatchForReport(r) ==
  \/ CoverReport(r) /\ UNCHANGED undispatched
  \/ /\ CoverReport(r) \/ UNCHANGED <<tasks, uncovered>>
     /\ undispatched' = undispatched \cup {r}

\* Mutant: the dispatch commits on its own, and the validation may fail after it.
DecideReportApart(c) ==
  /\ InProgress(c, "report")
  /\ reportStatus' \in {reportStatus, [reportStatus EXCEPT ![calls[c].row] = calls[c].new]}
  /\ IF calls[c].new = "VALIDATED" /\ calls[c].row \in Located
       THEN DispatchForReport(calls[c].row)
       ELSE UNCHANGED <<tasks, uncovered, undispatched>>
  /\ End(c)
  /\ UNCHANGED <<responders, notified, sweepRows>>

\* validate_report, the rest of it, in one transaction.  An SQL error aborts that
\* transaction even when dispatch_for_report swallows it: the audit row that
\* follows fails, and nothing of the validation is kept (CallDies).
DecideReport(c) ==
  /\ InProgress(c, "report")
  /\ reportStatus' = [reportStatus EXCEPT ![calls[c].row] = calls[c].new]
  /\ IF calls[c].new = "VALIDATED" /\ calls[c].row \in Located
       THEN DispatchForReport(calls[c].row)
       ELSE UNCHANGED <<tasks, uncovered, undispatched>>
  /\ End(c)
  /\ UNCHANGED <<responders, notified, sweepRows>>
-------------------------------------------------------------------------------
\* Mutant: a responder may be on the way without having acknowledged.
ValidTransitionsShortcut(from, new) ==
  CASE from = "PENDING"      -> new \in {"ACKNOWLEDGED", "DISPATCHED", "CANCELLED"}
    [] from = "ACKNOWLEDGED" -> new \in {"DISPATCHED", "RESOLVED", "CANCELLED"}
    [] from = "DISPATCHED"   -> new \in {"ON_SITE", "RESOLVED", "CANCELLED"}
    [] from = "ON_SITE"      -> new \in {"RESOLVED", "CANCELLED"}
    [] OTHER                 -> FALSE

\* VALID_TRANSITIONS.
ValidTransitions(from, new) ==
  CASE from = "PENDING"      -> new \in {"ACKNOWLEDGED", "CANCELLED"}
    [] from = "ACKNOWLEDGED" -> new \in {"DISPATCHED", "RESOLVED", "CANCELLED"}
    [] from = "DISPATCHED"   -> new \in {"ON_SITE", "RESOLVED", "CANCELLED"}
    [] from = "ON_SITE"      -> new \in {"RESOLVED", "CANCELLED"}
    [] OTHER                 -> FALSE

\* transition, up to the check of the task.
LoadTask(c, t, new) ==
  /\ IsTask(t)
  /\ ValidTransitions(tasks[t].status, new)
  /\ Begin(c, [on |-> "task", row |-> t, new |-> new])
  /\ UNCHANGED dispatchVars

\* Only a task that is still PENDING can be overdue.
MovedTo(task, new) ==
  [task EXCEPT !.status = new,
               !.acknowledged = task.acknowledged \/ new = "ACKNOWLEDGED",
               !.overdue = FALSE]

\* ... the update, on whatever the row has become.
MoveTask(c) ==
  /\ InProgress(c, "task")
  /\ tasks' = [tasks EXCEPT ![calls[c].row] = MovedTo(tasks[calls[c].row], calls[c].new)]
  /\ End(c)
  /\ UNCHANGED <<reportStatus, responders, uncovered, undispatched, notified, sweepRows>>

DispatchCall(c) ==
  \/ \E r \in Reports, decision \in {"VALIDATED", "REJECTED"} : LoadReport(c, r, decision)
  \/ DecideReport(c)
  \/ \E t \in TaskIds, new \in TaskStatus : LoadTask(c, t, new)
  \/ MoveTask(c)
  \/ CallDies(c) /\ UNCHANGED dispatchVars
-------------------------------------------------------------------------------
\* ACK_TIMEOUT_MINUTES after the assignment.
AckTimeout(t) ==
  /\ IsTask(t) /\ ~tasks[t].overdue /\ tasks[t].status = "PENDING"
  /\ tasks' = [tasks EXCEPT ![t].overdue = TRUE]
  /\ UNCHANGED <<reportStatus, responders, uncovered, undispatched, notified, sweepRows, calls>>

Overdue == {t \in TaskIds : IsTask(t) /\ tasks[t].overdue}

\* Mutant: the query leaves out whose task it is.
RowOfAnyone(t) == [task |-> t, responder |-> NoTask]

RowOf(t) == [task |-> t, responder |-> tasks[t].responder]

\* escalation_sweep: the query, which has a limit and no order.
SelectOverdue ==
  /\ sweepRows = {}
  /\ \E S \in SUBSET Overdue :
       /\ S # {}
       /\ Cardinality(S) <= SweepLimit
       /\ S = Overdue \/ Cardinality(S) = SweepLimit
       /\ sweepRows' = {RowOf(t) : t \in S}
  /\ UNCHANGED <<reportStatus, responders, tasks, uncovered, undispatched, notified, calls>>

HasAlternative(row) == Candidates(tasks[row.task].report, {row.responder}) # {}
Alternative(row) ==
  CHOOSE x \in responders : IsNearest(tasks[row.task].report, {row.responder}, x)

\* Mutant: a reassignment does not restart the clock.
ReassignedStale(row) == [tasks[row.task] EXCEPT !.responder = Alternative(row)]

\* The next-nearest responder gets the task, and the window starts again.
Reassigned(row) == [tasks[row.task] EXCEPT !.responder = Alternative(row), !.overdue = FALSE]

\* escalation_sweep: every selected task is handled by its id alone, and all of
\* them in one transaction.
CommitSweep ==
  /\ sweepRows # {}
  /\ tasks' = [t \in TaskIds |->
                 IF \E row \in sweepRows : row.task = t /\ HasAlternative(row)
                 THEN Reassigned(CHOOSE row \in sweepRows : row.task = t)
                 ELSE tasks[t]]
  /\ notified' = notified \cup
       {row.task : row \in {w \in sweepRows : ~HasAlternative(w) /\ tasks[w.task].report \in InDistrict}}
  /\ sweepRows' = {}
  /\ UNCHANGED <<reportStatus, responders, uncovered, undispatched, calls>>

\* The sweep fails as a whole; the runner logs it and calls it again.
SweepFails ==
  /\ sweepRows # {}
  /\ sweepRows' = {}
  /\ UNCHANGED <<reportStatus, responders, tasks, uncovered, undispatched, notified, calls>>
-------------------------------------------------------------------------------
Next ==
  \/ \E c \in Calls : DispatchCall(c)
  \/ \E x \in Responders : CreateResponder(x)
  \/ \E t \in TaskIds : AckTimeout(t)
  \/ SelectOverdue \/ CommitSweep \/ SweepFails

Spec == Init /\ [][Next]_vars

\* WorkerRunner._loop calls the sweep again and again, it does not fail every
\* time, and time passes.
Fairness ==
  /\ SF_vars(SelectOverdue)
  /\ SF_vars(CommitSweep)
  /\ \A t \in TaskIds : WF_vars(AckTimeout(t))

FairSpec == Spec /\ Fairness
-------------------------------------------------------------------------------
IsAnswered(r) ==
  r \in uncovered \cup undispatched \/ \E t \in TaskIds : IsTask(t) /\ tasks[t].report = r

\* Validation and dispatch stand or fall together, whatever overlapping decisions
\* write over each other and wherever one of them dies: a validated report has a
\* responder, or its district knows that there is none, or the audit row says that
\* the dispatch failed; and none of this is done for a report that nobody has
\* decided (validate_report, "dispatch problems never fail validation").
DispatchFollowsDecision ==
  \A r \in Reports :
    /\ reportStatus[r] = "VALIDATED" /\ r \in Located => IsAnswered(r)
    /\ IsAnswered(r) => reportStatus[r] # "SUBMITTED"

\* Nobody is on the way to, at, or done with an incident that no responder ever
\* acknowledged, although transitions race with each other and with the sweep
\* (VALID_TRANSITIONS is checked against a status that may be out of date).
AcknowledgedFirst ==
  \A t \in TaskIds : IsTask(t) /\ tasks[t].status \in {"DISPATCHED", "ON_SITE", "RESOLVED"} =>
    tasks[t].acknowledged

\* No overdue task is forgotten: it is reassigned, escalated to the district, or
\* its status has moved on, although sweeps fail and race with the responder's
\* answer; only a report outside every district has nobody to tell
\* (escalation_sweep).
OverdueIsHandled ==
  \A t \in TaskIds :
    t \in Overdue /\ tasks[t].report \in InDistrict ~> t \notin Overdue \/ t \in notified

\* responders/service.py 11: tasks still PENDING past the window "are reassigned to
\* the next-nearest responder; if none exists the district chain is notified".
UnansweredReachesDistrict ==
  \A t \in TaskIds :
    t \in Overdue /\ tasks[t].report \in InDistrict ~>
      IsTask(t) /\ (tasks[t].status # "PENDING" \/ t \in notified)
===============================================================================
