---------------------------- MODULE DispatchProofs -----------------------------
(***************************************************************************)
(* Proofs about Dispatch for any number of requests, reports, responders   *)
(* and tasks, and any limit of the sweep.                                  *)
(***************************************************************************)
EXTENDS Dispatch, FiniteSetTheorems, TLAPS

\* A nonempty set of natural numbers has a least element.  The segments 1 .. i
\* of its elements are finite sets, and inclusion is well-founded on those.
LEMMA Least ==
  ASSUME NEW S \in SUBSET Nat, S # {}
  PROVE  \E i \in S : \A j \in S : i <= j
<1> DEFINE T == {1 .. i : i \in S}
<1>1. T \subseteq FiniteSubsetsOf(Nat) /\ T # {}
  <2>1. ASSUME NEW i \in S
        PROVE  1 .. i \subseteq Nat /\ IsFiniteSet(1 .. i)
    <3>1. 1 \in Int /\ i \in Int
      OBVIOUS
    <3>2. IsFiniteSet(1 .. i)
      BY <3>1, FS_Interval
    <3>3. QED
      BY <3>2
  <2>2. QED
    BY <2>1 DEF FiniteSubsetsOf
<1>2. PICK x \in T : \A y \in T : ~ (<<y, x>> \in StrictSubsetOrdering(Nat))
  BY <1>1, WFMin, FS_StrictSubsetOrderingWellFounded
<1>3. PICK i \in S : x = 1 .. i
  OBVIOUS
<1>4. ASSUME NEW j \in S, j < i
      PROVE  FALSE
  <2>1. 1 .. j \subseteq 1 .. i /\ i \in 1 .. i /\ i \notin 1 .. j
    BY <1>4
  <2>2. <<1 .. j, 1 .. i>> \in StrictSubsetOrdering(Nat)
    BY <2>1 DEF StrictSubsetOrdering
  <2>3. QED
    BY <1>2, <1>3, <2>2, <1>4
<1>5. QED
  BY <1>4

\* find_nearest finds somebody wherever there is a candidate.
LEMMA NearestExists ==
  ASSUME NEW r \in Reports, NEW excluded, Candidates(r, excluded) # {}
  PROVE  \E x \in responders : IsNearest(r, excluded, x)
<1>1. Candidates(r, excluded) \in SUBSET Nat
  BY DispatchAssumption DEF Candidates
<1>2. PICK i \in Candidates(r, excluded) : \A j \in Candidates(r, excluded) : i <= j
  BY <1>1, Least
<1>3. InRange[r][i] \in responders
  BY <1>2 DEF Candidates
<1>4. IsNearest(r, excluded, InRange[r][i])
  BY <1>2 DEF IsNearest
<1>5. QED
  BY <1>3, <1>4
-------------------------------------------------------------------------------
\* The tasks a request or the sweep has in hand are there, each once.
CallsKnowTheirTask == \A c \in Calls : InProgress(c, "task") => IsTask(calls[c].row)

SweepKnowsItsTasks ==
  \A row \in sweepRows :
    IsTask(row.task) /\ \A other \in sweepRows : other.task = row.task => other = row

TypeInv == TypeOK /\ CallsKnowTheirTask /\ SweepKnowsItsTasks

LEMMA ReportCall ==
  ASSUME TypeOK, NEW c \in Calls, InProgress(c, "report")
  PROVE  calls[c].row \in Reports /\ calls[c].new \in ReportStatus
BY DEF TypeOK, InProgress, Request, RequestOf

LEMMA TaskCall ==
  ASSUME TypeInv, NEW c \in Calls, InProgress(c, "task")
  PROVE  /\ calls[c].row \in TaskIds /\ calls[c].new \in TaskStatus
         /\ tasks[calls[c].row] \in Task
BY DEF TypeInv, TypeOK, CallsKnowTheirTask, IsTask, InProgress, Request, RequestOf

LEMMA EndCall ==
  ASSUME TypeOK, NEW c \in Calls, End(c)
  PROVE  /\ calls' \in [Calls -> Request \cup {NoCall}]
         /\ \A d \in Calls, on \in {"report", "task"} : InProgress(d, on)' => InProgress(d, on) /\ calls'[d] = calls[d]
BY DEF TypeOK, End, InProgress

LEMMA BeginCall ==
  ASSUME TypeOK, NEW c \in Calls, NEW request \in Request, Begin(c, request)
  PROVE  /\ calls' \in [Calls -> Request \cup {NoCall}]
         /\ calls'[c] = request
         /\ \A d \in Calls : d # c => calls'[d] = calls[d]
BY DEF TypeOK, Begin

\* A new task takes a free number.
LEMMA TaskCreated ==
  ASSUME TypeOK, NEW r \in Reports, NEW x \in Responders, CreateTask(r, x)
  PROVE  /\ tasks' \in [TaskIds -> Task \cup {NoTask}]
         /\ \A t \in TaskIds : IsTask(t) => tasks'[t] = tasks[t]
         /\ \E t \in TaskIds :
              /\ ~IsTask(t) /\ tasks'[t] # NoTask
              /\ tasks'[t] = [report |-> r, responder |-> x, status |-> "PENDING",
                              acknowledged |-> FALSE, overdue |-> FALSE]
              /\ \A other \in TaskIds : other # t => tasks'[other] = tasks[other]
<1>1. PICK t \in TaskIds :
        /\ \A other \in TaskIds : IsTask(other) <=> other < t
        /\ tasks' = [tasks EXCEPT ![t] = [report |-> r, responder |-> x, status |-> "PENDING",
                                          acknowledged |-> FALSE, overdue |-> FALSE]]
  BY DEF CreateTask
<1>2. ~IsTask(t)
  BY <1>1 DEF TaskIds
<1>3. [report |-> r, responder |-> x, status |-> "PENDING",
       acknowledged |-> FALSE, overdue |-> FALSE] \in Task
  BY DEF Task, TaskStatus
<1>4. tasks'[t] # NoTask
  BY <1>1, <1>3, DispatchAssumption DEF TypeOK
<1>5. QED
  BY <1>1, <1>2, <1>3, <1>4 DEF TypeOK, IsTask

\* What the search for a responder leaves behind.
LEMMA Covered ==
  ASSUME TypeOK, NEW r \in Reports, CoverReport(r)
  PROVE  /\ tasks' \in [TaskIds -> Task \cup {NoTask}]
         /\ uncovered \subseteq uncovered' /\ uncovered' \subseteq uncovered \cup {r}
         /\ \A t \in TaskIds : IsTask(t) => tasks'[t] = tasks[t]
         /\ \A t \in TaskIds : ~IsTask(t) /\ tasks'[t] # NoTask =>
              tasks'[t].status = "PENDING" /\ tasks'[t].report = r
         /\ r \in uncovered' \/ \E t \in TaskIds : tasks'[t] # NoTask /\ tasks'[t].report = r
<1>1. CASE \E x \in responders : IsNearest(r, {}, x) /\ CreateTask(r, x) /\ UNCHANGED uncovered
  <2>1. PICK x \in Responders : CreateTask(r, x) /\ UNCHANGED uncovered
    BY <1>1 DEF TypeOK
  <2>2. PICK t \in TaskIds :
          /\ ~IsTask(t) /\ tasks'[t] # NoTask
          /\ tasks'[t] = [report |-> r, responder |-> x, status |-> "PENDING",
                          acknowledged |-> FALSE, overdue |-> FALSE]
          /\ \A other \in TaskIds : other # t => tasks'[other] = tasks[other]
    BY <2>1, TaskCreated
  <2>3. tasks'[t] # NoTask
    BY <2>2
  <2>4. tasks' \in [TaskIds -> Task \cup {NoTask}] /\ \A u \in TaskIds : IsTask(u) => tasks'[u] = tasks[u]
    BY <2>1, TaskCreated
  <2>5. tasks'[t].report = r /\ tasks'[t].status = "PENDING"
    BY <2>2
  <2>6. \A u \in TaskIds : ~IsTask(u) /\ tasks'[u] # NoTask =>
          tasks'[u].status = "PENDING" /\ tasks'[u].report = r
    BY <2>2, <2>5 DEF IsTask
  <2>7. QED
    BY <2>1, <2>3, <2>4, <2>5, <2>6
<1>2. CASE uncovered' = uncovered \cup {r} /\ UNCHANGED tasks
  BY <1>2 DEF TypeOK, IsTask
<1>3. QED
  BY <1>1, <1>2 DEF CoverReport

\* What dispatch_for_report leaves behind: an answer, and nothing about any other
\* report.
LEMMA Dispatched ==
  ASSUME TypeOK, NEW r \in Reports, DispatchForReport(r)
  PROVE  /\ tasks' \in [TaskIds -> Task \cup {NoTask}]
         /\ \A t \in TaskIds : IsTask(t) => tasks'[t] = tasks[t]
         /\ \A t \in TaskIds : ~IsTask(t) /\ tasks'[t] # NoTask =>
              tasks'[t].status = "PENDING" /\ tasks'[t].report = r
         /\ uncovered \subseteq uncovered' /\ uncovered' \subseteq uncovered \cup {r}
         /\ undispatched \subseteq undispatched' /\ undispatched' \subseteq undispatched \cup {r}
         /\ IsAnswered(r)'
<1>1. undispatched \subseteq undispatched' /\ undispatched' \subseteq undispatched \cup {r}
  BY DEF DispatchForReport
<1>2. CASE CoverReport(r)
  <2>1. r \in uncovered' \/ \E t \in TaskIds : tasks'[t] # NoTask /\ tasks'[t].report = r
    BY <1>2, Covered
  <2>2. IsAnswered(r)'
    BY <2>1 DEF IsAnswered, IsTask
  <2>3. QED
    BY <1>1, <1>2, <2>2, Covered
<1>3. CASE UNCHANGED <<tasks, uncovered>> /\ undispatched' = undispatched \cup {r}
  <2>1. IsAnswered(r)'
    BY <1>3 DEF IsAnswered
  <2>2. \A t \in TaskIds : tasks'[t] # NoTask => IsTask(t)
    BY <1>3 DEF IsTask
  <2>3. QED
    BY <1>1, <1>3, <2>1, <2>2 DEF TypeOK
<1>4. QED
  BY <1>2, <1>3 DEF DispatchForReport

\* What a decision of a report leaves behind.
LEMMA Decided ==
  ASSUME TypeOK, NEW c \in Calls, DecideReport(c)
  PROVE  /\ tasks' \in [TaskIds -> Task \cup {NoTask}]
         /\ \A t \in TaskIds : IsTask(t) => tasks'[t] = tasks[t]
         /\ \A t \in TaskIds : ~IsTask(t) /\ tasks'[t] # NoTask =>
              tasks'[t].status = "PENDING" /\ tasks'[t].report = calls[c].row
         /\ uncovered \subseteq uncovered' /\ uncovered' \subseteq uncovered \cup {calls[c].row}
         /\ undispatched \subseteq undispatched'
         /\ undispatched' \subseteq undispatched \cup {calls[c].row}
         /\ \A r \in Reports :
              r = calls[c].row /\ calls[c].new = "VALIDATED" /\ r \in Located => IsAnswered(r)'
<1>1. calls[c].row \in Reports
  BY ReportCall DEF DecideReport
<1>2. CASE calls[c].new = "VALIDATED" /\ calls[c].row \in Located
  <2>1. DispatchForReport(calls[c].row)
    BY <1>2 DEF DecideReport
  <2>2. QED
    BY <1>1, <2>1, Dispatched
<1>3. CASE ~(calls[c].new = "VALIDATED" /\ calls[c].row \in Located)
  <2>1. UNCHANGED <<tasks, uncovered, undispatched>>
    BY <1>3 DEF DecideReport
  <2>2. QED
    BY <1>3, <2>1 DEF TypeOK, IsTask
<1>4. QED
  BY <1>2, <1>3

\* A transition moves one task, and keeps whose it is.
LEMMA Moved ==
  ASSUME TypeInv, NEW c \in Calls, MoveTask(c)
  PROVE  /\ tasks' \in [TaskIds -> Task \cup {NoTask}]
         /\ \A t \in TaskIds : IsTask(t) => tasks'[t] # NoTask /\ tasks'[t].report = tasks[t].report
         /\ \A t \in TaskIds : ~IsTask(t) => tasks'[t] = NoTask
         /\ \A t \in TaskIds : IsTask(t) /\ tasks[t].acknowledged => tasks'[t].acknowledged
         /\ calls[c].new = "ACKNOWLEDGED" => tasks'[calls[c].row].acknowledged
         /\ tasks'[calls[c].row].status = calls[c].new
         /\ \A t \in TaskIds : t # calls[c].row => tasks'[t] = tasks[t]
<1> DEFINE t == calls[c].row
<1>1. t \in TaskIds /\ calls[c].new \in TaskStatus /\ tasks[t] \in Task
  BY TaskCall DEF MoveTask
<1> DEFINE moved == MovedTo(tasks[t], calls[c].new)
<1>2. tasks' = [tasks EXCEPT ![t] = moved]
  BY DEF MoveTask
<1>3. moved \in Task
  BY <1>1 DEF MovedTo, Task
<1>4. \A u \in TaskIds : u # t => tasks'[u] = tasks[u]
  BY <1>1, <1>2 DEF TypeInv, TypeOK
<1>5. /\ moved.report = tasks[t].report /\ moved.status = calls[c].new
      /\ tasks[t].acknowledged => moved.acknowledged
      /\ calls[c].new = "ACKNOWLEDGED" => moved.acknowledged
  BY <1>1 DEF MovedTo, Task
<1>6. tasks'[t] = moved /\ tasks[t] # NoTask /\ moved # NoTask
  BY <1>1, <1>2, <1>3, DispatchAssumption DEF TypeInv, TypeOK
<1>7. tasks' \in [TaskIds -> Task \cup {NoTask}]
  BY <1>1, <1>2, <1>3 DEF TypeInv, TypeOK
<1> HIDE DEF moved
<1>8. QED
  BY <1>1, <1>4, <1>5, <1>6, <1>7 DEF IsTask

\* The window of a task passes.
LEMMA TimedOut ==
  ASSUME TypeOK, NEW t \in TaskIds, AckTimeout(t)
  PROVE  /\ tasks' \in [TaskIds -> Task \cup {NoTask}]
         /\ \A u \in TaskIds : IsTask(u) =>
              /\ tasks'[u] # NoTask /\ tasks'[u].report = tasks[u].report
              /\ tasks'[u].status = tasks[u].status /\ tasks'[u].acknowledged = tasks[u].acknowledged
         /\ \A u \in TaskIds : ~IsTask(u) => tasks'[u] = NoTask
<1>1. tasks[t] \in Task
  BY DEF AckTimeout, TypeOK, IsTask
<1>2. [tasks[t] EXCEPT !.overdue = TRUE] \in Task
  BY <1>1 DEF Task
<1>3. tasks' = [tasks EXCEPT ![t] = [tasks[t] EXCEPT !.overdue = TRUE]]
  BY DEF AckTimeout
<1>4. QED
  BY <1>1, <1>2, <1>3, DispatchAssumption DEF TypeOK, IsTask, Task

\* A reassigned task changes its responder and its clock.
LEMMA Reassignment ==
  ASSUME TypeInv, NEW row \in sweepRows, HasAlternative(row)
  PROVE  /\ Reassigned(row) \in Task
         /\ Reassigned(row).report = tasks[row.task].report
         /\ Reassigned(row).status = tasks[row.task].status
         /\ Reassigned(row).acknowledged = tasks[row.task].acknowledged
<1>1. tasks[row.task] \in Task
  BY DEF TypeInv, TypeOK, SweepKnowsItsTasks, SweepRow, IsTask
<1>2. Alternative(row) \in responders
  <2>1. \E x \in responders : IsNearest(tasks[row.task].report, {row.responder}, x)
    BY <1>1, NearestExists DEF HasAlternative, Task
  <2>2. QED
    BY <2>1 DEF Alternative
<1>3. Alternative(row) \in Responders
  BY <1>2 DEF TypeInv, TypeOK
<1>4. QED
  BY <1>1, <1>3 DEF Reassigned, Task

\* The sweep reassigns tasks, and no more.
LEMMA Swept ==
  ASSUME TypeInv, CommitSweep
  PROVE  /\ tasks' \in [TaskIds -> Task \cup {NoTask}]
         /\ \A t \in TaskIds : IsTask(t) =>
              /\ tasks'[t] # NoTask /\ tasks'[t].report = tasks[t].report
              /\ tasks'[t].status = tasks[t].status /\ tasks'[t].acknowledged = tasks[t].acknowledged
         /\ \A t \in TaskIds : ~IsTask(t) => tasks'[t] = NoTask
<1> DEFINE Reassigns(t) == \E row \in sweepRows : row.task = t /\ HasAlternative(row)
<1>1. ASSUME NEW t \in TaskIds, Reassigns(t)
      PROVE  /\ IsTask(t) /\ tasks'[t] \in Task /\ tasks'[t].report = tasks[t].report
             /\ tasks'[t].status = tasks[t].status /\ tasks'[t].acknowledged = tasks[t].acknowledged
  <2>1. PICK row \in sweepRows : row.task = t /\ HasAlternative(row)
    BY <1>1
  <2>2. (CHOOSE w \in sweepRows : w.task = t) = row
    BY <2>1 DEF TypeInv, SweepKnowsItsTasks
  <2>3. tasks'[t] = Reassigned(row)
    BY <1>1, <2>2 DEF CommitSweep
  <2>4. QED
    BY <2>1, <2>3, Reassignment DEF TypeInv, SweepKnowsItsTasks
<1>2. ASSUME NEW t \in TaskIds, ~Reassigns(t)
      PROVE  tasks'[t] = tasks[t]
  BY <1>2 DEF CommitSweep
<1>3. \A t \in TaskIds : tasks'[t] \in Task \cup {NoTask}
  BY <1>1, <1>2 DEF TypeInv, TypeOK
<1>4. QED
  BY <1>1, <1>2, <1>3, DispatchAssumption DEF CommitSweep, IsTask, TypeInv, TypeOK

\* Tasks that are known stay known.
LEMMA KnownTasksStay ==
  ASSUME TypeInv, \A t \in TaskIds : IsTask(t) => tasks'[t] # NoTask
  PROVE  /\ UNCHANGED calls => CallsKnowTheirTask'
         /\ \A c \in Calls : End(c) => CallsKnowTheirTask'
         /\ UNCHANGED sweepRows => SweepKnowsItsTasks'
<1>1. \A c \in Calls : InProgress(c, "task") => calls[c].row \in TaskIds /\ IsTask(calls[c].row)
  BY TaskCall DEF TypeInv, CallsKnowTheirTask
<1>2. UNCHANGED calls => CallsKnowTheirTask'
  BY <1>1 DEF CallsKnowTheirTask, InProgress, IsTask
<1>3. \A c \in Calls : End(c) => CallsKnowTheirTask'
  BY <1>1, EndCall DEF CallsKnowTheirTask, IsTask, TypeInv
<1>4. UNCHANGED sweepRows => SweepKnowsItsTasks'
  BY DEF TypeInv, TypeOK, SweepKnowsItsTasks, SweepRow, IsTask
<1>5. QED
  BY <1>2, <1>3, <1>4

LEMMA TypeInvStep ==
  ASSUME TypeInv, [Next]_vars
  PROVE  TypeInv'
<1>1. TypeOK
  BY DEF TypeInv
<1>2. ASSUME NEW x \in Responders, CreateResponder(x)
      PROVE  TypeInv'
  <2>1. TypeOK'
    BY <1>1, <1>2 DEF CreateResponder, TypeOK
  <2>2. QED
    BY <1>2, <2>1, KnownTasksStay DEF CreateResponder, TypeInv, IsTask
<1>3. ASSUME NEW c \in Calls, NEW r \in Reports, NEW decision \in {"VALIDATED", "REJECTED"},
             LoadReport(c, r, decision)
      PROVE  TypeInv'
  <2>1. [on |-> "report", row |-> r, new |-> decision] \in Request
    BY DEF Request, RequestOf, ReportStatus
  <2>2. TypeOK'
    BY <1>1, <1>3, <2>1, BeginCall DEF LoadReport, dispatchVars, TypeOK
  <2>3. CallsKnowTheirTask'
    BY <1>1, <1>3, <2>1, BeginCall
    DEF LoadReport, dispatchVars, TypeInv, CallsKnowTheirTask, InProgress, IsTask
  <2>4. QED
    BY <1>3, <2>2, <2>3, KnownTasksStay DEF LoadReport, dispatchVars, TypeInv, IsTask
<1>4. ASSUME NEW c \in Calls, DecideReport(c)
      PROVE  TypeInv'
  <2>1. calls[c].row \in Reports /\ calls[c].new \in ReportStatus
    BY <1>1, <1>4, ReportCall DEF DecideReport
  <2>2. reportStatus' \in [Reports -> ReportStatus]
    BY <1>1, <1>4, <2>1 DEF DecideReport, TypeOK
  <2>3. \A t \in TaskIds : IsTask(t) => tasks'[t] # NoTask
    BY <1>1, <1>4, Decided DEF IsTask
  <2>4. uncovered' \subseteq Reports /\ undispatched' \subseteq Reports
    BY <1>1, <1>4, <2>1, Decided DEF TypeOK
  <2>5. TypeOK'
    BY <1>1, <1>4, <2>2, <2>4, Decided, EndCall DEF DecideReport, TypeOK
  <2>6. QED
    BY <1>4, <2>3, <2>5, KnownTasksStay DEF DecideReport, TypeInv
<1>5. ASSUME NEW c \in Calls, NEW t \in TaskIds, NEW new \in TaskStatus, LoadTask(c, t, new)
      PROVE  TypeInv'
  <2>1. [on |-> "task", row |-> t, new |-> new] \in Request
    BY DEF Request, RequestOf
  <2>2. TypeOK'
    BY <1>1, <1>5, <2>1, BeginCall DEF LoadTask, dispatchVars, TypeOK
  <2>3. CallsKnowTheirTask'
    BY <1>1, <1>5, <2>1, BeginCall
    DEF LoadTask, dispatchVars, TypeInv, CallsKnowTheirTask, InProgress, IsTask
  <2>4. QED
    BY <1>5, <2>2, <2>3, KnownTasksStay DEF LoadTask, dispatchVars, TypeInv, IsTask
<1>6. ASSUME NEW c \in Calls, MoveTask(c)
      PROVE  TypeInv'
  <2>1. TypeOK'
    BY <1>1, <1>6, Moved, EndCall DEF MoveTask, TypeOK
  <2>2. QED
    BY <1>6, <2>1, Moved, KnownTasksStay DEF MoveTask, TypeInv
<1>7. ASSUME NEW c \in Calls, CallDies(c), UNCHANGED dispatchVars
      PROVE  TypeInv'
  <2>1. TypeOK'
    BY <1>1, <1>7, EndCall DEF CallDies, dispatchVars, TypeOK
  <2>2. QED
    BY <1>7, <2>1, KnownTasksStay DEF CallDies, dispatchVars, TypeInv, IsTask
<1>8. ASSUME NEW t \in TaskIds, AckTimeout(t)
      PROVE  TypeInv'
  <2>1. TypeOK'
    BY <1>1, <1>8, TimedOut DEF AckTimeout, TypeOK
  <2>2. QED
    BY <1>1, <1>8, <2>1, TimedOut, KnownTasksStay DEF AckTimeout, TypeInv
<1>9. ASSUME SelectOverdue
      PROVE  TypeInv'
  <2>1. PICK S \in SUBSET Overdue : sweepRows' = {RowOf(t) : t \in S}
    BY <1>9 DEF SelectOverdue
  <2>2. \A t \in S : t \in TaskIds /\ IsTask(t) /\ RowOf(t).task = t /\ RowOf(t) \in SweepRow
    BY <1>1, <2>1 DEF Overdue, RowOf, SweepRow, TypeOK, IsTask, Task
  <2>3. SweepKnowsItsTasks' /\ sweepRows' \subseteq SweepRow
    <3>1. \A row \in sweepRows' : row = RowOf(row.task) /\ row.task \in S
      BY <2>1, <2>2
    <3>2. sweepRows' \subseteq SweepRow
      BY <2>1, <2>2
    <3>3. SweepKnowsItsTasks'
      <4>1. \A row, other \in sweepRows' : other.task = row.task => other = row
        BY <3>1
      <4>2. \A row \in sweepRows' : tasks'[row.task] # NoTask
        BY <1>9, <2>2, <3>1 DEF SelectOverdue, IsTask
      <4>3. QED
        BY <4>1, <4>2 DEF SweepKnowsItsTasks, IsTask
    <3>4. QED
      BY <3>2, <3>3
  <2>4. TypeOK'
    BY <1>1, <1>9, <2>3 DEF SelectOverdue, TypeOK
  <2>5. QED
    BY <1>9, <2>3, <2>4, KnownTasksStay DEF SelectOverdue, TypeInv, IsTask
<1>10. ASSUME CommitSweep
       PROVE  TypeInv'
  <2>1. notified' \subseteq TaskIds /\ sweepRows' = {}
    BY <1>1, <1>10 DEF CommitSweep, TypeOK, SweepRow
  <2>2. TypeOK'
    BY <1>1, <1>10, <2>1, Swept DEF CommitSweep, TypeOK
  <2>3. QED
    BY <1>10, <2>1, <2>2, Swept, KnownTasksStay DEF CommitSweep, TypeInv, SweepKnowsItsTasks
<1>11. ASSUME SweepFails
       PROVE  TypeInv'
  <2>1. TypeOK' /\ SweepKnowsItsTasks'
    BY <1>1, <1>11 DEF SweepFails, TypeOK, SweepKnowsItsTasks
  <2>2. QED
    BY <1>11, <2>1, KnownTasksStay DEF SweepFails, TypeInv, IsTask
<1>12. ASSUME UNCHANGED vars
       PROVE  TypeInv'
  <2>1. TypeOK'
    BY <1>1, <1>12 DEF vars, dispatchVars, TypeOK
  <2>2. QED
    BY <1>12, <2>1, KnownTasksStay DEF vars, dispatchVars, TypeInv, IsTask
<1>13. QED
  BY <1>2, <1>3, <1>4, <1>5, <1>6, <1>7, <1>8, <1>9, <1>10, <1>11, <1>12 DEF Next, DispatchCall

LEMMA InitTypeInv ==
  ASSUME Init
  PROVE  TypeInv
<1>1. TypeOK
  BY DEF Init, RequestsInit, ReportStatus, TypeOK
<1>2. CallsKnowTheirTask
  BY DispatchAssumption DEF Init, RequestsInit, CallsKnowTheirTask, InProgress
<1>3. QED
  BY <1>1, <1>2 DEF Init, TypeInv, SweepKnowsItsTasks

LEMMA TypeInvariant == Spec => []TypeInv
<1>1. Init => TypeInv
  BY InitTypeInv
<1>2. TypeInv /\ [Next]_vars => TypeInv'
  BY TypeInvStep
<1>3. QED
  BY <1>1, <1>2, PTL DEF Spec

\* Every variable of reports, responders, tasks, requests and the sweep keeps its
\* type; in particular a reassignment always finds a responder.
THEOREM TypeCorrect == Spec => []TypeOK
<1>1. TypeInv => TypeOK
  BY DEF TypeInv
<1>2. QED
  BY <1>1, TypeInvariant, PTL
-------------------------------------------------------------------------------
\* A status that follows an acknowledgement, stored or about to be.
AcknowledgedTasks ==
  \A t \in TaskIds :
    IsTask(t) /\ tasks[t].status \in {"ACKNOWLEDGED", "DISPATCHED", "ON_SITE", "RESOLVED"} =>
      tasks[t].acknowledged

AcknowledgedCalls ==
  \A c \in Calls :
    InProgress(c, "task") /\ calls[c].new \in {"DISPATCHED", "ON_SITE", "RESOLVED"} =>
      tasks[calls[c].row].acknowledged

AckInv == AcknowledgedTasks /\ AcknowledgedCalls

\* A step that keeps acknowledgements, moves no task and makes only PENDING ones.
LEMMA AckKept ==
  ASSUME TypeInv, AckInv,
         \A t \in TaskIds : IsTask(t) =>
           tasks'[t].status = tasks[t].status /\ tasks'[t].acknowledged = tasks[t].acknowledged,
         \A t \in TaskIds : ~IsTask(t) /\ tasks'[t] # NoTask => tasks'[t].status = "PENDING",
         UNCHANGED calls \/ \E c \in Calls : End(c)
  PROVE  AckInv'
<1>1. AcknowledgedTasks'
  BY DEF AckInv, AcknowledgedTasks, IsTask
<1>2. \A c \in Calls : InProgress(c, "task")' => InProgress(c, "task") /\ calls'[c] = calls[c]
  BY EndCall DEF TypeInv, InProgress
<1>3. AcknowledgedCalls'
  BY <1>2, TaskCall DEF TypeInv, CallsKnowTheirTask, AckInv, AcknowledgedCalls
<1>4. QED
  BY <1>1, <1>3 DEF AckInv

LEMMA AckStep ==
  ASSUME TypeInv, AckInv, [Next]_vars
  PROVE  AckInv'
<1>1. TypeOK
  BY DEF TypeInv
<1>2. ASSUME UNCHANGED tasks, UNCHANGED calls \/ \E c \in Calls : End(c)
      PROVE  AckInv'
  BY <1>2, AckKept DEF IsTask
<1>3. CASE \E x \in Responders : CreateResponder(x)
  BY <1>2, <1>3 DEF CreateResponder
<1>4. ASSUME NEW c \in Calls, NEW r \in Reports, NEW decision \in {"VALIDATED", "REJECTED"},
             LoadReport(c, r, decision)
      PROVE  AckInv'
  <2>1. [on |-> "report", row |-> r, new |-> decision] \in Request
    BY DEF Request, RequestOf, ReportStatus
  <2>2. \A d \in Calls : InProgress(d, "task")' => InProgress(d, "task") /\ calls'[d] = calls[d]
    BY <1>1, <1>4, <2>1, BeginCall DEF LoadReport, InProgress
  <2>3. QED
    BY <1>4, <2>2 DEF LoadReport, dispatchVars, AckInv, AcknowledgedTasks, AcknowledgedCalls, IsTask
<1>5. ASSUME NEW c \in Calls, DecideReport(c)
      PROVE  AckInv'
  BY <1>1, <1>5, Decided, AckKept DEF DecideReport
<1>6. ASSUME NEW c \in Calls, NEW t \in TaskIds, NEW new \in TaskStatus, LoadTask(c, t, new)
      PROVE  AckInv'
  <2>1. [on |-> "task", row |-> t, new |-> new] \in Request
    BY DEF Request, RequestOf
  <2>2. calls'[c] = [on |-> "task", row |-> t, new |-> new] /\ \A d \in Calls : d # c => calls'[d] = calls[d]
    BY <1>1, <1>6, <2>1, BeginCall DEF LoadTask
  <2>3. new \in {"DISPATCHED", "ON_SITE", "RESOLVED"} => tasks[t].acknowledged
    BY <1>6 DEF LoadTask, ValidTransitions, AckInv, AcknowledgedTasks
  <2>4. AcknowledgedCalls'
    BY <1>6, <2>2, <2>3 DEF LoadTask, dispatchVars, AckInv, AcknowledgedCalls, InProgress
  <2>5. QED
    BY <1>6, <2>4 DEF LoadTask, dispatchVars, AckInv, AcknowledgedTasks, IsTask
<1>7. ASSUME NEW c \in Calls, MoveTask(c)
      PROVE  AckInv'
  <2>1. InProgress(c, "task") /\ End(c)
    BY <1>7 DEF MoveTask
  <2>2. calls[c].row \in TaskIds /\ IsTask(calls[c].row) /\ calls[c].new \in TaskStatus
    BY <2>1, TaskCall DEF TypeInv, CallsKnowTheirTask
  <2>3. calls[c].new \in {"ACKNOWLEDGED", "DISPATCHED", "ON_SITE", "RESOLVED"} =>
          tasks'[calls[c].row].acknowledged
    BY <1>7, <2>1, <2>2, Moved DEF AckInv, AcknowledgedCalls
  <2>4. AcknowledgedTasks'
    BY <1>7, <2>2, <2>3, Moved DEF AckInv, AcknowledgedTasks, IsTask
  <2>5. \A d \in Calls : InProgress(d, "task")' => InProgress(d, "task") /\ calls'[d] = calls[d]
    BY <1>1, <2>1, EndCall
  <2>6. \A d \in Calls : InProgress(d, "task") => calls[d].row \in TaskIds /\ IsTask(calls[d].row)
    BY TaskCall DEF TypeInv, CallsKnowTheirTask
  <2>7. AcknowledgedCalls'
    BY <1>7, <2>5, <2>6, Moved DEF AckInv, AcknowledgedCalls
  <2>8. QED
    BY <2>4, <2>7 DEF AckInv
<1>8. CASE \E c \in Calls : CallDies(c) /\ UNCHANGED dispatchVars
  BY <1>2, <1>8 DEF CallDies, dispatchVars
<1>9. ASSUME NEW t \in TaskIds, AckTimeout(t)
      PROVE  AckInv'
  BY <1>1, <1>9, TimedOut, AckKept DEF AckTimeout
<1>10. CASE SelectOverdue \/ SweepFails
  BY <1>2, <1>10 DEF SelectOverdue, SweepFails
<1>11. CASE CommitSweep
  BY <1>11, Swept, AckKept DEF CommitSweep
<1>12. CASE UNCHANGED vars
  BY <1>2, <1>12 DEF vars, dispatchVars
<1>13. QED
  BY <1>3, <1>4, <1>5, <1>6, <1>7, <1>8, <1>9, <1>10, <1>11, <1>12 DEF Next, DispatchCall

\* No responder is on the way to, at or done with an incident without having
\* acknowledged it, however transitions and sweeps overlap (VALID_TRANSITIONS).
THEOREM RespondersAcknowledge == Spec => []AcknowledgedFirst
<1>1. Init => AckInv
  BY DispatchAssumption DEF Init, RequestsInit, AckInv, AcknowledgedTasks, AcknowledgedCalls, IsTask, InProgress
<1>2. TypeInv /\ AckInv /\ [Next]_vars => AckInv'
  BY AckStep
<1>3. AckInv => AcknowledgedFirst
  BY DEF AckInv, AcknowledgedTasks, AcknowledgedFirst
<1>4. QED
  BY <1>1, <1>2, <1>3, TypeInvariant, PTL DEF Spec
-------------------------------------------------------------------------------
\* A decision in progress decides.
CallsDecide == \A c \in Calls : InProgress(c, "report") => calls[c].new # "SUBMITTED"

DecisionInv == DispatchFollowsDecision /\ CallsDecide

\* The invariant survives every step that keeps the tasks and what they are for.
LEMMA AnswersKept ==
  ASSUME DispatchFollowsDecision, UNCHANGED <<reportStatus, uncovered, undispatched>>,
         \A t \in TaskIds : IsTask(t) => tasks'[t] # NoTask /\ tasks'[t].report = tasks[t].report,
         \A t \in TaskIds : ~IsTask(t) => tasks'[t] = NoTask
  PROVE  DispatchFollowsDecision'
<1>1. \A r \in Reports : IsAnswered(r)' <=> IsAnswered(r)
  BY DEF IsAnswered, IsTask
<1>2. QED
  BY <1>1 DEF DispatchFollowsDecision

\* A call that ends leaves the other calls alone.
LEMMA CallsStillDecide ==
  ASSUME TypeOK, CallsDecide, NEW c \in Calls, End(c)
  PROVE  CallsDecide'
BY EndCall DEF CallsDecide

LEMMA DecisionStep ==
  ASSUME TypeInv, DecisionInv, [Next]_vars
  PROVE  DecisionInv'
<1>1. TypeOK
  BY DEF TypeInv
<1>2. ASSUME UNCHANGED <<reportStatus, uncovered, undispatched, tasks>>
      PROVE  DispatchFollowsDecision'
  BY <1>2 DEF DecisionInv, DispatchFollowsDecision, IsAnswered, IsTask
<1>3. ASSUME UNCHANGED calls
      PROVE  CallsDecide'
  BY <1>3 DEF DecisionInv, CallsDecide, InProgress
<1>4. CASE \E x \in Responders : CreateResponder(x)
  BY <1>2, <1>3, <1>4 DEF CreateResponder, DecisionInv
<1>5. ASSUME NEW c \in Calls, NEW r \in Reports, NEW decision \in {"VALIDATED", "REJECTED"},
             LoadReport(c, r, decision)
      PROVE  DecisionInv'
  <2>1. [on |-> "report", row |-> r, new |-> decision] \in Request
    BY DEF Request, RequestOf, ReportStatus
  <2>2. calls'[c] = [on |-> "report", row |-> r, new |-> decision] /\ \A d \in Calls : d # c => calls'[d] = calls[d]
    BY <1>1, <1>5, <2>1, BeginCall DEF LoadReport
  <2>3. CallsDecide'
    BY <2>2 DEF DecisionInv, CallsDecide, InProgress
  <2>4. QED
    BY <1>2, <1>5, <2>3 DEF LoadReport, dispatchVars, DecisionInv
<1>6. ASSUME NEW c \in Calls, DecideReport(c)
      PROVE  DecisionInv'
  <2>1. InProgress(c, "report") /\ End(c)
    BY <1>6 DEF DecideReport
  <2>2. calls[c].row \in Reports /\ calls[c].new \in ReportStatus /\ calls[c].new # "SUBMITTED"
    BY <1>1, <2>1, ReportCall DEF DecisionInv, CallsDecide
  <2>3. \A r \in Reports : reportStatus'[r] = IF r = calls[c].row THEN calls[c].new ELSE reportStatus[r]
    BY <1>1, <1>6, <2>2 DEF DecideReport, TypeOK
  <2>4. \A r \in Reports : IsAnswered(r) => IsAnswered(r)'
    <3>1. \A t \in TaskIds : IsTask(t) => tasks'[t] = tasks[t]
      BY <1>1, <1>6, Decided
    <3>2. uncovered \subseteq uncovered' /\ undispatched \subseteq undispatched'
      BY <1>1, <1>6, Decided
    <3>3. QED
      BY <3>1, <3>2 DEF IsAnswered, IsTask
  <2>5. \A r \in Reports : r # calls[c].row /\ IsAnswered(r)' => IsAnswered(r)
    <3>1. \A t \in TaskIds : tasks'[t] # NoTask =>
            tasks'[t].report = calls[c].row \/ (IsTask(t) /\ tasks'[t] = tasks[t])
      BY <1>1, <1>6, Decided
    <3>2. uncovered' \subseteq uncovered \cup {calls[c].row}
          /\ undispatched' \subseteq undispatched \cup {calls[c].row}
      BY <1>1, <1>6, Decided
    <3>3. QED
      BY <3>1, <3>2 DEF IsAnswered, IsTask
  <2>6. \A r \in Reports :
          r = calls[c].row /\ calls[c].new = "VALIDATED" /\ r \in Located => IsAnswered(r)'
    BY <1>1, <1>6, Decided
  <2>7. DispatchFollowsDecision'
    BY <2>2, <2>3, <2>4, <2>5, <2>6 DEF DecisionInv, DispatchFollowsDecision
  <2>8. QED
    BY <1>1, <2>1, <2>7, CallsStillDecide DEF DecisionInv
<1>7. ASSUME NEW c \in Calls, NEW t \in TaskIds, NEW new \in TaskStatus, LoadTask(c, t, new)
      PROVE  DecisionInv'
  <2>1. [on |-> "task", row |-> t, new |-> new] \in Request
    BY DEF Request, RequestOf
  <2>2. calls'[c] = [on |-> "task", row |-> t, new |-> new] /\ \A d \in Calls : d # c => calls'[d] = calls[d]
    BY <1>1, <1>7, <2>1, BeginCall DEF LoadTask
  <2>3. CallsDecide'
    BY <2>2 DEF DecisionInv, CallsDecide, InProgress
  <2>4. QED
    BY <1>2, <1>7, <2>3 DEF LoadTask, dispatchVars, DecisionInv
<1>8. ASSUME NEW c \in Calls, MoveTask(c)
      PROVE  DecisionInv'
  <2>1. DispatchFollowsDecision'
    BY <1>8, Moved, AnswersKept DEF MoveTask, DecisionInv
  <2>2. QED
    BY <1>1, <1>8, <2>1, CallsStillDecide DEF MoveTask, DecisionInv
<1>9. ASSUME NEW c \in Calls, CallDies(c), UNCHANGED dispatchVars
      PROVE  DecisionInv'
  BY <1>1, <1>2, <1>9, CallsStillDecide DEF CallDies, dispatchVars, DecisionInv
<1>10. ASSUME NEW t \in TaskIds, AckTimeout(t)
       PROVE  DecisionInv'
  BY <1>1, <1>3, <1>10, TimedOut, AnswersKept DEF AckTimeout, DecisionInv
<1>11. CASE SelectOverdue \/ SweepFails
  BY <1>2, <1>3, <1>11 DEF SelectOverdue, SweepFails, DecisionInv
<1>12. CASE CommitSweep
  BY <1>3, <1>12, Swept, AnswersKept DEF CommitSweep, DecisionInv
<1>13. CASE UNCHANGED vars
  BY <1>2, <1>3, <1>13 DEF vars, dispatchVars, DecisionInv
<1>14. QED
  BY <1>4, <1>5, <1>6, <1>7, <1>8, <1>9, <1>10, <1>11, <1>12, <1>13 DEF Next, DispatchCall

\* Validation and dispatch stand or fall together: a validated report with a
\* position has a task, an alert or a recorded failure, and a report that nobody
\* has decided has none of them (validate_report, dispatch_for_report).
THEOREM DispatchAndDecision == Spec => []DispatchFollowsDecision
<1>1. Init => DecisionInv
  BY DispatchAssumption
  DEF Init, RequestsInit, DecisionInv, DispatchFollowsDecision, CallsDecide, InProgress, IsAnswered, IsTask
<1>2. TypeInv /\ DecisionInv /\ [Next]_vars => DecisionInv'
  BY DecisionStep
<1>3. DecisionInv => DispatchFollowsDecision
  BY DEF DecisionInv
<1>4. QED
  BY <1>1, <1>2, <1>3, TypeInvariant, PTL DEF Spec
===============================================================================
