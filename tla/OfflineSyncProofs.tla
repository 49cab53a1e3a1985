-------------------------- MODULE OfflineSyncProofs --------------------------
(***************************************************************************)
(* Proofs about OfflineSync, the device and the server joined by their     *)
(* unreliable link, for any number of ops and of requests, any policies,   *)
(* any number of timeouts and crashes, every combination of the faults,    *)
(* and whether the reply leaves before or after the commits.               *)
(*                                                                         *)
(* The composition implements the specification of the server, so what     *)
(* SyncPushProofs proves of the server holds of it; the lemmas here add    *)
(* the device's half of each argument.                                     *)
(***************************************************************************)
EXTENDS OfflineSync, SyncPushProofs

\* A flush that marks or pushes has a batch: the empty one ended it.
BatchIsReady == flushPc \in {"marking", "push"} => batch # {}

TypeInv == TypeOK /\ BatchIsReady

\* The types of the pieces the device's actions are made of.
LEMMA EndFlushType ==
  ASSUME EndFlush
  PROVE  /\ flushPc' = "idle" /\ flushClass' \in Classes /\ batch' = {} /\ marks' = {}
         /\ reply' \in [Ops -> Verdict]
BY NoLogType, PushAssumption DEF EndFlush

LEMMA MarkStatusType ==
  ASSUME entries \in [Ops -> QueueStatus], NEW op \in Ops, NEW status \in QueueStatus,
         MarkStatus(op, status)
  PROVE  entries' \in [Ops -> QueueStatus]
BY DEF MarkStatus

\* A status is changed, never given or taken away: who is in the queue stays so.
LEMMA MarkStatusKeeps ==
  ASSUME entries \in [Ops -> QueueStatus], NEW op \in Ops, NEW status,
         status # "none", MarkStatus(op, status)
  PROVE  \A o \in Ops : /\ InQueue(o)' <=> InQueue(o)
                        /\ entries'[o] = "synced" => entries[o] = "synced" \/ (o = op /\ status = "synced")
BY DEF MarkStatus, InQueue

LEMMA StatusForType ==
  ASSUME NEW verdict \in Verdict
  PROVE  /\ StatusFor(verdict) \in QueueStatus \ {"none"}
         /\ StatusFor(verdict) = "synced" <=> verdict \in {"ACCEPTED", "DUPLICATE"}
BY DEF StatusFor, QueueStatus, Verdict

\* A batch is taken from the entries that may be flushed.
LEMMA FlushableType ==
  ASSUME NEW policy, NEW class
  PROVE  \A op \in Flushable(policy, class) : op \in Ops /\ InQueue(op)
BY DEF Flushable, IsFlushable, InQueue

\* Only one op is the oldest.
LEMMA LeastIsUnique ==
  ASSUME NEW S \in SUBSET Ops, NEW op, NEW o, Least(op, S), Least(o, S)
  PROVE  op = o
BY PushAssumption DEF Least, Ops
-------------------------------------------------------------------------------
\* What a step of the composition is to the server: a step of one of its
\* requests, or nothing.
LEMMA StepIsPushStep ==
  ASSUME TypeInv, [Next]_vars
  PROVE  [PushNext]_pushVars
<1>1. ASSUME NEW r \in Reqs, Push(r)
      PROVE  PushNext
  BY <1>1 DEF Push, PushNext, TypeInv, TypeOK, FlushTypeOK, BatchIsReady
<1>2. ASSUME NEW r \in Reqs, Server(r)
      PROVE  PushNext
  BY <1>2 DEF Server, PushNext
<1>3. CASE Device \/ PushThrows \/ DeviceCrash \/ \E r \in Reqs : ReceiveReply(r)
  BY <1>3 DEF Device, PushThrows, DeviceCrash, ReceiveReply
<1>4. CASE UNCHANGED vars
  BY <1>4 DEF vars, pushVars
<1>5. QED
  BY <1>1, <1>2, <1>3, <1>4 DEF Next

\* Every step of the device's own keeps the types.
LEMMA DeviceTypeStep ==
  ASSUME FlushTypeOK, BatchIsReady, DeviceStep
  PROVE  FlushTypeOK' /\ BatchIsReady'
<1> USE DEF FlushTypeOK, BatchIsReady
<1>1. CASE SelectBatch
  <2>1. PICK policy \in {ServerPolicy, FallbackPolicy} :
          LET chosen == Flushable(policy, flushClass)
          IN  \/ chosen = {} /\ EndFlush
              \/ /\ chosen # {}
                 /\ batch' = chosen
                 /\ marks' = chosen
                 /\ flushPc' = "marking"
                 /\ UNCHANGED <<flushClass, reply>>
    BY <1>1 DEF SelectBatch
  <2>2. UNCHANGED <<issued, entries, link, switches>>
    BY <1>1 DEF SelectBatch
  <2>3. Flushable(policy, flushClass) \subseteq Ops
    BY FlushableType
  <2>4. QED
    BY <2>1, <2>2, <2>3, EndFlushType DEF FlushPc
<1>2. CASE MarkSyncing
  <2>1. PICK op \in Ops : MarkStatus(op, "syncing") /\ marks' = marks \ {op}
    BY <1>2 DEF MarkSyncing
  <2>2. entries' \in [Ops -> QueueStatus]
    BY <2>1, MarkStatusType DEF QueueStatus
  <2>3. QED
    BY <1>2, <2>1, <2>2 DEF MarkSyncing, FlushPc
<1>3. CASE ApplyVerdict
  <2>1. PICK op \in Ops :
          /\ MarkStatus(op, StatusFor(reply[op]))
          /\ \/ flushPc' = "remove" /\ UNCHANGED reply
             \/ reply' = [reply EXCEPT ![op] = "none"] /\ UNCHANGED flushPc
    BY <1>3 DEF ApplyVerdict
  <2>2. entries' \in [Ops -> QueueStatus]
    BY <2>1, StatusForType, MarkStatusType
  <2>3. reply' \in [Ops -> Verdict]
    BY <2>1 DEF Verdict
  <2>4. QED
    BY <1>3, <2>1, <2>2, <2>3 DEF ApplyVerdict, FlushPc
<1>4. CASE RemoveSynced
  BY <1>4 DEF RemoveSynced, FlushPc, QueueStatus, Verdict
<1>5. CASE FinishFlush
  BY <1>5, EndFlushType DEF FinishFlush, FlushPc
<1>6. CASE RequestFlush
  BY <1>6 DEF RequestFlush, StartFlush, FlushPc
<1>7. ASSUME NEW op \in Ops, Enqueue(op)
      PROVE  FlushTypeOK' /\ BatchIsReady'
  BY <1>7 DEF Enqueue, QueueStatus
<1>8. ASSUME NEW class \in Classes, ConnectivityChange(class)
      PROVE  FlushTypeOK' /\ BatchIsReady'
  BY <1>8, FlushAssumption DEF ConnectivityChange, StartFlush, FlushPc
<1>9. QED
  BY <1>1, <1>2, <1>3, <1>4, <1>5, <1>6, <1>7, <1>8 DEF DeviceStep, FlushStep

LEMMA TypeStep ==
  ASSUME TypeInv, [Next]_vars
  PROVE  TypeInv'
<1> USE SyncAssumption DEF TypeInv, TypeOK
<1>1. PushTypeOK'
  BY StepIsPushStep, PushTypeStep
<1>2. CASE Device
  BY <1>1, <1>2, DeviceTypeStep DEF Device
<1>3. CASE PushThrows \/ DeviceCrash
  BY <1>1, <1>3, EndFlushType DEF PushThrows, DeviceCrash, FlushTypeOK, FlushPc, BatchIsReady
<1>4. ASSUME NEW r \in Reqs, Push(r)
      PROVE  TypeInv'
  BY <1>1, <1>4 DEF Push, FlushTypeOK, FlushPc, BatchIsReady
<1>5. ASSUME NEW r \in Reqs, ReceiveReply(r)
      PROVE  TypeInv'
  <2>1. results[r] \in [Ops -> Verdict]
    BY DEF PushTypeOK
  <2>2. QED
    BY <1>1, <1>5, <2>1 DEF ReceiveReply, FlushTypeOK, FlushPc, BatchIsReady
<1>6. ASSUME NEW r \in Reqs, Server(r)
      PROVE  TypeInv'
  BY <1>1, <1>6 DEF Server, flushVars, FlushTypeOK, BatchIsReady
<1>7. CASE UNCHANGED vars
  BY <1>1, <1>7 DEF vars, FlushTypeOK, BatchIsReady
<1>8. QED
  BY <1>2, <1>3, <1>4, <1>5, <1>6, <1>7 DEF Next

LEMMA TypeInit == Init => TypeInv
<1>1. PushInit => PushTypeOK
  BY PushInitType
<1>2. FlushInit => FlushTypeOK /\ BatchIsReady
  BY NoLogType, FlushAssumption, PushAssumption
  DEF FlushInit, FlushTypeOK, BatchIsReady, NoLog, QueueStatus, FlushPc
<1>3. QED
  BY <1>1, <1>2, SyncAssumption DEF Init, TypeInv, TypeOK

LEMMA TypeInvHolds == Spec => []TypeInv
<1>1. TypeInv /\ [Next]_vars => TypeInv'
  BY TypeStep
<1>2. QED
  BY TypeInit, <1>1, PTL DEF Spec

\* Every variable of the device and the server keeps its type.
THEOREM TypeCorrect == Spec => []TypeOK
<1>1. TypeInv => TypeOK
  BY DEF TypeInv
<1>2. QED
  BY <1>1, TypeInvHolds, PTL

\* Whatever the device does, crashes and timeouts included, the server it talks
\* to behaves as the server's own specification says, under which any client may
\* push any batch at any time.
THEOREM ServerImplemented == Spec => PushSpec
<1>1. Init => PushInit
  BY DEF Init
<1>2. TypeInv /\ [Next]_vars => [PushNext]_pushVars
  BY StepIsPushStep
<1>3. QED
  BY <1>1, <1>2, TypeInvHolds, PTL DEF Spec, PushSpec

\* So the composition inherits what SyncPushProofs proves of the server, whatever
\* fails on either side.
THEOREM ServerPromisesKept ==
  Spec => KeepsLedger /\ []OneReportPerOp /\ []StoredIsLogged /\ []AcceptedIsKept /\ []NoCircularWait
BY ServerImplemented, LedgerKept, OneReport, StoredLogged, AcceptedKept, WaitsAreNotCircular, PTL
-------------------------------------------------------------------------------
\* What the device may conclude from an answer: the verdicts it still has to
\* apply are backed by the server, it removes an entry only for such a verdict,
\* and what it has removed is backed.
AnswersAreBacked ==
  \A op \in Ops : reply[op] \in {"ACCEPTED", "DUPLICATE"} => Backed(op)

Unapplied == {o \in Ops : reply[o] # "none"}

RemovesAnAnswer ==
  flushPc = "remove" =>
    \A op \in Ops : Least(op, Unapplied) => reply[op] \in {"ACCEPTED", "DUPLICATE"}

SyncedIsBacked == \A op \in Ops : entries[op] = "synced" => Backed(op)

ReleasedIsBacked == \A op \in Ops : Released(op) => Backed(op)

ServerInv == RowInv /\ OrderInv /\ KeptInv

SyncParts == AnswersAreBacked /\ RemovesAnAnswer /\ SyncedIsBacked /\ ReleasedIsBacked
SyncInv   == TypeInv /\ ServerInv /\ SyncParts

\* A step that gives the device no new answer, no new SYNCED entry and lets go of
\* no entry: what is backed stays so under it.
LEMMA SyncKept ==
  ASSUME SyncInv,
         \A op \in Ops : Backed(op) => Backed(op)',
         \A op \in Ops : reply'[op] \in {"ACCEPTED", "DUPLICATE"} => reply'[op] = reply[op],
         flushPc' # "remove" \/ UNCHANGED <<flushPc, reply>>,
         \A op \in Ops : entries'[op] = "synced" => entries[op] = "synced",
         \A op \in Ops : Released(op)' => Released(op)
  PROVE  SyncParts'
<1> USE DEF SyncInv, SyncParts
<1>1. AnswersAreBacked'
  BY DEF AnswersAreBacked
<1>2. RemovesAnAnswer'
  BY DEF RemovesAnAnswer, Least, Unapplied
<1>3. SyncedIsBacked'
  BY DEF SyncedIsBacked
<1>4. ReleasedIsBacked'
  BY DEF ReleasedIsBacked
<1>5. QED
  BY <1>1, <1>2, <1>3, <1>4

LEMMA FlushEnds ==
  ASSUME EndFlush
  PROVE  flushPc' = "idle" /\ \A op \in Ops : reply'[op] = "none"
BY DEF EndFlush, NoLog

\* The device's own steps: only the two saves of a verdict need an argument.
LEMMA SyncDeviceStep ==
  ASSUME SyncInv, DeviceStep, UNCHANGED pushVars
  PROVE  SyncParts'
<1> USE DEF SyncInv, TypeInv, TypeOK, FlushTypeOK
<1>a. \A op \in Ops : Backed(op)' <=> Backed(op)
  BY DEF Backed, Underway, Binding, Answered, pushVars
<1>1. CASE SelectBatch
  <2>1. /\ UNCHANGED <<issued, entries>>
        /\ EndFlush \/ (flushPc' = "marking" /\ UNCHANGED reply)
    BY <1>1 DEF SelectBatch
  <2>2. QED
    BY <2>1, FlushEnds, <1>a, SyncKept DEF Released, InQueue
<1>2. CASE MarkSyncing
  <2>1. PICK op \in Ops : MarkStatus(op, "syncing")
    BY <1>2 DEF MarkSyncing
  <2>2. flushPc' # "remove" /\ UNCHANGED <<issued, reply>>
    BY <1>2 DEF MarkSyncing
  <2>3. QED
    BY <2>1, <2>2, MarkStatusKeeps, <1>a, SyncKept DEF Released
<1>3. CASE ApplyVerdict
  <2>1. PICK op \in Ops :
          /\ Least(op, Unapplied)
          /\ MarkStatus(op, StatusFor(reply[op]))
          /\ IF StatusFor(reply[op]) = "synced"
               THEN flushPc' = "remove" /\ UNCHANGED reply
               ELSE reply' = [reply EXCEPT ![op] = "none"] /\ UNCHANGED flushPc
    BY <1>3 DEF ApplyVerdict, Unapplied
  <2>2. UNCHANGED issued /\ flushPc = "verdicts"
    BY <1>3 DEF ApplyVerdict
  <2>3. \A o \in Ops : /\ InQueue(o)' <=> InQueue(o)
                       /\ entries'[o] = "synced"
                             => entries[o] = "synced" \/ (o = op /\ StatusFor(reply[op]) = "synced")
    <3>1. StatusFor(reply[op]) \in QueueStatus \ {"none"}
      BY StatusForType
    <3>2. QED
      BY <2>1, <3>1, MarkStatusKeeps
  <2>4. ReleasedIsBacked'
    BY <1>a, <2>2, <2>3 DEF SyncParts, ReleasedIsBacked, Released
  <2>5. CASE StatusFor(reply[op]) = "synced"
    <3>1. reply[op] \in {"ACCEPTED", "DUPLICATE"}
      BY <2>5, StatusForType
    <3>2. AnswersAreBacked'
      BY <1>a, <2>1, <2>5 DEF SyncParts, AnswersAreBacked
    <3>3. RemovesAnAnswer'
      <4>1. Unapplied' = Unapplied /\ Unapplied \in SUBSET Ops
        BY <2>1, <2>5 DEF Unapplied
      <4>2. \A o \in Ops : Least(o, Unapplied) => o = op
        BY <2>1, <4>1, LeastIsUnique
      <4>3. \A o \in Ops : Least(o, Unapplied)' => o = op
        BY <4>1, <4>2 DEF Least
      <4>4. QED
        BY <2>1, <2>5, <3>1, <4>3 DEF RemovesAnAnswer
    <3>4. SyncedIsBacked'
      BY <1>a, <2>3, <3>1 DEF SyncParts, SyncedIsBacked, AnswersAreBacked
    <3>5. QED
      BY <2>4, <3>2, <3>3, <3>4 DEF SyncParts
  <2>6. CASE StatusFor(reply[op]) # "synced"
    <3>1. flushPc' # "remove" /\ \A o \in Ops : reply'[o] \in {"none", reply[o]}
      BY <2>1, <2>2, <2>6
    <3>2. QED
      BY <2>2, <2>3, <2>6, <3>1, <1>a, SyncKept DEF Released
  <2>7. QED
    BY <2>5, <2>6
<1>4. CASE RemoveSynced
  <2>1. PICK op \in Ops :
          /\ Least(op, Unapplied)
          /\ entries' = [entries EXCEPT ![op] = "none"]
          /\ reply' = [reply EXCEPT ![op] = "none"]
    BY <1>4 DEF RemoveSynced, Unapplied
  <2>2. UNCHANGED issued /\ flushPc = "remove" /\ flushPc' = "verdicts"
    BY <1>4 DEF RemoveSynced
  <2>3. Backed(op)
    BY <2>1, <2>2 DEF SyncParts, RemovesAnAnswer, AnswersAreBacked
  <2>4. ReleasedIsBacked'
    BY <1>a, <2>1, <2>2, <2>3 DEF SyncParts, ReleasedIsBacked, Released, InQueue
  <2>5. AnswersAreBacked' /\ SyncedIsBacked' /\ RemovesAnAnswer'
    BY <1>a, <2>1, <2>2 DEF SyncParts, AnswersAreBacked, SyncedIsBacked, RemovesAnAnswer
  <2>6. QED
    BY <2>4, <2>5 DEF SyncParts
<1>5. CASE FinishFlush
  BY <1>5, FlushEnds, <1>a, SyncKept DEF FinishFlush, Released, InQueue
<1>6. CASE RequestFlush
  BY <1>6, <1>a, SyncKept DEF RequestFlush, StartFlush, Released, InQueue
<1>7. ASSUME NEW op \in Ops, Enqueue(op)
      PROVE  SyncParts'
  <2>1. PICK status \in {"pending", "offline"} : entries' = [entries EXCEPT ![op] = status]
    BY <1>7 DEF Enqueue
  <2>2. issued' = issued \cup {op} /\ UNCHANGED <<flushPc, reply>>
    BY <1>7 DEF Enqueue
  <2>3. QED
    BY <2>1, <2>2, <1>a, SyncKept DEF Released, InQueue
<1>8. ASSUME NEW class \in Classes, ConnectivityChange(class)
      PROVE  SyncParts'
  BY <1>8, <1>a, SyncKept DEF ConnectivityChange, StartFlush, Released, InQueue
<1>9. QED
  BY <1>1, <1>2, <1>3, <1>4, <1>5, <1>6, <1>7, <1>8 DEF DeviceStep, FlushStep

LEMMA SyncStep ==
  ASSUME SyncInv, [Next]_vars
  PROVE  SyncInv'
<1>1. TypeInv' /\ [PushNext]_pushVars
  BY TypeStep, StepIsPushStep DEF SyncInv
<1>2. /\ ServerInv'
      /\ \A op \in Ops : Backed(op) => Backed(op)'
  BY <1>1, RowStep, OrderStep, KeptStep, BackedStays DEF SyncInv, ServerInv
<1>3. ASSUME Device
      PROVE  SyncParts'
  BY <1>3, SyncDeviceStep DEF Device, pushVars
<1>4. ASSUME PushThrows \/ DeviceCrash
      PROVE  SyncParts'
  BY <1>2, <1>4, FlushEnds, SyncKept DEF PushThrows, DeviceCrash, Released, InQueue
<1>5. ASSUME NEW r \in Reqs, Push(r)
      PROVE  SyncParts'
  BY <1>2, <1>5, SyncKept DEF Push, Released, InQueue
<1>6. ASSUME NEW r \in Reqs, ReceiveReply(r)
      PROVE  SyncParts'
  <2>1. Answered(r) /\ UNCHANGED <<issued, entries>>
    BY <1>6 DEF ReceiveReply
  <2>2. flushPc' = "verdicts" /\ reply' = results[r]
    BY <1>6 DEF ReceiveReply
  <2>3. AnswersAreBacked'
    BY <1>2, <2>1, <2>2, AnswerIsBacked DEF SyncInv, ServerInv, AnswersAreBacked
  <2>4. SyncedIsBacked' /\ ReleasedIsBacked' /\ RemovesAnAnswer'
    BY <1>2, <2>1, <2>2
    DEF SyncInv, SyncParts, SyncedIsBacked, ReleasedIsBacked, Released, InQueue, RemovesAnAnswer
  <2>5. QED
    BY <2>3, <2>4 DEF SyncParts
<1>7. ASSUME NEW r \in Reqs, Server(r)
      PROVE  SyncParts'
  BY <1>2, <1>7, SyncKept DEF Server, flushVars, Released, InQueue
<1>8. ASSUME UNCHANGED vars
      PROVE  SyncParts'
  BY <1>2, <1>8, SyncKept DEF vars, Released, InQueue
<1>9. SyncParts'
  BY <1>3, <1>4, <1>5, <1>6, <1>7, <1>8 DEF Next
<1>10. QED
  BY <1>1, <1>2, <1>9 DEF SyncInv

LEMMA SyncInit == Init => SyncInv
<1>1. Init => TypeInv
  BY TypeInit
<1>2. PushInit => RowInv /\ OrderInv /\ KeptInv
  <2>1. PushInit => PushTypeOK /\ KeptInv
    BY PushInitType, KeptInit
  <2>2. PushInit => LogInv
    BY <2>1
    DEF PushInit, LogInv, LogsAreFresh, VerdictsAreLogged, LogIsEmptyAfterCommit, TodoIsUnlogged, NoLog
  <2>3. PushInit => RowInv /\ OrderInv
    BY <2>2
    DEF PushInit, RowInv, RowsAreLogged, TableIsLogged,
        OrderInv, OrderParts, TakenInOrder, IdleHoldsNothing, RowsAreAccepted
  <2>4. QED
    BY <2>1, <2>3
<1>3. Init => SyncParts
  BY DEF Init, FlushInit, SyncParts, AnswersAreBacked, RemovesAnAnswer,
         SyncedIsBacked, ReleasedIsBacked, Released, NoLog
<1>4. QED
  BY <1>1, <1>2, <1>3 DEF Init, SyncInv, ServerInv

LEMMA SyncInvHolds == Spec => []SyncInv
<1>1. SyncInv /\ [Next]_vars => SyncInv'
  BY SyncStep
<1>2. QED
  BY SyncInit, <1>1, PTL DEF Spec

\* The queue shows SYNCED only for ops the server has in its committed log, or
\* whose request has answered and is still to commit, or was rolled back after it
\* had answered, whatever else fails.
THEOREM SyncedLogged == Spec => []SyncedIsLogged
<1>1. SyncInv => SyncedIsLogged
  BY DEF SyncInv, SyncParts, SyncedIsBacked, SyncedIsLogged, Backed
<1>2. QED
  BY <1>1, SyncInvHolds, PTL

\* No op is forgotten: every op that left the queue has its report on the server
\* (or underway there), a recorded rejection, or a rollback behind its verdict,
\* however many timeouts, crashes, overlapping retries and faults there were.
THEOREM ReleasedKept == Spec => []ReleasedIsKept
<1>1. SyncInv => ReleasedIsKept
  BY BackedIsKept DEF SyncInv, ServerInv, SyncParts, ReleasedIsBacked, ReleasedIsKept
<1>2. QED
  BY <1>1, SyncInvHolds, PTL
-------------------------------------------------------------------------------
\* The refinement.  Nobody holds an op the app did not issue.
QueuedIsIssued ==
  /\ \A op \in Ops : InQueue(op) => op \in issued
  /\ batch \subseteq issued

ServedIsIssued ==
  /\ \A r \in Reqs : todo[r] \subseteq issued /\ newRows[r] \subseteq issued
  /\ \A r \in Reqs, op \in Ops : newLog[r][op] # "none" => op \in issued
  /\ \A op \in Ops : fieldReports[op] > 0 \/ syncOpsLog[op] # "none" => op \in issued
  /\ undone \subseteq issued

DeliveryInv == SyncInv /\ OnceInv /\ QueuedIsIssued /\ ServedIsIssued

\* A request works on what it was sent, and commits or loses what it inserted.
LEMMA RequestCarriesItsOps ==
  ASSUME PushTypeOK, NEW r \in Reqs, PushStep(r) \/ PushDies(r) \/ FinishPush(r)
  PROVE  /\ \A q \in Reqs : todo'[q] \subseteq todo[q] /\ newRows'[q] \subseteq newRows[q] \cup todo[q]
         /\ \A op \in Ops : fieldReports'[op] > 0 => fieldReports[op] > 0 \/ op \in newRows[r]
         /\ undone' \subseteq undone \cup newRows[r]
<1> DEFINE Carried ==
      /\ \A q \in Reqs : todo'[q] \subseteq todo[q] /\ newRows'[q] \subseteq newRows[q] \cup todo[q]
      /\ \A op \in Ops : fieldReports'[op] > 0 => fieldReports[op] > 0 \/ op \in newRows[r]
      /\ undone' \subseteq undone \cup newRows[r]
<1> USE DEF PushTypeOK
<1>1. ASSUME AnswerGated(r) \/ AnswerDuplicate(r) PROVE Carried
  BY <1>1 DEF AnswerGated, AnswerDuplicate, SetVerdict
<1>2. ASSUME StartApply(r) \/ ApplyRaises(r) \/ EndBatch(r) \/ CommitSystem(r) PROVE Carried
  BY <1>2 DEF StartApply, ApplyRaises, EndBatch, CommitSystem
<1>3. ASSUME ApplyReport(r) PROVE Carried
  BY <1>3 DEF ApplyReport, InsertReport, Current
<1>4. ASSUME ApplyFailsInSql(r) PROVE Carried
  BY <1>4 DEF ApplyFailsInSql
<1>5. ASSUME LogAccepted(r) \/ LogRejected(r) PROVE Carried
  BY <1>5 DEF LogAccepted, LogRejected, LogOp, SetVerdict
<1>6. ASSUME CommitUser(r) PROVE Carried
  BY <1>6 DEF CommitUser
<1>7. ASSUME PushDies(r) \/ FinishPush(r) PROVE Carried
  BY <1>7 DEF PushDies, FinishPush, Clear
<1>8. QED
  BY <1>1, <1>2, <1>3, <1>4, <1>5, <1>6, <1>7 DEF PushStep

\* It logs only what it was sent.
LEMMA RequestLogsItsOps ==
  ASSUME PushTypeOK, NEW r \in Reqs, PushStep(r) \/ PushDies(r) \/ FinishPush(r)
  PROVE  /\ \A q \in Reqs, op \in Ops : newLog'[q][op] # "none" => newLog[q][op] # "none" \/ op \in todo[q]
         /\ \A op \in Ops : syncOpsLog'[op] # "none" => syncOpsLog[op] # "none" \/ newLog[r][op] # "none"
<1> DEFINE Logged ==
      /\ \A q \in Reqs, op \in Ops : newLog'[q][op] # "none" => newLog[q][op] # "none" \/ op \in todo[q]
      /\ \A op \in Ops : syncOpsLog'[op] # "none" => syncOpsLog[op] # "none" \/ newLog[r][op] # "none"
<1> USE DEF PushTypeOK
<1>1. ASSUME UNCHANGED <<newLog, syncOpsLog>> PROVE Logged
  BY <1>1
<1>2. ASSUME \/ AnswerGated(r) \/ AnswerDuplicate(r) \/ StartApply(r) \/ ApplyReport(r)
             \/ ApplyRaises(r) \/ ApplyFailsInSql(r) \/ EndBatch(r) \/ CommitUser(r)
      PROVE  Logged
  BY <1>1, <1>2 DEF AnswerGated, AnswerDuplicate, StartApply, ApplyReport, ApplyRaises,
                    ApplyFailsInSql, EndBatch, CommitUser
<1>3. ASSUME LogAccepted(r) \/ LogRejected(r) PROVE Logged
  <2>1. PICK status \in {"ACCEPTED", "REJECTED"}, op \in Ops :
          /\ op \in todo[r]
          /\ UNCHANGED syncOpsLog
          /\ newLog' \in {newLog, [newLog EXCEPT ![r][op] = status]}
    BY <1>3 DEF LogAccepted, LogRejected, LogOp, Current
  <2>2. QED
    BY <2>1
<1>4. ASSUME CommitSystem(r) PROVE Logged
  <2>1. \A op \in Ops :
          syncOpsLog'[op] = IF newLog[r][op] # "none" THEN newLog[r][op] ELSE syncOpsLog[op]
    BY <1>4 DEF CommitSystem
  <2>2. \A q \in Reqs, op \in Ops : newLog'[q][op] \in {"none", newLog[q][op]}
    BY <1>4 DEF CommitSystem, NoLog
  <2>3. QED
    BY <2>1, <2>2
<1>5. ASSUME PushDies(r) \/ FinishPush(r) PROVE Logged
  <2>1. UNCHANGED syncOpsLog /\ newLog' = [newLog EXCEPT ![r] = NoLog]
    BY <1>5 DEF PushDies, FinishPush, Clear
  <2>2. \A q \in Reqs, op \in Ops : newLog'[q][op] \in {"none", newLog[q][op]}
    BY <2>1 DEF NoLog
  <2>3. QED
    BY <2>1, <2>2
<1>6. QED
  BY <1>2, <1>3, <1>4, <1>5 DEF PushStep

LEMMA IssuedStep ==
  ASSUME TypeInv, QueuedIsIssued, ServedIsIssued, [Next]_vars
  PROVE  QueuedIsIssued' /\ ServedIsIssued'
<1> USE DEF TypeInv, TypeOK, FlushTypeOK
<1>1. ASSUME Device PROVE QueuedIsIssued' /\ ServedIsIssued'
  <2>1. ServedIsIssued'
    BY <1>1 DEF Device, DeviceStep, FlushStep, SelectBatch, MarkSyncing, ApplyVerdict, RemoveSynced,
                FinishFlush, RequestFlush, Enqueue, ConnectivityChange, pushVars, ServedIsIssued
  <2>2. ASSUME SelectBatch PROVE QueuedIsIssued'
    <3>1. /\ UNCHANGED <<issued, entries>>
          /\ \E policy, class : batch' \in {{}, Flushable(policy, class)}
      BY <2>2 DEF SelectBatch, EndFlush
    <3>2. QED
      BY <3>1, FlushableType DEF QueuedIsIssued, InQueue
  <2>3. ASSUME MarkSyncing PROVE QueuedIsIssued'
    BY <2>3, MarkStatusKeeps DEF MarkSyncing, QueuedIsIssued, QueueStatus
  <2>4. ASSUME ApplyVerdict PROVE QueuedIsIssued'
    <3>1. PICK op \in Ops : MarkStatus(op, StatusFor(reply[op]))
      BY <2>4 DEF ApplyVerdict
    <3>2. StatusFor(reply[op]) \in QueueStatus \ {"none"}
      BY StatusForType
    <3>3. QED
      BY <2>4, <3>1, <3>2, MarkStatusKeeps DEF ApplyVerdict, QueuedIsIssued
  <2>5. ASSUME RemoveSynced PROVE QueuedIsIssued'
    BY <2>5 DEF RemoveSynced, QueuedIsIssued, InQueue
  <2>6. ASSUME FinishFlush PROVE QueuedIsIssued'
    BY <2>6, EndFlushType DEF FinishFlush, QueuedIsIssued, InQueue
  <2>7. ASSUME RequestFlush PROVE QueuedIsIssued'
    BY <2>7 DEF RequestFlush, QueuedIsIssued, InQueue
  <2>8. ASSUME NEW op \in Ops, Enqueue(op) PROVE QueuedIsIssued'
    BY <2>8 DEF Enqueue, QueuedIsIssued, InQueue
  <2>9. ASSUME NEW class \in Classes, ConnectivityChange(class) PROVE QueuedIsIssued'
    BY <2>9 DEF ConnectivityChange, QueuedIsIssued, InQueue
  <2>10. QED
    BY <1>1, <2>1, <2>2, <2>3, <2>4, <2>5, <2>6, <2>7, <2>8, <2>9 DEF Device, DeviceStep, FlushStep
<1>2. ASSUME PushThrows \/ DeviceCrash PROVE QueuedIsIssued' /\ ServedIsIssued'
  BY <1>2, EndFlushType
  DEF PushThrows, DeviceCrash, QueuedIsIssued, InQueue, ServedIsIssued, pushVars
<1>3. ASSUME NEW r \in Reqs, Push(r) PROVE QueuedIsIssued' /\ ServedIsIssued'
  BY <1>3 DEF Push, BeginPush, QueuedIsIssued, InQueue, ServedIsIssued, PushTypeOK
<1>4. ASSUME NEW r \in Reqs, ReceiveReply(r) PROVE QueuedIsIssued' /\ ServedIsIssued'
  BY <1>4 DEF ReceiveReply, QueuedIsIssued, InQueue, ServedIsIssued, pushVars
<1>5. ASSUME NEW r \in Reqs, Server(r) PROVE QueuedIsIssued' /\ ServedIsIssued'
  <2>1. UNCHANGED <<issued, entries, batch>>
    BY <1>5 DEF Server, flushVars
  <2>2. ServedIsIssued'
    <3>1. PushTypeOK /\ (PushStep(r) \/ PushDies(r) \/ FinishPush(r))
      BY <1>5 DEF Server
    <3>2. \A q \in Reqs : todo'[q] \subseteq issued' /\ newRows'[q] \subseteq issued'
      BY <2>1, <3>1, RequestCarriesItsOps DEF ServedIsIssued
    <3>3. undone' \subseteq issued'
      BY <2>1, <3>1, RequestCarriesItsOps DEF ServedIsIssued
    <3>4. \A op \in Ops : fieldReports'[op] > 0 => op \in issued'
      BY <2>1, <3>1, RequestCarriesItsOps DEF ServedIsIssued
    <3>5. \A q \in Reqs, op \in Ops : newLog'[q][op] # "none" => op \in issued'
      BY <2>1, <3>1, RequestLogsItsOps DEF ServedIsIssued
    <3>6. \A op \in Ops : syncOpsLog'[op] # "none" => op \in issued'
      BY <2>1, <3>1, RequestLogsItsOps DEF ServedIsIssued
    <3>7. QED
      BY <3>2, <3>3, <3>4, <3>5, <3>6 DEF ServedIsIssued
  <2>3. QED
    BY <2>1, <2>2 DEF QueuedIsIssued, InQueue
<1>6. ASSUME UNCHANGED vars PROVE QueuedIsIssued' /\ ServedIsIssued'
  BY <1>6 DEF vars, QueuedIsIssued, InQueue, ServedIsIssued
<1>7. QED
  BY <1>1, <1>2, <1>3, <1>4, <1>5, <1>6 DEF Next

-------------------------------------------------------------------------------
\* The refinement mapping, and what a step may be to ReportDelivery.
LEMMA IsStutter ==
  ASSUME UNCHANGED <<Outbox, Landed, Stored, Failed>>
  PROVE  UNCHANGED Delivery!deliveryVars
BY DEF Delivery!deliveryVars

LEMMA IsCapture ==
  ASSUME NEW op \in FieldReports, op \notin Outbox \cup Landed \cup Stored \cup Failed,
         Outbox' = Outbox \cup {op}, UNCHANGED <<Landed, Stored, Failed>>
  PROVE  Delivery!DeliveryNext
BY DEF Delivery!DeliveryNext, Delivery!Capture

LEMMA IsRelease ==
  ASSUME NEW op \in FieldReports, op \in Outbox \cap (Landed \cup Stored \cup Failed),
         Outbox' = Outbox \ {op}, UNCHANGED <<Landed, Stored, Failed>>
  PROVE  Delivery!DeliveryNext
BY DEF Delivery!DeliveryNext, Delivery!Release

LEMMA IsAnswer ==
  ASSUME NEW S \in SUBSET FieldReports, NEW T \in SUBSET FieldReports,
         S \subseteq (Outbox \cup Failed) \ (Landed \cup Stored),
         T \subseteq (Outbox \cup Failed) \ Stored,
         Landed' = Landed \cup S, Failed' = Failed \cup T, UNCHANGED <<Outbox, Stored>>
  PROVE  Delivery!DeliveryNext
BY DEF Delivery!DeliveryNext, Delivery!Answer

LEMMA IsStore ==
  ASSUME NEW S \in SUBSET FieldReports, S \subseteq Landed, Landed' = Landed \ S,
         Stored' = Stored \cup S, Failed' = Failed \ S, UNCHANGED Outbox
  PROVE  Delivery!DeliveryNext
BY DEF Delivery!DeliveryNext, Delivery!Store

LEMMA IsFail ==
  ASSUME NEW S \in SUBSET FieldReports, S \subseteq Landed, Landed' = Landed \ S,
         Failed' = Failed \cup S, UNCHANGED <<Outbox, Stored>>
  PROVE  Delivery!DeliveryNext
BY DEF Delivery!DeliveryNext, Delivery!Fail

LEMMA FieldReportsType == FieldReports \subseteq Ops /\ FieldReports' = FieldReports
BY DEF FieldReports

\* What the server has answered for shows in the mapping.
LEMMA BackedShows ==
  ASSUME DeliveryInv, NEW op \in FieldReports, Backed(op)
  PROVE  op \in Landed \cup Stored \cup Failed
<1>1. fieldReports[op] > 0 \/ Underway(op) \/ syncOpsLog[op] = "REJECTED" \/ op \in undone
  BY BackedIsKept, FieldReportsType DEF DeliveryInv, SyncInv, ServerInv
<1>2. fieldReports[op] \in Nat
  BY FieldReportsType DEF DeliveryInv, OnceInv, PushTypeOK
<1>3. QED
  BY <1>1, <1>2 DEF Landed, Stored, Failed

\* A row that is inserted and not answered for is still on the device, or failed
\* before.
LEMMA FreshRows ==
  ASSUME DeliveryInv, NEW r \in Reqs, ~Binding(r), NEW op \in newRows[r] \cap FieldReports
  PROVE  op \in (Outbox \cup Failed) \ (Landed \cup Stored)
<1>1. op \in Ops /\ fieldReports[op] = 0 /\ ~Underway(op)
  BY FieldReportsType DEF DeliveryInv, OnceInv, RowsAreFresh, Underway
<1>2. op \notin Landed \cup Stored
  BY <1>1 DEF Landed, Stored
<1>3. CASE InQueue(op)
  BY <1>2, <1>3 DEF Outbox
<1>4. CASE ~InQueue(op)
  <2>1. Backed(op)
    BY <1>1, <1>4 DEF DeliveryInv, ServedIsIssued, SyncInv, SyncParts, ReleasedIsBacked, Released
  <2>2. QED
    BY <1>2, <2>1, BackedShows
<1>5. QED
  BY <1>3, <1>4

\* So is an op whose rejection is about to be logged.
LEMMA FreshRejections ==
  ASSUME DeliveryInv, NEW r \in Reqs, NEW op \in FieldReports,
         newLog[r][op] = "REJECTED", fieldReports[op] = 0
  PROVE  op \in (Outbox \cup Failed) \ Stored
<1> USE DEF DeliveryInv, SyncInv, ServerInv, RowInv, LogInv
<1>1. op \in Ops /\ op \notin Stored /\ op \in issued /\ syncOpsLog[op] = "none"
  BY FieldReportsType DEF Stored, ServedIsIssued, LogsAreFresh
<1>2. CASE InQueue(op)
  BY <1>1, <1>2 DEF Outbox
<1>3. CASE ~InQueue(op)
  <2>1. Underway(op) \/ op \in undone
    BY <1>1, <1>3 DEF SyncParts, ReleasedIsBacked, Released, Backed
  <2>2. ~Underway(op)
    <3>1. SUFFICES ASSUME NEW q \in Reqs, Binding(q), op \in newRows[q] PROVE FALSE
      BY DEF Underway
    <3>2. newLog[q][op] # "none"
      BY <1>1, <3>1 DEF RowsAreLogged, Binding, Answered
    <3>3. q = r
      BY <1>1, <3>2 DEF LogsAreFresh
    <3>4. QED
      BY <3>1, <3>3 DEF OrderInv, OrderParts, RowsAreAccepted
  <2>3. QED
    BY <1>1, <2>1, <2>2 DEF Failed
<1>4. QED
  BY <1>2, <1>3

\* What the device does on its own: it captures a report, lets go of one, or
\* changes nothing the abstract specification sees.
LEMMA DeviceDelivers ==
  ASSUME DeliveryInv, DeviceStep, UNCHANGED pushVars
  PROVE  [Delivery!DeliveryNext]_(Delivery!deliveryVars)
<1> DEFINE Delivers == [Delivery!DeliveryNext]_(Delivery!deliveryVars)
<1> USE DEF DeliveryInv, SyncInv, TypeInv, TypeOK, FlushTypeOK
<1>1. UNCHANGED <<Landed, Stored, Failed>>
  BY FieldReportsType DEF Landed, Underway, Binding, Answered, Stored, Failed, pushVars
<1>2. ASSUME \A op \in Ops : InQueue(op)' <=> InQueue(op)
      PROVE  Delivers
  <2>1. UNCHANGED Outbox
    BY <1>2, FieldReportsType DEF Outbox
  <2>2. QED
    BY <1>1, <2>1, IsStutter
<1>3. ASSUME UNCHANGED entries PROVE Delivers
  BY <1>2, <1>3 DEF InQueue
<1>4. ASSUME SelectBatch \/ FinishFlush \/ RequestFlush \/ \E class \in Classes : ConnectivityChange(class)
      PROVE  Delivers
  BY <1>3, <1>4 DEF SelectBatch, FinishFlush, RequestFlush, ConnectivityChange
<1>5. ASSUME MarkSyncing PROVE Delivers
  BY <1>2, <1>5, MarkStatusKeeps DEF MarkSyncing, QueueStatus
<1>6. ASSUME ApplyVerdict PROVE Delivers
  <2>1. PICK op \in Ops : MarkStatus(op, StatusFor(reply[op]))
    BY <1>6 DEF ApplyVerdict
  <2>2. StatusFor(reply[op]) \in QueueStatus \ {"none"}
    BY StatusForType
  <2>3. QED
    BY <1>2, <2>1, <2>2, MarkStatusKeeps
<1>7. ASSUME RemoveSynced PROVE Delivers
  <2>1. PICK op \in Ops :
          /\ Least(op, Unapplied)
          /\ entries' = [entries EXCEPT ![op] = "none"]
    BY <1>7 DEF RemoveSynced, Unapplied
  <2>2. Backed(op)
    BY <1>7, <2>1 DEF RemoveSynced, SyncParts, RemovesAnAnswer, AnswersAreBacked
  <2>3. \A o \in Ops : InQueue(o)' <=> InQueue(o) /\ o # op
    BY <2>1 DEF InQueue
  <2>4. Outbox' = Outbox \ {op}
    BY <2>3, FieldReportsType DEF Outbox
  <2>5. CASE op \in Outbox
    <3>1. op \in FieldReports /\ op \in Landed \cup Stored \cup Failed
      BY <2>2, <2>5, BackedShows DEF Outbox
    <3>2. QED
      BY <1>1, <2>4, <2>5, <3>1, IsRelease
  <2>6. CASE op \notin Outbox
    BY <1>1, <2>4, <2>6, IsStutter
  <2>7. QED
    BY <2>5, <2>6
<1>8. ASSUME NEW op \in Ops, Enqueue(op) PROVE Delivers
  <2>1. op \notin issued
    BY <1>8 DEF Enqueue, Least
  <2>2. \A o \in Ops : InQueue(o)' <=> InQueue(o) \/ o = op
    BY <1>8 DEF Enqueue, InQueue
  <2>3. CASE op \in FieldReports
    <3>1. op \notin Outbox \cup Landed \cup Stored \cup Failed
      BY <2>1, FieldReportsType
      DEF Outbox, Landed, Stored, Failed, Underway, QueuedIsIssued, ServedIsIssued
    <3>2. Outbox' = Outbox \cup {op}
      BY <2>2, <2>3, FieldReportsType DEF Outbox
    <3>3. QED
      BY <1>1, <2>3, <3>1, <3>2, IsCapture
  <2>4. CASE op \notin FieldReports
    <3>1. UNCHANGED Outbox
      BY <2>2, <2>4, FieldReportsType DEF Outbox
    <3>2. QED
      BY <1>1, <3>1, IsStutter
  <2>5. QED
    BY <2>3, <2>4
<1>9. QED
  BY <1>4, <1>5, <1>6, <1>7, <1>8 DEF DeviceStep, FlushStep

\* What a request does: it answers when it returns or commits its log, stores when
\* it commits its reports, and loses what it answered for only by dying; nothing
\* else shows.
LEMMA ServerDelivers ==
  ASSUME DeliveryInv, NEW r \in Reqs, PushStep(r) \/ PushDies(r) \/ FinishPush(r),
         UNCHANGED Outbox
  PROVE  [Delivery!DeliveryNext]_(Delivery!deliveryVars)
<1> DEFINE Delivers == [Delivery!DeliveryNext]_(Delivery!deliveryVars)
           S == newRows[r] \cap FieldReports
           SameOthers == \A q \in Reqs \ {r} : phase'[q] = phase[q] /\ newRows'[q] = newRows[q]
<1> USE DEF DeliveryInv, OnceInv, PushTypeOK
<1>a. S \in SUBSET FieldReports /\ \A op \in S : op \in Ops /\ fieldReports[op] = 0
  BY FieldReportsType DEF RowsAreFresh
<1>b. ASSUME SameOthers
      PROVE  \A op \in Ops : (\E q \in Reqs \ {r} : Binding(q) /\ op \in newRows[q])'
                             <=> \E q \in Reqs \ {r} : Binding(q) /\ op \in newRows[q]
  BY <1>b DEF Binding, Answered
<1>c. ASSUME SameOthers, ~Binding(r), ~Binding(r)'
      PROVE  UNCHANGED Landed
  BY <1>b, <1>c, FieldReportsType DEF Landed, Underway
<1>d. ASSUME SameOthers, Binding(r), newRows'[r] = {}
      PROVE  Landed' = Landed \ S /\ S \subseteq Landed
  BY <1>b, <1>d, FieldReportsType DEF Landed, Underway, RowsAreFresh
<1>e. ASSUME SameOthers, ~Binding(r), Binding(r)', newRows'[r] = newRows[r]
      PROVE  Landed' = Landed \cup S
  BY <1>b, <1>e, FieldReportsType DEF Landed, Underway
<1>f. ASSUME SameOthers, Binding(r), Binding(r)', newRows'[r] = newRows[r]
      PROVE  UNCHANGED Landed
  BY <1>b, <1>f, FieldReportsType DEF Landed, Underway
<1>g. ASSUME UNCHANGED <<fieldReports, syncOpsLog, undone>>
      PROVE  UNCHANGED <<Stored, Failed>>
  BY <1>g, FieldReportsType DEF Stored, Failed
<1>h. ASSUME UNCHANGED <<fieldReports, syncOpsLog>>, undone' = undone \cup newRows[r]
      PROVE  UNCHANGED Stored /\ Failed' = Failed \cup S
  BY <1>a, <1>h, FieldReportsType DEF Stored, Failed
<1>1. ASSUME \/ AnswerGated(r) \/ AnswerDuplicate(r) \/ StartApply(r) \/ ApplyRaises(r)
             \/ ApplyReport(r) \/ LogAccepted(r) \/ LogRejected(r)
      PROVE  Delivers
  <2>1. /\ UNCHANGED <<fieldReports, syncOpsLog, undone>> /\ SameOthers
        /\ phase[r] \in {"next", "apply", "logAccepted", "logRejected"}
        /\ phase'[r] \in {"next", "apply", "logAccepted", "logRejected"}
    BY <1>1 DEF AnswerGated, AnswerDuplicate, StartApply, ApplyRaises, ApplyReport, InsertReport,
                LogAccepted, LogRejected, LogOp, Goto
  <2>2. ~Binding(r) /\ ~Binding(r)'
    BY <2>1 DEF Binding, Answered
  <2>3. QED
    BY <1>c, <1>g, <2>1, <2>2, IsStutter
<1>2. ASSUME ApplyFailsInSql(r) PROVE Delivers
  <2>1. /\ UNCHANGED <<fieldReports, syncOpsLog>> /\ undone' = undone \cup newRows[r]
        /\ phase[r] = "apply" /\ phase'[r] = "logRejected" /\ SameOthers
    BY <1>2 DEF ApplyFailsInSql, Goto
  <2>2. ~Binding(r) /\ ~Binding(r)'
    BY <2>1 DEF Binding, Answered
  <2>3. UNCHANGED <<Landed, Stored>> /\ Failed' = Failed \cup S
    BY <1>c, <1>h, <2>1, <2>2
  <2>4. S \subseteq (Outbox \cup Failed) \ Stored
    BY <2>2, FreshRows
  <2>5. /\ {} \in SUBSET FieldReports /\ S \in SUBSET FieldReports
        /\ {} \subseteq (Outbox \cup Failed) \ (Landed \cup Stored)
        /\ Landed' = Landed \cup {}
    BY <1>a, <2>3
  <2> HIDE DEF S
  <2>6. QED
    BY <2>3, <2>4, <2>5, IsAnswer
<1>3. ASSUME EndBatch(r) PROVE Delivers
  <2>1. /\ UNCHANGED <<fieldReports, syncOpsLog, undone, newRows>>
        /\ phase[r] = "next" /\ phase'[r] = "commitSystem" /\ SameOthers
    BY <1>3 DEF EndBatch, Goto
  <2>2. ~Binding(r) /\ (Binding(r)' <=> ReplyFirst)
    BY <2>1 DEF Binding, Answered
  <2>3. CASE ReplyFirst
    <3>1. Landed' = Landed \cup S
      BY <1>e, <2>1, <2>2, <2>3
    <3>2. S \subseteq (Outbox \cup Failed) \ (Landed \cup Stored)
      BY <2>2, FreshRows
    <3>3. /\ {} \in SUBSET FieldReports /\ S \in SUBSET FieldReports
          /\ {} \subseteq (Outbox \cup Failed) \ Stored
          /\ UNCHANGED Stored /\ Failed' = Failed \cup {}
      BY <1>a, <1>g, <2>1
    <3> HIDE DEF S
    <3>4. QED
      BY <3>1, <3>2, <3>3, IsAnswer
  <2>4. CASE ~ReplyFirst
    BY <1>c, <1>g, <2>1, <2>2, <2>4, IsStutter
  <2>5. QED
    BY <2>3, <2>4
<1>4. ASSUME CommitSystem(r) PROVE Delivers
  <2> DEFINE T == {op \in FieldReports : newLog[r][op] = "REJECTED" /\ fieldReports[op] = 0}
             A == IF ReplyFirst THEN {} ELSE S
  <2>1. /\ UNCHANGED <<fieldReports, undone, newRows>>
        /\ phase[r] = "commitSystem" /\ phase'[r] = "commitUser" /\ SameOthers
        /\ \A op \in Ops :
             syncOpsLog'[op] = IF newLog[r][op] # "none" THEN newLog[r][op] ELSE syncOpsLog[op]
    BY <1>4 DEF CommitSystem, Goto
  <2>2. Binding(r)' /\ (Binding(r) <=> ReplyFirst)
    BY <2>1 DEF Binding, Answered
  <2>3. Landed' = Landed \cup A
    BY <1>e, <1>f, <2>1, <2>2
  <2>4. A \subseteq (Outbox \cup Failed) \ (Landed \cup Stored)
    BY <2>2, FreshRows
  <2>5. UNCHANGED Stored
    BY <2>1, FieldReportsType DEF Stored
  <2>6. Failed' = Failed \cup T
    <3>1. \A op \in Ops : newLog[r][op] # "none" => syncOpsLog[op] = "none"
      BY DEF SyncInv, ServerInv, RowInv, LogInv, LogsAreFresh
    <3>2. \A op \in Ops : syncOpsLog'[op] = "REJECTED"
                          <=> syncOpsLog[op] = "REJECTED" \/ newLog[r][op] = "REJECTED"
      BY <2>1, <3>1
    <3>3. QED
      BY <2>1, <3>2, FieldReportsType DEF Failed
  <2>7. T \subseteq (Outbox \cup Failed) \ Stored
    BY FreshRejections
  <2>8. T \in SUBSET FieldReports /\ A \in SUBSET FieldReports
    BY <1>a
  <2> HIDE DEF A, T
  <2>9. QED
    BY <2>3, <2>4, <2>5, <2>6, <2>7, <2>8, IsAnswer
<1>5. ASSUME CommitUser(r) PROVE Delivers
  <2>1. /\ UNCHANGED syncOpsLog /\ undone' = undone \ newRows[r]
        /\ phase[r] = "commitUser" /\ newRows'[r] = {} /\ SameOthers
        /\ \A op \in Ops : fieldReports'[op] = IF op \in newRows[r]
                                               THEN fieldReports[op] + 1 ELSE fieldReports[op]
    BY <1>5 DEF CommitUser, Goto
  <2>2. Landed' = Landed \ S /\ S \subseteq Landed
    BY <1>d, <2>1 DEF Binding
  <2>3. \A op \in Ops : fieldReports'[op] > 0 <=> fieldReports[op] > 0 \/ op \in newRows[r]
    BY <2>1
  <2>4. Stored' = Stored \cup S
    BY <2>3, FieldReportsType DEF Stored
  <2>5. \A op \in Ops : fieldReports'[op] = 0 <=> fieldReports[op] = 0 /\ op \notin newRows[r]
    BY <2>1
  <2>6. Failed' = Failed \ S
    BY <2>1, <2>5, FieldReportsType DEF Failed
  <2> HIDE DEF S
  <2>7. QED
    BY <1>a, <2>2, <2>4, <2>6, IsStore
<1>6. ASSUME PushDies(r) \/ FinishPush(r) PROVE Delivers
  <2>1. /\ UNCHANGED <<fieldReports, syncOpsLog>>
        /\ phase'[r] = "idle" /\ newRows'[r] = {} /\ SameOthers
    BY <1>6 DEF PushDies, FinishPush, Clear, Goto
  <2>2. CASE PushDies(r) /\ Binding(r)
    <3>1. UNCHANGED Stored /\ Failed' = Failed \cup S
      BY <1>h, <2>1, <2>2 DEF PushDies
    <3>2. Landed' = Landed \ S /\ S \subseteq Landed
      BY <1>d, <2>1, <2>2
    <3> HIDE DEF S
    <3>3. QED
      BY <1>a, <3>1, <3>2, IsFail
  <2>3. CASE PushDies(r) /\ ~Binding(r)
    <3>1. UNCHANGED undone /\ ~Binding(r)'
      BY <2>1, <2>3 DEF PushDies, Binding, Answered
    <3>2. QED
      BY <1>c, <1>g, <2>1, <2>3, <3>1, IsStutter
  <2>4. CASE FinishPush(r)
    <3>1. UNCHANGED undone /\ Binding(r) /\ newRows[r] = {}
      BY <2>4 DEF FinishPush, Binding, Answered, SyncInv, ServerInv, OrderInv, OrderParts,
                  IdleHoldsNothing
    <3>2. UNCHANGED Landed
      BY <1>d, <2>1, <3>1
    <3>3. QED
      BY <1>g, <2>1, <3>1, <3>2, IsStutter
  <2>5. QED
    BY <1>6, <2>2, <2>3, <2>4
<1>7. QED
  BY <1>1, <1>2, <1>3, <1>4, <1>5, <1>6 DEF PushStep

LEMMA StepIsDeliveryStep ==
  ASSUME DeliveryInv, [Next]_vars
  PROVE  [Delivery!DeliveryNext]_(Delivery!deliveryVars)
<1>1. ASSUME UNCHANGED <<entries, fieldReports, syncOpsLog, phase, newRows, undone>>
      PROVE  UNCHANGED Delivery!deliveryVars
  <2>1. UNCHANGED <<Outbox, Landed, Stored, Failed>>
    BY <1>1, FieldReportsType
    DEF Outbox, InQueue, Landed, Underway, Binding, Answered, Stored, Failed
  <2>2. QED
    BY <2>1, IsStutter
<1>2. CASE Device
  BY <1>2, DeviceDelivers DEF Device
<1>3. ASSUME NEW r \in Reqs, Server(r)
      PROVE  [Delivery!DeliveryNext]_(Delivery!deliveryVars)
  <2>1. UNCHANGED Outbox
    BY <1>3, FieldReportsType DEF Server, flushVars, Outbox, InQueue
  <2>2. QED
    BY <1>3, <2>1, ServerDelivers DEF Server
<1>4. ASSUME NEW r \in Reqs, Push(r)
      PROVE  [Delivery!DeliveryNext]_(Delivery!deliveryVars)
  <2>1. /\ UNCHANGED <<entries, fieldReports, syncOpsLog, undone, newRows>>
        /\ phase[r] = "idle" /\ phase' = [phase EXCEPT ![r] = "next"]
    BY <1>4 DEF Push, BeginPush, Goto
  <2>2. \A op \in Ops : Underway(op)' <=> Underway(op)
    <3>1. \A q \in Reqs : Binding(q)' <=> Binding(q)
      BY <2>1 DEF Binding, Answered, DeliveryInv, OnceInv, PushTypeOK
    <3>2. QED
      BY <2>1, <3>1 DEF Underway
  <2>3. UNCHANGED <<Outbox, Landed, Stored, Failed>>
    BY <2>1, <2>2, FieldReportsType DEF Outbox, InQueue, Landed, Stored, Failed
  <2>4. QED
    BY <2>3, IsStutter
<1>5. CASE PushThrows \/ DeviceCrash \/ (\E r \in Reqs : ReceiveReply(r)) \/ UNCHANGED vars
  BY <1>1, <1>5 DEF PushThrows, DeviceCrash, ReceiveReply, pushVars, vars
<1>6. QED
  BY <1>2, <1>3, <1>4, <1>5 DEF Next

LEMMA DeliveryInvHolds == Spec => []DeliveryInv
<1>1. Init => DeliveryInv
  <2>1. Init => SyncInv /\ PushTypeOK
    BY SyncInit DEF SyncInv, TypeInv, TypeOK
  <2>2. Init => OnceInv
    BY <2>1 DEF Init, PushInit, OnceInv, OneReportPerOp, RowsAreFresh
  <2>3. Init => QueuedIsIssued /\ ServedIsIssued
    BY DEF Init, PushInit, FlushInit, QueuedIsIssued, ServedIsIssued, InQueue, NoLog
  <2>4. QED
    BY <2>1, <2>2, <2>3 DEF DeliveryInv
<1>2. DeliveryInv /\ [Next]_vars => DeliveryInv'
  <2>1. SUFFICES ASSUME DeliveryInv, [Next]_vars PROVE DeliveryInv'
    OBVIOUS
  <2>2. SyncInv' /\ [PushNext]_pushVars
    BY <2>1, SyncStep, StepIsPushStep DEF DeliveryInv, SyncInv
  <2>3. OnceInv'
    BY <2>1, <2>2, OnceStep DEF DeliveryInv
  <2>4. QueuedIsIssued' /\ ServedIsIssued'
    BY <2>1, IssuedStep DEF DeliveryInv, SyncInv
  <2>5. QED
    BY <2>2, <2>3, <2>4 DEF DeliveryInv
<1>3. QED
  BY <1>1, <1>2, PTL DEF Spec

\* The device and the server together implement ReportDelivery under every fault:
\* a captured report stays on the device until the server has answered for it, is
\* stored at most once, and what was answered for is stored unless it was rejected
\* or rolled back, through timeouts, crashes, retries and dying requests.
THEOREM ReportsDelivered == Spec => DeliversReports
<1>1. Init => Delivery!DeliveryInit
  BY FieldReportsType
  DEF Init, PushInit, FlushInit, Delivery!DeliveryInit, Outbox, InQueue, Landed, Underway,
      Stored, Failed, NoLog
<1>2. DeliveryInv /\ [Next]_vars => [Delivery!DeliveryNext]_(Delivery!deliveryVars)
  BY StepIsDeliveryStep
<1>3. QED
  BY <1>1, <1>2, DeliveryInvHolds, PTL DEF Spec, DeliversReports, Delivery!DeliverySpec
-------------------------------------------------------------------------------
\* The queue as the flush uses it, each change and its save in one step.
Kept == INSTANCE DurableQueue
  WITH QueueOps <- Ops, Marks <- QueueStatus \ {"none"}, rows <- entries, seen <- issued, lost <- {}

\* Answers speak of ops the app has issued, and the entry being removed is SYNCED
\* (or was removed before).
AnswersAreIssued ==
  \A op \in Ops :
    /\ reply[op] # "none" => op \in issued
    /\ \A r \in Reqs : results[r][op] # "none" => op \in issued

RemovesSynced ==
  flushPc = "remove" => \A op \in Ops : Least(op, Unapplied) => entries[op] \in {"synced", "none"}

EntryInv == TypeInv /\ QueuedIsIssued /\ ServedIsIssued /\ AnswersAreIssued /\ RemovesSynced

\* A request answers for the ops it was sent.
LEMMA RequestAnswersItsOps ==
  ASSUME PushTypeOK, NEW r \in Reqs, PushStep(r) \/ PushDies(r) \/ FinishPush(r)
  PROVE  \A q \in Reqs, op \in Ops : results'[q][op] # "none" => results[q][op] # "none" \/ op \in todo[q]
<1> DEFINE Answers ==
      \A q \in Reqs, op \in Ops : results'[q][op] # "none" => results[q][op] # "none" \/ op \in todo[q]
<1> USE DEF PushTypeOK
<1>1. ASSUME NEW op \in Ops, NEW verdict, Current(r, op), SetVerdict(r, op, verdict)
      PROVE  Answers
  BY <1>1 DEF SetVerdict, Current
<1>2. ASSUME AnswerGated(r) \/ AnswerDuplicate(r) PROVE Answers
  BY <1>1, <1>2 DEF AnswerGated, AnswerDuplicate
<1>3. ASSUME LogAccepted(r) \/ LogRejected(r) PROVE Answers
  BY <1>1, <1>3 DEF LogAccepted, LogRejected, LogOp
<1>4. ASSUME PushDies(r) \/ FinishPush(r) PROVE Answers
  <2>1. results' = [results EXCEPT ![r] = NoLog]
    BY <1>4 DEF PushDies, FinishPush, Clear
  <2>2. \A op \in Ops : NoLog[op] = "none"
    BY DEF NoLog
  <2>3. QED
    BY <2>1, <2>2
<1>5. ASSUME \/ StartApply(r) \/ ApplyReport(r) \/ ApplyRaises(r) \/ ApplyFailsInSql(r)
             \/ EndBatch(r) \/ CommitSystem(r) \/ CommitUser(r)
      PROVE  Answers
  <2>1. UNCHANGED results
    BY <1>5
    DEF StartApply, ApplyReport, ApplyRaises, ApplyFailsInSql, EndBatch, CommitSystem, CommitUser
  <2>2. QED
    BY <2>1
<1>6. QED
  BY <1>2, <1>3, <1>4, <1>5 DEF PushStep

\* A changed entry is one save of the stored queue.
LEMMA EntrySaved ==
  ASSUME TypeOK, QueuedIsIssued, NEW op \in Ops, NEW status \in QueueStatus,
         entries' = [entries EXCEPT ![op] = status],
         entries[op] = "none" => status # "synced" /\ op \notin issued,
         status = "none" => entries[op] = "synced",
         issued' = issued \cup (IF status = "none" THEN {} ELSE {op})
  PROVE  Kept!QueueNext
<1> USE DEF TypeOK, FlushTypeOK
<1>1. entries' \in [Ops -> (QueueStatus \ {"none"}) \cup {"none"}]
  BY DEF QueueStatus
<1>2. issued' = issued \cup {o \in Ops : entries'[o] # "none"}
  BY DEF QueuedIsIssued, InQueue
<1>3. \A o \in Ops \ {op} : entries'[o] = entries[o]
  OBVIOUS
<1>4. Kept!StoreAll(entries')
  BY <1>2, <1>3 DEF Kept!StoreAll, Kept!Enters, Kept!Leaves
<1>5. QED
  BY <1>1, <1>4 DEF Kept!QueueNext

\* One save of the device: what it is to the stored queue, and that the removal
\* of a verdict finds the entry marked.
LEMMA DeviceKeepsEntries ==
  ASSUME EntryInv, DeviceStep
  PROVE  /\ [Kept!QueueNext]_(Kept!queueVars)
         /\ RemovesSynced'
         /\ \A op \in Ops : reply'[op] # "none" => op \in issued'
<1> DEFINE Goal == /\ [Kept!QueueNext]_(Kept!queueVars)
                   /\ RemovesSynced'
                   /\ \A op \in Ops : reply'[op] # "none" => op \in issued'
<1> USE DEF EntryInv, TypeInv, TypeOK, FlushTypeOK
<1>1. ASSUME NEW op \in Ops, NEW status \in QueueStatus \ {"none"}, MarkStatus(op, status), UNCHANGED issued
      PROVE  [Kept!QueueNext]_(Kept!queueVars)
  <2>1. CASE InQueue(op)
    <3>1. entries[op] # "none" /\ entries' = [entries EXCEPT ![op] = status]
      BY <1>1, <2>1 DEF MarkStatus, InQueue
    <3>2. issued' = issued \cup {op}
      BY <1>1, <2>1 DEF QueuedIsIssued
    <3>3. Kept!QueueNext
      BY <1>1, <3>1, <3>2, EntrySaved
    <3>4. QED
      BY <3>3
  <2>2. CASE ~InQueue(op)
    BY <1>1, <2>2 DEF MarkStatus, Kept!queueVars
  <2>3. QED
    BY <2>1, <2>2
<1>2. ASSUME SelectBatch PROVE Goal
  <2>1. /\ UNCHANGED <<issued, entries>>
        /\ EndFlush \/ (flushPc' = "marking" /\ UNCHANGED reply)
    BY <1>2 DEF SelectBatch
  <2>2. QED
    BY <2>1, FlushEnds DEF AnswersAreIssued, RemovesSynced, Kept!queueVars
<1>3. ASSUME MarkSyncing PROVE Goal
  <2>1. PICK op \in Ops : MarkStatus(op, "syncing")
    BY <1>3 DEF MarkSyncing
  <2>2. flushPc' # "remove" /\ UNCHANGED <<issued, reply>> /\ "syncing" \in QueueStatus \ {"none"}
    BY <1>3 DEF MarkSyncing, QueueStatus
  <2>3. QED
    BY <1>1, <2>1, <2>2 DEF AnswersAreIssued, RemovesSynced
<1>4. ASSUME ApplyVerdict PROVE Goal
  <2>1. PICK op \in Ops :
          /\ Least(op, Unapplied)
          /\ MarkStatus(op, StatusFor(reply[op]))
          /\ IF StatusFor(reply[op]) = "synced"
               THEN flushPc' = "remove" /\ UNCHANGED reply
               ELSE reply' = [reply EXCEPT ![op] = "none"] /\ UNCHANGED flushPc
    BY <1>4 DEF ApplyVerdict, Unapplied
  <2>2. UNCHANGED issued /\ flushPc = "verdicts"
    BY <1>4 DEF ApplyVerdict
  <2>3. [Kept!QueueNext]_(Kept!queueVars)
    BY <1>1, <2>1, <2>2, StatusForType
  <2>4. \A o \in Ops : reply'[o] # "none" => reply[o] # "none"
    BY <2>1
  <2>5. ASSUME flushPc' = "remove" PROVE RemovesSynced'
    <3>1. StatusFor(reply[op]) = "synced" /\ UNCHANGED reply
      BY <2>1, <2>2, <2>5
    <3>2. entries'[op] \in {"synced", "none"}
      BY <2>1, <3>1 DEF MarkStatus, InQueue
    <3>3. Unapplied' = Unapplied /\ Unapplied \in SUBSET Ops
      BY <3>1 DEF Unapplied
    <3>4. \A o \in Ops : Least(o, Unapplied) => o = op
      BY <2>1, <3>3, LeastIsUnique
    <3>5. \A o \in Ops : Least(o, Unapplied)' => o = op
      BY <3>3, <3>4 DEF Least
    <3>6. QED
      BY <3>2, <3>5 DEF RemovesSynced
  <2>6. QED
    BY <2>2, <2>3, <2>4, <2>5 DEF AnswersAreIssued, RemovesSynced
<1>5. ASSUME RemoveSynced PROVE Goal
  <2>1. PICK op \in Ops :
          /\ Least(op, Unapplied)
          /\ entries' = [entries EXCEPT ![op] = "none"]
          /\ reply' = [reply EXCEPT ![op] = "none"]
    BY <1>5 DEF RemoveSynced, Unapplied
  <2>2. UNCHANGED issued /\ flushPc = "remove" /\ flushPc' = "verdicts"
    BY <1>5 DEF RemoveSynced
  <2>3. entries[op] \in {"synced", "none"}
    BY <2>1, <2>2 DEF RemovesSynced
  <2>4. CASE entries[op] = "synced"
    <3>1. Kept!QueueNext
      BY <2>1, <2>2, <2>4, EntrySaved DEF QueueStatus
    <3>2. QED
      BY <2>1, <2>2, <3>1 DEF AnswersAreIssued, RemovesSynced
  <2>5. CASE entries[op] = "none"
    <3>1. entries' = entries
      BY <2>1, <2>5
    <3>2. QED
      BY <2>1, <2>2, <3>1 DEF AnswersAreIssued, RemovesSynced, Kept!queueVars
  <2>6. QED
    BY <2>3, <2>4, <2>5
<1>6. ASSUME FinishFlush PROVE Goal
  BY <1>6, FlushEnds DEF FinishFlush, RemovesSynced, Kept!queueVars
<1>7. ASSUME RequestFlush PROVE Goal
  BY <1>7 DEF RequestFlush, StartFlush, AnswersAreIssued, RemovesSynced, Kept!queueVars
<1>8. ASSUME NEW op \in Ops, Enqueue(op) PROVE Goal
  <2>1. PICK status \in {"pending", "offline"} : entries' = [entries EXCEPT ![op] = status]
    BY <1>8 DEF Enqueue
  <2>2. issued' = issued \cup {op} /\ op \notin issued /\ UNCHANGED <<flushPc, reply>>
    BY <1>8 DEF Enqueue, Least
  <2>3. Kept!QueueNext
    <3>1. entries[op] = "none" /\ status \in QueueStatus /\ status \notin {"none", "synced"}
      BY <2>2 DEF QueuedIsIssued, InQueue, QueueStatus
    <3>2. QED
      BY <2>1, <2>2, <3>1, EntrySaved
  <2>4. RemovesSynced'
    <3>1. SUFFICES ASSUME flushPc = "remove", NEW o \in Ops, Least(o, Unapplied)
                   PROVE  entries'[o] \in {"synced", "none"}
      BY <2>2 DEF RemovesSynced, Least, Unapplied
    <3>2. entries[o] \in {"synced", "none"} /\ o # op
      BY <2>2, <3>1 DEF RemovesSynced, AnswersAreIssued, Least, Unapplied
    <3>3. QED
      BY <2>1, <3>2
  <2>5. QED
    BY <2>2, <2>3, <2>4 DEF AnswersAreIssued
<1>9. ASSUME NEW class \in Classes, ConnectivityChange(class) PROVE Goal
  BY <1>9
  DEF ConnectivityChange, StartFlush, AnswersAreIssued, RemovesSynced, Least, Unapplied, Kept!queueVars
<1>10. QED
  BY <1>2, <1>3, <1>4, <1>5, <1>6, <1>7, <1>8, <1>9 DEF DeviceStep, FlushStep

LEMMA EntryStep ==
  ASSUME EntryInv, [Next]_vars
  PROVE  EntryInv' /\ [Kept!QueueNext]_(Kept!queueVars)
<1> DEFINE Goal == AnswersAreIssued' /\ RemovesSynced' /\ [Kept!QueueNext]_(Kept!queueVars)
<1>1. TypeInv' /\ QueuedIsIssued' /\ ServedIsIssued'
  BY TypeStep, IssuedStep DEF EntryInv
<1>2. ASSUME Device PROVE Goal
  BY <1>2, DeviceKeepsEntries DEF Device, pushVars, EntryInv, AnswersAreIssued, DeviceStep,
     FlushStep, SelectBatch, MarkSyncing, ApplyVerdict, RemoveSynced, FinishFlush, RequestFlush,
     Enqueue, ConnectivityChange
<1>3. ASSUME PushThrows \/ DeviceCrash PROVE Goal
  BY <1>3, FlushEnds
  DEF PushThrows, DeviceCrash, EntryInv, AnswersAreIssued, RemovesSynced, pushVars, Kept!queueVars
<1>4. ASSUME NEW r \in Reqs, Push(r) PROVE Goal
  BY <1>4 DEF Push, BeginPush, EntryInv, AnswersAreIssued, RemovesSynced, Kept!queueVars
<1>5. ASSUME NEW r \in Reqs, ReceiveReply(r) PROVE Goal
  BY <1>5 DEF ReceiveReply, EntryInv, AnswersAreIssued, RemovesSynced, pushVars, Kept!queueVars
<1>6. ASSUME NEW r \in Reqs, Server(r) PROVE Goal
  <2>1. UNCHANGED <<issued, entries, reply, flushPc>>
    BY <1>6 DEF Server, flushVars
  <2>2. AnswersAreIssued'
    BY <1>6, <2>1, RequestAnswersItsOps
    DEF Server, EntryInv, TypeInv, TypeOK, AnswersAreIssued, ServedIsIssued
  <2>3. QED
    BY <2>1, <2>2 DEF EntryInv, RemovesSynced, Least, Unapplied, Kept!queueVars
<1>7. ASSUME UNCHANGED vars PROVE Goal
  BY <1>7 DEF vars, EntryInv, AnswersAreIssued, RemovesSynced, Least, Unapplied, Kept!queueVars
<1>8. QED
  BY <1>1, <1>2, <1>3, <1>4, <1>5, <1>6, <1>7 DEF Next, EntryInv

\* The queue of the flush keeps its entries as DurableQueue says, whatever the
\* server answers or fails to answer: an op is stored once and is dropped only
\* after it was marked SYNCED.  SyncQueueProofs shows the same of the rows on disk.
THEOREM FlushKeepsEntries == Spec => Kept!QueueSpec
<1>1. Init => EntryInv /\ Kept!QueueInit
  BY TypeInit
  DEF Init, PushInit, FlushInit, EntryInv, QueuedIsIssued, InQueue, ServedIsIssued, AnswersAreIssued,
      RemovesSynced, NoLog, Kept!QueueInit
<1>2. EntryInv /\ [Next]_vars => EntryInv' /\ [Kept!QueueNext]_(Kept!queueVars)
  BY EntryStep
<1>3. QED
  BY <1>1, <1>2, PTL DEF Spec, Kept!QueueSpec
===============================================================================
