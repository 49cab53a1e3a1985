----------------------------- MODULE OfflineSync -----------------------------
(***************************************************************************)
(* The device (SyncFlush) and the server (SyncPush) joined by an           *)
(* unreliable link.  The device waits for one push at a time; a push it    *)
(* gives up on keeps running on the server, so a retry may overlap it.     *)
(***************************************************************************)
EXTENDS SyncFlush

CONSTANTS NoReq, MaxGiveUps   \* bound: timeouts and device crashes explored

ASSUME SyncAssumption == NoReq \notin Reqs /\ MaxGiveUps \in Nat

VARIABLES awaiting, giveUps
vars == <<fieldReports, syncOpsLog, phase, reqClass, todo, newRows, txAborted, newLog,
          results, undone, issued, entries, link, switches, flushPc, flushClass, batch,
          marks, reply, awaiting, giveUps>>

TypeOK ==
  /\ PushTypeOK
  /\ FlushTypeOK
  /\ awaiting \in Reqs \cup {NoReq}
  /\ giveUps \in 0 .. MaxGiveUps

Init == PushInit /\ FlushInit /\ awaiting = NoReq /\ giveUps = 0
-------------------------------------------------------------------------------
\* repo.pushBatch: the request reaches the server.
Push(r) ==
  /\ flushPc = "push"
  /\ BeginPush(r, batch, flushClass)
  /\ flushPc' = "awaiting"
  /\ awaiting' = r
  /\ UNCHANGED <<issued, entries, link, switches, flushClass, batch, marks, reply, giveUps>>

\* The response reaches the flush that waits for it.
ReceiveReply(r) ==
  /\ flushPc = "awaiting"
  /\ awaiting = r
  /\ Answered(r)
  /\ reply' = results[r]
  /\ flushPc' = "verdicts"
  /\ awaiting' = NoReq
  /\ UNCHANGED <<issued, entries, link, switches, flushClass, batch, marks, giveUps, pushVars>>

\* Mutant: a push that times out counts as delivered.
PushThrowsOptimistic ==
  /\ flushPc \in {"push", "awaiting"}
  /\ giveUps < MaxGiveUps
  /\ giveUps' = giveUps + 1
  /\ entries' = [op \in Ops |-> IF op \in batch THEN "none" ELSE entries[op]]
  /\ EndFlush
  /\ awaiting' = NoReq
  /\ UNCHANGED <<issued, link, switches, pushVars>>

\* flush() rethrows and the entries stay SYNCING: the request never arrived or
\* was answered with an error (its slot is idle) or the client timed out.
PushThrows ==
  /\ flushPc \in {"push", "awaiting"}
  /\ \/ flushPc = "awaiting" /\ phase[awaiting] = "idle" /\ UNCHANGED giveUps
     \/ giveUps < MaxGiveUps /\ giveUps' = giveUps + 1
  /\ EndFlush
  /\ awaiting' = NoReq
  /\ UNCHANGED <<issued, entries, link, switches, pushVars>>

\* The app process dies and starts again: the stored queue is all that is left.
DeviceCrash ==
  /\ flushPc # "idle"
  /\ giveUps < MaxGiveUps
  /\ giveUps' = giveUps + 1
  /\ EndFlush
  /\ awaiting' = NoReq
  /\ UNCHANGED <<issued, entries, link, switches, pushVars>>

Device == DeviceStep /\ UNCHANGED <<pushVars, awaiting, giveUps>>

Server(r) ==
  /\ \/ PushStep(r)
     \/ PushDies(r)
     \/ FinishPush(r) /\ awaiting # r
  /\ UNCHANGED <<flushVars, awaiting, giveUps>>

Next ==
  \/ Device
  \/ PushThrows
  \/ DeviceCrash
  \/ \E r \in Reqs : Push(r) \/ ReceiveReply(r) \/ Server(r)

Spec == Init /\ [][Next]_vars

\* What runs on its own: the awaits of a flush resume, the server works through
\* its requests, answers and errors arrive.  A flush is asked for again and
\* again (the app is opened, the officer syncs); no fairness for enqueueing,
\* connectivity changes, crashes or dying requests.
Fairness ==
  /\ WF_vars(FlushStep /\ UNCHANGED <<pushVars, awaiting, giveUps>>)
  /\ WF_vars(RequestFlush /\ UNCHANGED <<pushVars, awaiting, giveUps>>)
  /\ WF_vars(PushThrows)
  /\ WF_vars(\E r \in Reqs : Push(r))
  /\ \A r \in Reqs : WF_vars(ReceiveReply(r)) /\ WF_vars(Server(r))

FairSpec == Spec /\ Fairness
-------------------------------------------------------------------------------
\* docs/offline-strategy.md "Rejected ops surface explicit reasons to the
\* officer. No silent loss.": an op leaves the queue only when its report is kept.
NoSilentLoss == \A op \in Ops : Released(op) => fieldReports[op] > 0 \/ Underway(op)

\* What the code does hold, under every fault: an op leaves the queue only for a
\* report the server holds or is about to commit, for an op whose rejection is in
\* the log, or for a report that was rolled back behind its ACCEPTED.  Timeouts,
\* crashes and overlapping retries never make the device forget an op nobody has.
ReleasedIsKept ==
  \A op \in Ops :
    Released(op) =>
      fieldReports[op] > 0 \/ Underway(op) \/ syncOpsLog[op] = "REJECTED" \/ op \in undone

\* "A local save NEVER claims server success" (sync_queue_entry.dart 19): the
\* queue shows SYNCED only for ops in the committed log, or, where the reply leaves
\* before the commits, for ops whose request is still to commit or was rolled back
\* after it had answered.
SyncedIsLogged ==
  \A op \in Ops :
    entries[op] = "synced" => syncOpsLog[op] # "none" \/ Underway(op) \/ op \in undone

\* Once the link stays good and requests stop dying, every pending op is settled:
\* the server takes it in and its entry leaves the queue, or at worst stays there
\* as SYNCED (a crash after the first of the two saves of a verdict).
PendingIsSettled ==
  <>[](link = "GOOD") /\ <>[][\A r \in Reqs : ~PushDies(r)]_vars =>
    \A op \in Ops : entries[op] = "pending" ~> entries[op] \in {"none", "synced"}

\* Refinement: a report is landing while the request that has answered for it may
\* still commit it, and has failed when its rejection is logged or its row was
\* rolled back, until it is stored after all.
FieldReports == {op \in Ops : OpType[op] = "FIELD_REPORT"}
Outbox       == {op \in FieldReports : InQueue(op)}
Landed       == {op \in FieldReports : Underway(op)}
Stored       == {op \in FieldReports : fieldReports[op] > 0}
Failed       == {op \in FieldReports :
                   fieldReports[op] = 0 /\ (op \in undone \/ syncOpsLog[op] = "REJECTED")}
Delivery     == INSTANCE ReportDelivery
  WITH Reports <- FieldReports, outbox <- Outbox, landing <- Landed, stored <- Stored,
       failed <- Failed

\* The device and the server together keep every captured report in the outbox
\* until the server has answered for it, and store it at most once.
DeliversReports == Delivery!DeliverySpec
===============================================================================
