------------------------------ MODULE SyncFlush ------------------------------
(***************************************************************************)
(* The device half of offline synchronisation: the queue of pending ops    *)
(* (lib/core/sync/sync_queue.dart) as SyncFlushController.flush drives it  *)
(* (lib/features/incidents/sync_controller.dart).                          *)
(*                                                                         *)
(* Every queue mutation saves the whole queue before the controller goes   *)
(* on, so here `entries' is both the memory and the stored queue; module   *)
(* SyncQueue takes the two apart.  The push itself belongs to OfflineSync. *)
(***************************************************************************)
EXTENDS SyncPush

CONSTANTS
  FallbackPolicy,  \* SyncPolicy.defaults(): a ClassPolicy for every class
  MaxSwitches      \* bound: connectivity changes explored

ASSUME FlushAssumption ==
  /\ FallbackPolicy \in [Classes -> ClassPolicy]
  /\ MaxSwitches \in Nat

\* "none": the op is not in the queue.
QueueStatus == {"none", "pending", "syncing", "synced", "failed", "offline", "conflict"}
FlushPc     == {"idle", "policy", "marking", "push", "awaiting", "verdicts", "remove"}

VARIABLES
  issued,      \* ops ever enqueued: a client_op_id is a fresh uuid
  entries,     \* queue status of each op
  link,        \* connectivityClassProvider
  switches,    \* connectivity changes so far
  flushPc,     \* where flush() is; "idle": _flushing is false
  flushClass,  \* `connectivity' as flush() read it
  batch,       \* `entries' of flush()
  marks,       \* members of batch not yet marked SYNCING
  reply        \* verdicts of the response not yet applied

flushVars == <<issued, entries, link, switches, flushPc, flushClass, batch, marks, reply>>

FlushTypeOK ==
  /\ issued \subseteq Ops
  /\ entries \in [Ops -> QueueStatus]
  /\ link \in Classes
  /\ switches \in 0 .. MaxSwitches
  /\ flushPc \in FlushPc
  /\ flushClass \in Classes
  /\ batch \subseteq Ops
  /\ marks \subseteq Ops
  /\ reply \in [Ops -> Verdict]

FlushInit ==
  /\ issued = {}
  /\ entries = NoLog
  /\ link = "OFFLINE"
  /\ switches = 0
  /\ flushPc = "idle"
  /\ flushClass = "OFFLINE"
  /\ batch = {}
  /\ marks = {}
  /\ reply = NoLog

InQueue(op)  == entries[op] # "none"
Released(op) == op \in issued /\ ~InQueue(op)
Least(op, S) == op \in S /\ \A other \in S : op <= other
-------------------------------------------------------------------------------
\* Mutant: an entry a crash left SYNCING is not flushed again.
IsFlushableNotSyncing(op) == entries[op] \in {"pending", "failed"}

IsFlushable(op) == entries[op] \in {"pending", "failed", "syncing"}

\* SyncQueue.flushable: allowed types only, oldest first (no caller sets a
\* priority), at most maxOps.  No verdict sets nextRetryAt and only media
\* entries have a dependency, so those two filters let every op here through.
\* A class the policy does not have (classPolicy is null) carries nothing; the
\* device does not ask whether a report has a photo.
Flushable(policy, class) ==
  LET ready == {op \in Ops : IsFlushable(op) /\ OpType[op] \in policy[class].allowedTypes}
  IN  IF class = "OFFLINE" \/ class \notin DOMAIN policy THEN {}
      ELSE {op \in ready : Cardinality({o \in ready : o < op}) < policy[class].maxOps}

\* Mutant: a deferred op counts as done.
StatusForDeferredDone(verdict) ==
  IF verdict \in {"ACCEPTED", "DUPLICATE", "DEFERRED"} THEN "synced" ELSE "failed"

\* Mutant: an unexpected verdict is stored as it is.
StatusForRaw(verdict) ==
  CASE verdict \in {"ACCEPTED", "DUPLICATE"} -> "synced"
    [] verdict = "DEFERRED" -> "pending"
    [] OTHER -> verdict

\* _statusFor.
StatusFor(verdict) ==
  CASE verdict \in {"ACCEPTED", "DUPLICATE"} -> "synced"
    [] verdict = "DEFERRED" -> "pending"
    [] OTHER -> "failed"

\* markStatus: an op that is no longer in the queue is skipped.
MarkStatus(op, status) ==
  entries' = IF InQueue(op) THEN [entries EXCEPT ![op] = status] ELSE entries

EndFlush ==
  /\ flushPc' = "idle"
  /\ flushClass' = "OFFLINE"
  /\ batch' = {}
  /\ marks' = {}
  /\ reply' = NoLog
-------------------------------------------------------------------------------
\* The wizard enqueues a report whose online submission failed, as OFFLINE
\* after a network error and as PENDING after a validation error; the GPS
\* beacon enqueues a PENDING ping.
Enqueue(op) ==
  /\ Least(op, Ops \ issued)
  /\ issued' = issued \cup {op}
  /\ \E status \in {"pending", "offline"} :
       /\ status = "offline" => OpType[op] = "FIELD_REPORT"
       /\ entries' = [entries EXCEPT ![op] = status]
  /\ UNCHANGED <<link, switches, flushPc, flushClass, batch, marks, reply>>

\* flush(): the connectivity class is read once, before the policy is fetched.
StartFlush(class) == flushPc' = "policy" /\ flushClass' = class

\* "Sync now", or a reconciliation run; a second flush returns at once.
RequestFlush ==
  /\ flushPc = "idle"
  /\ StartFlush(link)
  /\ UNCHANGED <<issued, entries, link, switches, batch, marks, reply>>

\* autoSyncOnReconnectProvider: OFFLINE -> anything else starts a flush.
ConnectivityChange(class) ==
  /\ class # link
  /\ switches < MaxSwitches
  /\ switches' = switches + 1
  /\ link' = class
  /\ IF link = "OFFLINE" /\ flushPc = "idle"
       THEN StartFlush(class)
       ELSE UNCHANGED <<flushPc, flushClass>>
  /\ UNCHANGED <<issued, entries, batch, marks, reply>>

\* _safeFetchPolicy answers with the server's policy or with the defaults, then
\* the batch is chosen from the queue as it is now.
SelectBatch ==
  /\ flushPc = "policy"
  /\ \E policy \in {ServerPolicy, FallbackPolicy} :
       LET chosen == Flushable(policy, flushClass)
       IN  \/ chosen = {} /\ EndFlush
           \/ /\ chosen # {}
              /\ batch' = chosen
              /\ marks' = chosen
              /\ flushPc' = "marking"
              /\ UNCHANGED <<flushClass, reply>>
  /\ UNCHANGED <<issued, entries, link, switches>>

MarkSyncing ==
  /\ flushPc = "marking"
  /\ \E op \in Ops :
       /\ Least(op, marks)
       /\ MarkStatus(op, "syncing")
       /\ marks' = marks \ {op}
  /\ flushPc' = IF marks' = {} THEN "push" ELSE "marking"
  /\ UNCHANGED <<issued, link, switches, flushClass, batch, reply>>

\* One verdict; ACCEPTED and DUPLICATE also remove the entry, in a second save.
ApplyVerdict ==
  /\ flushPc = "verdicts"
  /\ \E op \in Ops :
       /\ Least(op, {o \in Ops : reply[o] # "none"})
       /\ MarkStatus(op, StatusFor(reply[op]))
       /\ IF StatusFor(reply[op]) = "synced"
            THEN flushPc' = "remove" /\ UNCHANGED reply
            ELSE reply' = [reply EXCEPT ![op] = "none"] /\ UNCHANGED flushPc
  /\ UNCHANGED <<issued, link, switches, flushClass, batch, marks>>

RemoveSynced ==
  /\ flushPc = "remove"
  /\ \E op \in Ops :
       /\ Least(op, {o \in Ops : reply[o] # "none"})
       /\ entries' = [entries EXCEPT ![op] = "none"]
       /\ reply' = [reply EXCEPT ![op] = "none"]
  /\ flushPc' = "verdicts"
  /\ UNCHANGED <<issued, link, switches, flushClass, batch, marks>>

FinishFlush ==
  /\ flushPc = "verdicts"
  /\ reply = NoLog
  /\ EndFlush
  /\ UNCHANGED <<issued, entries, link, switches>>

FlushStep == SelectBatch \/ MarkSyncing \/ ApplyVerdict \/ RemoveSynced \/ FinishFlush

DeviceStep ==
  \/ FlushStep
  \/ RequestFlush
  \/ \E op \in Ops : Enqueue(op)
  \/ \E class \in Classes : ConnectivityChange(class)
===============================================================================
