------------------------------- MODULE SyncQueue -------------------------------
(***************************************************************************)
(* The persistent offline queue: SyncQueue (lib/core/sync/sync_queue.dart) *)
(* over PersistentSyncQueueStorage and its SQLite database.                *)
(*                                                                         *)
(* The queue lives in memory; every mutation saves a snapshot of ALL of it *)
(* by replacing the whole table in one transaction.  The database answers  *)
(* the requests in the order they were made, later than they were made,    *)
(* and may fail any of them; the app may be killed at any moment, which    *)
(* keeps only the table.  The queue counts as initialized as soon as the   *)
(* load is ASKED for: who comes while it is outstanding, or after it       *)
(* failed, works on a queue without the stored entries and saves it over   *)
(* them.  The ghost overwritten records which entries that costs.          *)
(***************************************************************************)
EXTENDS Integers, Sequences

CONSTANTS
  Ops,             \* client_op_ids (fresh uuids, so each is enqueued once)
  MaxRequests      \* bound: saves outstanding

ASSUME QueueAssumption == MaxRequests \in Nat

\* "none": no entry.  The statuses stand for SyncQueueStatus, "pending" for
\* every one a flush may leave other than SYNCING and SYNCED; which one it
\* writes when is the business of SyncFlush.
Status   == {"none", "pending", "syncing", "synced"}
Snapshot == [Ops -> Status]
Empty    == [op \in Ops |-> "none"]

\* An outstanding saveAll, and whose await it will end.
Save == [by : {"enqueue", "mark", "remove"}, op : Ops, rows : Snapshot]

VARIABLES
  loading,     \* "no": not initialized; "asked": loadAll outstanding; "read": the
               \* select ran, ensureLoaded has not resumed; "failed"; "done"
  entries,     \* _entries
  awaitsLoad,  \* the op whose enqueue triggered the load and waits for it, if any
  loaded,      \* the rows the select found, while loading = "read"
  requests,    \* saves not yet answered
  table,       \* the sync_queue rows on disk
  acked,       \* the status of each op as last marked by the running flush, once saved
  enqueued,    \* ghost: ops whose enqueue() was called
  refused,     \* ghost: ops whose enqueue() threw
  confirmed,   \* ghost: ops that have been in the table
  removed,     \* ghost: ops whose remove() was called
  overwritten  \* ghost: ops a queue that had not loaded them was saved over, and
               \* ops the end of the load dropped from memory

vars == <<loading, entries, awaitsLoad, loaded, requests, table, acked,
          enqueued, refused, confirmed, removed, overwritten>>

NotMarked == [op \in Ops |-> "none"]

TypeOK ==
  /\ loading \in {"no", "asked", "read", "failed", "done"}
  /\ entries \in Snapshot
  /\ awaitsLoad \subseteq Ops
  /\ loaded \in Snapshot
  /\ requests \in Seq(Save)
  /\ table \in Snapshot
  /\ acked \in [Ops -> {"none", "syncing", "synced"}]
  /\ enqueued \subseteq Ops
  /\ refused \subseteq Ops
  /\ confirmed \subseteq Ops
  /\ removed \subseteq Ops
  /\ overwritten \subseteq Ops

Init ==
  /\ loading = "no"
  /\ entries = Empty
  /\ awaitsLoad = {}
  /\ loaded = Empty
  /\ requests = <<>>
  /\ table = Empty
  /\ acked = NotMarked
  /\ enqueued = {}
  /\ refused = {}
  /\ confirmed = {}
  /\ removed = {}
  /\ overwritten = {}

Held(rows) == {op \in Ops : rows[op] # "none"}

\* The stored entries are not in memory although the queue is initialized.
Blind == loading \in {"asked", "read", "failed"}
-------------------------------------------------------------------------------
\* _persist: saveAll of an immutable copy of _entries.
Persist(by, op) ==
  /\ Len(requests) < MaxRequests
  /\ requests' = Append(requests, [by |-> by, op |-> op, rows |-> entries'])
  /\ overwritten' = overwritten \cup (IF Blind THEN Held(table) \ Held(entries) ELSE {})

\* ensureLoaded, first caller: _initialized is set BEFORE the await, so every
\* later caller goes straight on.
StartLoad ==
  /\ loading = "no"
  /\ loading' = "asked"
  /\ UNCHANGED <<entries, loaded, requests, table, acked, refused, confirmed, removed, overwritten>>

\* A screen watches the queue, or a flush starts: load it.
Watch == StartLoad /\ UNCHANGED <<awaitsLoad, enqueued>>

\* enqueue as first caller: it resumes with the load.
EnqueueFirst(op) ==
  /\ op \notin enqueued
  /\ StartLoad
  /\ awaitsLoad' = {op}
  /\ enqueued' = enqueued \cup {op}

\* enqueue on a queue that counts as initialized.
Enqueue(op) ==
  /\ op \notin enqueued
  /\ loading # "no"
  /\ entries' = [entries EXCEPT ![op] = "pending"]
  /\ Persist("enqueue", op)
  /\ enqueued' = enqueued \cup {op}
  /\ UNCHANGED <<loading, awaitsLoad, loaded, table, acked, refused, confirmed, removed>>

\* The database runs the select; no save can be older.
Select ==
  /\ loading = "asked"
  /\ loading' = "read"
  /\ loaded' = table
  /\ UNCHANGED <<entries, awaitsLoad, requests, table, acked, enqueued, refused, confirmed, removed, overwritten>>

\* loadAll throws, and with it the enqueue that waited.  The queue stays
\* initialized and is never loaded again.
LoadFails ==
  /\ loading = "asked"
  /\ loading' = "failed"
  /\ awaitsLoad' = {}
  /\ refused' = refused \cup awaitsLoad
  /\ UNCHANGED <<entries, loaded, requests, table, acked, enqueued, confirmed, removed, overwritten>>

\* What ensureLoaded does when it resumes: what memory holds is replaced by what
\* was loaded, then the enqueue that waited adds its entry.
ReplaceEntries ==
  /\ loading = "read"
  /\ loading' = "done"
  /\ loaded' = Empty
  /\ awaitsLoad' = {}
  /\ entries' = [op \in Ops |-> IF op \in awaitsLoad THEN "pending" ELSE loaded[op]]
  /\ UNCHANGED <<table, acked, enqueued, refused, confirmed, removed>>

\* The entries the load drops from memory.
Dropped == Held(entries) \ Held(loaded)

\* Mutant: the enqueue that waited starts from an empty queue.
FinishLoadDropping ==
  /\ loading = "read"
  /\ loading' = "done"
  /\ loaded' = Empty
  /\ awaitsLoad' = {}
  /\ entries' = [op \in Ops |-> IF op \in awaitsLoad THEN "pending" ELSE "none"]
  /\ overwritten' = overwritten \cup Dropped
  /\ IF awaitsLoad = {}
       THEN UNCHANGED requests
       ELSE \E op \in awaitsLoad :
              requests' = Append(requests, [by |-> "enqueue", op |-> op, rows |-> entries'])
  /\ UNCHANGED <<table, acked, enqueued, refused, confirmed, removed>>

\* Mutant: the enqueue that waited does not save.
FinishLoadUnsaved ==
  /\ ReplaceEntries
  /\ overwritten' = overwritten \cup Dropped
  /\ UNCHANGED requests

FinishLoad ==
  /\ ReplaceEntries
  /\ overwritten' = overwritten \cup Dropped
  /\ IF awaitsLoad = {}
       THEN UNCHANGED requests
       ELSE \E op \in awaitsLoad :
              requests' = Append(requests, [by |-> "enqueue", op |-> op, rows |-> entries'])

\* A flush awaits each of its saves before it goes on.
FlushGoesOn ==
  /\ loading # "no"
  /\ \A i \in 1 .. Len(requests) : requests[i].by = "enqueue"

\* A flush marks an entry SYNCING and then, when the verdicts are in, SYNCED or
\* whatever else they mean.
MarkStatus(op, status) ==
  /\ FlushGoesOn
  /\ IF status = "syncing"
       THEN acked[op] = "none" /\ entries[op] \in {"pending", "syncing"}
       ELSE acked[op] = "syncing" /\ entries[op] # "none"
  /\ entries' = [entries EXCEPT ![op] = status]
  /\ Persist("mark", op)
  /\ UNCHANGED <<loading, awaitsLoad, loaded, table, acked, enqueued, refused, confirmed, removed>>

\* markStatus of an op that is no longer in memory returns early.
MarkUnknown(op) ==
  /\ FlushGoesOn
  /\ acked[op] = "syncing" /\ entries[op] = "none"
  /\ acked' = [acked EXCEPT ![op] = "synced"]
  /\ UNCHANGED <<loading, entries, awaitsLoad, loaded, requests, table, enqueued, refused, confirmed, removed,
                 overwritten>>

\* Mutant: remove does not wait for the save that marks the entry SYNCED.
RemoveUnawaited(op) ==
  /\ loading # "no"
  /\ entries[op] = "synced"
  /\ entries' = [entries EXCEPT ![op] = "none"]
  /\ Persist("remove", op)
  /\ removed' = removed \cup {op}
  /\ acked' = [acked EXCEPT ![op] = "none"]
  /\ UNCHANGED <<loading, awaitsLoad, loaded, table, enqueued, refused, confirmed>>

\* Mutant: remove leaves a tombstone.
RemoveSoftly(op) ==
  /\ FlushGoesOn
  /\ acked[op] = "synced"
  /\ entries' = [entries EXCEPT ![op] = "removed"]
  /\ Persist("remove", op)
  /\ removed' = removed \cup {op}
  /\ acked' = [acked EXCEPT ![op] = "none"]
  /\ UNCHANGED <<loading, awaitsLoad, loaded, table, enqueued, refused, confirmed>>

\* A flush removes an entry the server accepted.
Remove(op) ==
  /\ FlushGoesOn
  /\ acked[op] = "synced"
  /\ entries' = [entries EXCEPT ![op] = "none"]
  /\ Persist("remove", op)
  /\ removed' = removed \cup {op}
  /\ acked' = [acked EXCEPT ![op] = "none"]
  /\ UNCHANGED <<loading, awaitsLoad, loaded, table, enqueued, refused, confirmed>>

\* The flush ends with ops the reply said nothing of, or because the push threw.
EndFlush ==
  /\ FlushGoesOn
  /\ acked # NotMarked
  /\ acked' = NotMarked
  /\ UNCHANGED <<loading, entries, awaitsLoad, loaded, requests, table, enqueued, refused, confirmed, removed,
                 overwritten>>

\* The database executes its oldest save, delete-all and insert-all in one
\* transaction, and who awaited it resumes.
Execute ==
  /\ loading # "asked"
  /\ requests # <<>>
  /\ requests' = Tail(requests)
  /\ LET save == Head(requests)
     IN  /\ table' = save.rows
         /\ confirmed' = confirmed \cup Held(save.rows)
         /\ acked' = IF save.by = "mark"
                       THEN [acked EXCEPT ![save.op] =
                               IF save.rows[save.op] = "pending" THEN "none" ELSE save.rows[save.op]]
                       ELSE acked
  /\ UNCHANGED <<loading, entries, awaitsLoad, loaded, enqueued, refused, removed, overwritten>>

\* saveAll throws: the transaction leaves the table as it was, memory keeps the
\* change.  The enqueue throws, or the flush ends.
SaveFails ==
  /\ loading # "asked"
  /\ requests # <<>>
  /\ requests' = Tail(requests)
  /\ LET save == Head(requests)
     IN  IF save.by = "enqueue"
           THEN refused' = refused \cup {save.op} /\ UNCHANGED acked
           ELSE acked' = NotMarked /\ UNCHANGED refused
  /\ UNCHANGED <<loading, entries, awaitsLoad, loaded, table, enqueued, confirmed, removed, overwritten>>

\* The process is killed: memory and outstanding requests are gone.
Kill ==
  /\ loading # "no"
  /\ loading' = "no"
  /\ entries' = Empty
  /\ awaitsLoad' = {}
  /\ loaded' = Empty
  /\ requests' = <<>>
  /\ acked' = NotMarked
  /\ UNCHANGED <<table, enqueued, refused, confirmed, removed, overwritten>>

Next ==
  \/ Watch \/ Select \/ LoadFails \/ FinishLoad \/ EndFlush \/ Execute \/ SaveFails \/ Kill
  \/ \E op \in Ops :
       \/ EnqueueFirst(op) \/ Enqueue(op) \/ MarkUnknown(op) \/ Remove(op)
       \/ \E status \in {"pending", "syncing", "synced"} : MarkStatus(op, status)

Spec == Init /\ [][Next]_vars

\* The database answers every request, one way or the other, and awaits resume;
\* nobody is obliged to use the queue.
FairSpec ==
  /\ Spec
  /\ WF_vars(Select \/ LoadFails)
  /\ WF_vars(FinishLoad)
  /\ WF_vars(Execute \/ SaveFails)
-------------------------------------------------------------------------------
\* "queued operations must NOT disappear on restart"
\* (persistent_sync_queue_storage.dart 12), as far as the code keeps it: an entry
\* that reached the table stays there, through any order of saves, loads, failed
\* ones and kills, until a flush removes it, or a queue that does not hold it
\* because it is not loaded, or could not be, is saved over it.
ConfirmedSurvives == confirmed \ removed \subseteq Held(table) \cup overwritten

\* What is on disk is a DurableQueue: through every order of saves, loads, failed
\* ones and kills an op gets into the table once, not as SYNCED, and leaves it
\* only from a row that says SYNCED; only overwritten ops are at risk.
Durable == INSTANCE DurableQueue
  WITH QueueOps <- Ops, Marks <- Status \ {"none"},
       rows <- table, seen <- confirmed, lost <- overwritten

KeepsEntries == Durable!QueueSpec

\* An enqueued entry reaches the table, or its enqueue() throws, unless the app
\* is killed first: no enqueue gets lost between the load and the saves.
EnqueueCompletes ==
  \A op \in Ops :
    op \in awaitsLoad \/ op \in Held(entries) ~> op \in confirmed \cup refused \/ loading = "no"
===============================================================================
