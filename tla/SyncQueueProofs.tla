---------------------------- MODULE SyncQueueProofs ----------------------------
(***************************************************************************)
(* Proofs about SyncQueue for any set of ops, any number of outstanding    *)
(* saves and of restarts, whatever loads and saves fail and whoever comes  *)
(* while the queue is not loaded.                                          *)
(***************************************************************************)
EXTENDS SyncQueue, TLAPS

\* The pieces the actions put together.
LEMMA EmptyType == Empty \in Snapshot /\ NotMarked \in [Ops -> {"none", "syncing", "synced"}]
BY DEF Empty, NotMarked, Snapshot, Status

\* A snapshot with one entry replaced is a snapshot.
LEMMA SnapshotUpdate ==
  ASSUME NEW rows \in Snapshot, NEW op \in Ops, NEW status \in Status
  PROVE  [rows EXCEPT ![op] = status] \in Snapshot
BY DEF Snapshot

\* Saving a snapshot appends one request.
LEMMA PersistType ==
  ASSUME TypeOK, NEW by \in {"enqueue", "mark", "remove"}, NEW op \in Ops,
         entries' \in Snapshot, Persist(by, op)
  PROVE  requests' \in Seq(Save) /\ overwritten' \subseteq Ops
<1>1. [by |-> by, op |-> op, rows |-> entries'] \in Save
  BY DEF Save
<1>2. requests' \in Seq(Save)
  BY <1>1 DEF Persist, TypeOK
<1>3. overwritten' \subseteq Ops
  BY DEF Persist, TypeOK, Held
<1>4. QED
  BY <1>2, <1>3

LEMMA TypeStep ==
  ASSUME TypeOK, [Next]_vars
  PROVE  TypeOK'
<1> USE EmptyType DEF TypeOK
<1>1. ASSUME NEW op \in Ops, NEW status \in Status, NEW by \in {"enqueue", "mark", "remove"},
             entries' = [entries EXCEPT ![op] = status], Persist(by, op)
      PROVE  entries' \in Snapshot /\ requests' \in Seq(Save) /\ overwritten' \subseteq Ops
  BY <1>1, SnapshotUpdate, PersistType
<1>2. CASE Watch
  BY <1>2 DEF Watch, StartLoad
<1>3. ASSUME NEW op \in Ops, EnqueueFirst(op) PROVE TypeOK'
  BY <1>3 DEF EnqueueFirst, StartLoad
<1>4. ASSUME NEW op \in Ops, Enqueue(op) PROVE TypeOK'
  <2>1. entries' \in Snapshot /\ requests' \in Seq(Save) /\ overwritten' \subseteq Ops
    BY <1>1, <1>4 DEF Enqueue, Status
  <2>2. QED
    BY <1>4, <2>1 DEF Enqueue
<1>5. CASE Select
  BY <1>5 DEF Select
<1>6. CASE LoadFails
  BY <1>6 DEF LoadFails
<1>7. CASE FinishLoad
  <2>1. entries' \in Snapshot
    BY <1>7 DEF FinishLoad, ReplaceEntries, Snapshot, Status
  <2>2. overwritten' \subseteq Ops
    BY <1>7 DEF FinishLoad, Dropped, Held
  <2>3. requests' \in Seq(Save)
    <3>1. CASE awaitsLoad = {}
      BY <1>7, <3>1 DEF FinishLoad
    <3>2. CASE awaitsLoad # {}
      <4>1. PICK op \in awaitsLoad :
              requests' = Append(requests, [by |-> "enqueue", op |-> op, rows |-> entries'])
        BY <1>7, <3>2 DEF FinishLoad
      <4>2. [by |-> "enqueue", op |-> op, rows |-> entries'] \in Save
        BY <2>1, <4>1 DEF Save
      <4>3. QED
        BY <4>1, <4>2
    <3>3. QED
      BY <3>1, <3>2
  <2>4. QED
    BY <1>7, <2>1, <2>2, <2>3 DEF FinishLoad, ReplaceEntries
<1>8. ASSUME NEW op \in Ops, NEW status \in {"pending", "syncing", "synced"}, MarkStatus(op, status)
      PROVE  TypeOK'
  <2>1. entries' \in Snapshot /\ requests' \in Seq(Save) /\ overwritten' \subseteq Ops
    BY <1>1, <1>8 DEF MarkStatus, Status
  <2>2. QED
    BY <1>8, <2>1 DEF MarkStatus
<1>9. ASSUME NEW op \in Ops, MarkUnknown(op) PROVE TypeOK'
  BY <1>9 DEF MarkUnknown
<1>10. ASSUME NEW op \in Ops, Remove(op) PROVE TypeOK'
  <2>1. entries' \in Snapshot /\ requests' \in Seq(Save) /\ overwritten' \subseteq Ops
    BY <1>1, <1>10 DEF Remove, Status
  <2>2. QED
    BY <1>10, <2>1 DEF Remove
<1>11. CASE EndFlush
  BY <1>11 DEF EndFlush
<1>12. ASSUME requests # <<>>, requests' = Tail(requests)
       PROVE  Head(requests) \in Save /\ requests' \in Seq(Save)
  BY <1>12
<1>13. CASE Execute
  <2>1. Head(requests) \in Save /\ requests' \in Seq(Save)
    BY <1>12, <1>13 DEF Execute
  <2>2. table' \in Snapshot /\ confirmed' \subseteq Ops
    BY <1>13, <2>1 DEF Execute, Save, Held
  <2>3. acked' \in [Ops -> {"none", "syncing", "synced"}]
    <3>1. Head(requests).op \in Ops /\ Head(requests).rows[Head(requests).op] \in Status
      BY <2>1 DEF Save, Snapshot
    <3>2. QED
      BY <1>13, <3>1 DEF Execute, Status
  <2>4. QED
    BY <1>13, <2>1, <2>2, <2>3 DEF Execute
<1>14. CASE SaveFails
  <2>1. Head(requests) \in Save /\ requests' \in Seq(Save)
    BY <1>12, <1>14 DEF SaveFails
  <2>2. refused' \subseteq Ops /\ acked' \in [Ops -> {"none", "syncing", "synced"}]
    BY <1>14, <2>1 DEF SaveFails, Save
  <2>3. QED
    BY <1>14, <2>1, <2>2 DEF SaveFails
<1>15. CASE Kill
  BY <1>15 DEF Kill
<1>16. CASE UNCHANGED vars
  BY <1>16 DEF vars
<1>17. QED
  BY <1>2, <1>3, <1>4, <1>5, <1>6, <1>7, <1>8, <1>9, <1>10, <1>11, <1>13, <1>14, <1>15, <1>16 DEF Next

LEMMA TypeInit == Init => TypeOK
BY EmptyType DEF Init, TypeOK

\* Every variable keeps its type.
THEOREM TypeCorrect == Spec => []TypeOK
<1>1. TypeOK /\ [Next]_vars => TypeOK'
  BY TypeStep
<1>2. QED
  BY <1>1, TypeInit, PTL DEF Spec
-------------------------------------------------------------------------------
\* The queues an op goes through: the one on disk, the outstanding saves in the
\* order they will be executed, and the one in memory.
At(i) == IF i = 0 THEN table ELSE IF i <= Len(requests) THEN requests[i].rows ELSE entries

Positions == 0 .. Len(requests) + 1

\* From one of them to a later one an op gets lost only as SYNCED; a queue that
\* is not loaded and was not saved since may lack what is on disk.
LeavesSynced(op) ==
  loading = "done" \/ requests # <<>> =>
    \A i, j \in Positions :
      i < j /\ At(i)[op] # "none" /\ At(j)[op] = "none" => At(i)[op] = "synced"

\* What was in the table does not come back.
NeverReturns(op) ==
  op \in confirmed =>
    \A i, j \in Positions : i < j /\ At(i)[op] = "none" => At(j)[op] = "none"

\* What was never in the table is nowhere SYNCED.
EntersUnsynced(op) ==
  op \notin confirmed => table[op] = "none" /\ \A i \in Positions : At(i)[op] # "synced"

\* What the load finds, or would find, is not touched before it is in memory.
LoadIntact(op) ==
  /\ loading = "asked" /\ table[op] # "none" => requests = <<>> /\ entries[op] = "none"
  /\ loading = "read" /\ loaded[op] # "none" =>
       requests = <<>> /\ entries[op] = "none" /\ table[op] = loaded[op]
  /\ loading = "read" /\ loaded[op] = "none" /\ table[op] # "none" /\ entries[op] = "none" =>
       table[op] = "synced" /\ op \in removed

\* A mark is kept in every save after its own; a flush that was told of one can
\* rely on it.
MarksHold(op) ==
  /\ \A i \in 1 .. Len(requests) :
       requests[i].by = "mark" /\ requests[i].op = op =>
         \A j \in i .. Len(requests) + 1 : At(j)[op] = At(i)[op] /\ At(j)[op] # "none"
  /\ acked[op] = "syncing" => entries[op] # "none"
  /\ acked[op] = "synced" => \A i \in Positions : At(i)[op] = "synced"
  /\ acked[op] # "none" => op \in confirmed

\* What was in the table and is not removed is in every save, and in memory once
\* that holds what was loaded.
Stays(op) ==
  op \in confirmed \ removed =>
    /\ \A i \in 0 .. Len(requests) : At(i)[op] # "none"
    /\ loading = "done" \/ requests # <<>> => entries[op] # "none"

OpInv(op) ==
  /\ LeavesSynced(op)
  /\ NeverReturns(op)
  /\ EntersUnsynced(op)
  /\ LoadIntact(op)
  /\ MarksHold(op)
  /\ Stays(op)

\* An op that was not enqueued, or waits for the load, is nowhere.
Nowhere(op) ==
  op \notin confirmed /\ loaded[op] = "none" /\ \A i \in Positions : At(i)[op] = "none"

StageInv ==
  /\ loading = "no" => requests = <<>> /\ entries = Empty /\ awaitsLoad = {}
  /\ awaitsLoad # {} => loading \in {"asked", "read"}
  /\ \A op, other \in awaitsLoad : op = other
  /\ awaitsLoad \subseteq enqueued
  /\ loading # "read" => loaded = Empty
  /\ Held(table) \subseteq confirmed

QueueInv ==
  /\ TypeOK
  /\ StageInv
  /\ \A op \in Ops : op \notin enqueued \/ op \in awaitsLoad => Nowhere(op)
  /\ \A op \in Ops \ overwritten : OpInv(op)
-------------------------------------------------------------------------------
\* What becomes of the queues when one more save is outstanding.
LEMMA SavedChain ==
  ASSUME TypeOK, NEW save \in Save, save.rows = entries',
         requests' = Append(requests, save), UNCHANGED table
  PROVE  \E n \in Nat :
           /\ n = Len(requests) /\ Len(requests') = n + 1 /\ requests' # <<>>
           /\ \A i \in 0 .. n : At(i)' = At(i)
           /\ At(n + 1) = entries /\ At(n + 1)' = entries' /\ At(n + 2)' = entries'
           /\ requests'[n + 1] = save
           /\ \A i \in 1 .. n : requests'[i] = requests[i]
<1>1. PICK n \in Nat : n = Len(requests)
  BY DEF TypeOK
<1>2. /\ Len(requests') = n + 1 /\ requests' # <<>>
      /\ requests'[n + 1] = save
      /\ \A i \in 1 .. n : requests'[i] = requests[i]
  BY <1>1 DEF TypeOK
<1>3. \A i \in 0 .. n : At(i)' = At(i)
  <2>1. SUFFICES ASSUME NEW i \in 0 .. n PROVE At(i)' = At(i)
    OBVIOUS
  <2>2. CASE i = 0
    BY <2>2 DEF At
  <2>3. CASE i # 0
    BY <1>1, <1>2, <2>3 DEF At
  <2>4. QED
    BY <2>2, <2>3
<1>4. At(n + 1) = entries /\ At(n + 1)' = entries' /\ At(n + 2)' = entries'
  BY <1>1, <1>2 DEF At
<1>5. QED
  BY <1>1, <1>2, <1>3, <1>4

\* ... when the oldest save is executed,
LEMMA ExecutedChain ==
  ASSUME TypeOK, requests # <<>>, requests' = Tail(requests),
         table' = requests[1].rows, UNCHANGED entries
  PROVE  \E n \in Nat :
           /\ n >= 1 /\ n = Len(requests) /\ Len(requests') = n - 1
           /\ \A i \in 0 .. n : At(i)' = At(i + 1)
           /\ \A i \in 1 .. n - 1 : requests'[i] = requests[i + 1]
<1>1. PICK n \in Nat : n = Len(requests)
  BY DEF TypeOK
<1>2. n >= 1 /\ Len(requests') = n - 1 /\ \A i \in 1 .. n - 1 : requests'[i] = requests[i + 1]
  BY <1>1 DEF TypeOK
<1>3. ASSUME NEW i \in 0 .. n PROVE At(i)' = At(i + 1)
  BY <1>1, <1>2, <1>3 DEF At
<1>4. QED
  BY <1>1, <1>2, <1>3

\* ... and when it fails.
LEMMA FailedChain ==
  ASSUME TypeOK, requests # <<>>, requests' = Tail(requests), UNCHANGED <<table, entries>>
  PROVE  \E n \in Nat :
           /\ n >= 1 /\ n = Len(requests) /\ Len(requests') = n - 1
           /\ At(0)' = At(0)
           /\ \A i \in 1 .. n : At(i)' = At(i + 1)
           /\ \A i \in 1 .. n - 1 : requests'[i] = requests[i + 1]
<1>1. PICK n \in Nat : n = Len(requests)
  BY DEF TypeOK
<1>2. n >= 1 /\ Len(requests') = n - 1 /\ \A i \in 1 .. n - 1 : requests'[i] = requests[i + 1]
  BY <1>1 DEF TypeOK
<1>3. ASSUME NEW i \in 1 .. n PROVE At(i)' = At(i + 1)
  BY <1>1, <1>2, <1>3 DEF At
<1>4. QED
  BY <1>1, <1>2, <1>3 DEF At

\* A save that says of an op what memory said before.
LEMMA KeptOp ==
  ASSUME QueueInv, TypeOK', NEW op \in Ops, op \notin overwritten,
         NEW save \in Save, save.rows = entries', requests' = Append(requests, save),
         save.by = "mark" => save.op # op,
         entries'[op] = entries[op], acked'[op] = acked[op],
         loading # "no", Blind /\ table[op] # "none" => entries[op] # "none",
         UNCHANGED <<loading, loaded, table, confirmed>>, removed \subseteq removed'
  PROVE  OpInv(op)'
<1> USE DEF Blind
<1>0. TypeOK /\ OpInv(op)
  BY DEF QueueInv
<1>1. PICK n \in Nat :
        /\ n = Len(requests) /\ Len(requests') = n + 1 /\ requests' # <<>>
        /\ \A i \in 0 .. n : At(i)' = At(i)
        /\ At(n + 1) = entries /\ At(n + 1)' = entries' /\ At(n + 2)' = entries'
        /\ requests'[n + 1] = save
        /\ \A i \in 1 .. n : requests'[i] = requests[i]
  BY <1>0, SavedChain
<1>2. Positions = 0 .. n + 1 /\ Positions' = 0 .. n + 2
  BY <1>1 DEF Positions
<1>3. ASSUME NEW i \in 0 .. n + 1 PROVE At(i)'[op] = At(i)[op]
  BY <1>1, <1>3
<1>4. At(n + 2)'[op] = At(n + 1)[op]
  BY <1>1
<1>5. ASSUME NEW i \in 0 .. n + 2, NEW j \in 0 .. n + 2, i < j
      PROVE  \/ At(i)'[op] = At(j)'[op]
             \/ /\ i \in 0 .. n + 1
                /\ \E k \in 0 .. n + 1 : i < k /\ At(i)'[op] = At(i)[op] /\ At(j)'[op] = At(k)[op]
  <2>1. CASE j \in 0 .. n + 1
    BY <1>3, <1>5, <2>1
  <2>2. CASE j = n + 2 /\ i = n + 1
    BY <1>1, <2>2
  <2>3. CASE j = n + 2 /\ i \in 0 .. n
    <3>1. n + 1 \in 0 .. n + 1 /\ i < n + 1
      BY <2>3
    <3>2. QED
      BY <1>3, <1>4, <2>3, <3>1
  <2>4. QED
    BY <1>5, <2>1, <2>2, <2>3
<1>6. n = 0 => Positions = {0, 1} /\ requests = <<>>
  BY <1>0, <1>1, <1>2 DEF TypeOK
<1>7. \A i, j \in Positions :
        i < j /\ At(i)[op] # "none" /\ At(j)[op] = "none" => At(i)[op] = "synced"
  <2>1. CASE loading = "done" \/ requests # <<>>
    BY <1>0, <2>1 DEF OpInv, LeavesSynced
  <2>2. CASE loading # "done" /\ requests = <<>>
    <3>1. n = 0 /\ Positions = {0, 1} /\ At(0) = table /\ At(1) = entries
      BY <1>1, <1>6, <2>2 DEF At
    <3>2. table[op] # "none" => entries[op] # "none"
      BY <1>0, <2>2 DEF TypeOK
    <3>3. QED
      BY <3>1, <3>2
  <2>3. QED
    BY <2>1, <2>2
<1>8. LeavesSynced(op)'
  <2>1. SUFFICES ASSUME NEW i \in 0 .. n + 2, NEW j \in 0 .. n + 2, i < j,
                        At(i)'[op] # "none", At(j)'[op] = "none"
                 PROVE  At(i)'[op] = "synced"
    BY <1>2 DEF LeavesSynced
  <2>2. i \in 0 .. n + 1 /\ At(i)'[op] = At(i)[op]
    BY <1>5, <2>1
  <2>3. PICK k \in 0 .. n + 1 : i < k /\ At(j)'[op] = At(k)[op]
    BY <1>5, <2>1
  <2>4. QED
    BY <1>2, <1>7, <2>1, <2>2, <2>3
<1>9. NeverReturns(op)'
  <2>1. SUFFICES ASSUME op \in confirmed,
                        NEW i \in 0 .. n + 2, NEW j \in 0 .. n + 2, i < j, At(i)'[op] = "none"
                 PROVE  At(j)'[op] = "none"
    BY <1>2 DEF NeverReturns
  <2>2. \A i1, k \in 0 .. n + 1 : i1 < k /\ At(i1)[op] = "none" => At(k)[op] = "none"
    BY <1>0, <1>2, <2>1 DEF OpInv, NeverReturns
  <2>3. QED
    BY <1>5, <2>1, <2>2
<1>10. EntersUnsynced(op)'
  <2>1. SUFFICES ASSUME op \notin confirmed
                 PROVE  table[op] = "none" /\ \A i \in 0 .. n + 2 : At(i)'[op] # "synced"
    BY <1>2 DEF EntersUnsynced
  <2>2. table[op] = "none" /\ \A i \in 0 .. n + 1 : At(i)[op] # "synced"
    BY <1>0, <1>2, <2>1 DEF OpInv, EntersUnsynced
  <2>3. SUFFICES ASSUME NEW i \in 0 .. n + 2 PROVE At(i)'[op] # "synced"
    BY <2>2
  <2>4. i \in 0 .. n + 1 \/ i = n + 2
    OBVIOUS
  <2>5. QED
    BY <1>3, <1>4, <2>2, <2>4
<1>11. LoadIntact(op)'
  BY <1>0 DEF OpInv, LoadIntact
<1>12. MarksHold(op)'
  <2>1. ASSUME NEW i \in 1 .. n + 1, requests'[i].by = "mark", requests'[i].op = op, NEW j \in i .. n + 2
        PROVE  At(j)'[op] = At(i)'[op] /\ At(j)'[op] # "none"
    <3>1. i \in 1 .. n /\ requests[i].by = "mark" /\ requests[i].op = op
      BY <1>1, <2>1
    <3>2. \A k \in i .. n + 1 : At(k)[op] = At(i)[op] /\ At(k)[op] # "none"
      BY <1>0, <1>1, <3>1 DEF OpInv, MarksHold
    <3>3. At(i)'[op] = At(i)[op]
      BY <1>3, <3>1
    <3>4. CASE j = n + 2
      BY <1>4, <3>1, <3>2, <3>3, <3>4
    <3>5. CASE j # n + 2
      BY <1>3, <2>1, <3>2, <3>3, <3>5
    <3>6. QED
      BY <3>4, <3>5
  <2>2. acked[op] = "synced" => \A i \in 0 .. n + 2 : At(i)'[op] = "synced"
    BY <1>0, <1>2, <1>3, <1>4 DEF OpInv, MarksHold
  <2>3. QED
    BY <1>0, <1>1, <1>2, <2>1, <2>2 DEF OpInv, MarksHold
<1>13. Stays(op)'
  <2>1. SUFFICES ASSUME op \in confirmed \ removed
                 PROVE  (\A i \in 0 .. n + 1 : At(i)'[op] # "none") /\ entries[op] # "none"
    BY <1>1 DEF Stays
  <2>2. \A i \in 0 .. n : At(i)[op] # "none"
    BY <1>0, <1>1, <2>1 DEF OpInv, Stays
  <2>3. entries[op] # "none"
    <3>1. At(0) = table
      BY DEF At
    <3>2. table[op] # "none"
      BY <2>2, <3>1
    <3>3. QED
      BY <1>0, <2>1, <3>2 DEF OpInv, Stays, TypeOK
  <2>4. QED
    BY <1>1, <1>3, <2>2, <2>3
<1>14. QED
  BY <1>8, <1>9, <1>10, <1>11, <1>12, <1>13 DEF OpInv

\* A new op enters memory and the newest save.
LEMMA EnteredOp ==
  ASSUME QueueInv, TypeOK', NEW op \in Ops, op \notin overwritten, Nowhere(op),
         NEW save \in Save, save.rows = entries', requests' = Append(requests, save),
         save.by = "enqueue", entries'[op] = "pending", loaded'[op] = "none",
         UNCHANGED <<table, confirmed, acked>>
  PROVE  OpInv(op)'
<1>0. TypeOK /\ OpInv(op)
  BY DEF QueueInv
<1>1. PICK n \in Nat :
        /\ n = Len(requests) /\ Len(requests') = n + 1 /\ requests' # <<>>
        /\ \A i \in 0 .. n : At(i)' = At(i)
        /\ At(n + 1) = entries /\ At(n + 1)' = entries' /\ At(n + 2)' = entries'
        /\ requests'[n + 1] = save
        /\ \A i \in 1 .. n : requests'[i] = requests[i]
  BY <1>0, SavedChain
<1>2. Positions = 0 .. n + 1 /\ Positions' = 0 .. n + 2
  BY <1>1 DEF Positions
<1>3. /\ \A i \in 0 .. n : At(i)'[op] = "none"
      /\ At(n + 1)'[op] = "pending" /\ At(n + 2)'[op] = "pending"
      /\ op \notin confirmed /\ acked[op] = "none" /\ table[op] = "none"
  <2>1. \A i \in 0 .. n + 1 : At(i)[op] = "none"
    BY <1>2 DEF Nowhere
  <2>2. op \notin confirmed /\ acked[op] = "none"
    BY <1>0 DEF Nowhere, OpInv, MarksHold
  <2>3. At(0) = table
    BY DEF At
  <2>4. QED
    BY <1>1, <2>1, <2>2, <2>3
<1>4. LeavesSynced(op)'
  <2>1. SUFFICES ASSUME NEW i \in 0 .. n + 2, NEW j \in 0 .. n + 2, i < j, At(i)'[op] # "none"
                 PROVE  At(j)'[op] # "none"
    BY <1>2 DEF LeavesSynced
  <2>2. j \in {n + 1, n + 2}
    BY <1>3, <2>1
  <2>3. QED
    BY <1>3, <2>2
<1>5. NeverReturns(op)' /\ Stays(op)'
  BY <1>3 DEF NeverReturns, Stays
<1>6. EntersUnsynced(op)'
  <2>1. ASSUME NEW i \in 0 .. n + 2 PROVE At(i)'[op] # "synced"
    BY <1>3, <2>1
  <2>2. QED
    BY <1>2, <1>3, <2>1 DEF EntersUnsynced
<1>7. LoadIntact(op)'
  BY <1>3 DEF LoadIntact
<1>8. MarksHold(op)'
  <2>1. ASSUME NEW i \in 1 .. n + 1, requests'[i].by = "mark", requests'[i].op = op PROVE FALSE
    <3>1. i \in 1 .. n /\ requests[i].by = "mark" /\ requests[i].op = op /\ i \in i .. n + 1
      BY <1>1, <2>1
    <3>2. At(i)[op] # "none"
      BY <1>0, <1>1, <3>1 DEF OpInv, MarksHold
    <3>3. QED
      BY <1>2, <3>1, <3>2 DEF Nowhere
  <2>2. QED
    BY <1>1, <1>3, <2>1 DEF MarksHold
<1>9. QED
  BY <1>4, <1>5, <1>6, <1>7, <1>8 DEF OpInv

\* A flush marks an op.
LEMMA MarkedOp ==
  ASSUME QueueInv, TypeOK', NEW op \in Ops, op \notin overwritten',
         NEW status \in {"pending", "syncing", "synced"}, MarkStatus(op, status)
  PROVE  OpInv(op)'
<1> DEFINE save == [by |-> "mark", op |-> op, rows |-> entries']
<1>0. TypeOK /\ OpInv(op) /\ op \notin overwritten
  BY DEF QueueInv, MarkStatus, Persist, TypeOK
<1>a. /\ entries'[op] = status /\ entries[op] # "none"
      /\ status # "syncing" => acked[op] = "syncing"
      /\ status = "syncing" => acked[op] = "none"
      /\ \A i \in 1 .. Len(requests) : requests[i].by = "enqueue"
      /\ UNCHANGED <<loading, loaded, table, confirmed, acked, removed>>
  BY <1>0 DEF MarkStatus, FlushGoesOn, TypeOK, Snapshot
<1>b. save \in Save /\ save.rows = entries' /\ requests' = Append(requests, save) /\ table' = table
  BY <1>a DEF MarkStatus, Persist, Save, TypeOK
<1>1. PICK n \in Nat :
        /\ n = Len(requests) /\ Len(requests') = n + 1 /\ requests' # <<>>
        /\ \A i \in 0 .. n : At(i)' = At(i)
        /\ At(n + 1) = entries /\ At(n + 1)' = entries' /\ At(n + 2)' = entries'
        /\ requests'[n + 1] = save
        /\ \A i \in 1 .. n : requests'[i] = requests[i]
  BY <1>0, <1>b, SavedChain
<1> HIDE DEF save
<1>2. Positions = 0 .. n + 1 /\ Positions' = 0 .. n + 2
  BY <1>1 DEF Positions
<1>3. /\ \A i \in 0 .. n : At(i)'[op] = At(i)[op]
      /\ At(n + 1)'[op] = status /\ At(n + 2)'[op] = status /\ At(n + 1)[op] # "none"
  BY <1>1, <1>a
<1>4. LeavesSynced(op)'
  <2>1. SUFFICES ASSUME NEW i \in 0 .. n + 2, NEW j \in 0 .. n + 2, i < j,
                        At(i)'[op] # "none", At(j)'[op] = "none"
                 PROVE  At(i)'[op] = "synced"
    BY <1>2 DEF LeavesSynced
  <2>2. i \in 0 .. n /\ j \in 0 .. n /\ j # 0
    BY <1>3, <2>1
  <2>3. requests # <<>>
    BY <1>0, <1>1, <2>2 DEF TypeOK
  <2>4. QED
    BY <1>0, <1>2, <1>3, <2>1, <2>2, <2>3 DEF OpInv, LeavesSynced
<1>5. op \in confirmed => \A i \in 0 .. n : At(i)[op] # "none"
  <2>1. ASSUME op \in confirmed, NEW i \in 0 .. n, At(i)[op] = "none" PROVE FALSE
    <3>1. i < n + 1 /\ i \in 0 .. n + 1 /\ n + 1 \in 0 .. n + 1
      BY <2>1
    <3>2. At(n + 1)[op] = "none"
      BY <1>0, <1>2, <2>1, <3>1 DEF OpInv, NeverReturns
    <3>3. QED
      BY <1>3, <3>2
  <2>2. QED
    BY <2>1
<1>6. NeverReturns(op)' /\ Stays(op)'
  <2>1. ASSUME op \in confirmed, NEW i \in 0 .. n + 2 PROVE At(i)'[op] # "none"
    BY <1>3, <1>5, <2>1
  <2>2. QED
    BY <1>1, <1>2, <1>a, <2>1 DEF NeverReturns, Stays
<1>7. EntersUnsynced(op)'
  <2>1. SUFFICES ASSUME op \notin confirmed
                 PROVE  table[op] = "none" /\ \A i \in 0 .. n + 2 : At(i)'[op] # "synced"
    BY <1>2, <1>a DEF EntersUnsynced
  <2>2. status = "syncing"
    BY <1>0, <1>a, <2>1 DEF OpInv, MarksHold
  <2>3. table[op] = "none" /\ \A i \in 0 .. n : At(i)[op] # "synced"
    BY <1>0, <1>2, <2>1 DEF OpInv, EntersUnsynced
  <2>4. QED
    BY <1>3, <2>2, <2>3
<1>8. LoadIntact(op)'
  BY <1>0, <1>a DEF OpInv, LoadIntact
<1>9. MarksHold(op)'
  <2>1. ASSUME NEW i \in 1 .. n + 1, requests'[i].by = "mark", requests'[i].op = op, NEW j \in i .. n + 2
        PROVE  At(j)'[op] = At(i)'[op] /\ At(j)'[op] # "none"
    <3>1. i = n + 1
      BY <1>1, <1>a, <2>1
    <3>2. j \in {n + 1, n + 2}
      BY <2>1, <3>1
    <3>3. QED
      BY <1>3, <3>1, <3>2
  <2>2. QED
    BY <1>0, <1>1, <1>a, <2>1 DEF OpInv, MarksHold
<1>10. QED
  BY <1>4, <1>6, <1>7, <1>8, <1>9 DEF OpInv

\* A flush removes an op: every save knows it as SYNCED.
LEMMA RemovedOp ==
  ASSUME QueueInv, TypeOK', NEW op \in Ops, op \notin overwritten', Remove(op)
  PROVE  OpInv(op)'
<1> DEFINE save == [by |-> "remove", op |-> op, rows |-> entries']
<1>0. TypeOK /\ OpInv(op) /\ op \notin overwritten
  BY DEF QueueInv, Remove, Persist, TypeOK
<1>a. /\ entries'[op] = "none" /\ acked[op] = "synced" /\ acked'[op] = "none"
      /\ \A i \in 1 .. Len(requests) : requests[i].by = "enqueue"
      /\ op \in removed'
      /\ UNCHANGED <<loading, loaded, table, confirmed>>
  BY <1>0 DEF Remove, FlushGoesOn, TypeOK, Snapshot
<1>b. save \in Save /\ save.rows = entries' /\ requests' = Append(requests, save) /\ table' = table
  BY <1>a DEF Remove, Persist, Save, TypeOK
<1>1. PICK n \in Nat :
        /\ n = Len(requests) /\ Len(requests') = n + 1 /\ requests' # <<>>
        /\ \A i \in 0 .. n : At(i)' = At(i)
        /\ At(n + 1) = entries /\ At(n + 1)' = entries' /\ At(n + 2)' = entries'
        /\ requests'[n + 1] = save
        /\ \A i \in 1 .. n : requests'[i] = requests[i]
  BY <1>0, <1>b, SavedChain
<1>2. Positions = 0 .. n + 1 /\ Positions' = 0 .. n + 2
  BY <1>1 DEF Positions
<1>3. \A i \in 0 .. n + 1 : At(i)[op] = "synced"
  BY <1>0, <1>2, <1>a DEF OpInv, MarksHold
<1>4. /\ \A i \in 0 .. n : At(i)'[op] = "synced"
      /\ At(n + 1)'[op] = "none" /\ At(n + 2)'[op] = "none"
      /\ op \in confirmed
  BY <1>0, <1>1, <1>3, <1>a DEF OpInv, MarksHold
<1>5. LeavesSynced(op)'
  <2>1. ASSUME NEW i \in 0 .. n + 2, At(i)'[op] # "none" PROVE At(i)'[op] = "synced"
    BY <1>4, <2>1
  <2>2. QED
    BY <1>2, <2>1 DEF LeavesSynced
<1>6. NeverReturns(op)'
  <2>1. ASSUME NEW i \in 0 .. n + 2, NEW j \in 0 .. n + 2, i < j, At(i)'[op] = "none"
        PROVE  At(j)'[op] = "none"
    BY <1>4, <2>1
  <2>2. QED
    BY <1>2, <2>1 DEF NeverReturns
<1>7. EntersUnsynced(op)' /\ Stays(op)'
  BY <1>4, <1>a DEF EntersUnsynced, Stays
<1>8. LoadIntact(op)'
  <2>1. At(0) = table /\ At(n + 1) = entries /\ 0 \in 0 .. n + 1 /\ n + 1 \in 0 .. n + 1
    BY <1>1 DEF At
  <2>2. table[op] = "synced" /\ entries[op] = "synced"
    BY <1>3, <2>1
  <2>3. QED
    BY <1>0, <1>a, <2>2 DEF OpInv, LoadIntact
<1>9. MarksHold(op)'
  <2>1. ASSUME NEW i \in 1 .. n + 1, requests'[i].by = "mark" PROVE FALSE
    BY <1>1, <1>a, <2>1
  <2>2. QED
    BY <1>1, <1>a, <2>1 DEF MarksHold
<1>10. QED
  BY <1>5, <1>6, <1>7, <1>8, <1>9 DEF OpInv

\* The oldest save is executed: the op moves one queue on, as DurableQueue allows.
LEMMA ExecutedOp ==
  ASSUME QueueInv, TypeOK', NEW op \in Ops, op \notin overwritten, Execute
  PROVE  /\ OpInv(op)'
         /\ table[op] = "none" /\ table'[op] # "none" => op \notin confirmed /\ table'[op] # "synced"
         /\ table[op] # "none" /\ table'[op] = "none" => table[op] = "synced"
<1>0. TypeOK /\ OpInv(op)
  BY DEF QueueInv
<1>a. /\ requests # <<>> /\ requests' = Tail(requests) /\ loading # "asked"
      /\ table' = requests[1].rows
      /\ confirmed' = confirmed \cup Held(requests[1].rows)
      /\ UNCHANGED <<loading, entries, loaded, removed>>
      /\ acked' = IF requests[1].by = "mark"
                    THEN [acked EXCEPT ![requests[1].op] =
                            IF requests[1].rows[requests[1].op] = "pending"
                              THEN "none" ELSE requests[1].rows[requests[1].op]]
                    ELSE acked
  <2>1. Head(requests) = requests[1]
    BY <1>0 DEF Execute, TypeOK
  <2>2. QED
    BY <2>1 DEF Execute
<1>1. PICK n \in Nat :
        /\ n >= 1 /\ n = Len(requests) /\ Len(requests') = n - 1
        /\ \A i \in 0 .. n : At(i)' = At(i + 1)
        /\ \A i \in 1 .. n - 1 : requests'[i] = requests[i + 1]
  BY <1>0, <1>a, ExecutedChain
<1>2. Positions = 0 .. n + 1 /\ Positions' = 0 .. n
  BY <1>1 DEF Positions
<1>3. /\ \A i \in 0 .. n : At(i)'[op] = At(i + 1)[op] /\ i + 1 \in 1 .. n + 1
      /\ At(0) = table /\ At(1) = table' /\ At(n + 1) = entries
  BY <1>1, <1>a DEF At
<1>4. \A i, j \in 0 .. n + 1 :
        i < j /\ At(i)[op] # "none" /\ At(j)[op] = "none" => At(i)[op] = "synced"
  BY <1>0, <1>2, <1>a DEF OpInv, LeavesSynced
<1>5. \A i, j \in 0 .. n : i < j => i + 1 < j + 1 /\ i + 1 \in 0 .. n + 1 /\ j + 1 \in 0 .. n + 1
  BY <1>1
<1>6. LeavesSynced(op)'
  <2>1. SUFFICES ASSUME NEW i \in 0 .. n, NEW j \in 0 .. n, i < j, At(i)'[op] # "none", At(j)'[op] = "none"
                 PROVE  At(i)'[op] = "synced"
    BY <1>2 DEF LeavesSynced
  <2>2. QED
    BY <1>3, <1>4, <1>5, <2>1
\* An op that is in the table for the first time is in all that follows.
<1>7. ASSUME op \notin confirmed, table'[op] # "none", NEW i \in 1 .. n + 1 PROVE At(i)[op] # "none"
  <2>1. SUFFICES ASSUME At(i)[op] = "none" PROVE FALSE
    OBVIOUS
  <2>2. 1 < i /\ 1 \in 0 .. n + 1 /\ i \in 0 .. n + 1
    BY <1>1, <1>3, <1>7, <2>1
  <2>3. At(1)[op] = "synced"
    BY <1>3, <1>4, <1>7, <2>1, <2>2
  <2>4. QED
    BY <1>0, <1>2, <1>7, <2>2, <2>3 DEF OpInv, EntersUnsynced
<1>8. op \in confirmed' <=> op \in confirmed \/ table'[op] # "none"
  BY <1>a DEF Held
<1>9. NeverReturns(op)'
  <2>1. SUFFICES ASSUME op \in confirmed', NEW i \in 0 .. n, NEW j \in 0 .. n, i < j, At(i)'[op] = "none"
                 PROVE  At(j)'[op] = "none"
    BY <1>2 DEF NeverReturns
  <2>2. op \in confirmed
    BY <1>3, <1>7, <1>8, <2>1
  <2>3. QED
    BY <1>0, <1>2, <1>3, <1>5, <2>1, <2>2 DEF OpInv, NeverReturns
<1>10. EntersUnsynced(op)'
  <2>1. SUFFICES ASSUME op \notin confirmed'
                 PROVE  table'[op] = "none" /\ \A i \in 0 .. n : At(i)'[op] # "synced"
    BY <1>2 DEF EntersUnsynced
  <2>2. QED
    BY <1>0, <1>2, <1>3, <1>8, <2>1 DEF OpInv, EntersUnsynced
<1>11. LoadIntact(op)'
  <2>1. SUFFICES ASSUME loading = "read", loaded[op] = "none", table'[op] # "none", entries[op] = "none"
                 PROVE  table'[op] = "synced" /\ op \in removed
    BY <1>0, <1>a DEF OpInv, LoadIntact
  <2>2. 1 \in 0 .. n + 1 /\ n + 1 \in 0 .. n + 1 /\ 1 < n + 1
    BY <1>1
  <2>3. table'[op] = "synced"
    BY <1>3, <1>4, <2>1, <2>2
  <2>4. op \in confirmed
    BY <1>1, <1>3, <1>7, <2>1, <2>2
  <2>5. QED
    BY <1>0, <1>a, <2>1, <2>3, <2>4 DEF OpInv, Stays
<1>12. MarksHold(op)'
  <2>1. ASSUME NEW i \in 1 .. n - 1, requests'[i].by = "mark", requests'[i].op = op, NEW j \in i .. n
        PROVE  At(j)'[op] = At(i)'[op] /\ At(j)'[op] # "none"
    <3>1. i + 1 \in 1 .. n /\ requests[i + 1].by = "mark" /\ requests[i + 1].op = op /\ j + 1 \in i + 1 .. n + 1
      BY <1>1, <2>1
    <3>2. At(j + 1)[op] = At(i + 1)[op] /\ At(j + 1)[op] # "none"
      BY <1>0, <1>1, <3>1 DEF OpInv, MarksHold
    <3>3. i \in 0 .. n /\ j \in 0 .. n
      BY <2>1
    <3>4. QED
      BY <1>3, <3>2, <3>3
  <2>2. CASE requests[1].by = "mark" /\ requests[1].op = op
    <3>1. \A j \in 1 .. n + 1 : At(j)[op] = At(1)[op] /\ At(j)[op] # "none"
      BY <1>0, <1>1, <2>2 DEF OpInv, MarksHold
    <3>2. acked'[op] = IF At(1)[op] = "pending" THEN "none" ELSE At(1)[op]
      BY <1>0, <1>3, <1>a, <2>2 DEF TypeOK
    <3>3. n + 1 \in 1 .. n + 1 /\ 1 \in 1 .. n + 1
      BY <1>1
    <3>4. entries[op] # "none" /\ op \in confirmed'
      BY <1>3, <1>8, <3>1, <3>3
    <3>5. acked'[op] = "synced" => \A i \in 0 .. n : At(i)'[op] = "synced"
      BY <1>3, <3>1, <3>2
    <3>6. entries'[op] # "none" /\ Len(requests') + 1 = n
      BY <1>1, <1>a, <3>4
    <3>7. QED
      BY <1>1, <1>2, <2>1, <3>4, <3>5, <3>6 DEF MarksHold
  <2>3. CASE ~(requests[1].by = "mark" /\ requests[1].op = op)
    <3>1. acked'[op] = acked[op]
      BY <1>0, <1>a, <2>3 DEF TypeOK
    <3>2. acked[op] = "synced" => \A i \in 0 .. n : At(i)'[op] = "synced"
      BY <1>0, <1>2, <1>3 DEF OpInv, MarksHold
    <3>3. QED
      BY <1>0, <1>1, <1>2, <1>8, <1>a, <2>1, <3>1, <3>2 DEF OpInv, MarksHold
  <2>4. QED
    BY <2>2, <2>3
<1>13. Stays(op)'
  <2>1. SUFFICES ASSUME op \in confirmed' \ removed
                 PROVE  (\A i \in 0 .. n - 1 : At(i)'[op] # "none") /\ entries[op] # "none"
    BY <1>1, <1>a DEF Stays
  <2>2. CASE op \in confirmed
    <3>1. (\A i \in 0 .. n : At(i)[op] # "none") /\ entries[op] # "none"
      BY <1>0, <1>1, <1>a, <2>1, <2>2 DEF OpInv, Stays
    <3>2. \A i \in 0 .. n - 1 : i \in 0 .. n /\ i + 1 \in 0 .. n
      BY <1>1
    <3>3. QED
      BY <1>3, <3>1, <3>2
  <2>3. CASE op \notin confirmed
    <3>1. \A i \in 1 .. n + 1 : At(i)[op] # "none"
      BY <1>7, <1>8, <2>1, <2>3
    <3>2. n + 1 \in 1 .. n + 1 /\ \A i \in 0 .. n - 1 : i \in 0 .. n
      BY <1>1
    <3>3. QED
      BY <1>3, <3>1, <3>2
  <2>4. QED
    BY <2>2, <2>3
<1>14. table[op] = "none" /\ table'[op] # "none" => op \notin confirmed /\ table'[op] # "synced"
  <2>1. SUFFICES ASSUME table[op] = "none", table'[op] # "none"
                 PROVE  op \notin confirmed /\ table'[op] # "synced"
    OBVIOUS
  <2>2. 0 \in 0 .. n + 1 /\ 1 \in 0 .. n + 1 /\ 0 < 1
    BY <1>1
  <2>3. op \notin confirmed
    BY <1>0, <1>2, <1>3, <2>1, <2>2 DEF OpInv, NeverReturns
  <2>4. QED
    BY <1>0, <1>2, <1>3, <2>2, <2>3 DEF OpInv, EntersUnsynced
<1>15. table[op] # "none" /\ table'[op] = "none" => table[op] = "synced"
  <2>1. 0 \in 0 .. n + 1 /\ 1 \in 0 .. n + 1 /\ 0 < 1
    BY <1>1
  <2>2. QED
    BY <1>3, <1>4, <2>1
<1>16. QED
  BY <1>6, <1>9, <1>10, <1>11, <1>12, <1>13, <1>14, <1>15 DEF OpInv

\* The oldest save fails: the queues lose one that is not the first.
LEMMA FailedOp ==
  ASSUME QueueInv, TypeOK', NEW op \in Ops, op \notin overwritten, SaveFails
  PROVE  OpInv(op)'
<1>0. TypeOK /\ OpInv(op)
  BY DEF QueueInv
<1>a. /\ requests # <<>> /\ requests' = Tail(requests) /\ loading # "asked"
      /\ UNCHANGED <<loading, entries, loaded, table, confirmed, removed>>
      /\ acked' = acked \/ acked' = NotMarked
  BY DEF SaveFails
<1>1. PICK n \in Nat :
        /\ n >= 1 /\ n = Len(requests) /\ Len(requests') = n - 1
        /\ At(0)' = At(0)
        /\ \A i \in 1 .. n : At(i)' = At(i + 1)
        /\ \A i \in 1 .. n - 1 : requests'[i] = requests[i + 1]
  BY <1>0, <1>a, FailedChain
<1>2. Positions = 0 .. n + 1 /\ Positions' = 0 .. n
  BY <1>1 DEF Positions
\* Where each queue was before.
<1>3. \A i \in 0 .. n : \E k \in 0 .. n + 1 :
        At(i)' = At(k) /\ (i = 0 => k = 0) /\ (i > 0 => k = i + 1)
  <2>1. ASSUME NEW i \in 0 .. n
        PROVE  \E k \in 0 .. n + 1 : At(i)' = At(k) /\ (i = 0 => k = 0) /\ (i > 0 => k = i + 1)
    <3>1. CASE i = 0
      BY <1>1, <3>1
    <3>2. CASE i # 0
      <4>1. i \in 1 .. n /\ i + 1 \in 0 .. n + 1
        BY <3>2
      <4>2. QED
        BY <1>1, <4>1
    <3>3. QED
      BY <3>1, <3>2
  <2>2. QED
    BY <2>1
<1>4. ASSUME NEW i \in 0 .. n, NEW j \in 0 .. n, i < j
      PROVE  \E k, l \in 0 .. n + 1 : k < l /\ At(i)' = At(k) /\ At(j)' = At(l)
  <2>1. PICK k \in 0 .. n + 1 : At(i)' = At(k) /\ (i = 0 => k = 0) /\ (i > 0 => k = i + 1)
    BY <1>3
  <2>2. PICK l \in 0 .. n + 1 : At(j)' = At(l) /\ (j = 0 => l = 0) /\ (j > 0 => l = j + 1)
    BY <1>3
  <2>3. k < l
    BY <1>4, <2>1, <2>2
  <2>4. QED
    BY <2>1, <2>2, <2>3
<1>5. LeavesSynced(op)'
  <2>1. SUFFICES ASSUME NEW i \in 0 .. n, NEW j \in 0 .. n, i < j, At(i)'[op] # "none", At(j)'[op] = "none"
                 PROVE  At(i)'[op] = "synced"
    BY <1>2 DEF LeavesSynced
  <2>2. PICK k \in 0 .. n + 1, l \in 0 .. n + 1 : k < l /\ At(i)' = At(k) /\ At(j)' = At(l)
    BY <1>4, <2>1
  <2>3. QED
    BY <1>0, <1>2, <1>a, <2>1, <2>2 DEF OpInv, LeavesSynced
<1>6. NeverReturns(op)'
  <2>1. SUFFICES ASSUME op \in confirmed, NEW i \in 0 .. n, NEW j \in 0 .. n, i < j, At(i)'[op] = "none"
                 PROVE  At(j)'[op] = "none"
    BY <1>2, <1>a DEF NeverReturns
  <2>2. PICK k \in 0 .. n + 1, l \in 0 .. n + 1 : k < l /\ At(i)' = At(k) /\ At(j)' = At(l)
    BY <1>4, <2>1
  <2>3. QED
    BY <1>0, <1>2, <2>1, <2>2 DEF OpInv, NeverReturns
<1>7. EntersUnsynced(op)'
  <2>1. SUFFICES ASSUME op \notin confirmed
                 PROVE  table[op] = "none" /\ \A i \in 0 .. n : At(i)'[op] # "synced"
    BY <1>2, <1>a DEF EntersUnsynced
  <2>2. table[op] = "none" /\ \A i \in 0 .. n + 1 : At(i)[op] # "synced"
    BY <1>0, <1>2, <2>1 DEF OpInv, EntersUnsynced
  <2>3. SUFFICES ASSUME NEW i \in 0 .. n PROVE At(i)'[op] # "synced"
    BY <2>2
  <2>4. QED
    BY <1>3, <2>2
<1>8. LoadIntact(op)'
  BY <1>0, <1>a DEF OpInv, LoadIntact
<1>9. MarksHold(op)'
  <2>1. ASSUME NEW i \in 1 .. n - 1, requests'[i].by = "mark", requests'[i].op = op, NEW j \in i .. n
        PROVE  At(j)'[op] = At(i)'[op] /\ At(j)'[op] # "none"
    <3>1. i + 1 \in 1 .. n /\ requests[i + 1].by = "mark" /\ requests[i + 1].op = op /\ j + 1 \in i + 1 .. n + 1
      BY <1>1, <2>1
    <3>2. At(j + 1)[op] = At(i + 1)[op] /\ At(j + 1)[op] # "none"
      BY <1>0, <1>1, <3>1 DEF OpInv, MarksHold
    <3>3. i \in 1 .. n /\ j \in 1 .. n
      BY <2>1
    <3>4. QED
      BY <1>1, <3>2, <3>3
  <2>2. acked'[op] = acked[op] \/ acked'[op] = "none"
    BY <1>a DEF NotMarked
  <2>3. acked[op] = "synced" => \A i \in 0 .. n : At(i)'[op] = "synced"
    <3>1. SUFFICES ASSUME acked[op] = "synced", NEW i \in 0 .. n PROVE At(i)'[op] = "synced"
      OBVIOUS
    <3>2. \A k \in 0 .. n + 1 : At(k)[op] = "synced"
      BY <1>0, <1>2, <3>1 DEF OpInv, MarksHold
    <3>3. QED
      BY <1>3, <3>2
  <2>4. QED
    BY <1>0, <1>1, <1>2, <1>a, <2>1, <2>2, <2>3 DEF OpInv, MarksHold
<1>10. Stays(op)'
  <2>1. SUFFICES ASSUME op \in confirmed \ removed
                 PROVE  (\A i \in 0 .. n - 1 : At(i)'[op] # "none") /\ entries[op] # "none"
    BY <1>1, <1>a DEF Stays
  <2>2. (\A i \in 0 .. n : At(i)[op] # "none") /\ entries[op] # "none"
    BY <1>0, <1>1, <1>a, <2>1 DEF OpInv, Stays
  <2>3. SUFFICES ASSUME NEW i \in 0 .. n - 1 PROVE At(i)'[op] # "none"
    BY <2>2
  <2>4. PICK k \in 0 .. n + 1 : At(i)' = At(k) /\ (i = 0 => k = 0) /\ (i > 0 => k = i + 1)
    BY <1>3
  <2>5. k \in 0 .. n
    BY <2>4
  <2>6. QED
    BY <2>2, <2>4, <2>5
<1>11. QED
  BY <1>5, <1>6, <1>7, <1>8, <1>9, <1>10 DEF OpInv

\* The load resumes: memory is replaced, and saved if an enqueue waited.
LEMMA LoadedChain ==
  ASSUME TypeOK, TypeOK', FinishLoad
  PROVE  \E n, m \in Nat :
           /\ n = Len(requests) /\ m = Len(requests') /\ m \in {n, n + 1}
           /\ awaitsLoad # {} => m = n + 1
           /\ \A i \in 0 .. n : At(i)' = At(i)
           /\ At(n + 1) = entries
           /\ \A i \in n + 1 .. m + 1 : At(i)' = entries'
           /\ \A i \in 1 .. n : requests'[i] = requests[i]
           /\ m = n + 1 => requests'[m].by = "enqueue"
<1>1. UNCHANGED table
  BY DEF FinishLoad, ReplaceEntries
<1>2. CASE awaitsLoad = {}
  <2>1. PICK n \in Nat : n = Len(requests)
    BY DEF TypeOK
  <2>2. requests' = requests
    BY <1>2 DEF FinishLoad
  <2>3. \A i \in 0 .. n : At(i)' = At(i)
    BY <1>1, <2>1, <2>2 DEF At
  <2>4. At(n + 1) = entries /\ At(n + 1)' = entries'
    BY <2>1, <2>2 DEF At
  <2>5. \A i \in n + 1 .. n + 1 : i = n + 1
    BY <2>1
  <2>6. QED
    BY <1>2, <2>1, <2>2, <2>3, <2>4, <2>5
<1>3. CASE awaitsLoad # {}
  <2>1. PICK op \in awaitsLoad :
          requests' = Append(requests, [by |-> "enqueue", op |-> op, rows |-> entries'])
    BY <1>3 DEF FinishLoad
  <2> DEFINE save == [by |-> "enqueue", op |-> op, rows |-> entries']
  <2>2. save \in Save /\ save.rows = entries' /\ save.by = "enqueue" /\ requests' = Append(requests, save)
    BY <2>1 DEF Save, TypeOK
  <2> HIDE DEF save
  <2>3. PICK n \in Nat :
          /\ n = Len(requests) /\ Len(requests') = n + 1 /\ requests' # <<>>
          /\ \A i \in 0 .. n : At(i)' = At(i)
          /\ At(n + 1) = entries /\ At(n + 1)' = entries' /\ At(n + 2)' = entries'
          /\ requests'[n + 1] = save
          /\ \A i \in 1 .. n : requests'[i] = requests[i]
    BY <1>1, <2>2, SavedChain
  <2>4. n + 1 \in Nat /\ \A i \in n + 1 .. (n + 1) + 1 : i \in {n + 1, n + 2}
    OBVIOUS
  <2>5. \A i \in n + 1 .. (n + 1) + 1 : At(i)' = entries'
    BY <2>3, <2>4
  <2>6. QED
    BY <2>2, <2>3, <2>4, <2>5
<1>4. QED
  BY <1>2, <1>3

LEMMA LoadedOp ==
  ASSUME QueueInv, TypeOK', NEW op \in Ops, op \notin overwritten', FinishLoad
  PROVE  OpInv(op)'
<1>0. TypeOK /\ OpInv(op) /\ op \notin overwritten
  BY DEF QueueInv, FinishLoad
<1>a. /\ loading = "read" /\ loading' = "done" /\ loaded' = Empty
      /\ UNCHANGED <<table, acked, confirmed, removed>>
      /\ entries[op] # "none" => loaded[op] # "none"
      /\ entries'[op] = IF op \in awaitsLoad THEN "pending" ELSE loaded[op]
  BY DEF FinishLoad, ReplaceEntries, Dropped, Held
<1>1. PICK n \in Nat, m \in Nat :
        /\ n = Len(requests) /\ m = Len(requests') /\ m \in {n, n + 1}
        /\ awaitsLoad # {} => m = n + 1
        /\ \A i \in 0 .. n : At(i)' = At(i)
        /\ At(n + 1) = entries
        /\ \A i \in n + 1 .. m + 1 : At(i)' = entries'
        /\ \A i \in 1 .. n : requests'[i] = requests[i]
        /\ m = n + 1 => requests'[m].by = "enqueue"
  BY <1>0, LoadedChain
<1>2. Positions = 0 .. n + 1 /\ Positions' = 0 .. m + 1 /\ At(0) = table
  BY <1>1 DEF Positions, At
<1>3. LoadIntact(op)'
  BY <1>a DEF LoadIntact
\* Memory held the op no more than the save before it.
<1>4. acked[op] = "none" \/ entries[op] # "none"
  <2>1. SUFFICES ASSUME acked[op] = "synced" PROVE entries[op] # "none"
    BY <1>0 DEF OpInv, MarksHold, TypeOK
  <2>2. At(n + 1)[op] = "synced"
    BY <1>0, <1>2, <2>1 DEF OpInv, MarksHold
  <2>3. QED
    BY <1>1, <2>2
<1>5. \A i \in 0 .. m + 1 : i \in 0 .. n \/ i \in n + 1 .. m + 1
  OBVIOUS
<1>6. CASE op \in awaitsLoad
  <2>1. op \notin confirmed /\ \A i \in 0 .. n + 1 : At(i)[op] = "none"
    BY <1>2, <1>6 DEF QueueInv, Nowhere
  <2>2. /\ table[op] = "none" /\ acked[op] = "none" /\ entries'[op] = "pending"
        /\ \A i \in 0 .. n : At(i)'[op] = "none"
        /\ \A i \in n + 1 .. m + 1 : At(i)'[op] = "pending"
    BY <1>0, <1>1, <1>2, <1>6, <1>a, <2>1 DEF OpInv, MarksHold
  <2>3. LeavesSynced(op)'
    <3>1. SUFFICES ASSUME NEW i \in 0 .. m + 1, NEW j \in 0 .. m + 1, i < j, At(i)'[op] # "none"
                   PROVE  At(j)'[op] # "none"
      BY <1>2 DEF LeavesSynced
    <3>2. j \in n + 1 .. m + 1
      BY <2>2, <3>1
    <3>3. QED
      BY <2>2, <3>2
  <2>4. EntersUnsynced(op)'
    <3>1. \A i \in 0 .. m + 1 : At(i)'[op] # "synced"
      BY <1>5, <2>2
    <3>2. QED
      BY <1>2, <1>a, <2>2, <3>1 DEF EntersUnsynced
  <2>5. NeverReturns(op)' /\ Stays(op)'
    BY <1>a, <2>1 DEF NeverReturns, Stays
  <2>6. MarksHold(op)'
    <3>1. ASSUME NEW i \in 1 .. m, requests'[i].by = "mark", requests'[i].op = op PROVE FALSE
      <4>1. i \in 1 .. n /\ requests[i].by = "mark" /\ requests[i].op = op /\ i \in i .. n + 1 /\ i \in 0 .. n + 1
        BY <1>1, <3>1
      <4>2. At(i)[op] # "none"
        BY <1>0, <1>1, <4>1 DEF OpInv, MarksHold
      <4>3. QED
        BY <2>1, <4>1, <4>2
    <3>2. QED
      BY <1>1, <1>a, <2>2, <3>1 DEF MarksHold
  <2>7. QED
    BY <1>3, <2>3, <2>4, <2>5, <2>6 DEF OpInv
<1>7. CASE op \notin awaitsLoad /\ loaded[op] # "none"
  <2>1. requests = <<>> /\ entries[op] = "none" /\ table[op] = loaded[op]
    BY <1>0, <1>7, <1>a DEF OpInv, LoadIntact
  <2>2. n = 0 /\ acked[op] = "none" /\ entries'[op] = table[op] /\ table[op] # "none"
    BY <1>1, <1>4, <1>7, <1>a, <2>1
  <2>3. \A i \in 0 .. m + 1 : At(i)'[op] = table[op]
    BY <1>1, <1>2, <1>5, <2>2
  <2>4. LeavesSynced(op)' /\ NeverReturns(op)'
    BY <1>2, <2>2, <2>3 DEF LeavesSynced, NeverReturns
  <2>5. EntersUnsynced(op)'
    BY <1>0, <1>a, <2>2 DEF OpInv, EntersUnsynced
  <2>6. Stays(op)'
    BY <1>1, <1>a, <2>2, <2>3 DEF Stays
  <2>7. MarksHold(op)'
    <3>1. ASSUME NEW i \in 1 .. m PROVE requests'[i].by # "mark"
      BY <1>1, <2>2, <3>1
    <3>2. QED
      BY <1>1, <1>a, <2>2, <3>1 DEF MarksHold
  <2>8. QED
    BY <1>3, <2>4, <2>5, <2>6, <2>7 DEF OpInv
<1>8. CASE op \notin awaitsLoad /\ loaded[op] = "none"
  <2>1. entries[op] = "none" /\ entries'[op] = "none" /\ acked[op] = "none"
    BY <1>4, <1>8, <1>a
  <2>2. /\ \A i \in 0 .. n : At(i)'[op] = At(i)[op]
        /\ At(n + 1)[op] = "none"
        /\ \A i \in n + 1 .. m + 1 : At(i)'[op] = "none"
    BY <1>1, <2>1
  <2>3. \A i \in 0 .. n : At(i)[op] # "none" => At(i)[op] = "synced"
    <3>1. SUFFICES ASSUME NEW i \in 0 .. n, At(i)[op] # "none" PROVE At(i)[op] = "synced"
      OBVIOUS
    <3>2. CASE requests # <<>>
      <4>1. i < n + 1 /\ i \in 0 .. n + 1 /\ n + 1 \in 0 .. n + 1
        BY <1>1
      <4>2. QED
        BY <1>0, <1>2, <2>2, <3>1, <3>2, <4>1 DEF OpInv, LeavesSynced
    <3>3. CASE requests = <<>>
      <4>1. i = 0
        BY <1>1, <3>3
      <4>2. QED
        BY <1>0, <1>2, <1>8, <1>a, <2>1, <3>1, <4>1 DEF OpInv, LoadIntact
    <3>4. QED
      BY <3>2, <3>3
  <2>4. LeavesSynced(op)'
    <3>1. SUFFICES ASSUME NEW i \in 0 .. m + 1, At(i)'[op] # "none" PROVE At(i)'[op] = "synced"
      BY <1>2 DEF LeavesSynced
    <3>2. QED
      BY <1>5, <2>2, <2>3, <3>1
  <2>5. NeverReturns(op)'
    <3>1. SUFFICES ASSUME op \in confirmed, NEW i \in 0 .. m + 1, NEW j \in 0 .. m + 1, i < j,
                          At(i)'[op] = "none"
                   PROVE  At(j)'[op] = "none"
      BY <1>2, <1>a DEF NeverReturns
    <3>2. CASE j \in n + 1 .. m + 1
      BY <2>2, <3>2
    <3>3. CASE j \in 0 .. n
      <4>1. i \in 0 .. n /\ \A k \in 0 .. n : k \in 0 .. n + 1
        BY <3>1, <3>3
      <4>2. QED
        BY <1>0, <1>2, <2>2, <3>1, <3>3, <4>1 DEF OpInv, NeverReturns
    <3>4. QED
      BY <1>5, <3>2, <3>3
  <2>6. EntersUnsynced(op)'
    <3>1. SUFFICES ASSUME op \notin confirmed
                   PROVE  table[op] = "none" /\ \A i \in 0 .. m + 1 : At(i)'[op] # "synced"
      BY <1>2, <1>a DEF EntersUnsynced
    <3>2. table[op] = "none" /\ \A i \in 0 .. n : At(i)[op] # "synced"
      BY <1>0, <1>2, <3>1 DEF OpInv, EntersUnsynced
    <3>3. QED
      BY <1>5, <2>2, <3>2
  <2>7. op \notin confirmed \ removed
    <3>1. SUFFICES ASSUME op \in confirmed \ removed PROVE FALSE
      OBVIOUS
    <3>2. table[op] # "none" /\ (requests # <<>> => entries[op] # "none")
      <4>1. 0 \in 0 .. n
        OBVIOUS
      <4>2. QED
        BY <1>0, <1>1, <1>2, <3>1, <4>1 DEF OpInv, Stays
    <3>3. QED
      BY <1>0, <1>8, <1>a, <2>1, <3>1, <3>2 DEF OpInv, LoadIntact
  <2>8. MarksHold(op)'
    <3>1. ASSUME NEW i \in 1 .. m, requests'[i].by = "mark", requests'[i].op = op PROVE FALSE
      <4>1. i \in 1 .. n /\ requests[i].by = "mark" /\ requests[i].op = op /\ n + 1 \in i .. n + 1
        BY <1>1, <3>1
      <4>2. At(n + 1)[op] # "none"
        BY <1>0, <1>1, <4>1 DEF OpInv, MarksHold
      <4>3. QED
        BY <2>2, <4>2
    <3>2. QED
      BY <1>1, <1>a, <2>1, <3>1 DEF MarksHold
  <2>9. QED
    BY <1>3, <1>a, <2>4, <2>5, <2>6, <2>7, <2>8 DEF OpInv, Stays
<1>9. QED
  BY <1>6, <1>7, <1>8

\* Steps that touch none of the queues.
LEMMA SameChain ==
  ASSUME UNCHANGED <<table, requests, entries>>
  PROVE  /\ \A i \in Positions : At(i)' = At(i)
         /\ Positions' = Positions
BY DEF At, Positions

LEMMA UntouchedOp ==
  ASSUME QueueInv, TypeOK', NEW op \in Ops, op \notin overwritten,
         UNCHANGED <<table, requests, entries, confirmed, removed>>,
         LoadIntact(op)', loading' = "done" <=> loading = "done",
         acked'[op] = acked[op] \/ acked'[op] = "none"
  PROVE  OpInv(op)'
<1>1. TypeOK /\ OpInv(op)
  BY DEF QueueInv
<1>2. \A i \in Positions : At(i)' = At(i)
  BY SameChain
<1>3. PICK n \in Nat : n = Len(requests) /\ Positions = 0 .. n + 1 /\ Positions' = 0 .. n + 1
  BY <1>1 DEF TypeOK, Positions
<1>4. \A i \in 0 .. n + 1 : At(i)'[op] = At(i)[op]
  BY <1>2, <1>3
<1>5. LeavesSynced(op)' /\ NeverReturns(op)' /\ EntersUnsynced(op)'
  BY <1>1, <1>3, <1>4 DEF OpInv, LeavesSynced, NeverReturns, EntersUnsynced
<1>6. MarksHold(op)'
  <2>1. ASSUME NEW i \in 1 .. n, requests[i].by = "mark", requests[i].op = op, NEW j \in i .. n + 1
        PROVE  At(j)'[op] = At(i)'[op] /\ At(j)'[op] # "none"
    <3>1. i \in 0 .. n + 1 /\ j \in 0 .. n + 1
      BY <2>1
    <3>2. At(j)[op] = At(i)[op] /\ At(j)[op] # "none"
      BY <1>1, <1>3, <2>1 DEF OpInv, MarksHold
    <3>3. QED
      BY <1>4, <3>1, <3>2
  <2>2. acked[op] = "synced" => \A i \in 0 .. n + 1 : At(i)'[op] = "synced"
    BY <1>1, <1>3, <1>4 DEF OpInv, MarksHold
  <2>3. QED
    BY <1>1, <1>3, <2>1, <2>2 DEF OpInv, MarksHold
<1>7. Stays(op)'
  <2>1. \A i \in 0 .. n : i \in 0 .. n + 1
    OBVIOUS
  <2>2. QED
    BY <1>1, <1>3, <1>4, <2>1 DEF OpInv, Stays
<1>8. QED
  BY <1>5, <1>6, <1>7 DEF OpInv

\* The app is killed: what is left is the table.
LEMMA KilledOp ==
  ASSUME QueueInv, TypeOK', NEW op \in Ops, op \notin overwritten, Kill
  PROVE  OpInv(op)'
<1>0. TypeOK /\ OpInv(op)
  BY DEF QueueInv
<1>1. /\ Len(requests') = 0 /\ Positions' = 0 .. 1 /\ requests' = <<>>
      /\ At(0)' = table /\ At(1)' = Empty /\ At(0) = table
      /\ loading' = "no" /\ acked'[op] = "none" /\ Empty[op] = "none"
      /\ UNCHANGED <<table, confirmed, removed>>
  BY DEF Kill, Positions, At, Empty, NotMarked
<1>2. LeavesSynced(op)' /\ LoadIntact(op)' /\ MarksHold(op)'
  BY <1>1 DEF LeavesSynced, LoadIntact, MarksHold
<1>3. NeverReturns(op)'
  <2>1. \A i, j \in 0 .. 1 : i < j => j = 1
    OBVIOUS
  <2>2. QED
    BY <1>1, <2>1 DEF NeverReturns
<1>4. EntersUnsynced(op)'
  <2>1. \A i \in 0 .. 1 : i \in {0, 1}
    OBVIOUS
  <2>2. op \notin confirmed => table[op] = "none"
    BY <1>0 DEF OpInv, EntersUnsynced
  <2>3. QED
    BY <1>1, <2>1, <2>2 DEF EntersUnsynced
<1>5. Stays(op)'
  <2>1. \A i \in 0 .. 0 : i = 0
    OBVIOUS
  <2>2. op \in confirmed \ removed => table[op] # "none"
    <3>1. 0 \in 0 .. Len(requests)
      BY <1>0 DEF TypeOK
    <3>2. QED
      BY <1>0, <1>1, <3>1 DEF OpInv, Stays
  <2>3. QED
    BY <1>1, <2>1, <2>2 DEF Stays
<1>6. QED
  BY <1>2, <1>3, <1>4, <1>5 DEF OpInv
-------------------------------------------------------------------------------
\* An op that is nowhere stays nowhere unless memory takes it up.
LEMMA StillNowhere ==
  ASSUME QueueInv, TypeOK', [Next]_vars, NEW op \in Ops, Nowhere(op), entries'[op] = "none"
  PROVE  Nowhere(op)'
<1>0. TypeOK
  BY DEF QueueInv
<1>1. PICK n \in Nat : n = Len(requests) /\ Positions = 0 .. n + 1
  BY <1>0 DEF TypeOK, Positions
<1>2. \A i \in 0 .. n + 1 : At(i)[op] = "none"
  BY <1>1 DEF Nowhere
<1>3. table[op] = "none" /\ op \notin confirmed /\ loaded[op] = "none"
  <2>1. At(0) = table /\ 0 \in 0 .. n + 1
    BY DEF At
  <2>2. QED
    BY <1>2, <2>1 DEF Nowhere
<1>4. loaded'[op] = "none"
  <2>1. loaded' \in {loaded, table, Empty}
    BY DEF Next, Watch, StartLoad, EnqueueFirst, Enqueue, Select, LoadFails, FinishLoad, ReplaceEntries,
           MarkStatus, MarkUnknown, Remove, EndFlush, Execute, SaveFails, Kill, vars
  <2>2. QED
    BY <1>3, <2>1 DEF Empty
<1>5. ASSUME UNCHANGED <<table, confirmed, requests>> PROVE Nowhere(op)'
  <2>1. Positions' = 0 .. n + 1
    BY <1>1, <1>5 DEF Positions
  <2>2. \A i \in 0 .. n : At(i)' = At(i)
    BY <1>1, <1>5 DEF At
  <2>3. At(n + 1)' = entries'
    BY <1>1, <1>5 DEF At
  <2>4. \A i \in 0 .. n + 1 : At(i)'[op] = "none"
    BY <1>2, <2>2, <2>3
  <2>5. QED
    BY <1>3, <1>4, <1>5, <2>1, <2>4 DEF Nowhere
<1>6. ASSUME NEW save \in Save, save.rows = entries', requests' = Append(requests, save),
             UNCHANGED <<table, confirmed>>
      PROVE  Nowhere(op)'
  <2>1. PICK k \in Nat :
          /\ k = Len(requests) /\ Len(requests') = k + 1 /\ requests' # <<>>
          /\ \A i \in 0 .. k : At(i)' = At(i)
          /\ At(k + 1) = entries /\ At(k + 1)' = entries' /\ At(k + 2)' = entries'
          /\ requests'[k + 1] = save
          /\ \A i \in 1 .. k : requests'[i] = requests[i]
    BY <1>0, <1>6, SavedChain
  <2>2. k = n /\ Positions' = 0 .. n + 2
    BY <1>1, <2>1 DEF Positions
  <2>3. \A i \in 0 .. n + 2 : At(i)'[op] = "none"
    BY <1>2, <2>1, <2>2
  <2>4. QED
    BY <1>3, <1>4, <1>6, <2>2, <2>3 DEF Nowhere
<1>7. ASSUME NEW by \in {"enqueue", "mark", "remove"}, NEW other \in Ops, Persist(by, other),
             UNCHANGED <<table, confirmed>>
      PROVE  Nowhere(op)'
  <2> DEFINE save == [by |-> by, op |-> other, rows |-> entries']
  <2>1. save \in Save /\ save.rows = entries' /\ requests' = Append(requests, save)
    BY <1>7 DEF Persist, Save, TypeOK
  <2> HIDE DEF save
  <2>2. QED
    BY <1>6, <1>7, <2>1
<1>8. ASSUME NEW other \in Ops, NEW status \in {"pending", "syncing", "synced"},
             Enqueue(other) \/ MarkStatus(other, status) \/ Remove(other)
      PROVE  Nowhere(op)'
  BY <1>7, <1>8 DEF Enqueue, MarkStatus, Remove
<1>9. CASE FinishLoad
  <2>1. CASE awaitsLoad = {}
    BY <1>5, <1>9, <2>1 DEF FinishLoad, ReplaceEntries
  <2>2. CASE awaitsLoad # {}
    <3>1. PICK other \in awaitsLoad :
            requests' = Append(requests, [by |-> "enqueue", op |-> other, rows |-> entries'])
      BY <1>9, <2>2 DEF FinishLoad
    <3> DEFINE save == [by |-> "enqueue", op |-> other, rows |-> entries']
    <3>2. save \in Save /\ save.rows = entries' /\ requests' = Append(requests, save)
      BY <1>0, <3>1 DEF Save, TypeOK
    <3> HIDE DEF save
    <3>3. QED
      BY <1>6, <1>9, <3>2 DEF FinishLoad, ReplaceEntries
  <2>3. QED
    BY <2>1, <2>2
<1>10. CASE Execute
  <2>1. Head(requests) = requests[1] /\ requests # <<>>
    BY <1>0, <1>10 DEF Execute, TypeOK
  <2>2. /\ requests' = Tail(requests) /\ table' = requests[1].rows /\ entries' = entries
        /\ confirmed' = confirmed \cup Held(requests[1].rows)
    BY <1>10, <2>1 DEF Execute
  <2>3. PICK k \in Nat :
          /\ k >= 1 /\ k = Len(requests) /\ Len(requests') = k - 1
          /\ \A i \in 0 .. k : At(i)' = At(i + 1)
          /\ \A i \in 1 .. k - 1 : requests'[i] = requests[i + 1]
    BY <1>0, <2>1, <2>2, ExecutedChain
  <2>4. k = n /\ Positions' = 0 .. n
    BY <1>1, <2>3 DEF Positions
  <2>5. \A i \in 0 .. n : At(i)'[op] = "none"
    BY <1>2, <2>3, <2>4
  <2>6. At(1) = requests[1].rows /\ 1 \in 0 .. n + 1
    BY <2>3, <2>4 DEF At
  <2>7. op \notin confirmed'
    BY <1>2, <1>3, <2>2, <2>6 DEF Held
  <2>8. QED
    BY <1>4, <2>4, <2>5, <2>7 DEF Nowhere
<1>11. CASE SaveFails
  <2>1. PICK k \in Nat :
          /\ k >= 1 /\ k = Len(requests) /\ Len(requests') = k - 1
          /\ At(0)' = At(0)
          /\ \A i \in 1 .. k : At(i)' = At(i + 1)
          /\ \A i \in 1 .. k - 1 : requests'[i] = requests[i + 1]
    BY <1>0, <1>11, FailedChain DEF SaveFails
  <2>2. k = n /\ Positions' = 0 .. n
    BY <1>1, <2>1 DEF Positions
  <2>3. \A i \in 0 .. n : At(i)'[op] = "none"
    BY <1>2, <2>1, <2>2
  <2>4. QED
    BY <1>3, <1>4, <1>11, <2>2, <2>3 DEF Nowhere, SaveFails
<1>12. CASE Kill
  <2>1. Positions' = 0 .. 1 /\ At(0)' = table /\ At(1)' = Empty /\ UNCHANGED confirmed
    BY <1>12 DEF Kill, Positions, At
  <2>2. \A i \in 0 .. 1 : At(i)'[op] = "none"
    BY <1>3, <2>1 DEF Empty
  <2>3. QED
    BY <1>3, <1>4, <2>1, <2>2 DEF Nowhere
<1>13. ASSUME Watch \/ Select \/ LoadFails \/ EndFlush \/ UNCHANGED vars
              \/ \E other \in Ops : EnqueueFirst(other) \/ MarkUnknown(other)
       PROVE  Nowhere(op)'
  BY <1>5, <1>13 DEF Watch, StartLoad, Select, LoadFails, EndFlush, vars, EnqueueFirst, MarkUnknown
<1>14. QED
  BY <1>8, <1>9, <1>10, <1>11, <1>12, <1>13 DEF Next

LEMMA FreshStep ==
  ASSUME QueueInv, TypeOK', [Next]_vars
  PROVE  \A op \in Ops : op \notin enqueued' \/ op \in awaitsLoad' => Nowhere(op)'
<1> SUFFICES ASSUME NEW op \in Ops, op \notin enqueued' \/ op \in awaitsLoad'
             PROVE  Nowhere(op)'
  OBVIOUS
<1>0. TypeOK /\ StageInv
  BY DEF QueueInv
<1>1. op \notin enqueued \/ op \in awaitsLoad
  BY DEF Next, Watch, StartLoad, EnqueueFirst, Enqueue, Select, LoadFails, FinishLoad, ReplaceEntries,
         MarkStatus, MarkUnknown, Remove, EndFlush, Execute, SaveFails, Kill, vars
<1>2. Nowhere(op)
  BY <1>1 DEF QueueInv
<1>3. entries[op] = "none" /\ loaded[op] = "none"
  <2>1. Len(requests) + 1 \in Positions /\ At(Len(requests) + 1) = entries
    BY <1>0 DEF TypeOK, Positions, At
  <2>2. QED
    BY <1>2, <2>1 DEF Nowhere
<1>4. entries'[op] = "none"
  <2>1. CASE FinishLoad
    <3>1. op \notin awaitsLoad'
      BY <2>1 DEF FinishLoad, ReplaceEntries
    <3>2. op \notin awaitsLoad
      BY <1>0, <2>1, <3>1 DEF FinishLoad, ReplaceEntries, StageInv
    <3>3. QED
      BY <1>3, <2>1, <3>2 DEF FinishLoad, ReplaceEntries
  <2>2. ASSUME NEW other \in Ops, Enqueue(other) PROVE entries'[op] = "none"
    <3>1. other # op
      BY <1>0, <2>2 DEF Enqueue, StageInv
    <3>2. QED
      BY <1>0, <1>3, <2>2, <3>1 DEF Enqueue, TypeOK, Snapshot
  <2>3. ASSUME NEW other \in Ops, NEW status \in {"pending", "syncing", "synced"}, MarkStatus(other, status)
        PROVE  entries'[op] = "none"
    <3>1. other # op
      BY <1>3, <2>3 DEF MarkStatus
    <3>2. QED
      BY <1>0, <1>3, <2>3, <3>1 DEF MarkStatus, TypeOK, Snapshot
  <2>4. ASSUME NEW other \in Ops, Remove(other) PROVE entries'[op] = "none"
    BY <1>0, <1>3, <2>4 DEF Remove, TypeOK, Snapshot
  <2>5. CASE Kill
    BY <2>5 DEF Kill, Empty
  <2>6. ASSUME Watch \/ Select \/ LoadFails \/ EndFlush \/ Execute \/ SaveFails \/ UNCHANGED vars
               \/ \E other \in Ops : EnqueueFirst(other) \/ MarkUnknown(other)
        PROVE  entries'[op] = "none"
    BY <1>3, <2>6 DEF Watch, StartLoad, Select, LoadFails, EndFlush, Execute, SaveFails, vars,
                      EnqueueFirst, MarkUnknown
  <2>7. QED
    BY <2>1, <2>2, <2>3, <2>4, <2>5, <2>6 DEF Next
<1>5. QED
  BY <1>2, <1>4, StillNowhere

LEMMA StageStep ==
  ASSUME QueueInv, TypeOK', [Next]_vars
  PROVE  StageInv'
<1>0. TypeOK /\ StageInv
  BY DEF QueueInv
<1>1. ASSUME UNCHANGED <<table, confirmed>> PROVE (Held(table) \subseteq confirmed)'
  BY <1>0, <1>1 DEF StageInv, Held
<1>2. CASE Watch
  BY <1>0, <1>1, <1>2 DEF StageInv, Watch, StartLoad
<1>3. ASSUME NEW op \in Ops, EnqueueFirst(op) PROVE StageInv'
  BY <1>0, <1>1, <1>3 DEF StageInv, EnqueueFirst, StartLoad
<1>4. ASSUME NEW op \in Ops, Enqueue(op) PROVE StageInv'
  BY <1>0, <1>1, <1>4 DEF StageInv, Enqueue
<1>5. CASE Select
  BY <1>0, <1>1, <1>5 DEF StageInv, Select
<1>6. CASE LoadFails
  BY <1>0, <1>1, <1>6 DEF StageInv, LoadFails
<1>7. CASE FinishLoad
  BY <1>0, <1>1, <1>7 DEF StageInv, FinishLoad, ReplaceEntries
<1>8. ASSUME NEW op \in Ops, NEW status \in {"pending", "syncing", "synced"}, MarkStatus(op, status)
      PROVE  StageInv'
  BY <1>0, <1>1, <1>8 DEF StageInv, MarkStatus, FlushGoesOn
<1>9. ASSUME NEW op \in Ops, MarkUnknown(op) PROVE StageInv'
  BY <1>0, <1>1, <1>9 DEF StageInv, MarkUnknown
<1>10. ASSUME NEW op \in Ops, Remove(op) PROVE StageInv'
  BY <1>0, <1>1, <1>10 DEF StageInv, Remove, FlushGoesOn
<1>11. CASE EndFlush
  BY <1>0, <1>1, <1>11 DEF StageInv, EndFlush
<1>12. CASE Execute
  <2>1. Held(table)' \subseteq confirmed'
    BY <1>12 DEF Execute, Held
  <2>2. QED
    BY <1>0, <1>12, <2>1 DEF StageInv, Execute
<1>13. CASE SaveFails
  BY <1>0, <1>1, <1>13 DEF StageInv, SaveFails
<1>14. CASE Kill
  BY <1>0, <1>1, <1>14 DEF StageInv, Kill
<1>15. CASE UNCHANGED vars
  BY <1>0, <1>1, <1>15 DEF StageInv, vars
<1>16. QED
  BY <1>2, <1>3, <1>4, <1>5, <1>6, <1>7, <1>8, <1>9, <1>10, <1>11, <1>12, <1>13, <1>14, <1>15 DEF Next

\* Saving: the op it is about, and the others.
LEMMA SaveStep ==
  ASSUME QueueInv, TypeOK', NEW by \in {"enqueue", "mark", "remove"}, NEW op \in Ops, NEW status \in Status,
         entries' = [entries EXCEPT ![op] = status], Persist(by, op), loading # "no",
         UNCHANGED <<loading, loaded, table, confirmed>>, removed \subseteq removed',
         \A other \in Ops \ {op} : acked'[other] = acked[other],
         NEW other \in Ops, other # op, other \notin overwritten'
  PROVE  OpInv(other)'
<1> DEFINE save == [by |-> by, op |-> op, rows |-> entries']
<1>0. TypeOK
  BY DEF QueueInv
<1>1. save \in Save /\ save.rows = entries' /\ save.op = op /\ requests' = Append(requests, save)
  BY DEF Persist, Save, TypeOK
<1> HIDE DEF save
<1>2. other \notin overwritten /\ (Blind /\ table[other] # "none" => entries[other] # "none")
  BY <1>0 DEF Persist, Held, TypeOK
<1>3. entries'[other] = entries[other]
  BY <1>0 DEF TypeOK, Snapshot
<1>4. QED
  BY <1>1, <1>2, <1>3, KeptOp

LEMMA OpStep ==
  ASSUME QueueInv, TypeOK', [Next]_vars, NEW op \in Ops, op \notin overwritten'
  PROVE  OpInv(op)'
<1>0. TypeOK /\ StageInv
  BY DEF QueueInv
<1>1. op \notin overwritten
  BY DEF Next, Watch, StartLoad, EnqueueFirst, Enqueue, Select, LoadFails, FinishLoad,
         MarkStatus, MarkUnknown, Remove, EndFlush, Execute, SaveFails, Kill, vars, Persist
<1>a. OpInv(op)
  BY <1>1 DEF QueueInv
<1>2. ASSUME StartLoad, UNCHANGED <<confirmed, removed>> PROVE OpInv(op)'
  <2>1. LoadIntact(op)'
    BY <1>0, <1>2 DEF StartLoad, StageInv, LoadIntact, Empty
  <2>2. QED
    BY <1>1, <1>2, <2>1, UntouchedOp DEF StartLoad
<1>3. CASE Watch
  BY <1>2, <1>3 DEF Watch, StartLoad
<1>4. ASSUME NEW other \in Ops, EnqueueFirst(other) PROVE OpInv(op)'
  BY <1>2, <1>4 DEF EnqueueFirst, StartLoad
<1>5. ASSUME NEW other \in Ops, Enqueue(other) PROVE OpInv(op)'
  <2>1. CASE other = op
    <3> DEFINE save == [by |-> "enqueue", op |-> op, rows |-> entries']
    <3>1. save \in Save /\ save.rows = entries' /\ save.by = "enqueue" /\ requests' = Append(requests, save)
      BY <1>5, <2>1 DEF Enqueue, Persist, Save, TypeOK
    <3> HIDE DEF save
    <3>2. Nowhere(op) /\ entries'[op] = "pending" /\ loaded'[op] = "none"
      BY <1>0, <1>5, <2>1 DEF Enqueue, QueueInv, Nowhere, TypeOK, Snapshot
    <3>3. QED
      BY <1>1, <1>5, <3>1, <3>2, EnteredOp DEF Enqueue
  <2>2. CASE other # op
    BY <1>5, <2>2, SaveStep DEF Enqueue, Status
  <2>3. QED
    BY <2>1, <2>2
<1>6. CASE Select
  <2>1. LoadIntact(op)'
    BY <1>a, <1>6 DEF Select, OpInv, LoadIntact
  <2>2. QED
    BY <1>1, <1>6, <2>1, UntouchedOp DEF Select
<1>7. CASE LoadFails
  <2>1. LoadIntact(op)'
    BY <1>7 DEF LoadFails, LoadIntact
  <2>2. QED
    BY <1>1, <1>7, <2>1, UntouchedOp DEF LoadFails
<1>8. CASE FinishLoad
  BY <1>8, LoadedOp
<1>9. ASSUME NEW other \in Ops, NEW status \in {"pending", "syncing", "synced"}, MarkStatus(other, status)
      PROVE  OpInv(op)'
  <2>1. CASE other = op
    BY <1>9, <2>1, MarkedOp
  <2>2. CASE other # op
    BY <1>9, <2>2, SaveStep DEF MarkStatus, FlushGoesOn, Status
  <2>3. QED
    BY <2>1, <2>2
<1>10. ASSUME NEW other \in Ops, MarkUnknown(other) PROVE OpInv(op)'
  <2>1. other # op
    BY <1>a, <1>10 DEF MarkUnknown, OpInv, MarksHold
  <2>2. acked'[op] = acked[op]
    BY <1>0, <1>10, <2>1 DEF MarkUnknown, TypeOK
  <2>3. LoadIntact(op)'
    BY <1>a, <1>10 DEF MarkUnknown, OpInv, LoadIntact
  <2>4. QED
    BY <1>1, <1>10, <2>2, <2>3, UntouchedOp DEF MarkUnknown
<1>11. ASSUME NEW other \in Ops, Remove(other) PROVE OpInv(op)'
  <2>1. CASE other = op
    BY <1>11, <2>1, RemovedOp
  <2>2. CASE other # op
    <3>1. \A third \in Ops \ {other} : acked'[third] = acked[third]
      BY <1>0, <1>11 DEF Remove, TypeOK
    <3>2. QED
      BY <1>11, <2>2, <3>1, SaveStep DEF Remove, FlushGoesOn, Status
  <2>3. QED
    BY <2>1, <2>2
<1>12. CASE EndFlush
  <2>1. acked'[op] = "none" /\ LoadIntact(op)'
    BY <1>a, <1>12 DEF EndFlush, NotMarked, OpInv, LoadIntact
  <2>2. QED
    BY <1>1, <1>12, <2>1, UntouchedOp DEF EndFlush
<1>13. CASE Execute
  BY <1>1, <1>13, ExecutedOp
<1>14. CASE SaveFails
  BY <1>1, <1>14, FailedOp
<1>15. CASE Kill
  BY <1>1, <1>15, KilledOp
<1>16. CASE UNCHANGED vars
  <2>1. LoadIntact(op)'
    BY <1>a, <1>16 DEF vars, OpInv, LoadIntact
  <2>2. QED
    BY <1>1, <1>16, <2>1, UntouchedOp DEF vars
<1>17. QED
  BY <1>3, <1>4, <1>5, <1>6, <1>7, <1>8, <1>9, <1>10, <1>11, <1>12, <1>13, <1>14, <1>15, <1>16 DEF Next

LEMMA QueueInvHolds == Spec => []QueueInv
<1>1. Init => QueueInv
  <2> SUFFICES ASSUME Init PROVE QueueInv
    OBVIOUS
  <2>1. TypeOK
    BY TypeInit
  <2>2. Positions = {0, 1} /\ requests = <<>> /\ \A op \in Ops : At(0)[op] = "none" /\ At(1)[op] = "none"
    BY DEF Init, Positions, At, Empty
  <2>3. StageInv
    BY DEF Init, StageInv, Held, Empty
  <2>4. \A op \in Ops : loaded[op] = "none" /\ table[op] = "none" /\ acked[op] = "none"
    BY DEF Init, Empty, NotMarked
  <2>5. ASSUME NEW op \in Ops PROVE Nowhere(op) /\ OpInv(op)
    <3>1. Nowhere(op)
      BY <2>2, <2>4 DEF Init, Nowhere
    <3>2. EntersUnsynced(op)
      BY <2>2, <2>4 DEF EntersUnsynced
    <3>3. MarksHold(op)
      BY <2>2, <2>4 DEF MarksHold
    <3>4. LeavesSynced(op) /\ NeverReturns(op) /\ LoadIntact(op) /\ Stays(op)
      BY <2>2 DEF Init, LeavesSynced, NeverReturns, LoadIntact, Stays
    <3>5. QED
      BY <3>1, <3>2, <3>3, <3>4 DEF OpInv
  <2>6. QED
    BY <2>1, <2>3, <2>5 DEF QueueInv
<1>2. QueueInv /\ [Next]_vars => QueueInv'
  <2> SUFFICES ASSUME QueueInv, [Next]_vars PROVE QueueInv'
    OBVIOUS
  <2>1. TypeOK'
    BY TypeStep DEF QueueInv
  <2>2. QED
    BY <2>1, StageStep, FreshStep, OpStep DEF QueueInv
<1>3. QED
  BY <1>1, <1>2, PTL DEF Spec

\* Once its entry has reached the database an op stays there until a flush
\* removes it, whatever is saved, loaded, killed or fails in which order, unless
\* a queue that does not hold it because it is not loaded is saved over it.
THEOREM ConfirmedOpsSurvive == Spec => []ConfirmedSurvives
<1>1. QueueInv => ConfirmedSurvives
  <2> SUFFICES ASSUME QueueInv, NEW op \in Ops, op \in confirmed \ removed, op \notin overwritten
               PROVE  table[op] # "none"
    BY DEF ConfirmedSurvives, Held, QueueInv, TypeOK
  <2>1. At(0) = table /\ 0 \in 0 .. Len(requests)
    BY DEF At, QueueInv, TypeOK
  <2>2. QED
    BY <2>1 DEF QueueInv, OpInv, Stays
<1>2. QED
  BY <1>1, QueueInvHolds, PTL
-------------------------------------------------------------------------------
\* What a step does to the rows on disk.
LEMMA EntryStep ==
  ASSUME QueueInv, TypeOK', [Next]_vars
  PROVE  [Durable!QueueNext]_(Durable!queueVars)
<1> USE DEF Durable!queueVars
<1>0. TypeOK
  BY DEF QueueInv
<1>1. ASSUME UNCHANGED <<table, confirmed>>, overwritten \subseteq overwritten'
      PROVE  [Durable!QueueNext]_(Durable!queueVars)
  <2>1. overwritten' = overwritten \cup overwritten' /\ overwritten' \in SUBSET Ops
    BY <1>1 DEF TypeOK
  <2>2. Durable!Expose(overwritten')
    BY <1>1, <2>1 DEF Durable!Expose
  <2>3. QED
    BY <2>1, <2>2 DEF Durable!QueueNext
<1>2. CASE Execute
  <2>1. \A op \in Ops \ overwritten :
          /\ table[op] = "none" /\ table'[op] # "none" => op \notin confirmed /\ table'[op] # "synced"
          /\ table[op] # "none" /\ table'[op] = "none" => table[op] = "synced"
    BY <1>2, ExecutedOp
  <2>2. confirmed' = confirmed \cup {op \in Ops : table'[op] # "none"} /\ UNCHANGED overwritten
    BY <1>2 DEF Execute, Held
  <2>3. table' \in [Ops -> (Status \ {"none"}) \cup {"none"}]
    BY DEF TypeOK, Snapshot, Status
  <2>4. Durable!StoreAll(table')
    BY <2>1, <2>2 DEF Durable!StoreAll, Durable!Enters, Durable!Leaves
  <2>5. QED
    BY <2>3, <2>4 DEF Durable!QueueNext
<1>3. ASSUME ~Execute PROVE UNCHANGED <<table, confirmed>> /\ overwritten \subseteq overwritten'
  BY <1>3 DEF Next, Watch, StartLoad, EnqueueFirst, Enqueue, Select, LoadFails, FinishLoad, ReplaceEntries,
              MarkStatus, MarkUnknown, Remove, EndFlush, SaveFails, Kill, vars, Persist
<1>4. QED
  BY <1>1, <1>2, <1>3

\* The rows on disk are a DurableQueue: whatever is saved, loaded, killed or
\* fails in which order, an op that no unloaded queue is saved over gets there
\* once and leaves only after its row said SYNCED.
THEOREM TableKeepsEntries == Spec => KeepsEntries
<1>1. Init => Durable!QueueInit
  BY DEF Init, Empty, Durable!QueueInit
<1>2. QueueInv /\ QueueInv' /\ [Next]_vars => [Durable!QueueNext]_(Durable!queueVars)
  BY EntryStep DEF QueueInv
<1>3. QED
  BY <1>1, <1>2, QueueInvHolds, PTL DEF Spec, KeepsEntries, Durable!QueueSpec
================================================================================
