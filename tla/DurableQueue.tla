----------------------------- MODULE DurableQueue -----------------------------
(***************************************************************************)
(* What survives on the device, whatever happens to the app: an op is      *)
(* stored once, never as SYNCED ("a local save NEVER claims server         *)
(* success", sync_queue_entry.dart 19), and what is stored disappears only *)
(* after it was stored as SYNCED, for good.  Ops that were once exposed,   *)
(* to a save of a queue that does not know them, are promised nothing.     *)
(* No memory, no outstanding saves, no kills.                              *)
(***************************************************************************)
CONSTANTS
  QueueOps,
  Marks       \* the statuses an entry may have
VARIABLES
  rows,       \* the status stored for each op, or "none"
  seen,       \* the ops that have ever been stored
  lost        \* the ops that have ever been exposed

queueVars == <<rows, seen, lost>>

QueueInit ==
  /\ rows = [op \in QueueOps |-> "none"]
  /\ seen = {}
  /\ lost = {}

\* What one save may do to an op: one failed save may leave several changes to
\* the next.
Enters(op, status) == rows[op] = "none" /\ status # "none"
Leaves(op, status) == rows[op] # "none" /\ status = "none"

StoreAll(new) ==
  /\ \A op \in QueueOps \ lost :
       /\ Enters(op, new[op]) => op \notin seen /\ new[op] # "synced"
       /\ Leaves(op, new[op]) => rows[op] = "synced"
  /\ rows' = new
  /\ seen' = seen \cup {op \in QueueOps : new[op] # "none"}
  /\ UNCHANGED lost

Expose(some) == lost' = lost \cup some /\ UNCHANGED <<rows, seen>>

QueueNext ==
  \/ \E new \in [QueueOps -> Marks \cup {"none"}] : StoreAll(new)
  \/ \E some \in SUBSET QueueOps : Expose(some)

QueueSpec == QueueInit /\ [][QueueNext]_queueVars
===============================================================================
