# NER-SHIELD: a TLA+ verification project

NER-SHIELD is a logistics and disaster-response system for the North Eastern
Region of India: a FastAPI backend on PostgreSQL (`src/backend/`) and a Flutter
app for field officers (`src/lib/`) that has to work without a network.  This
directory models the parts where a wrong order of events loses data or breaks a
rule, checks them with TLC on small instances and proves the central facts with
TLAPS for every size.  All paths below are relative to the repository.

The text is organised as: the system (1), the modules and how they map to the
code (2), what the runs check (3), bounds and fairness (4), what is proved (5),
disagreements between code and documents (6), what is not modelled (7) and what
is left to do (8).

## 1. The system

### Parts, their state and their operations

| Part | State | Operations | What makes it correct |
|---|---|---|---|
| Sync push (`backend/app/sync/`) | `sync_ops_log`, `field_reports`; per request: two open transactions, the rest of the batch | `POST /sync/push`: gate, duplicate test, apply, log, two commits | an op has at most one effect; a logged verdict is final; no report precedes its log; only a rollback parts an ACCEPTED op from its report |
| Flush (`lib/features/incidents/sync_controller.dart`, `lib/core/sync/sync_queue.dart`) | queue entries with statuses, `_flushing`, connectivity class | `enqueue`, `flush`, `markStatus`, `remove`, start on reconnect | an entry is given up only for what the server has answered for; everything pending is eventually settled |
| Persistent queue (`lib/core/sync/`) | `_entries` in memory, the SQLite table, outstanding saves | `ensureLoaded`, `enqueue`, `markStatus`, `remove`, `saveAll` | the table gives up only entries a flush removes, or a queue that was never loaded |
| Session storage (`lib/core/storage/secure_token_storage.dart`, `lib/features/auth/`, the storage plugins) | tokens, account, second-factor marker, in one store per platform | sign-in, second factor, sign-out, one plugin call after the other | no newer access token beside an older refresh token; a save that reports success is whole |
| Approvals (`backend/app/approvals/`) | `approval_requests` | request, decide | two persons; the first decision is final |
| Shipments (`backend/app/shipments/`) | `shipments.status`, `vehicle_id`, `vehicles.status` | create, assign vehicle or route, status, confirm delivery | the two-person rule on every path to a terminal status; deliveries start on the road; a vehicle is on one shipment |
| Alerts (`backend/app/alerts/`, `workers/runner.py`) | `alerts.status`, `dedup_key`, the open transaction of the cycle | acknowledge, resolve, deduplicated upsert, escalation sweep | one unresolved alert per condition |
| Validation and dispatch (`backend/app/field/service.py`, `responders/service.py`) | report status, `responders`, `response_tasks`, alerts to the district | validate, dispatch, transitions, acknowledgement-timeout sweep | validation and dispatch stand or fall together; nobody moves unacknowledged; an overdue task is handled |
| Tasks (`backend/app/tasks/`) | task status, `escalated` | create, transitions, SLA job | every transition fails today (section 6) |
| Workers (`backend/workers/`) | one loop per job | run, sleep, survive exceptions | a failing job never stops the others |
| Realtime client (`lib/core/realtime/`, `lib/features/realtime/`) | the client's transport, subscription, two timers; the session that drives it | connect, stop, reconnect, heartbeat | a client that is wanted is streaming, connecting or about to |
| Reconciler (`lib/features/realtime/reconnection_reconciler.dart`) | `_running` | push, refresh, resume the stream | one run at a time; its last part resumes the stream |
| Realtime bus (`backend/app/realtime/`) | bounded queues | publish, stream | not modelled |
| Drafts and media (`lib/core/drafts/`) | drafts, media rows with states | save, enqueue, upload | not modelled |

The remaining parts (risk, routing, digital twin, simulation, GIS, assistant,
translations, the user interface, ...) compute, display or call out; they are
listed one by one in `PROJECT.json` with the reason they are not modelled.

### How they interact

The app saves every report locally first; a report that cannot be submitted, and
every position ping, becomes an op with a fresh `client_op_id` in the queue.  A
flush (manual, on reconnect, or in a reconciliation run) pushes a batch to
`POST /sync/push` and applies the verdicts to the queue.  A reconciliation then
refreshes caches and resumes the realtime stream; signing in and out drives the
same stream through a listener.  On the server, every request has a *user
session* (row level security applies) and often a *system session* (logs,
approvals, audit): two transactions with two commits.  Shipment calls consult
approvals through the system session and write through the user session.
Validating a report dispatches a responder in the same transaction.  Workers
create alerts and sweep response tasks next to the requests.

### What is hard here

* **Two transactions per request.**  FastAPI leaves dependencies last-in
  first-out: `get_principal` opens the user session before `push` opens the
  system session, so the log commits first and the reports second.
* **Read, check, write without locks.**  Handlers load a row, check it, consult
  another table and then update; another handler or a sweep may commit in
  between.
* **Retries.**  A timed-out push keeps running on the server while the device
  sends the same ops again.
* **Crashes.**  The device persists by replacing its whole table, with several
  replacements outstanding, and its session by several writes to a store that
  some platforms keep in one file; the app may be killed between any two steps.
* **Overlapping connects.**  The realtime client tests once and awaits twice.
* **Duplicate detection by status-blind look-up.**

`PROJECT.json` lists these at their lines under `hazards`, each with the
properties that cover it or the reason none does.

## 2. The modules

| Module | Models | Grain |
|---|---|---|
| `SyncPush` | `POST /sync/push` | one action per statement that other requests can observe |
| `OpLedger` | what that endpoint promises about its two tables | abstract specification |
| `SyncFlush` | `flush()` and the queue | one action per await of the controller |
| `OfflineSync` | both, joined by an unreliable link | timeouts, crashes, lost replies |
| `ReportDelivery` | the promise of `docs/offline-strategy.md` | abstract specification |
| `SyncQueue` | queue memory against its SQLite table | saves as outstanding requests |
| `DurableQueue` | what is stored on the device, whatever happens to the app | abstract specification |
| `SecureStorage` | keys, values and calls of the secure storage | operators |
| `LinuxStorage`, `AndroidStorage`, `WindowsStorage` | the back ends of the storage plugin | one action per call, or per await inside it (Windows) |
| `TokenStorage` | the flows that change the session, on one of four back ends | one action per plugin call |
| `SseClient` | the realtime client | one action per await, timer or callback |
| `Reconnection` | session, listener, reconciler around `SseClient` | one action per published state or part of a run |
| `Approvals` | approval requests and decisions | read and update apart |
| `Shipments` | shipments and vehicles, on top of `Approvals` | load, check, write apart |
| `Requests` | requests that read a row and write it later | `Begin`, `End`, `CallDies` |
| `Alerts` | alerts, officers and the assessment cycle, on top of `Requests` | load and write apart; the cycle's open transaction |
| `Dispatch` | validation, response tasks and the sweep, on top of `Requests` | load and write apart; the sweep's selection and commit apart |
| `MCSyncPush`, `MCOfflineSync`, `MCSyncQueue`, `MCShipments`, `MCDispatch` | instances for TLC | constants, symmetry |
| `SyncPushProofs`, `OfflineSyncProofs`, `SyncQueueProofs`, `ShipmentsProofs`, `TokenStorageProofs`, `ReconnectionProofs`, `AlertsProofs`, `DispatchProofs` | theorems | section 5 |

`SyncFlush` EXTENDS `SyncPush` (both speak of the same ops, classes and
verdicts) and `OfflineSync` EXTENDS `SyncFlush`; `Shipments` EXTENDS
`Approvals`; `TokenStorage` EXTENDS the three back ends, `Reconnection`
EXTENDS `SseClient`, `Alerts` and `Dispatch` EXTEND `Requests`.

### SyncPush

`fieldReports` counts the committed `field_reports` rows of a `client_op_id`;
`syncOpsLog` is its committed log status.  For every request slot `phase` is the
place in the handler, `todo` the ops without a verdict, `newRows` and `newLog`
what the two open transactions have written, `txAborted` PostgreSQL's aborted
state of the user transaction, `results` the response.

Ops are numbered in `createdAt` order, the order in which the device sends them.
A `FIELD_REPORT` copies its `client_op_id` into the payload and its insert has an
*on conflict do nothing* clause on it; a `GPS_PING` reads
`payload["client_op_id"]`, which the app does not put there, so applying it
always raises and the op is rejected (the test
`backend/tests/test_sync_integration.py:136` puts the key into its payload).
Inserts with a unique key wait for other open transactions that hold the same
key (`RowFree`, `LogFree`), and a request keeps its keys of both tables until it
ends.  Two requests with the same ops could so wait for each other; that they do
not is `NoCircularWait`.  (TLC's deadlock check does not show it: a request that
waits may always die.)  What keeps the circle open is the order of the ops alone,
which is the device's: nothing in the endpoint sorts a batch.

The gate (`GateVerdict`) refuses every op of a connectivity class that the active
policy does not list, and defers an op that the class does not carry, for its
type or for its photo; neither answer is logged.

An SQL error aborts the user transaction: what it inserted is undone, later
statements fail, and its COMMIT is a silent rollback, while the loop of the
handler catches each exception and goes on.

Up to FastAPI 0.117 the response leaves after both commits, from 0.118 on before
them; `backend/requirements.txt` allows both (`fastapi>=0.115`).  `ReplyFirst`
selects the order.  The passing runs take the harder one (`TRUE`, which includes
replies after the commits), the theorems hold for both.

`undone` is a history variable: the ops whose row was rolled back after the
request had logged or answered ACCEPTED, until a later request stores them.  It is
what a promise must except, and no more.  The verdicts of a request are *binding*
from the moment its log is committed or its answer is out (`Binding`, `Underway`).

### OpLedger

The endpoint without its requests: an op gets one verdict, for good (`Record`, one
commit of the system session), and at most one effect, only after its verdict
(`TakeEffect`, one commit of the user session).  `KeepsLedger` states that
`SyncPush` implements it, under every fault, with verdicts = `sync_ops_log` and
effects = the number of `field_reports` rows.  The ledger does not say that an
ACCEPTED op gets its effect, because the code does not guarantee it
(`MCSqlErrorInBatch`); what the code does guarantee is `AcceptedIsKept`.

### SyncFlush and OfflineSync

`entries` is the queue, `flushPc` the place in `flush()` (`"idle"` is
`_flushing = false`), `flushClass` the connectivity read before the policy is
fetched, `batch`, `marks` and `reply` the local variables of the flush.  The
policy may be the server's or the device's fallback.  Verdicts are applied one
by one, and ACCEPTED and DUPLICATE take two saves: mark as synced, then remove.
`nextRetryAt` is never set on this path (no verdict carries an error), so every
failed entry is flushable at once; the model has no clock.

`OfflineSync` adds `awaiting`, the request the device waits for.  `PushThrows`
covers an error response, a request that never arrived and a timeout; a request
the device has given up on stays in its slot and keeps running.  `DeviceCrash`
leaves the stored queue only.

### ReportDelivery

The promise with no word of requests: a captured report sits in the `outbox`
until the server has answered for it.  An answer puts it into `landing`; from
there a commit stores it, or a rollback moves it to `failed`, where a refused
report is from the start.  Nothing is stored twice, nothing is released without
an answer, and no other step loses a report.  A failed report may be answered for
again.  `DeliversReports` states that `OfflineSync` implements it with the
refinement mapping outbox = the reports in the queue, landing = those a request
whose verdict is binding may still commit, stored = the rows, failed = those not
stored whose rejection is logged or whose row was rolled back.  This is weaker
than the documents' promise (`NoSilentLoss`, refuted by `MCRejectedOpLost`), and
holds under every fault.

### SyncQueue

`requests` are saves that were issued and not answered yet, in order; a save
carries a snapshot of the whole queue, as `_persist` takes it, and knows whose
await it ends.  `loading` is `_initialized` with the stages of its load: asked
for, the select has run, resumed, or failed.  `ensureLoaded` sets its flag before
it awaits, so an enqueue, a mark or a removal that comes while the load is
outstanding works on what is in memory and saves that (`Enqueue` needs
`loading # "no"` and nothing else); after a `loadAll` that throws (`LoadFails`)
the queue stays initialized and empty for as long as the process lives.  A save
that throws (`SaveFails`) leaves the table as it was and memory as it is, and ends
the enqueue or the flush that awaited it.  A flush awaits each of its saves before
the next (`FlushGoesOn`); enqueues do not wait for each other.

`enqueued`, `refused`, `confirmed`, `removed` and `overwritten` are ghosts.  The
last one records what the blind saves cost: the stored ops that a queue which has
not loaded them is saved over, and the new ones the end of a load drops from
memory.

### DurableQueue

The stored queue without memory, saves and kills: an op is stored once, and not
as SYNCED ("a local save NEVER claims server success"); it may change its status;
it disappears only from a row that says SYNCED, and never comes back.  One step
may do this to several ops, because a save that failed leaves its change to the
next one.  `lost` are the ops that were exposed to a save of an unloaded queue;
they are promised nothing.  `KeepsEntries` states that the table of `SyncQueue`
implements it with lost = `overwritten`.  It says more than `ConfirmedSurvives`: a
status that is saved late, or not at all, before its entry is removed would
already break it.

The queue of `SyncFlush`, where a change and its save are one step, implements it
with nothing lost (`FlushKeepsEntries`).  `SyncFlush` and `OfflineSync` so presume
a loaded queue whose saves succeed, the usual case: the reports screen or the
reconciliation at sign-in has loaded it before the officer queues anything.  What
a kill leaves then went through the same kinds of change, which entitles
`DeviceCrash` to keep `entries` as they are.  What the other cases cost is what
`SyncQueue` shows.

### SecureStorage, its back ends and TokenStorage

A value is the number of the login that wrote it, so that "newer" can be said.
A flow of `AuthService` and `AuthController` (`Login`, `LoginNeedsMfa`,
`VerifyMfa`, `CancelMfa`, `SignOut`) is the sequence `todo` of plugin calls it
awaits; `swallowed` says which of them are wrapped in a handler that goes on.
Flows run one at a time, as the sign-in screen and the controller run them.
`VerifyMfa` hands `saveTokens` the email that is already stored, so it writes it
again.  The user id, which no flow passes to `saveTokens`, is left out.

What a call does depends on `platform`, fixed at the start:

* `"web"`: the in-memory map of `SecureTokenStorage`, empty after a restart.
* `"linux"` (`LinuxStorage`): one secret, a JSON object, read and stored back
  within one call; a failure changes nothing.
* `"android"` (`AndroidStorage`): the preferences of the process change before
  the call answers; the file follows (`AndroidFlush`), or the process dies first.
  The fallback to unencrypted preferences, when the encrypted ones cannot be
  opened, and the migration between the two (`FlutterSecureStorage.java:172-176`,
  `219-236`) are left out.
* `"windows"` (`WindowsStorage`): one encrypted file.  A change loads the map,
  awaits, truncates the file and writes it, again and again while writing fails.
  A load that cannot decrypt deletes the file; a read that does so may run at
  any time (`WindowsRead`), because nothing serialises reads with writes.  The
  C++ half of that plugin serves old entries only and takes part only with
  `useBackwardCompatibility`, which the app does not set.

### SseClient and Reconnection

`pc` and `sends` belong to the invocations of `connect()` under way, of which
there may be several; `client` and `subscription` are the one pair of fields
they share; `transport` is what each http client really does, which may outlive
its place in the fields.  Closing a client ends its request or its stream, but
the invocation that waits for it learns of it only by `SendFails`, and the
listener of a stream that is no longer the subscription is told of its end
(`"ending"`) and closes and schedules as any other.  Back-off lengths are left
out: an armed timer fires some time.

`Reconnection` models `AuthController`'s published states, the listener of
`sseClientProvider` (signed in: reconnect now; anything else, the loading state
included: stop) and the reconciler with its guard.  The provider is lazy, so the
listener exists only once the first reconciliation has resumed the stream
(`created`).  `Restore` is the cold start with a stored session, for which no
loading state is heard.  Tokens may be stored while nobody is signed in (before a
second factor, after a failed restore), so `Send` may happen at any time; only
fairness asks for them (`HasToken`).

### Approvals and Shipments

A decision is `CheckDecision` (everything up to the update) and `ApplyDecision`
(the conditional update).  `APPROVAL_WORKFLOW_PERMISSIONS` keeps the two
permissions of an action in a Python set and the router unpacks it as a pair:
which one the requester needs depends on the iteration order of the process, so
either permission may open either door (`MayRequest`, `MayDecide`).  A request
can never be CANCELLED: the requester is refused before the branch that would
cancel it.

A shipment call is `Load`, `Check` (the vehicle's status, the approval) and one
of `AssignVehicle`, `AssignRoute`, `ConfirmDelivery`, `UpdateStatus`.  The writes
of a call take their row locks in the same order in every handler and hold them
until the commit, so they are one step; a call may be abandoned before it, which
covers every refusal and every failure.  `POST /location` is left out: it reads
`s["route_geom"]`, which its query does not select, and the exception rolls back
all it did (`shipments/router.py:258`; the test at
`backend/tests/test_logistics_integration.py:146` expects 200).

### Requests, Alerts and Dispatch

A request is `Begin` (read and check) and a step that writes and ends; between
the two it holds no lock, and `CallDies` covers refusals and failures.

`Alerts`: `dangerous` is the outside world; the assessment cycle takes some of the
dangerous keys when it starts (`assessed`), inserts one alert per key without
an open alert (`CreateForKey`) and commits all of them together.  It takes *some*,
because it looks at the first 50 segments by id (`workers/runner.py:88`,
`intel/service.py:83-85`), always the same ones while their predictions stay, and
skips rows whose assessment raises (`intel/service.py:253-256`).  Meeting a key
that has an open alert ends the cycle with nothing (`RefreshFails`), because the
refresh calls `format` on a statement object (`alerts/service.py:291`).  The
order of the keys is left open, so a cycle may get some inserts done and then
lose them.  The escalation sweep is not an action: its staleness query
(`alerts/service.py:163`) is refused by PostgreSQL, so it changes nothing, and
the status ESCALATED does not occur.  `POST /alerts` creates alerts without a
key, which nothing modelled relates to anything.  The insert of `create_alert`
names its column `current_role` without the quotes the reserved word needs
(section 6); it is modelled as if it had them, since without them there is no
alert to speak of.

`Dispatch`: the reports are those whose severity calls for a dispatch; `Located`
are the ones with a position, without which a report is validated and not
dispatched.  `DecideReport` is the whole of `validate_report` after its check, with
`dispatch_for_report` in it: the nearest responder gets a task, or the report is
`uncovered` (an alert says so), or it is `undispatched`: the handler of
`dispatch_for_report` has caught an exception, before or after the row was
written, and the audit row says "dispatch_failed" while the validation stands.
When what it caught is an SQL error, the transaction is aborted, the audit row
that follows fails with it and the whole call dies (`CallDies`).
`overdue` is set by `AckTimeout` and reset by every change of status and by a reassignment,
which restarts the window.  The sweep selects (`SelectOverdue`, at most
`SweepLimit` rows in no order) and handles all selected tasks in one commit, by
their ids alone.  `InDistrict` are the reports with a `district_code`: for the
others the sweep tells nobody (`responders/service.py:245`).

## 3. What the runs check

| Run (`.cfg`) | Question | Outcome |
|---|---|---|
| `push` (`MCSyncPush`) | two concurrent requests, every fault, replies before the commits, a policy that lacks a class: one report per op, final verdicts, no report ahead of the committed log, only a rollback parts ACCEPTED from its report, no circular wait for keys; refinement of `OpLedger` | holds |
| `offline_sync` (`MCOfflineSync`) | whole loop with failing ops, deaths at any point, a timeout or a crash, overlapping retries, a photo, rejected pings and a stricter server policy: what the device forgets, the server has answered for, and has unless it was rejected or rolled back; SYNCED is backed by the log or by a request that has answered; refinement of `ReportDelivery`; every pending op is settled once the link stays good | holds |
| `queue` (`MCSyncQueue`) | queue and table under kills, failing loads and saves, and callers that do not wait for the load; refinement of `DurableQueue`; an enqueue completes or throws | holds |
| `shipments` (`MCShipments`) | two concurrent calls and two racing decisions: two-person rule, final decisions, deliveries from the road | holds |
| `token_storage` (`MCTokenStorage`) | four back ends, failing calls, torn files, kills: no newer access token beside an older refresh token; reported saves are whole | holds |
| `reconnection` (`MCReconnection`) | overlapping connects, timers, sign-in and sign-out: never stranded, never a stream without a heartbeat, a lost stream comes back | holds |
| `alerts` (`MCAlerts`) | officers against the cycle: one unresolved alert per condition | holds |
| `dispatch` (`MCDispatch`) | two validators or responders against the sweep, dispatches that fail: validation and dispatch stand or fall together, acknowledgement comes first, overdue tasks are handled | holds |
| `sql_error_in_batch` (`MCSqlErrorInBatch`) | ACCEPTED is stored, when an op fails in SQL | violated |
| `rejected_op_lost` (`MCRejectedOpLost`) | no silent loss, when an op is rejected | violated |
| `vehicle_on_two_shipments` (`MCSharedVehicle`) | a vehicle is on one shipment | violated |
| `district_never_notified` (`MCDistrictNotNotified`) | an unanswered task ends up with the district | violated |

Each property of a passing run has a mutant: an operator next to the real one,
marked `Mutant` and used by nothing, that changes it as a plausible bug would
(an upsert instead of a plain insert, a forgotten save, a dropped condition, a
swapped order).  With the mutant in place TLC finds the property violated, so
the property does say something about the code.

No property promises an alert for a danger.  A cycle that meets an open alert first
loses its inserts for every other key, the code gives no order in which this could
not go on for ever, and a danger beyond the first 50 segments is not looked at.
`OverdueIsHandled` holds up to the sweep's limit: tasks that cannot be reassigned
stay overdue, and more of them than `limit 50` could keep a sweep from ever
reaching another one.

## 4. Bounds and fairness

* **Ops: 2, requests: 2.**  The hazards are about two requests that carry the
  same op and about an op that spoils its neighbour in the batch; both need two
  of each and no more.  Two slots are also what one device can occupy with one
  push it has given up on and one it waits for.
* **Batch limits** are scaled from 5..100 ops to 1..2, so that batches are full
  and an op is left behind.
* **`MaxSwitches` 2, `MaxGiveUps` 1**: a weak link that becomes a good one, so that
  what was deferred is sent, or a link that goes again; one timeout or crash leaves
  a request running under the retry.  Dying requests, which the device is told of,
  are not bounded and allow any number of retries.
* **`OpFaults` {"app"} in `offline_sync`**: to the device, an SQL error is one more
  rejection and one more rollback behind an answer, which a request that dies
  shows as well; `push` has both faults and the theorems all of them.
* **Connectivity classes**: `push` has all that behave differently (GOOD stands
  for EXCELLENT as well), `offline_sync` GOOD, WEAK and OFFLINE: WEAK defers what
  the device, which does not ask for photos, sends there.
* **Queue: 2 ops, `MaxRequests` 3**: a save in progress with two behind it, while
  the load is outstanding; kills and failures are not bounded.
* **Shipments: 2 shipments (one critical), 1 vehicle, 2 calls, 2 officers, 1
  approval request, 2 decisions**: every pair of calls races; officers, calls
  and decisions are interchangeable, which the symmetry set uses (no liveness is
  checked under symmetry).  `MCSharedVehicle` needs a third shipment and a single
  call at a time.
* **Tokens: `MaxLogins` 3, `MaxKills` 2**: a login over the remains of an
  interrupted one over those of a complete one.  The marker and the email need
  no more.
* **Reconnection: 2 connects, 3 transports, 2 sign-ins**: a connect that
  overlaps another one while the transport of a third still streams; a sign-out
  between two sign-ins.
* **Alerts: 2 keys, 2 calls, 3 alerts**: a second alert for a resolved key next
  to another key's, with two officers on the same alert.
* **Dispatch: 1 report, 2 responders, 2 calls, 2 tasks, `SweepLimit` 2**: two
  validators of the report, two transitions of a task, a transition and the
  sweep.  The report has a position; the theorem covers those without.
  `MCDistrictNotNotified` needs one call and one task.
* `CHECK_DEADLOCK FALSE` is set for `MCSyncQueue` (with both ops enqueued and
  removed and nothing outstanding, the queue really is done) and for `MCDispatch`
  and `MCDistrictNotNotified` (when every report is decided, every task is finished
  and all responders exist, nothing is left to do).

Fairness covers only what runs by itself:

* `OfflineSync!Fairness`, `SyncQueue!FairSpec`: weak fairness of resumed awaits,
  the server's event loop, the database (which answers every request, with a result
  or an error), a pending error.  Asking for a flush is fair because the app
  flushes on every resume and reconnect and the officer can press the button; enqueueing, changes of connectivity, crashes and dying
  requests are not.  `PendingIsSettled` assumes what no scheduler gives: that the
  link stays good and requests stop dying at some point.
* `Reconnection!Fairness`: weak fairness of the reconnect timer and of every
  await that ends without a stream; strong fairness of `Send` and `Subscribe`,
  because a request that is repeated for ever is answered some time, though any
  single one may fail.  The heartbeat, the ends of streams and all that the user
  does are not fair.
* `Dispatch!Fairness`: strong fairness of the sweep's two steps (it is called
  again and again and does not fail every time) and weak fairness of the clock.

## 5. What is proved

TLAPS checks the following for every value of the constants: any number of ops,
requests, shipments, officers, logins, transports, keys, reports and calls.

**`SyncPushProofs`** (assumption: `PushAssumption` of `SyncPush`)

| Theorem | States | Argument |
|---|---|---|
| `PushTypeCorrect` | `[]PushTypeOK` | one step per action |
| `OneReport` | `[]OneReportPerOp` | `OnceInv` adds `RowsAreFresh`: a row held by an open transaction is not in the table and held by no other; the insert's conflict clause and the lock on the key keep it |
| `StoredLogged` | `[]StoredIsLogged` | `RowInv` adds `RowsAreLogged` (a row of an open user transaction is in the same request's open log, the committed log, or belongs to the op it is about to log) and `TableIsLogged`; the system session's commit comes first |
| `WaitsAreNotCircular` | `[]NoCircularWait` | `OrderInv` adds `TakenInOrder`: the keys a request holds belong to ops before its current one, so of any waiting requests the one furthest along waits for none; the lemma `HasGreatest` finds it in a finite set |
| `LedgerKept` | `KeepsLedger` | step simulation from `LedgerInv`, which is `OnceInv` and `RowInv`: `CommitSystem` is `Record`, `CommitUser` is `TakeEffect`, all else stutters |
| `LogWriteOnce` | `LogIsWriteOnce` | `LogInv` adds `LogsAreFresh`, the same fact for log rows |
| `AcceptedKept` | `[]AcceptedIsKept` | `KeptInv` adds `AcceptedIsCarried`: an op that a request has logged in its open transaction as ACCEPTED, or is about to, has its row in the table, in that request's open transaction, or in `undone` |

`AcceptedIsKept` is not inductive: nothing in it speaks of what is logged but not
committed.  `AcceptedIsCarried` is the missing half.  None of the seven assumes
anything of faults or of the order of reply and commits.

**`OfflineSyncProofs`** (assumptions: `PushAssumption`, `FlushAssumption`,
`SyncAssumption`)

| Theorem | States | Argument |
|---|---|---|
| `TypeCorrect` | `[]TypeOK` | `TypeInv` adds `BatchIsReady`: what the device pushes is a batch the endpoint takes |
| `ServerImplemented` | `PushSpec` | every step of the whole is a step of the server or leaves it alone, so all of `SyncPushProofs` holds here too |
| `ServerPromisesKept` | `KeepsLedger`, `[]OneReportPerOp`, `[]StoredIsLogged`, `[]AcceptedIsKept`, `[]NoCircularWait` | by `ServerImplemented` |
| `SyncedLogged` | `[]SyncedIsLogged` | `SyncInv` carries *backed* (`Backed`: in the log, underway in a binding request, or rolled back) from the verdicts in the device's hands (`AnswersAreBacked`) to the op it removes (`RemovesAnAnswer`), to the entries that are SYNCED and to those released; the lemma `BackedStays` says that no step of the server takes it back |
| `ReleasedKept` | `[]ReleasedIsKept` | a released op is backed (`SyncInv`); logged ACCEPTED, it is kept (`KeptInv`) |
| `ReportsDelivered` | `DeliversReports` | `DeliveryInv` adds that only issued ops are queued or served; then `Capture` is an enqueue, `Answer` a step that makes verdicts binding, `Store` the commit of the user session, `Fail` a rollback, `Release` the removal, and all else stutters |
| `FlushKeepsEntries` | the device's queue implements `DurableQueue`, under every fault | `EntryInv` adds `AnswersAreIssued` (so that an op enqueued in the middle of a flush is not among those it removes) and `RemovesSynced` (the second save of a verdict finds what the first one wrote) |

All of them hold under every fault and for both orders of reply and commits.  What
they except, a rejection in the log and a rollback behind an answer, is what the
counterexamples are made of: an op that fails in SQL leaves ACCEPTED without a
report (`MCSqlErrorInBatch`), one that is rejected is forgotten
(`MCRejectedOpLost`).

**`SyncQueueProofs`** (assumption: `QueueAssumption`)

| Theorem | States | Argument |
|---|---|---|
| `TypeCorrect` | `[]TypeOK` | |
| `ConfirmedOpsSurvive` | `[]ConfirmedSurvives` | `QueueInv`, part `Stays`: an op that was stored and not removed is in the table, in every outstanding save and, once the load is in or a save was made, in memory |
| `TableKeepsEntries` | `KeepsEntries` | `QueueInv`: along the table, the outstanding saves and memory (`At`) an op disappears only as SYNCED (`LeavesSynced`), does not come back (`NeverReturns`) and enters unsynced (`EntersUnsynced`), so whichever saves fail, the next one that does not is a step of `DurableQueue` |

`QueueInv` speaks of each op that was not overwritten.  Two of its parts are the
reason why the others survive: `LoadIntact` (what the load finds is not touched
between the select and the moment it is in memory, or the op is overwritten) and
`MarksHold` (a flush that was told of a mark finds it in every later save, though
enqueues are saved in between).

**`ShipmentsProofs`** (assumptions: `ApprovalAssumption`, `ShipmentAssumption`)

| Theorem | States | Argument |
|---|---|---|
| `TypeCorrect` | `[]TypeOK` | |
| `DecisionsAreFinal` | `DecisionIsFinal` | the update's own condition |
| `DeliveriesStartOnTheRoad` | `DeliveredFromTheRoad` | the one write of DELIVERED repeats its condition |
| `TwoPersons` | `[]TwoPersonRule` | `TwoPersonInv`: what a decision or a call has checked stays true until it acts, because an approved request stays approved (`ApprovedStays`) and a requester never changes (`RequesterStays`) |

**`TokenStorageProofs`** (assumptions: `LoginsAssumption`, `KillsAssumption`)

| Theorem | States | Argument |
|---|---|---|
| `TypeCorrect` | `[]TypeOK` | from `TokenInv` |
| `AccessNeverNewer` | `[]AccessNotNewer` | `Good` for each of the five maps (memory, keyring, preferences, their file, the Windows file): no token of a login to come, no access token newer than the refresh token.  It survives a write of an access token because of `OnTrack`: the plan writes the refresh token of the same login before it, or has done so already |
| `SavesAreWhole` | `[]SaveIsWhole` | `Whole`: while a save runs, each of the two tokens is fresh or lost in the store, or still in the plan; when the plan is empty both are the first |

`TokenInv` is `TypeOK`, `StoresAreGood`, `PlanInv` and `StageInv`.  The last one
carries `OnTrack` and `Whole` over the awaits inside a Windows call, from the map
it has loaded to the file it will have written.  A file that vanishes, from a
read that found it torn, only makes tokens disappear, which `Good`, `OnTrack` and
`Whole` allow.

**`ReconnectionProofs`** (assumptions: `TransportAssumption`, `SignInsAssumption`)

| Theorem | States | Argument |
|---|---|---|
| `TypeCorrect` | `[]TypeOK` | one step per action |
| `ClientNeverStranded` | `[]NeverStranded` | every way out of `connect` leaves a subscription or a timer, unless stopped |
| `SilentStreamsNoticed` | `[]SilenceIsNoticed` | `_closeTransport` drops subscription and heartbeat together |

`StreamInv` adds `SendsOnTransport` to the two: an invocation that waits for a
response has a transport, so the one that subscribes makes a subscription.

**`AlertsProofs`** (assumption: `AlertAssumption`)

| Theorem | States | Argument |
|---|---|---|
| `TypeCorrect` | `[]TypeOK` | one step per action |
| `OneAlert` | `[]OneAlertPerKey` | `AlertInv` adds `ResolvedIsStamped` (a resolved alert has its time stamp, which an acknowledgement that comes too late does not take away), `InsertsAreNew` (the open transaction inserts each key once, and only keys whose alerts were all resolved once) and `IdleIsClean` |

**`DispatchProofs`** (assumption: `DispatchAssumption`)

| Theorem | States | Argument |
|---|---|---|
| `TypeCorrect` | `[]TypeOK` | `TypeInv` adds `CallsKnowTheirTask` and `SweepKnowsItsTasks`: what a call or the sweep has in hand exists, once; that the nearest candidate exists where there is a candidate rests on the lemma `Least`, proved from the well-foundedness of inclusion between finite intervals |
| `RespondersAcknowledge` | `[]AcknowledgedFirst` | `AckInv`: a call about to write a later status has checked a task that is acknowledged, and no later write or reassignment takes that away |
| `DispatchAndDecision` | `[]DispatchFollowsDecision` | `DecisionInv` adds `CallsDecide` (a decision in progress decides, so its update never makes a report SUBMITTED again); tasks, alerts and audit lines are never deleted, and no update changes a task's report |

Only model-checked: liveness (`PendingIsSettled`, `EnqueueCompletes`,
`StreamComesBack`, `OverdueIsHandled`), since the prover handles neither fairness
nor ENABLED.  Every invariant, action property and refinement of a passing run is
a theorem.  What the violation runs refute (`AcceptedIsStored`, `NoSilentLoss`,
`NoSharedVehicle`, `UnansweredReachesDistrict`) has none.

## 6. Where code and documents disagree

The violation runs show, each with a short counterexample:

1. *SQL error in a batch* (`sync/router.py:133`): the ops before the failing one
   stay logged and answered as ACCEPTED and are rolled back.
2. *Rejected op lost* (`sync/service.py:18`): a rejected op is retried, found to
   be a DUPLICATE of its own rejection, shown as synced and removed.
3. *Vehicle on two shipments* (`shipments/service.py:56`): repeating a
   cancellation frees a vehicle that is in use.  Two concurrent assignments book
   it twice as well.
4. *District never notified* (`responders/service.py:224`): with two responders in
   range an unanswered task is passed to and fro between them for ever.

Others were met while modelling and have no run of their own:

* *Reply before commit* (`core/db.py:42`): with a FastAPI from 0.118 on the
  verdicts leave before the commits, and the device drops a report whose
  transaction may still fail (`undone` in `ReleasedIsKept` and `SyncedIsLogged`).
* *Request that dies between its two commits* (`core/db.py:50`): an ACCEPTED op
  without a report, which every retry finds to be a DUPLICATE (`undone` in
  `AcceptedIsKept`).
* *Report written offline* (`field_reports_repository.dart:81`): its status OFFLINE
  is selected by no flush.
* *Queued operations must not disappear on restart*
  (`persistent_sync_queue_storage.dart:12`): `ensureLoaded` sets its flag before it
  awaits (`sync_queue.dart:133-138`), so an operation that comes while the load is
  outstanding, or after it has failed, saves a queue without the stored entries over
  them (`overwritten`; `ConfirmedSurvives` would fail without it).
* *Position pings* of the app are always rejected (see `SyncPush` above).
* *`saveTokens`* (`secure_token_storage.dart:90`): the comment says that writing
  the access token last never leaves a newer refresh token beside the previous
  access token; that is what an interruption does leave.  The order prevents the
  opposite, a newer access token, which `AccessNotNewer` states.
* *`SseClient.stop`* is for good (`sse_client.dart:85`), and the listener calls it
  on sign-out and while a sign-in is loading (`realtime_controller.dart:24`): once
  the client exists, no later session gets a realtime stream, although the comment
  at `realtime_controller.dart:21` says "Reconnect when the authenticated session
  transitions to a valid state".  `StreamComesBack` excludes a stopped client.
* *Task transitions* (`tasks/service.py:130`) write an audit action the vocabulary
  of `audit/service.py` does not contain, raise, and roll back.
* *Refreshing an alert* (`alerts/service.py:291`) and *the staleness query*
  (`alerts/service.py:163`) fail whenever they are reached.
* *`can_acknowledge`* grants SUPER_ADMIN through a parameter that `acknowledge`
  (`alerts/service.py:107`) does not pass.
* *`current_role`*: the insert of `create_alert` (`alerts/service.py:69-79`) and the
  update of the escalation sweep (`176-179`) use the reserved word as a column
  name without quotes, which PostgreSQL refuses; the migrations needed quotes there
  (`docs/live-supabase-provisioning-plan.md:104`).  As they stand no alert is ever
  created, and a validation that wants one (any severity but the lowest) fails with
  it.  `Alerts` and `Dispatch` treat the column as quoted.
* *Assessment cycle* (`workers/runner.py:88`): it assesses 50 segments, the first
  by `segment_id` (`intel/service.py:83-85`), so a danger on a later one is never
  alerted.
* *`dispatch_for_report`* (`responders/service.py:123`) "must not fail the
  validation": an SQL error it swallows has aborted the transaction of the
  validation, which then fails at the next statement; any other exception leaves a
  VALIDATED report that nobody was sent to and no alert speaks of, only an audit
  line.
* *Two validators of one report* (`field/service.py:268`): both find it SUBMITTED;
  it is dispatched twice, or ends up REJECTED with a responder under way.
* *Reassignment by the sweep* (`responders/service.py:228`): it selects PENDING
  tasks and updates them by id alone, so a task its responder has acknowledged in
  the meantime is handed to somebody else, still ACKNOWLEDGED.
* *DELIVERED from ROUTE_ASSIGNED*: the lifecycle in the docstring and in
  `TRANSITIONS` (`shipments/service.py:3-5`, `42-47`) reaches DELIVERED from
  IN_TRANSIT only, while the confirmation (`shipments/router.py:349`) and its error
  text allow ROUTE_ASSIGNED too.  `DeliveredFromTheRoad` takes the wider reading.

## 7. Not modelled, and why

* **Clocks and retry times**: no property here depends on a duration; timeouts
  are nondeterministic.
* **Contents** of reports, notes, audit and event rows, geography: names and
  membership only.  Geographic scope and permissions appear as the possibility
  that a call is refused.
* **The database schema** is not in the repository; unique keys and conflict
  clauses are taken from the statements that rely on them.
* **Row level security**: part of that schema.
* **Tasks of the Action Center**: no transition succeeds, so there is no lifecycle.
* **Realtime bus**: queues in memory that drop events by design.
* **Authentication, notifications, GPS ingest, audit**: external services or one
  statement per call.
* **Pure computation** (risk, routing, twin, simulation, resilience metrics),
  external feeds, model training, widgets.
* **Generated and vendored code**: the JSON library, the Dart VM's header, the
  C++ half of the Windows storage plugin, CMake's compiler probes, build output
  and generated Dart files.  They make up nearly all of the repository's C, C++
  and Java; the program's own logic is Python and Dart.  Of the plugins, the back
  ends of the secure storage that the app runs on are modelled.

## 8. What is left

In this order:

1. The media phase of the flush with drafts and media rows, whose look-up key
   (`sync_controller.dart:185`) is not the key of the stored rows, and the retry
   schedule with an abstract clock.
2. The reconciler's pull: cursor pages, invalidation, what a skipped trigger
   misses.
3. Proofs: an abstract store that may lose what was not written back, which the
   four back ends of the session storage implement.
4. The realtime bus and the endpoint in front of it, from publishing before the
   commit to a client that reloads.
