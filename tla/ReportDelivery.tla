---------------------------- MODULE ReportDelivery ----------------------------
(***************************************************************************)
(* What offline synchronisation does for the officer                       *)
(* (docs/offline-strategy.md), with no word of requests, replies, retries  *)
(* or crashes: a captured report stays on the device until the server has  *)
(* answered for it, and the server stores it at most once.  An answer is a *)
(* promise that may fail: then the report is in `failed', and nothing else *)
(* loses one.                                                              *)
(***************************************************************************)
CONSTANT Reports
VARIABLES
  outbox,    \* on the device
  landing,   \* answered for, not stored yet
  stored,    \* on the server
  failed     \* answered for or refused, and not stored

deliveryVars == <<outbox, landing, stored, failed>>

DeliveryInit == outbox = {} /\ landing = {} /\ stored = {} /\ failed = {}

\* Capture a new report on the device.
Capture(op) ==
  /\ op \notin outbox \cup landing \cup stored \cup failed
  /\ outbox' = outbox \cup {op}
  /\ UNCHANGED <<landing, stored, failed>>

\* The server answers for the reports of S and gives up those of T.  It starts
\* only what the device holds or what failed before, and nothing twice.
Answer(S, T) ==
  /\ S \subseteq (outbox \cup failed) \ (landing \cup stored)
  /\ T \subseteq (outbox \cup failed) \ stored
  /\ landing' = landing \cup S
  /\ failed' = failed \cup T
  /\ UNCHANGED <<outbox, stored>>

\* One commit stores what it has answered for.
Store(S) ==
  /\ S \subseteq landing
  /\ landing' = landing \ S
  /\ stored' = stored \cup S
  /\ failed' = failed \ S
  /\ UNCHANGED outbox

\* What was answered for is rolled back.
Fail(S) ==
  /\ S \subseteq landing
  /\ landing' = landing \ S
  /\ failed' = failed \cup S
  /\ UNCHANGED <<outbox, stored>>

\* The device lets go of a report the server has answered for.
Release(op) ==
  /\ op \in outbox \cap (landing \cup stored \cup failed)
  /\ outbox' = outbox \ {op}
  /\ UNCHANGED <<landing, stored, failed>>

DeliveryNext ==
  \/ \E op \in Reports : Capture(op) \/ Release(op)
  \/ \E S, T \in SUBSET Reports : Answer(S, T)
  \/ \E S \in SUBSET Reports : Store(S) \/ Fail(S)

DeliverySpec == DeliveryInit /\ [][DeliveryNext]_deliveryVars
===============================================================================
