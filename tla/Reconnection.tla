------------------------------ MODULE Reconnection -----------------------------
(***************************************************************************)
(* What drives the realtime client: sseClientProvider and its listener     *)
(* (lib/features/realtime/realtime_controller.dart), the reconciler and    *)
(* its coordinator (reconnection_reconciler.dart), and the session, as     *)
(* AuthController publishes it.                                            *)
(*                                                                         *)
(* Of a reconciliation only the order is kept: the upload, which may throw *)
(* and end it, the refreshes, which never do, and the resumption of the    *)
(* realtime stream.  The provider of the client is lazy: the first         *)
(* resumption creates it, and with it the listener.                        *)
(***************************************************************************)
EXTENDS SseClient

CONSTANT MaxSignIns   \* bound: sign-ins explored

ASSUME SignInsAssumption == MaxSignIns \in Nat

VARIABLES
  session,      \* "out", "loading": signIn is under way, or "in"
  signIns,      \* sign-ins so far
  offline,      \* connectivityClassProvider is OFFLINE
  reconciler,   \* "idle", or the part of reconcile() that is under way
  created       \* sseClientProvider was read

vars == <<sseVars, session, signIns, offline, reconciler, created>>

TypeOK ==
  /\ SseTypeOK
  /\ session \in {"out", "loading", "in"}
  /\ signIns \in 0 .. MaxSignIns
  /\ offline \in BOOLEAN
  /\ reconciler \in {"idle", "upload", "refresh"}
  /\ created \in BOOLEAN

Init ==
  /\ SseInit
  /\ session = "out" /\ signIns = 0
  /\ offline \in BOOLEAN
  /\ reconciler = "idle"
  /\ created = FALSE

\* Tokens are stored before signIn publishes the session and cleared before signOut
\* does, they are there while a second factor is awaited and after a restore that
\* failed: at any time a token may be there (Send) or not (NoToken).  Only while
\* somebody signs in or is signed in can a client count on one.
HasToken == session # "out"
-------------------------------------------------------------------------------
\* The listener of sseClientProvider, on every state AuthController publishes.
Hear(authenticated) ==
  IF ~created THEN UNCHANGED sseVars
  ELSE IF authenticated THEN ReconnectNow ELSE Stop

\* Mutant: a trigger during a run asks for another one.
ReconcileAgain == reconciler' = IF reconciler = "idle" THEN "upload" ELSE "again"

\* reconcile() is entered unless a run is under way.
Reconcile == reconciler' = IF reconciler = "idle" THEN "upload" ELSE reconciler

\* signIn publishes AsyncLoading first.
SignInStarts ==
  /\ session = "out" /\ signIns < MaxSignIns
  /\ session' = "loading"
  /\ signIns' = signIns + 1
  /\ Hear(FALSE)
  /\ UNCHANGED <<offline, reconciler, created>>

SignInFails ==
  /\ session = "loading"
  /\ session' = "out"
  /\ Hear(FALSE)
  /\ UNCHANGED <<signIns, offline, reconciler, created>>

\* signIn succeeds: the listener hears it, the coordinator reconciles.
SignIn ==
  /\ session = "loading"
  /\ session' = "in"
  /\ Hear(TRUE)
  /\ Reconcile
  /\ UNCHANGED <<signIns, offline, created>>

\* The cold-start restore of a stored session, before anything else.
Restore ==
  /\ session = "out" /\ signIns = 0 /\ ~created /\ MaxSignIns > 0
  /\ session' = "in"
  /\ signIns' = 1
  /\ Reconcile
  /\ UNCHANGED <<sseVars, offline, created>>

\* signOut, or expire on a 401.
SignOut ==
  /\ session = "in"
  /\ session' = "out"
  /\ Hear(FALSE)
  /\ UNCHANGED <<signIns, offline, reconciler, created>>

\* The coordinator's connectivity listener, whether signed in or not.
ConnectivityChange ==
  /\ offline' = ~offline
  /\ IF offline THEN Reconcile ELSE UNCHANGED reconciler
  /\ UNCHANGED <<sseVars, session, signIns, created>>

\* onAppResumed.
AppResumed ==
  /\ ~offline
  /\ Reconcile
  /\ UNCHANGED <<sseVars, session, signIns, offline, created>>

\* _uploadPending throws: the run ends.
UploadFails ==
  /\ reconciler = "upload"
  /\ reconciler' = "idle"
  /\ UNCHANGED <<sseVars, session, signIns, offline, created>>

UploadEnds ==
  /\ reconciler = "upload"
  /\ reconciler' = "refresh"
  /\ UNCHANGED <<sseVars, session, signIns, offline, created>>

\* _resumeRealtime, after refreshes that swallow their errors.
ResumeRealtime ==
  /\ reconciler = "refresh"
  /\ reconciler' = "idle"
  /\ created' = TRUE
  /\ ReconnectNow
  /\ UNCHANGED <<session, signIns, offline>>

\* The steps the client takes by itself.
ClientStep ==
  /\ \/ \E c \in Calls : NoToken(c) \/ Send(c) \/ Subscribe(c) \/ SendFails(c)
     \/ \E t \in Transports : Line(t) \/ StreamEnds(t)
     \/ HeartbeatFires
     \/ ReconnectFires
  /\ UNCHANGED <<session, signIns, offline, reconciler, created>>
-------------------------------------------------------------------------------
Next ==
  \/ SignInStarts \/ SignInFails \/ SignIn \/ Restore \/ SignOut
  \/ ConnectivityChange \/ AppResumed
  \/ UploadFails \/ UploadEnds \/ ResumeRealtime
  \/ ClientStep

Spec == Init /\ [][Next]_vars

Rest == UNCHANGED <<session, signIns, offline, reconciler, created>>

\* Timers fire, awaits end, and a request that is repeated for ever is answered.
Fairness ==
  /\ WF_vars(ReconnectFires /\ Rest)
  /\ \A c \in Calls :
       /\ WF_vars((NoToken(c) \/ SendFails(c)) /\ Rest)
       /\ SF_vars(HasToken /\ Send(c) /\ Rest)
       /\ SF_vars(Subscribe(c) /\ Rest)

FairSpec == Spec /\ Fairness

\* Whatever connect()s overlap, time out or lose their transport to another one,
\* a client that is neither stopped nor streaming is connecting or has its timer
\* armed (sse_client.dart, every early return of connect).
NeverStranded ==
  created /\ ~stopRequested /\ subscription = NoTransport => Connecting \/ reconnect

\* A stream nobody hears from is noticed: the heartbeat is armed as long as there
\* is a subscription (_armHeartbeat, _closeTransport).
SilenceIsNoticed == subscription # NoTransport => heartbeat

\* A stream that is lost comes back while the session lasts.
StreamComesBack ==
  created /\ subscription = NoTransport ~> subscription # NoTransport \/ stopRequested \/ session # "in"
===============================================================================
