-------------------------- MODULE ReconnectionProofs ---------------------------
(***************************************************************************)
(* Proofs about Reconnection for any number of overlapping connect()s, of  *)
(* transports and of sign-ins.                                             *)
(***************************************************************************)
EXTENDS Reconnection, TLAPS

\* Steps of the client that other actions are made of.
LEMMA ConnectType ==
  ASSUME SseTypeOK, NEW hasStream, StartConnect(hasStream)
  PROVE  pc' \in [Calls -> {"idle", "token", "send"}]
BY DEF StartConnect, SseTypeOK

LEMMA ClosingType ==
  ASSUME SseTypeOK, NEW over, Closing(over)
  PROVE  transport' \in [Transports -> {"closed", "sending", "streaming", "ending"}]
BY DEF Closing, SseTypeOK

LEMMA CloseTransportType ==
  ASSUME SseTypeOK, CloseTransport
  PROVE  /\ transport' \in [Transports -> {"closed", "sending", "streaming", "ending"}]
         /\ client' = NoTransport /\ subscription' = NoTransport /\ heartbeat' = FALSE
BY ClosingType DEF CloseTransport

LEMMA EndCallType ==
  ASSUME SseTypeOK, NEW c \in Calls, EndCall(c)
  PROVE  /\ pc' \in [Calls -> {"idle", "token", "send"}]
         /\ sends' \in [Calls -> Transports \cup {NoTransport}]
BY DEF EndCall, SseTypeOK

LEMMA ScheduleType ==
  ASSUME SseTypeOK, ScheduleReconnect
  PROVE  reconnect' \in BOOLEAN
BY DEF ScheduleReconnect, SseTypeOK

LEMMA ReconnectNowType ==
  ASSUME SseTypeOK, ReconnectNow
  PROVE  SseTypeOK'
<1>1. pc' \in [Calls -> {"idle", "token", "send"}]
  BY ConnectType DEF ReconnectNow
<1>2. QED
  BY <1>1, CloseTransportType DEF ReconnectNow, SseTypeOK

LEMMA StopType ==
  ASSUME SseTypeOK, Stop
  PROVE  SseTypeOK'
BY CloseTransportType DEF Stop, SseTypeOK

LEMMA HearType ==
  ASSUME SseTypeOK, NEW authenticated, Hear(authenticated)
  PROVE  SseTypeOK'
<1>1. CASE UNCHANGED sseVars
  BY <1>1 DEF sseVars, SseTypeOK
<1>2. QED
  BY <1>1, ReconnectNowType, StopType DEF Hear

LEMMA ReconcileType ==
  ASSUME reconciler \in {"idle", "upload", "refresh"}, Reconcile
  PROVE  reconciler' \in {"idle", "upload", "refresh"}
BY DEF Reconcile

LEMMA ClientType ==
  ASSUME SseTypeOK, ClientStep
  PROVE  SseTypeOK'
<1>1. ASSUME NEW c \in Calls, NoToken(c)
      PROVE  SseTypeOK'
  BY <1>1, ScheduleType DEF NoToken, SseTypeOK
<1>2. ASSUME NEW c \in Calls, Send(c)
      PROVE  SseTypeOK'
  BY <1>2 DEF Send, SseTypeOK
<1>3. ASSUME NEW c \in Calls, Subscribe(c)
      PROVE  SseTypeOK'
  BY <1>3, EndCallType DEF Subscribe, SseTypeOK
<1>4. ASSUME NEW c \in Calls, SendFails(c)
      PROVE  SseTypeOK'
  BY <1>4, EndCallType, ClosingType, ScheduleType DEF SendFails, SseTypeOK
<1>5. ASSUME NEW t \in Transports, Line(t)
      PROVE  SseTypeOK'
  BY <1>5 DEF Line, SseTypeOK
<1>6. ASSUME NEW t \in Transports, StreamEnds(t)
      PROVE  SseTypeOK'
  BY <1>6, ClosingType, ScheduleType DEF StreamEnds, SseTypeOK
<1>7. CASE HeartbeatFires
  BY <1>7, CloseTransportType, ScheduleType DEF HeartbeatFires, SseTypeOK
<1>8. ASSUME ReconnectFires
      PROVE  SseTypeOK'
  <2>1. pc' \in [Calls -> {"idle", "token", "send"}]
    BY <1>8, ConnectType DEF ReconnectFires
  <2>2. QED
    BY <1>8, <2>1 DEF ReconnectFires, SseTypeOK
<1>9. QED
  BY <1>1, <1>2, <1>3, <1>4, <1>5, <1>6, <1>7, <1>8 DEF ClientStep

LEMMA TypeStep ==
  ASSUME TypeOK, [Next]_vars
  PROVE  TypeOK'
<1> USE DEF TypeOK
<1>1. ASSUME SignInStarts
      PROVE  TypeOK'
  <2>1. SseTypeOK'
    BY <1>1, HearType DEF SignInStarts
  <2>2. signIns' \in 0 .. MaxSignIns
    BY <1>1, SignInsAssumption DEF SignInStarts
  <2>3. QED
    BY <1>1, <2>1, <2>2 DEF SignInStarts
<1>2. CASE SignInFails
  BY <1>2, HearType DEF SignInFails
<1>3. CASE SignIn
  BY <1>3, HearType, ReconcileType DEF SignIn
<1>4. ASSUME Restore
      PROVE  TypeOK'
  <2>1. SseTypeOK'
    BY <1>4 DEF Restore, sseVars, SseTypeOK
  <2>2. QED
    BY <1>4, <2>1, ReconcileType, SignInsAssumption DEF Restore
<1>5. CASE SignOut
  BY <1>5, HearType DEF SignOut
<1>6. ASSUME UNCHANGED sseVars
      PROVE  SseTypeOK'
  BY <1>6 DEF sseVars, SseTypeOK
<1>7. CASE ConnectivityChange
  BY <1>6, <1>7, ReconcileType DEF ConnectivityChange
<1>8. CASE AppResumed
  BY <1>6, <1>8, ReconcileType DEF AppResumed
<1>9. CASE UploadFails \/ UploadEnds
  BY <1>6, <1>9 DEF UploadFails, UploadEnds
<1>10. CASE ResumeRealtime
  BY <1>10, ReconnectNowType DEF ResumeRealtime
<1>11. CASE ClientStep
  BY <1>11, ClientType DEF ClientStep
<1>12. CASE UNCHANGED vars
  BY <1>6, <1>12 DEF vars
<1>13. QED
  BY <1>1, <1>2, <1>3, <1>4, <1>5, <1>7, <1>8, <1>9, <1>10, <1>11, <1>12 DEF Next

LEMMA InitType ==
  ASSUME Init
  PROVE  TypeOK
<1>1. SseTypeOK
  BY DEF Init, SseInit, SseTypeOK
<1>2. signIns \in 0 .. MaxSignIns
  BY SignInsAssumption DEF Init
<1>3. QED
  BY <1>1, <1>2 DEF Init, TypeOK

\* Every variable of the client, the reconciler and the session keeps its type.
THEOREM TypeCorrect == Spec => []TypeOK
<1>1. Init => TypeOK
  BY InitType
<1>2. TypeOK /\ [Next]_vars => TypeOK'
  BY TypeStep
<1>3. QED
  BY <1>1, <1>2, PTL DEF Spec
-------------------------------------------------------------------------------
\* A connect() that waits for its response has a transport to wait on.
SendsOnTransport == \A c \in Calls : pc[c] = "send" => sends[c] # NoTransport

StreamInv == TypeOK /\ SendsOnTransport /\ NeverStranded /\ SilenceIsNoticed

\* A connect() that starts leaves the ones that wait for a response alone.
LEMMA ConnectStarts ==
  ASSUME SseTypeOK, NEW hasStream, StartConnect(hasStream), ~stopRequested, ~hasStream
  PROVE  \E c \in Calls : pc'[c] # "idle"
BY DEF StartConnect, SseTypeOK, Idle

LEMMA ConnectSends ==
  ASSUME SseTypeOK, SendsOnTransport, NEW hasStream, StartConnect(hasStream), UNCHANGED sends
  PROVE  SendsOnTransport'
BY DEF StartConnect, SseTypeOK, SendsOnTransport, Idle

LEMMA EndCallSends ==
  ASSUME SseTypeOK, SendsOnTransport, NEW c \in Calls, EndCall(c)
  PROVE  SendsOnTransport'
BY DEF EndCall, SseTypeOK, SendsOnTransport

\* What the three parts say after a step, the reconciler's variables put aside.
Unstranded == ~stopRequested /\ subscription = NoTransport => Connecting \/ reconnect

LEMMA ReconnectNowStream ==
  ASSUME SseTypeOK, SendsOnTransport, ReconnectNow
  PROVE  SendsOnTransport' /\ Unstranded' /\ SilenceIsNoticed'
<1>1. SendsOnTransport'
  BY ConnectSends DEF ReconnectNow
<1>2. Unstranded'
  BY ConnectStarts DEF ReconnectNow, Unstranded, Connecting, Idle
<1>3. QED
  BY <1>1, <1>2, CloseTransportType DEF ReconnectNow, SilenceIsNoticed

LEMMA StopStream ==
  ASSUME SseTypeOK, SendsOnTransport, Stop
  PROVE  SendsOnTransport' /\ Unstranded' /\ SilenceIsNoticed'
BY CloseTransportType DEF Stop, SendsOnTransport, Unstranded, SilenceIsNoticed

\* A step of the session: the listener hears it, or there is no client yet.
LEMMA HearStream ==
  ASSUME StreamInv, NEW authenticated, Hear(authenticated), UNCHANGED created
  PROVE  SendsOnTransport' /\ NeverStranded' /\ SilenceIsNoticed'
<1> USE DEF StreamInv
<1>1. SseTypeOK
  BY DEF TypeOK
<1>2. CASE ~created
  <2>1. UNCHANGED sseVars
    BY <1>2 DEF Hear
  <2>2. QED
    BY <1>2, <2>1 DEF sseVars, SendsOnTransport, NeverStranded, SilenceIsNoticed
<1>3. CASE created
  <2>1. SendsOnTransport' /\ Unstranded' /\ SilenceIsNoticed'
    BY <1>1, <1>3, ReconnectNowStream, StopStream DEF Hear
  <2>2. QED
    BY <2>1 DEF Unstranded, NeverStranded
<1>4. QED
  BY <1>2, <1>3

LEMMA ClientStream ==
  ASSUME StreamInv, ClientStep
  PROVE  SendsOnTransport' /\ NeverStranded' /\ SilenceIsNoticed'
<1>1. SseTypeOK /\ SendsOnTransport /\ SilenceIsNoticed /\ created' = created
  BY DEF StreamInv, TypeOK, ClientStep
<1>2. created => Unstranded
  BY DEF StreamInv, NeverStranded, Unstranded
<1>3. SUFFICES SendsOnTransport' /\ (created => Unstranded') /\ SilenceIsNoticed'
  BY <1>1 DEF Unstranded, NeverStranded
<1>4. ASSUME NEW c \in Calls, NoToken(c)
      PROVE  SendsOnTransport' /\ Unstranded' /\ SilenceIsNoticed'
  BY <1>1, <1>4 DEF NoToken, ScheduleReconnect, SseTypeOK, SendsOnTransport, Unstranded, SilenceIsNoticed
<1>5. ASSUME NEW c \in Calls, Send(c)
      PROVE  SendsOnTransport' /\ Unstranded' /\ SilenceIsNoticed'
  BY <1>1, <1>5, TransportAssumption
  DEF Send, SseTypeOK, SendsOnTransport, Unstranded, Connecting, Idle, SilenceIsNoticed
<1>6. ASSUME NEW c \in Calls, Subscribe(c)
      PROVE  SendsOnTransport' /\ Unstranded' /\ SilenceIsNoticed'
  <2>1. sends[c] # NoTransport
    BY <1>1, <1>6 DEF Subscribe, SendsOnTransport
  <2>2. QED
    BY <1>1, <1>6, <2>1, EndCallSends DEF Subscribe, Unstranded, SilenceIsNoticed
<1>7. ASSUME NEW c \in Calls, SendFails(c)
      PROVE  SendsOnTransport' /\ Unstranded' /\ SilenceIsNoticed'
  BY <1>1, <1>7, EndCallSends DEF SendFails, ScheduleReconnect, Unstranded, SilenceIsNoticed
<1>8. ASSUME NEW t \in Transports, Line(t)
      PROVE  SendsOnTransport' /\ (created => Unstranded') /\ SilenceIsNoticed'
  BY <1>1, <1>2, <1>8 DEF Line, SendsOnTransport, Unstranded, Connecting, Idle, SilenceIsNoticed
<1>9. ASSUME NEW t \in Transports, StreamEnds(t)
      PROVE  SendsOnTransport' /\ Unstranded' /\ SilenceIsNoticed'
  BY <1>1, <1>9 DEF StreamEnds, ScheduleReconnect, SendsOnTransport, Unstranded, SilenceIsNoticed
<1>10. ASSUME HeartbeatFires
       PROVE  SendsOnTransport' /\ Unstranded' /\ SilenceIsNoticed'
  BY <1>1, <1>10, CloseTransportType
  DEF HeartbeatFires, ScheduleReconnect, SendsOnTransport, Unstranded, SilenceIsNoticed
<1>11. ASSUME ReconnectFires
       PROVE  SendsOnTransport' /\ Unstranded' /\ SilenceIsNoticed'
  <2>1. SendsOnTransport'
    BY <1>1, <1>11, ConnectSends DEF ReconnectFires
  <2>2. Unstranded'
    BY <1>1, <1>11, ConnectStarts DEF ReconnectFires, Unstranded, Connecting, Idle
  <2>3. QED
    BY <1>1, <1>11, <2>1, <2>2 DEF ReconnectFires, SilenceIsNoticed
<1>12. QED
  BY <1>4, <1>5, <1>6, <1>7, <1>8, <1>9, <1>10, <1>11 DEF ClientStep

LEMMA StreamStep ==
  ASSUME StreamInv, [Next]_vars
  PROVE  StreamInv'
<1>1. SUFFICES SendsOnTransport' /\ NeverStranded' /\ SilenceIsNoticed'
  BY TypeStep DEF StreamInv
<1>2. CASE SignInStarts \/ SignInFails \/ SignIn \/ SignOut
  BY <1>2, HearStream DEF SignInStarts, SignInFails, SignIn, SignOut
<1>3. ASSUME UNCHANGED <<sseVars, created>>
      PROVE  SendsOnTransport' /\ NeverStranded' /\ SilenceIsNoticed'
  BY <1>3 DEF StreamInv, sseVars, SendsOnTransport, NeverStranded, Connecting, Idle, SilenceIsNoticed
<1>4. CASE Restore \/ ConnectivityChange \/ AppResumed \/ UploadFails \/ UploadEnds
  BY <1>3, <1>4 DEF Restore, ConnectivityChange, AppResumed, UploadFails, UploadEnds
<1>5. CASE ResumeRealtime
  <2>1. SendsOnTransport' /\ Unstranded' /\ SilenceIsNoticed'
    BY <1>5, ReconnectNowStream DEF ResumeRealtime, StreamInv, TypeOK
  <2>2. QED
    BY <2>1 DEF Unstranded, NeverStranded
<1>6. CASE ClientStep
  BY <1>6, ClientStream
<1>7. CASE UNCHANGED vars
  BY <1>3, <1>7 DEF vars
<1>8. QED
  BY <1>2, <1>4, <1>5, <1>6, <1>7 DEF Next

LEMMA StreamInvariant == Spec => []StreamInv
<1>1. ASSUME Init, TypeOK
      PROVE  StreamInv
  BY <1>1 DEF Init, SseInit, StreamInv, SendsOnTransport, NeverStranded, SilenceIsNoticed
<1>2. Init => TypeOK
  BY InitType
<1>3. StreamInv /\ [Next]_vars => StreamInv'
  BY StreamStep
<1>4. QED
  BY <1>1, <1>2, <1>3, PTL DEF Spec

\* No interleaving of connects, timers, sign-ins and reconciliations leaves the
\* client without a stream and without anything that will open one (connect's
\* early returns, _scheduleReconnect).
THEOREM ClientNeverStranded == Spec => []NeverStranded
<1>1. StreamInv => NeverStranded
  BY DEF StreamInv
<1>2. QED
  BY <1>1, StreamInvariant, PTL

\* Every subscription is watched by the heartbeat (_armHeartbeat).
THEOREM SilentStreamsNoticed == Spec => []SilenceIsNoticed
<1>1. StreamInv => SilenceIsNoticed
  BY DEF StreamInv
<1>2. QED
  BY <1>1, StreamInvariant, PTL
===============================================================================
