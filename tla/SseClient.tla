------------------------------- MODULE SseClient -------------------------------
(***************************************************************************)
(* The device's realtime client, SseClient                                 *)
(* (lib/core/realtime/sse_client.dart).                                    *)
(*                                                                         *)
(* connect() awaits twice, for the token and for the response, and tests   *)
(* only once, at its start, whether there is a stream already; several     *)
(* invocations may therefore be under way, sharing the one pair            *)
(* (_client, _subscription).  Every invocation that gets a token opens a   *)
(* transport of its own.  The lengths of the back-off are left out: an     *)
(* armed timer fires some time.                                            *)
(***************************************************************************)
EXTENDS Naturals, FiniteSets

CONSTANTS
  Calls,        \* bound: invocations of connect() under way at the same time
  Transports,   \* bound: http clients in use at the same time
  NoTransport

ASSUME TransportAssumption == NoTransport \notin Transports

VARIABLES
  pc,             \* where each invocation of connect() is
  sends,          \* the transport an invocation is sending on
  transport,      \* what each http client is doing
  client,         \* _client
  subscription,   \* _subscription, by its transport
  heartbeat,      \* _heartbeatTimer is armed
  reconnect,      \* _reconnectTimer is armed
  stopRequested   \* _stopRequested

sseVars == <<pc, sends, transport, client, subscription, heartbeat, reconnect, stopRequested>>

SseTypeOK ==
  /\ pc \in [Calls -> {"idle", "token", "send"}]
  /\ sends \in [Calls -> Transports \cup {NoTransport}]
  /\ transport \in [Transports -> {"closed", "sending", "streaming", "ending"}]
  /\ client \in Transports \cup {NoTransport}
  /\ subscription \in Transports \cup {NoTransport}
  /\ heartbeat \in BOOLEAN /\ reconnect \in BOOLEAN /\ stopRequested \in BOOLEAN

SseInit ==
  /\ pc = [c \in Calls |-> "idle"]
  /\ sends = [c \in Calls |-> NoTransport]
  /\ transport = [t \in Transports |-> "closed"]
  /\ client = NoTransport /\ subscription = NoTransport
  /\ heartbeat = FALSE /\ reconnect = FALSE /\ stopRequested = FALSE

Idle(c)      == pc[c] = "idle"
Connecting   == \E c \in Calls : ~Idle(c)
IsFree(t)    == transport[t] = "closed" /\ \A c \in Calls : sends[c] # t
-------------------------------------------------------------------------------
\* _closeTransport: cancels the subscription and closes the client, which may
\* belong to different transports; others are not touched.  A stream that ends
\* because its client is closed, and not by its subscription, has still to tell.
Closing(over) ==
  transport' = [t \in Transports |->
    IF t = client /\ t \notin {subscription} \cup over /\ transport[t] = "streaming" THEN "ending"
    ELSE IF t \in {client, subscription} \cup over THEN "closed" ELSE transport[t]]
CloseTransport ==
  /\ Closing({})
  /\ client' = NoTransport /\ subscription' = NoTransport
  /\ heartbeat' = FALSE

\* Mutant: nothing is scheduled while another connect is under way.
ScheduleReconnectUnlessConnecting == reconnect' = (reconnect \/ (~stopRequested /\ ~Connecting))

\* _scheduleReconnect.
ScheduleReconnect == reconnect' = (reconnect \/ ~stopRequested)

\* connect, up to its first await, with the subscription as the caller left it.
StartConnect(hasStream) ==
  IF stopRequested \/ hasStream
  THEN UNCHANGED pc
  ELSE \E c \in Calls : Idle(c) /\ pc' = [pc EXCEPT ![c] = "token"]

\* Mutant: without a token connect gives up.
NoTokenGivesUp(c) ==
  /\ pc[c] = "token"
  /\ pc' = [pc EXCEPT ![c] = "idle"]
  /\ UNCHANGED <<sends, transport, client, subscription, heartbeat, reconnect, stopRequested>>

\* connect: there is no token.
NoToken(c) ==
  /\ pc[c] = "token"
  /\ pc' = [pc EXCEPT ![c] = "idle"]
  /\ ScheduleReconnect
  /\ UNCHANGED <<sends, transport, client, subscription, heartbeat, stopRequested>>

\* connect: the token is there; a client is opened over whatever _client was.
Send(c) ==
  /\ pc[c] = "token"
  /\ \E t \in Transports :
       /\ IsFree(t)
       /\ pc' = [pc EXCEPT ![c] = "send"]
       /\ sends' = [sends EXCEPT ![c] = t]
       /\ transport' = [transport EXCEPT ![t] = "sending"]
       /\ client' = t
  /\ UNCHANGED <<subscription, heartbeat, reconnect, stopRequested>>

EndCall(c) == pc' = [pc EXCEPT ![c] = "idle"] /\ sends' = [sends EXCEPT ![c] = NoTransport]

\* Mutant: only lines arm the heartbeat.
SubscribeUnguarded(c) ==
  /\ pc[c] = "send" /\ transport[sends[c]] = "sending"
  /\ EndCall(c)
  /\ transport' = [transport EXCEPT ![sends[c]] = "streaming"]
  /\ subscription' = sends[c]
  /\ UNCHANGED <<client, heartbeat, reconnect, stopRequested>>

\* connect: 200.  The heartbeat is armed and the stream becomes the subscription.
Subscribe(c) ==
  /\ pc[c] = "send" /\ transport[sends[c]] = "sending"
  /\ EndCall(c)
  /\ transport' = [transport EXCEPT ![sends[c]] = "streaming"]
  /\ heartbeat' = TRUE
  /\ subscription' = sends[c]
  /\ UNCHANGED <<client, reconnect, stopRequested>>

\* connect: another status, a network error, or the client was closed meanwhile.
SendFails(c) ==
  /\ pc[c] = "send"
  /\ EndCall(c)
  /\ Closing({sends[c]})
  /\ client' = NoTransport /\ subscription' = NoTransport /\ heartbeat' = FALSE
  /\ ScheduleReconnect
  /\ UNCHANGED stopRequested

\* A stream that still has its listener, be it the subscription or not.
HasListener(t) == transport[t] \in {"streaming", "ending"}

\* _onLine, of any stream.
Line(t) ==
  /\ HasListener(t)
  /\ heartbeat' = TRUE
  /\ UNCHANGED <<pc, sends, transport, client, subscription, reconnect, stopRequested>>

\* onDone, onError of any stream.
StreamEnds(t) ==
  /\ HasListener(t)
  /\ Closing({t})
  /\ client' = NoTransport /\ subscription' = NoTransport /\ heartbeat' = FALSE
  /\ ScheduleReconnect
  /\ UNCHANGED <<pc, sends, stopRequested>>

\* Nothing was heard for heartbeatTimeout.
HeartbeatFires ==
  /\ heartbeat
  /\ CloseTransport
  /\ ScheduleReconnect
  /\ UNCHANGED <<pc, sends, stopRequested>>

\* The reconnect timer calls connect.
ReconnectFires ==
  /\ reconnect
  /\ reconnect' = FALSE
  /\ StartConnect(subscription # NoTransport)
  /\ UNCHANGED <<sends, transport, client, subscription, heartbeat, stopRequested>>

\* reconnectNow: the armed timer is left armed.
ReconnectNow ==
  /\ CloseTransport
  /\ StartConnect(FALSE)
  /\ UNCHANGED <<sends, reconnect, stopRequested>>

\* stop: for good; invocations of connect() under way go on.
Stop ==
  /\ stopRequested' = TRUE
  /\ CloseTransport
  /\ UNCHANGED <<pc, sends, reconnect>>
===============================================================================
