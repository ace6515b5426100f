--------------------------- MODULE MqttConnection ---------------------------
(***************************************************************************)
(* The connection of an MQTT transport to its broker                        *)
(* (hardware/zendure/cloud_mqtt.py, ZendureCloudMqttTransport; the Local    *)
(* transport inherits it) with the Paho session it uses in production.      *)
(*                                                                         *)
(* Three kinds of threads meet here.  Paho's network loop of a session      *)
(* reconnects on its own and reports connects, refusals and disconnects;    *)
(* worker threads dial, subscribe and close; both only append to the        *)
(* callback queue of the event loop (call_soon_threadsafe), which runs the  *)
(* handlers and resumes the start, reconnect and connect tasks in order.    *)
(*                                                                         *)
(* Sessions are numbered as they are opened.  Link failures, refusals and   *)
(* lost SUBACKs are bounded by MaxTrouble: afterwards the broker behaves.   *)
(* A wait with a timeout may end at any time.                               *)
(***************************************************************************)
EXTENDS Integers, Sequences, SequencesExt, FiniteSets

CONSTANTS MaxSessions,  \* bound on the sessions ever opened
          MaxTrouble,   \* bound on what goes wrong on the network
          Refusals,     \* the broker may refuse a connect (CONNACK # 0)
          Local         \* the Local transport, which keeps its own adapter

ASSUME SessionsAssumption == MaxSessions \in Nat \ {0}
ASSUME TroubleAssumption == MaxTrouble \in Nat
ASSUME RefusalsAssumption == Refusals \in BOOLEAN
ASSUME LocalAssumption == Local \in BOOLEAN

Sessions == 1..MaxSessions
NoSession == 0

VARIABLES state,       \* _state
          stopping,    \* _stopping
          connected,   \* the event _connected is set
          failure,     \* _connect_failure is set
          session,     \* _session, NoSession when None
          opened,      \* _session_number
          net,         \* session -> its network loop and link
          dialing,     \* sessions whose connect() runs in a thread
          closing,     \* <<session, task>> whose disconnect() runs in a thread
          requested,   \* sessions that sent getAll over their present link
          connector,   \* _connect_task: _complete_connection
          reconnector, \* _reconnect_task: _reconnect
          starter,     \* the caller of async_start
          adapter,     \* the session the command adapter publishes on
          callbacks,   \* callbacks the event loop has still to run
          trouble      \* what went wrong so far

taskVars == <<connector, reconnector, starter>>
threads == <<net, dialing, closing>>
flags == <<stopping, failure, opened, adapter>>
mqttVars == <<state, flags, connected, session, threads, requested, taskVars,
              callbacks, trouble>>

\* A session is open from loop_start to loop_stop; its link is down or up
Open(s) == net[s] \in {"down", "up"}

MqttInit ==
  /\ state = "disconnected"
  /\ stopping = FALSE /\ connected = FALSE /\ failure = FALSE
  /\ session = NoSession /\ opened = 0 /\ adapter = NoSession
  /\ net = [s \in Sessions |-> "new"] /\ dialing = {} /\ closing = {}
  /\ requested = {}
  /\ connector = [phase |-> "none", session |-> NoSession]
  /\ reconnector = "none" /\ starter = "none"
  /\ callbacks = <<>> /\ trouble = 0

Trouble == trouble < MaxTrouble /\ trouble' = trouble + 1

(***************************************************************************)
(* Paho's network loop and the worker threads                              *)
(***************************************************************************)
Dialed(s) ==
  /\ s \in dialing
  /\ dialing' = dialing \ {s}
  /\ net' = [net EXCEPT ![s] = "down"]
  /\ callbacks' = Append(callbacks, <<"opened", s>>)
  /\ UNCHANGED <<state, flags, connected, session, closing, requested, taskVars, trouble>>

LinkUp(s) ==
  /\ net[s] = "down"
  /\ net' = [net EXCEPT ![s] = "up"]
  /\ callbacks' = Append(callbacks, <<"connect", s>>)
  /\ UNCHANGED <<state, flags, connected, session, dialing, closing, requested,
                 taskVars, trouble>>

\* Paho reports the refused CONNACK, then the end of that connection
Refused(s) ==
  /\ Refusals /\ Trouble
  /\ net[s] = "down"
  /\ callbacks' = callbacks \o <<<<"refused", s>>, <<"disconnect", s>>>>
  /\ UNCHANGED <<state, flags, connected, session, threads, requested, taskVars>>

LinkDown(s) ==
  /\ Trouble
  /\ net[s] = "up"
  /\ net' = [net EXCEPT ![s] = "down"]
  /\ requested' = requested \ {s}
  /\ callbacks' = Append(callbacks, <<"disconnect", s>>)
  /\ UNCHANGED <<state, flags, connected, session, dialing, closing, taskVars>>

\* disconnect() and loop_stop(): the callback of a link that was up comes first
Closed(s, by) ==
  /\ <<s, by>> \in closing
  /\ closing' = closing \ {<<s, by>>}
  /\ net' = [net EXCEPT ![s] = "closed"]
  /\ requested' = requested \ {s}
  /\ callbacks' = IF net[s] = "up" THEN callbacks \o <<<<"disconnect", s>>, <<"closed", by>>>>
                               ELSE Append(callbacks, <<"closed", by>>)
  /\ UNCHANGED <<state, flags, connected, session, dialing, taskVars, trouble>>

\* subscribe() returns once the broker acknowledged, or raises: at once when
\* the link is down, after the SUBACK timeout when the answer is lost
Subscribing == connector.phase \in {"wildcard", "fallback"}

Subscribed(ok) ==
  /\ Subscribing
  /\ IF net[connector.session] = "up"
     THEN (ok /\ UNCHANGED trouble) \/ (~ok /\ Trouble)
     ELSE ~ok /\ UNCHANGED trouble
  /\ connector' = [connector EXCEPT !.phase =
                     IF @ = "wildcard" THEN "answered" ELSE "answered again"]
  /\ callbacks' = Append(callbacks, <<"subscribed", ok>>)
  /\ UNCHANGED <<state, flags, connected, session, threads, requested,
                 reconnector, starter>>

(***************************************************************************)
(* The event loop: one callback at a time, in order                        *)
(***************************************************************************)
Callback(kind) == callbacks # <<>> /\ Head(callbacks)[1] = kind /\ callbacks' = Tail(callbacks)

\* _connected.set() wakes whoever waits for it
Wake(phase) == IF phase = "waiting" THEN "woken" ELSE phase

SetConnected == /\ connected' = TRUE
                /\ starter' = Wake(starter) /\ reconnector' = Wake(reconnector)

\* _schedule_reconnect
ScheduleReconnect ==
  IF reconnector = "none"
  THEN state' = "reconnecting" /\ reconnector' = "sleeping"
  ELSE UNCHANGED <<state, reconnector>>

\* _handle_connect; the task it creates checks the session once more
HandleConnect ==
  /\ Callback("connect")
  /\ connector' = IF stopping \/ session = NoSession \/ connector.phase # "none"
                  THEN connector
                  ELSE [phase |-> "wildcard", session |-> session]
  /\ UNCHANGED <<state, flags, connected, session, threads, requested,
                 reconnector, starter, trouble>>

HandleRefused ==
  /\ Callback("refused")
  /\ IF stopping THEN UNCHANGED <<state, reconnector>> ELSE ScheduleReconnect
  /\ UNCHANGED <<flags, connected, session, threads, requested, connector,
                 starter, trouble>>

\* defect: a disconnect reported after the stop starts a reconnect
HandleDisconnectStopped ==
  /\ Callback("disconnect")
  /\ connected' = FALSE
  /\ ScheduleReconnect
  /\ UNCHANGED <<flags, session, threads, requested, connector, starter, trouble>>

\* _handle_disconnect: with a session, Paho's own loop reconnects
HandleDisconnect ==
  /\ Callback("disconnect")
  /\ connected' = FALSE
  /\ \/ stopping /\ UNCHANGED <<state, reconnector>>
     \/ ~stopping /\ session # NoSession
          /\ state' = "reconnecting" /\ UNCHANGED reconnector
     \/ ~stopping /\ session = NoSession /\ ScheduleReconnect
  /\ UNCHANGED <<flags, session, threads, requested, connector, starter, trouble>>

(***************************************************************************)
(* _complete_connection after its await: on to the device topics, to the    *)
(* failure, or to getAll and CONNECTED                                      *)
(***************************************************************************)
NoConnector == [phase |-> "none", session |-> NoSession]

\* a Local transport asked for its device topics at first
FallBack ==
  /\ Callback("subscribed")
  /\ ~Local /\ connector.phase = "answered" /\ ~Head(callbacks)[2]
  /\ connector' = [connector EXCEPT !.phase = "fallback"]
  /\ UNCHANGED <<state, flags, connected, session, threads, requested,
                 reconnector, starter, trouble>>

\* the SUBACK of the device topics is missing, or getAll cannot be published
CompleteFails ==
  /\ Callback("subscribed")
  /\ \/ /\ connector.phase = (IF Local THEN "answered" ELSE "answered again")
        /\ ~Head(callbacks)[2]
     \/ /\ connector.phase # "none" /\ Head(callbacks)[2]
        /\ net[connector.session] # "up"
  /\ connector' = NoConnector
  /\ failure' = TRUE /\ SetConnected
  /\ UNCHANGED <<state, stopping, opened, adapter, session, threads, requested,
                 trouble>>

Complete ==
  /\ Callback("subscribed")
  /\ connector.phase # "none" /\ Head(callbacks)[2]
  /\ net[connector.session] = "up"
  /\ requested' = requested \cup {connector.session}
  /\ connector' = NoConnector
  /\ IF stopping \/ connector.session # session
     THEN UNCHANGED <<state, connected, starter, reconnector>>
     ELSE state' = "connected" /\ SetConnected
  /\ UNCHANGED <<flags, session, threads, trouble>>

\* callbacks of tasks that were cancelled meanwhile
Lapse ==
  /\ \/ Callback("subscribed") /\ connector.phase = "none"
     \/ Callback("opened") /\ starter # "opening" /\ reconnector # "opening"
     \/ Callback("closed") /\ Head(callbacks)[2] = "reconnect" /\ reconnector # "closing"
  /\ UNCHANGED <<state, flags, connected, session, threads, requested, taskVars, trouble>>

(***************************************************************************)
(* async_start                                                             *)
(***************************************************************************)

\* _open_session (opened < MaxSessions bounds it); _command_adapter is dropped,
\* the Local transport's _local_adapter is not
OpenSession ==
  /\ opened < MaxSessions
  /\ opened' = opened + 1 /\ session' = opened + 1
  /\ dialing' = dialing \cup {opened + 1}
  /\ adapter' = IF Local THEN adapter ELSE NoSession

\* The runtime starts a transport it has just made, once
Start ==
  /\ state = "disconnected" /\ ~stopping
  /\ state' = "connecting" /\ connected' = FALSE /\ failure' = FALSE
  /\ starter' = "opening"
  /\ OpenSession
  /\ UNCHANGED <<stopping, net, closing, requested, connector, reconnector,
                 callbacks, trouble>>

AfterOpen == IF connected THEN "woken" ELSE "waiting"

Opened ==
  /\ Callback("opened")
  /\ \/ starter = "opening" /\ starter' = AfterOpen /\ UNCHANGED reconnector
     \/ starter # "opening" /\ reconnector = "opening"
          /\ reconnector' = AfterOpen /\ UNCHANGED starter
  /\ UNCHANGED <<state, flags, connected, session, threads, requested, connector,
                 trouble>>

StartReturns ==
  /\ starter = "woken" /\ ~failure
  /\ starter' = "done"
  /\ UNCHANGED <<state, flags, connected, session, threads, requested, connector,
                 reconnector, callbacks, trouble>>

(***************************************************************************)
(* async_stop: tasks are cancelled, then the session is closed in a thread  *)
(***************************************************************************)
StopTasks(how) ==
  /\ stopping' = TRUE
  /\ reconnector' = "none" /\ connector' = NoConnector
  /\ starter' = IF starter \in {"none", "done"} THEN starter ELSE how
  /\ session' = NoSession
  /\ IF session = NoSession
     THEN connected' = FALSE /\ state' = "stopped" /\ UNCHANGED closing
     ELSE closing' = closing \cup {<<session, "stop">>} /\ UNCHANGED <<connected, state>>
  /\ UNCHANGED <<failure, opened, adapter, net, dialing, requested, callbacks>>

StartFails == starter = "woken" /\ failure /\ StopTasks("failed") /\ UNCHANGED trouble

StartTimesOut == starter = "waiting" /\ StopTasks("failed") /\ UNCHANGED trouble

\* The runtime stops: it cancels its task, which may await async_start
Stop == ~stopping /\ state # "disconnected" /\ StopTasks("cancelled") /\ UNCHANGED trouble

Stopped ==
  /\ Callback("closed") /\ Head(callbacks)[2] = "stop"
  /\ connected' = FALSE /\ state' = "stopped"
  /\ UNCHANGED <<flags, session, threads, requested, taskVars, trouble>>

(***************************************************************************)
(* _reconnect                                                              *)
(***************************************************************************)
\* defect: the replacement is opened next to the old session
ReconnectBeside ==
  /\ reconnector = "sleeping"
  /\ connected' = FALSE /\ failure' = FALSE
  /\ OpenSession /\ reconnector' = "opening"
  /\ UNCHANGED <<closing, state, stopping, net, requested, connector, starter,
                 callbacks, trouble>>

Reconnect ==
  /\ reconnector = "sleeping"
  /\ connected' = FALSE /\ failure' = FALSE
  /\ IF session = NoSession
     THEN OpenSession /\ reconnector' = "opening" /\ UNCHANGED closing
     ELSE /\ session' = NoSession
          /\ closing' = closing \cup {<<session, "reconnect">>}
          /\ reconnector' = "closing"
          /\ UNCHANGED <<opened, dialing, adapter>>
  /\ UNCHANGED <<state, stopping, net, requested, connector, starter, callbacks, trouble>>

Replace ==
  /\ Callback("closed") /\ Head(callbacks)[2] = "reconnect" /\ reconnector = "closing"
  /\ OpenSession
  /\ reconnector' = "opening"
  /\ UNCHANGED <<state, stopping, connected, failure, net, closing, requested,
                 connector, starter, trouble>>

ReconnectReturns ==
  /\ reconnector = "woken"
  /\ reconnector' = IF failure THEN "sleeping" ELSE "none"
  /\ UNCHANGED <<state, flags, connected, session, threads, requested, connector,
                 starter, callbacks, trouble>>

ReconnectTimesOut ==
  /\ reconnector = "waiting"
  /\ reconnector' = "sleeping"
  /\ UNCHANGED <<state, flags, connected, session, threads, requested, connector,
                 starter, callbacks, trouble>>

(***************************************************************************)
(* async_execute_authorized: the adapter is made for the first command      *)
(***************************************************************************)
Command ==
  /\ state = "connected" /\ session # NoSession
  /\ adapter' = IF adapter = NoSession THEN session ELSE adapter
  /\ UNCHANGED <<state, stopping, failure, opened, connected, session, threads,
                 requested, taskVars, callbacks, trouble>>

Handle == \/ HandleConnect \/ HandleRefused \/ HandleDisconnect
          \/ FallBack \/ CompleteFails \/ Complete \/ Lapse
          \/ Opened \/ Replace \/ Stopped

Resume == StartReturns \/ StartFails \/ ReconnectReturns

MqttNext ==
  \/ \E s \in Sessions : Dialed(s) \/ LinkUp(s) \/ Refused(s) \/ LinkDown(s)
  \/ \E p \in closing : Closed(p[1], p[2])
  \/ \E ok \in BOOLEAN : Subscribed(ok)
  \/ Start \/ Handle \/ Resume \/ Command
  \/ StartTimesOut \/ Stop \/ Reconnect \/ ReconnectTimesOut

\* Threads end, Paho keeps reconnecting, the loop keeps turning and its timers
\* fire.  Nobody has to start or to stop, and nothing has to go wrong.
MqttSpec ==
  /\ MqttInit /\ [][MqttNext]_mqttVars
  /\ \A s \in Sessions : WF_mqttVars(Dialed(s)) /\ WF_mqttVars(LinkUp(s))
  /\ \A s \in Sessions, by \in {"stop", "reconnect"} : WF_mqttVars(Closed(s, by))
  /\ WF_mqttVars(\E ok \in BOOLEAN : Subscribed(ok))
  /\ WF_mqttVars(Handle) /\ WF_mqttVars(StartReturns) /\ WF_mqttVars(StartFails)
  /\ WF_mqttVars(ReconnectReturns) /\ WF_mqttVars(StartTimesOut)
  /\ WF_mqttVars(Reconnect) /\ WF_mqttVars(ReconnectTimesOut)

(***************************************************************************)
(* Properties                                                              *)
(***************************************************************************)
MqttTypeOK ==
  /\ state \in {"disconnected", "connecting", "connected", "reconnecting", "stopped"}
  /\ stopping \in BOOLEAN /\ connected \in BOOLEAN /\ failure \in BOOLEAN
  /\ session \in 0..opened /\ opened \in 0..MaxSessions /\ adapter \in 0..opened
  /\ net \in [Sessions -> {"new", "down", "up", "closed"}]
  /\ dialing \subseteq 1..opened
  /\ closing \subseteq (1..opened) \X {"stop", "reconnect"}
  /\ requested \subseteq 1..opened
  /\ connector \in [phase : {"none", "wildcard", "answered", "fallback",
                             "answered again"}, session : 0..opened]
  /\ connector.phase = "none" <=> connector.session = NoSession
  /\ reconnector \in {"none", "sleeping", "closing", "opening", "waiting", "woken"}
  /\ starter \in {"none", "opening", "waiting", "woken", "done", "failed", "cancelled"}
  /\ trouble \in 0..MaxTrouble

\* Broker connections are never multiplied (cloud_mqtt.py:542): until it is
\* stopped a transport has no two sessions with a running network loop, though
\* sessions are replaced while their threads and callbacks are still at work.
OneSession ==
  ~stopping => \A s, t \in Sessions : Open(s) /\ Open(t) => s = t

\* A stopped transport stays stopped, whatever callbacks of its sessions are still
\* queued or arrive later (the guards on _stopping).
StoppedForGood == [][state = "stopped" => state' = "stopped"]_mqttVars

\* "Wait for broker SUBACKs before treating Cloud MQTT as ready"
\* (cloud_mqtt.py:478), and getAll is requested on every connect: a transport
\* that is CONNECTED has a session whose present link was subscribed and sent
\* getAll, or the loop is about to learn that the link was lost.
ConnectedIsCurrent ==
  state = "connected" /\ ~stopping /\ session # NoSession =>
    \/ session \in requested
    \/ \E i \in DOMAIN callbacks : callbacks[i] = <<"disconnect", session>>

\* The same for the first session: refused connects, lost links and lost SUBACKs
\* never make it CONNECTED too early; only its replacement can.
FirstSessionReady ==
  opened = 1 /\ reconnector \in {"none", "sleeping"} => ConnectedIsCurrent

\* "The adapter publishes to the exact discovered product/device function/invoke
\* topic" (zendure-local-mqtt-v5.0.0.md:57): once a replaced session is subscribed
\* and ready, commands are published on it and not on the session it replaced.
CommandsReachSession ==
  state = "connected" /\ session \in requested => adapter \in {NoSession, session}

\* Sessions are replaced and never multiplied; commands follow the replacement;
\* and the first session is CONNECTED only when subscribed.
SessionsSound ==
  MqttTypeOK /\ OneSession /\ FirstSessionReady /\ CommandsReachSession

\* A stop ends, whatever the tasks and threads it interrupts were at.
StopCompletes == []<>(stopping => state = "stopped")

\* "Paho's network loop already owns reconnection for this session"
\* (cloud_mqtt.py:542): once the broker behaves the transport is connected again,
\* unless the subscription of a reconnected session failed and left its
\* _connect_failure to nobody (or MaxSessions forbids one more session).
Reconnects ==
  <>[](\/ state \in {"disconnected", "connected", "stopped"}
       \/ failure \/ opened = MaxSessions)
=============================================================================
