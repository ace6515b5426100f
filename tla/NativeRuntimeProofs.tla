------------------------- MODULE NativeRuntimeProofs -------------------------
(***************************************************************************)
(* The native runtime for any number of devices, tasks, requests, reports  *)
(* and sessions and any amount of trouble on the network: the connection   *)
(* of the transports (MqttConnection.tla), the write authority that the    *)
(* router hands to one of them (TransportRouter.tla), the standby writes   *)
(* that follow a target (SmartModeStandby.tla), what HEMS, the first write *)
(* test, the local polls and the intake of reports promise, and with all   *)
(* of them the safety of the whole.                                        *)
(***************************************************************************)
EXTENDS NativeRuntime, WriteLease, SequenceTheorems, FiniteSetTheorems, TLAPS

-----------------------------------------------------------------------------
(***************************************************************************)
(* The connection: sessions are replaced and never multiplied, the first one*)
(* is CONNECTED only when it is ready, commands follow the replacement, and*)
(* a stopped transport stays stopped.                                      *)
(***************************************************************************)

\* What may be queued for the event loop.
Callbacks == ({"opened", "connect", "refused", "disconnect"} \X Sessions)
               \cup ({"closed"} \X {"stop", "reconnect"})
               \cup ({"subscribed"} \X BOOLEAN)

\* MqttTypeOK in parts: the flags, the numbers, what Paho keeps, the tasks.
FlagTypes == stopping \in BOOLEAN /\ connected \in BOOLEAN /\ failure \in BOOLEAN

NumberTypes ==
  /\ opened \in 0..MaxSessions /\ session \in 0..opened /\ adapter \in 0..opened
  /\ trouble \in 0..MaxTrouble

LinkTypes ==
  /\ net \in [Sessions -> {"new", "down", "up", "closed"}]
  /\ dialing \subseteq 1..opened
  /\ closing \subseteq (1..opened) \X {"stop", "reconnect"}
  /\ requested \subseteq 1..opened
  /\ \A s \in Sessions : s > opened => net[s] = "new"

TaskTypes ==
  /\ state \in {"disconnected", "connecting", "connected", "reconnecting", "stopped"}
  /\ connector \in [phase : {"none", "wildcard", "answered", "fallback",
                             "answered again"}, session : 0..opened]
  /\ (connector.phase = "none") <=> (connector.session = NoSession)
  /\ reconnector \in {"none", "sleeping", "closing", "opening", "waiting", "woken"}
  /\ starter \in {"none", "opening", "waiting", "woken", "done", "failed", "cancelled"}

SessionTypes == NumberTypes /\ LinkTypes /\ TaskTypes /\ callbacks \in Seq(Callbacks)

LEMMA TypesAndFlags == SessionTypes /\ FlagTypes => MqttTypeOK
BY DEF SessionTypes, NumberTypes, LinkTypes, TaskTypes, FlagTypes, MqttTypeOK

LEMMA SessionTypesInit == MqttInit => SessionTypes /\ FlagTypes
<1> SUFFICES ASSUME MqttInit PROVE SessionTypes /\ FlagTypes
  OBVIOUS
<1>1. NumberTypes
  BY SessionsAssumption, TroubleAssumption DEF MqttInit, NumberTypes, NoSession
<1>2. LinkTypes /\ TaskTypes
  BY SessionsAssumption DEF MqttInit, LinkTypes, TaskTypes, NoSession, Sessions
<1>3. callbacks \in Seq(Callbacks)
  BY EmptySeq DEF MqttInit
<1>4. FlagTypes
  BY DEF MqttInit, FlagTypes
<1> QED
  BY <1>1, <1>2, <1>3, <1>4 DEF SessionTypes

LEMMA CallbackAdded ==
  ASSUME NEW q \in Seq(Callbacks)
  PROVE  /\ \A c \in Callbacks : Append(q, c) \in Seq(Callbacks)
         /\ \A c, d \in Callbacks : q \o <<c, d>> \in Seq(Callbacks)
         /\ q # <<>> => Head(q) \in Callbacks /\ Tail(q) \in Seq(Callbacks)
<1>1. \A c, d \in Callbacks : <<c, d>> \in Seq(Callbacks)
  OBVIOUS
<1> HIDE DEF Callbacks
<1>2. \A c, d \in Callbacks : q \o <<c, d>> \in Seq(Callbacks)
  BY <1>1, ConcatProperties
<1> QED
  BY <1>2

LEMMA SessionTypesStep == SessionTypes /\ [MqttNext]_mqttVars => SessionTypes'
<1> SUFFICES ASSUME SessionTypes, [MqttNext]_mqttVars PROVE SessionTypes'
  OBVIOUS
<1> USE DEF taskVars, threads, flags
<1>0. /\ callbacks # <<>> => Tail(callbacks) \in Seq(Callbacks)
      /\ callbacks # <<>> => Head(callbacks) \in Callbacks
      /\ \A c \in Callbacks : Append(callbacks, c) \in Seq(Callbacks)
      /\ \A c, d \in Callbacks : callbacks \o <<c, d>> \in Seq(Callbacks)
  BY CallbackAdded DEF SessionTypes
<1>a. NumberTypes /\ LinkTypes /\ TaskTypes
  BY DEF SessionTypes
<1>b. /\ opened \in Nat /\ MaxSessions \in Nat /\ MaxTrouble \in Nat
      /\ 1..opened \subseteq Sessions
      /\ \A s \in Sessions : s \in Nat /\ s > 0 /\ s <= MaxSessions
  BY <1>a, SessionsAssumption, TroubleAssumption DEF NumberTypes, Sessions
<1>c. ASSUME UNCHANGED <<opened, session, adapter, trouble>> PROVE NumberTypes'
  BY <1>a, <1>c DEF NumberTypes
<1>d. ASSUME UNCHANGED <<opened, net, dialing, closing, requested>> PROVE LinkTypes'
  BY <1>a, <1>d DEF LinkTypes
<1>e. ASSUME UNCHANGED <<opened, state, connector, reconnector, starter>> PROVE TaskTypes'
  BY <1>a, <1>e DEF TaskTypes
<1>f. ASSUME OpenSession, net' = net, requested' = requested,
             closing' = closing
      PROVE  /\ opened' \in 0..MaxSessions /\ session' \in 0..opened'
             /\ adapter' \in 0..opened' /\ LinkTypes' /\ 0..opened \subseteq 0..opened'
  <2>1. /\ opened' \in 0..MaxSessions /\ session' \in 0..opened'
        /\ adapter' \in 0..opened' /\ 0..opened \subseteq 0..opened'
    BY <1>a, <1>b, <1>f DEF OpenSession, NumberTypes, NoSession
  <2>2. LinkTypes'
    BY <1>a, <1>b, <1>f DEF OpenSession, LinkTypes
  <2> QED
    BY <2>1, <2>2
<1>h. /\ connector.phase # "none" => connector.session \in 0..opened /\ connector.session # NoSession
      /\ NoConnector \in [phase : {"none"}, session : 0..opened] /\ NoConnector.session = NoSession
      /\ NoConnector.phase = "none"
  <2>1. connector.session \in 0..opened
    BY <1>a DEF TaskTypes
  <2>2. connector.phase # "none" => connector.session # NoSession
    BY <1>a DEF TaskTypes
  <2>3. 0 \in 0..opened
    BY <1>b
  <2>4. /\ NoConnector \in [phase : {"none"}, session : 0..opened]
        /\ NoConnector.session = NoSession /\ NoConnector.phase = "none"
    BY <2>3 DEF NoConnector, NoSession
  <2> QED
    BY <2>1, <2>2, <2>4
<1>g. ASSUME Trouble PROVE trouble' \in 0..MaxTrouble
  BY <1>a, <1>b, <1>g DEF NumberTypes, Trouble
<1>1. ASSUME NEW s \in Sessions, Dialed(s) \/ LinkUp(s) \/ Refused(s) \/ LinkDown(s)
      PROVE  SessionTypes'
  <2>1. /\ <<"opened", s>> \in Callbacks /\ <<"connect", s>> \in Callbacks
        /\ <<"refused", s>> \in Callbacks /\ <<"disconnect", s>> \in Callbacks
    BY DEF Callbacks
  <2> HIDE DEF Callbacks
  <2>2. callbacks' \in Seq(Callbacks)
    BY <1>0, <1>1, <2>1 DEF Dialed, LinkUp, Refused, LinkDown
  <2>3. TaskTypes'
    BY <1>1, <1>e DEF Dialed, LinkUp, Refused, LinkDown
  <2>4. NumberTypes'
    BY <1>1, <1>a, <1>g DEF Dialed, LinkUp, Refused, LinkDown, NumberTypes
  <2>5. LinkTypes'
    <3>1. UNCHANGED opened /\ UNCHANGED closing
      BY <1>1 DEF Dialed, LinkUp, Refused, LinkDown
    <3>2. dialing' \subseteq dialing /\ requested' \subseteq requested
      BY <1>1 DEF Dialed, LinkUp, Refused, LinkDown
    <3>3. s \in 1..opened \/ UNCHANGED net
      BY <1>1, <1>a, <1>b DEF Dialed, LinkUp, Refused, LinkDown, LinkTypes
    <3>4. UNCHANGED net \/ net' = [net EXCEPT ![s] = "down"] \/ net' = [net EXCEPT ![s] = "up"]
      BY <1>1 DEF Dialed, LinkUp, Refused, LinkDown
    <3> QED
      BY <3>1, <3>2, <3>3, <3>4, <1>a, <1>b DEF LinkTypes
  <2> QED
    BY <2>2, <2>3, <2>4, <2>5 DEF SessionTypes
<1>2. ASSUME NEW p \in closing, Closed(p[1], p[2]) PROVE SessionTypes'
  <2>0. p[1] \in 1..opened /\ p[2] \in {"stop", "reconnect"}
    BY <1>a DEF LinkTypes
  <2>1. <<"disconnect", p[1]>> \in Callbacks /\ <<"closed", p[2]>> \in Callbacks
    BY <2>0, <1>b DEF Callbacks
  <2> HIDE DEF Callbacks
  <2>2. callbacks' \in Seq(Callbacks)
    BY <1>0, <1>2, <2>1 DEF Closed
  <2>3. LinkTypes'
    <3>1. /\ UNCHANGED <<opened, dialing>> /\ closing' \subseteq closing
          /\ requested' \subseteq requested /\ net' = [net EXCEPT ![p[1]] = "closed"]
      BY <1>2 DEF Closed
    <3> QED
      BY <3>1, <1>a, <1>b, <2>0 DEF LinkTypes
  <2> QED
    BY <1>2, <1>c, <1>e, <2>2, <2>3 DEF Closed, SessionTypes
<1>3. ASSUME NEW ok \in BOOLEAN, Subscribed(ok) PROVE SessionTypes'
  <2>1. <<"subscribed", ok>> \in Callbacks
    BY DEF Callbacks
  <2> HIDE DEF Callbacks
  <2>2. callbacks' \in Seq(Callbacks)
    BY <1>0, <1>3, <2>1 DEF Subscribed
  <2>3. Trouble \/ UNCHANGED trouble
    BY <1>3 DEF Subscribed
  <2>4. NumberTypes'
    BY <1>3, <1>a, <1>g, <2>3 DEF Subscribed, NumberTypes
  <2>5. TaskTypes'
    BY <1>3, <1>a DEF Subscribed, Subscribing, TaskTypes
  <2>6. LinkTypes'
    BY <1>3, <1>d DEF Subscribed
  <2> QED
    BY <2>2, <2>4, <2>5, <2>6 DEF SessionTypes
<1> HIDE DEF Callbacks
<1>4. ASSUME Start \/ Reconnect \/ Replace PROVE SessionTypes'
  <2>1. CASE OpenSession /\ UNCHANGED closing
    <3>1. net' = net /\ requested' = requested /\ connector' = connector /\ trouble' = trouble
      BY <1>4 DEF Start, Reconnect, Replace
    <3>2. NumberTypes' /\ LinkTypes'
      BY <1>f, <2>1, <3>1, <1>a DEF NumberTypes
    <3>3. TaskTypes'
      BY <1>4, <1>a, <1>f, <2>1, <3>1 DEF Start, Reconnect, Replace, TaskTypes
    <3>4. callbacks' \in Seq(Callbacks)
      BY <1>4, <1>0 DEF Start, Reconnect, Replace, Callback, SessionTypes
    <3> QED
      BY <3>2, <3>3, <3>4 DEF SessionTypes
  <2>2. CASE Reconnect /\ session # NoSession
    <3>1. NumberTypes'
      BY <2>2, <1>a, <1>b DEF Reconnect, NumberTypes, NoSession
    <3>2. session \in 1..opened
      BY <2>2, <1>a, <1>b DEF NumberTypes, NoSession
    <3>3. LinkTypes'
      <4>1. /\ UNCHANGED <<opened, net, dialing, requested>>
            /\ closing' = closing \cup {<<session, "reconnect">>}
        BY <2>2 DEF Reconnect
      <4> QED
        BY <4>1, <1>a, <3>2 DEF LinkTypes
    <3>4. TaskTypes'
      BY <2>2, <1>a DEF Reconnect, TaskTypes
    <3> QED
      BY <2>2, <3>1, <3>3, <3>4 DEF SessionTypes, Reconnect
  <2> QED
    BY <1>4, <2>1, <2>2 DEF Start, Reconnect, Replace
<1>5. ASSUME StartFails \/ StartTimesOut \/ Stop PROVE SessionTypes'
  <2>1. PICK how \in {"failed", "cancelled"} : StopTasks(how) /\ UNCHANGED trouble
    BY <1>5 DEF StartFails, StartTimesOut, Stop
  <2>2. NumberTypes'
    BY <2>1, <1>a, <1>b DEF StopTasks, NumberTypes, NoSession
  <2>3. session \in 1..opened \/ session = NoSession
    BY <1>a, <1>b DEF NumberTypes, NoSession
  <2>4. LinkTypes'
    BY <2>1, <2>3, <1>a DEF StopTasks, LinkTypes
  <2>5. TaskTypes'
    <3>1. /\ connector' = NoConnector /\ reconnector' = "none" /\ UNCHANGED opened
          /\ starter' \in {starter, "failed", "cancelled"} /\ state' \in {state, "stopped"}
      BY <2>1 DEF StopTasks
    <3> QED
      BY <3>1, <1>a, <1>h DEF TaskTypes
  <2> QED
    BY <2>1, <2>2, <2>4, <2>5 DEF StopTasks, SessionTypes
<1>6. ASSUME StartReturns \/ ReconnectReturns \/ Command \/ ReconnectTimesOut
      PROVE  SessionTypes'
  <2>1. NumberTypes'
    BY <1>6, <1>a, <1>b DEF StartReturns, ReconnectReturns, Command, ReconnectTimesOut, NumberTypes
  <2>2. LinkTypes'
    BY <1>6, <1>d DEF StartReturns, ReconnectReturns, Command, ReconnectTimesOut
  <2>3. TaskTypes'
    BY <1>6, <1>a DEF StartReturns, ReconnectReturns, Command, ReconnectTimesOut, TaskTypes
  <2> QED
    BY <1>6, <2>1, <2>2, <2>3
       DEF StartReturns, ReconnectReturns, Command, ReconnectTimesOut, SessionTypes
<1>7. ASSUME HandleConnect \/ HandleRefused \/ HandleDisconnect PROVE SessionTypes'
  <2>1. TaskTypes'
    <3>1. /\ connector' \in {connector, [phase |-> "wildcard", session |-> session]}
          /\ connector' # connector => session # NoSession
          /\ UNCHANGED <<opened, starter>>
      BY <1>7 DEF HandleConnect, HandleRefused, HandleDisconnect
    <3>2. reconnector' \in {reconnector, "sleeping"} /\ state' \in {state, "reconnecting"}
      BY <1>7 DEF HandleConnect, HandleRefused, HandleDisconnect, ScheduleReconnect
    <3> QED
      <4>1. /\ connector' \in [phase : {"none", "wildcard", "answered", "fallback",
                                       "answered again"}, session : 0..opened']
            /\ (connector'.phase = "none") <=> (connector'.session = NoSession)
        <5>1. CASE UNCHANGED connector
          BY <5>1, <3>1, <1>a DEF TaskTypes
        <5>2. CASE /\ connector' = [phase |-> "wildcard", session |-> session]
                   /\ session # NoSession
          BY <5>2, <3>1, <1>a DEF NumberTypes
        <5> QED
          BY <5>1, <5>2, <3>1
      <4> QED
        BY <3>1, <3>2, <4>1, <1>a DEF TaskTypes
  <2>2. NumberTypes' /\ LinkTypes'
    BY <1>7, <1>c, <1>d DEF HandleConnect, HandleRefused, HandleDisconnect
  <2> QED
    BY <1>7, <2>1, <2>2, <1>0
       DEF HandleConnect, HandleRefused, HandleDisconnect, Callback, SessionTypes
<1>8. ASSUME FallBack \/ CompleteFails \/ Complete PROVE SessionTypes'
  <2>1. TaskTypes'
    <3>1. CASE FallBack
      BY <3>1, <1>a, <1>b DEF FallBack, TaskTypes
    <3>2. CASE CompleteFails \/ Complete
      <4>1. connector' = NoConnector /\ UNCHANGED opened
        BY <3>2 DEF CompleteFails, Complete
      <4>2. /\ reconnector' \in {reconnector, "woken"} /\ starter' \in {starter, "woken"}
            /\ state' \in {state, "connected"}
        BY <3>2 DEF CompleteFails, Complete, SetConnected, Wake
      <4> QED
        BY <4>1, <4>2, <1>a, <1>h DEF TaskTypes
    <3> QED
      BY <1>8, <3>1, <3>2
  <2>2. UNCHANGED <<net, dialing, closing, opened>>
    BY <1>8 DEF FallBack, CompleteFails, Complete
  <2>3. requested' \subseteq 1..opened
    <3>1. CASE Complete
      <4>0. connector.phase # "none"
        BY <3>1 DEF Complete
      <4>1. connector.session \in 1..opened
        BY <4>0, <1>a, <1>b, <1>h DEF NoSession
      <4> QED
        BY <3>1, <4>1, <1>a DEF Complete, LinkTypes
    <3> QED
      BY <1>8, <3>1, <1>a DEF FallBack, CompleteFails, LinkTypes
  <2>4. LinkTypes'
    BY <2>2, <2>3, <1>a DEF LinkTypes
  <2>5. NumberTypes'
    BY <1>8, <1>c DEF FallBack, CompleteFails, Complete
  <2> QED
    BY <1>8, <2>1, <2>4, <2>5, <1>0 DEF FallBack, CompleteFails, Complete, Callback, SessionTypes
<1>9. ASSUME Opened \/ Lapse \/ Stopped PROVE SessionTypes'
  <2>1. TaskTypes'
    BY <1>9, <1>a, ZenonT(60) DEF Opened, Lapse, Stopped, AfterOpen, TaskTypes
  <2>2. NumberTypes' /\ LinkTypes'
    BY <1>9, <1>c, <1>d DEF Opened, Lapse, Stopped
  <2> QED
    BY <1>9, <2>1, <2>2, <1>0 DEF Opened, Lapse, Stopped, Callback, SessionTypes
<1>10. CASE UNCHANGED mqttVars
  BY <1>10, <1>a, <1>c, <1>d, <1>e DEF mqttVars, SessionTypes
<1> QED
  BY <1>1, <1>2, <1>3, <1>4, <1>5, <1>6, <1>7, <1>8, <1>9, <1>10 DEF MqttNext, Handle, Resume

\* A callback of one kind, one of a kind at most, and one callback, in a queue.
Pending(q, kind) == \E i \in DOMAIN q : q[i][1] = kind
Once(q, kind) ==
  \A i, j \in DOMAIN q : q[i][1] = kind /\ q[j][1] = kind => i = j
Carries(q, c) == \E i \in DOMAIN q : q[i] = c

LEMMA AppendView ==
  ASSUME NEW S, NEW q \in Seq(S), NEW c \in S, NEW k, NEW d
  PROVE  /\ Append(q, c) \in Seq(S) /\ Append(q, c) # <<>>
         /\ Head(Append(q, c)) = (IF q = <<>> THEN c ELSE Head(q))
         /\ Pending(Append(q, c), k) <=> Pending(q, k) \/ c[1] = k
         /\ Once(q, k) /\ (c[1] = k => ~Pending(q, k)) => Once(Append(q, c), k)
         /\ Carries(Append(q, c), d) <=> Carries(q, d) \/ c = d
<1> DEFINE r == Append(q, c)
<1>1. /\ r \in Seq(S) /\ r # <<>> /\ Len(q) \in Nat /\ DOMAIN q = 1..Len(q)
      /\ DOMAIN r = 1..(Len(q) + 1) /\ r[Len(q) + 1] = c
      /\ \A i \in 1..Len(q) : r[i] = q[i]
      /\ Head(r) = r[1] /\ (q # <<>> => Head(q) = q[1] /\ Len(q) > 0)
      /\ (q = <<>> => Len(q) = 0)
  OBVIOUS
<1> HIDE DEF r
<1>2. \A i \in DOMAIN r : i \in DOMAIN q \/ i = Len(q) + 1
  BY <1>1
<1>3. DOMAIN q \subseteq DOMAIN r /\ Len(q) + 1 \in DOMAIN r /\ \A i \in DOMAIN q : r[i] = q[i]
  BY <1>1
<1>4. Head(r) = (IF q = <<>> THEN c ELSE Head(q))
  BY <1>1
<1>5. Pending(r, k) <=> Pending(q, k) \/ c[1] = k
  BY <1>1, <1>2, <1>3 DEF Pending
<1>6. Carries(r, d) <=> Carries(q, d) \/ c = d
  BY <1>1, <1>2, <1>3 DEF Carries
<1>7. ASSUME Once(q, k), c[1] = k => ~Pending(q, k) PROVE Once(r, k)
  BY <1>1, <1>2, <1>3, <1>7 DEF Once, Pending
<1> QED
  BY <1>1, <1>4, <1>5, <1>6, <1>7 DEF r

LEMMA TailView ==
  ASSUME NEW S, NEW q \in Seq(S), q # <<>>, NEW k, NEW d
  PROVE  /\ Head(q) \in S /\ Tail(q) \in Seq(S)
         /\ Pending(Tail(q), k) => Pending(q, k)
         /\ Head(q)[1] # k => (Pending(q, k) => Pending(Tail(q), k))
         /\ Once(q, k) => Once(Tail(q), k)
         /\ Once(q, k) /\ Head(q)[1] = k => ~Pending(Tail(q), k)
         /\ Carries(Tail(q), d) => Carries(q, d)
         /\ Head(q) # d => (Carries(q, d) => Carries(Tail(q), d))
         /\ Head(q)[1] = k => Pending(q, k)
         /\ Head(q) = d => Carries(q, d)
<1> DEFINE r == Tail(q)
<1>1. /\ r \in Seq(S) /\ Head(q) \in S /\ Len(q) \in Nat /\ DOMAIN q = 1..Len(q) /\ Len(q) > 0
      /\ DOMAIN r = 1..(Len(q) - 1) /\ Head(q) = q[1]
      /\ \A i \in 1..(Len(q) - 1) : r[i] = q[i + 1]
  OBVIOUS
<1> HIDE DEF r
<1>2. \A i \in DOMAIN r : i + 1 \in DOMAIN q /\ i + 1 # 1 /\ r[i] = q[i + 1]
  BY <1>1
<1>3. \A i \in DOMAIN q : i = 1 \/ (i - 1 \in DOMAIN r /\ r[i - 1] = q[i])
  BY <1>1
<1>4. 1 \in DOMAIN q
  BY <1>1
<1>5. /\ Pending(r, k) => Pending(q, k)
      /\ Head(q)[1] # k => (Pending(q, k) => Pending(r, k))
      /\ Head(q)[1] = k => Pending(q, k)
  BY <1>1, <1>2, <1>3, <1>4, Z3T(60) DEF Pending
<1>6. /\ Carries(r, d) => Carries(q, d)
      /\ Head(q) # d => (Carries(q, d) => Carries(r, d))
      /\ Head(q) = d => Carries(q, d)
  BY <1>1, <1>2, <1>3, <1>4 DEF Carries
<1>7. ASSUME Once(q, k) PROVE Once(r, k)
  <2>1. SUFFICES ASSUME NEW i \in DOMAIN r, NEW j \in DOMAIN r, r[i][1] = k, r[j][1] = k
                 PROVE  i = j
    BY DEF Once
  <2>2. i + 1 = j + 1
    BY <1>2, <1>7, <2>1 DEF Once
  <2> QED
    BY <2>2, <1>1
<1>8. ASSUME Once(q, k), Head(q)[1] = k PROVE ~Pending(r, k)
  BY <1>1, <1>2, <1>4, <1>8 DEF Once, Pending
<1> QED
  BY <1>1, <1>5, <1>6, <1>7, <1>8 DEF r

\* A stop leaves no task and no session, and only a stop closes for a stop.
StopMarked ==
  /\ state = "stopped" => stopping
  /\ \A s \in Sessions : <<s, "stop">> \in closing => stopping
  /\ Carries(callbacks, <<"closed", "stop">>) => stopping
  /\ stopping => session = NoSession /\ reconnector = "none" /\ connector = NoConnector

\* What one callback leaves of the queue, and what is added to it.
Takes(q, r) ==
  /\ q # <<>> /\ Head(q) \in Callbacks
  /\ \A k : /\ Pending(r, k) => Pending(q, k)
            /\ Head(q)[1] # k => (Pending(q, k) => Pending(r, k))
            /\ Once(q, k) => Once(r, k)
            /\ Once(q, k) /\ Head(q)[1] = k => ~Pending(r, k)
            /\ Head(q)[1] = k => Pending(q, k)
  /\ \A d : /\ Carries(r, d) => Carries(q, d)
            /\ Head(q) # d => (Carries(q, d) => Carries(r, d))
            /\ Head(q) = d => Carries(q, d)

Adds(q, r, c) ==
  /\ r # <<>> /\ Head(r) = (IF q = <<>> THEN c ELSE Head(q))
  /\ \A k : /\ Pending(r, k) <=> Pending(q, k) \/ c[1] = k
            /\ Once(q, k) /\ (c[1] = k => ~Pending(q, k)) => Once(r, k)
  /\ \A d : Carries(r, d) <=> Carries(q, d) \/ c = d

LEMMA Taking ==
  ASSUME NEW q \in Seq(Callbacks), q # <<>> PROVE Takes(q, Tail(q))
<1> HIDE DEF Callbacks
<1>1. Head(q) \in Callbacks
  OBVIOUS
<1> QED
  BY <1>1, TailView DEF Takes

LEMMA Adding ==
  ASSUME NEW q \in Seq(Callbacks), NEW c \in Callbacks PROVE Adds(q, Append(q, c), c)
<1> HIDE DEF Callbacks
<1> QED
  BY AppendView DEF Adds

LEMMA AddingTwo ==
  ASSUME NEW q \in Seq(Callbacks), NEW c \in Callbacks, NEW d \in Callbacks
  PROVE  /\ q \o <<c, d>> = Append(Append(q, c), d)
         /\ Append(q, c) \in Seq(Callbacks)
         /\ Adds(q, Append(q, c), c) /\ Adds(Append(q, c), Append(Append(q, c), d), d)
<1>1. <<c, d>> \in Seq(Callbacks) /\ <<c, d>> = Append(<<c>>, d) /\ Len(<<c, d>>) = 2
  OBVIOUS
<1> HIDE DEF Callbacks
<1>2. Append(q, c) \in Seq(Callbacks)
  OBVIOUS
<1>3. q \o <<c, d>> = Append(Append(q, c), d)
  OBVIOUS
<1> QED
  BY <1>2, <1>3, Adding

LEMMA StopMarkedStep ==
  SessionTypes /\ StopMarked /\ [MqttNext]_mqttVars =>
    StopMarked' /\ (state = "stopped" => state' = "stopped")
<1> SUFFICES ASSUME SessionTypes, StopMarked, [MqttNext]_mqttVars
             PROVE  StopMarked' /\ (state = "stopped" => state' = "stopped")
  OBVIOUS
<1> USE DEF taskVars, threads, flags
<1> DEFINE Stopping == <<"closed", "stop">>
<1>q. callbacks \in Seq(Callbacks)
  BY DEF SessionTypes
<1>t. /\ callbacks # <<>> => Takes(callbacks, Tail(callbacks))
      /\ \A c \in Callbacks : Adds(callbacks, Append(callbacks, c), c)
  BY <1>q, Taking, Adding
<1>h. /\ Callback("opened") \/ Callback("connect") \/ Callback("refused") \/ Callback("disconnect")
           \/ Callback("closed") \/ Callback("subscribed") =>
             (Carries(callbacks', Stopping) => Carries(callbacks, Stopping))
  BY <1>t DEF Callback, Takes
<1>1. ASSUME NEW s \in Sessions, Dialed(s) \/ LinkUp(s) \/ Refused(s) \/ LinkDown(s)
      PROVE  StopMarked' /\ state' = state
  <2>1. /\ <<"opened", s>> \in Callbacks /\ <<"connect", s>> \in Callbacks
        /\ <<"refused", s>> \in Callbacks /\ <<"disconnect", s>> \in Callbacks
    BY DEF Callbacks
  <2>2. Carries(callbacks', Stopping) => Carries(callbacks, Stopping)
    <3>1. CASE Dialed(s)
      BY <1>t, <2>1, <3>1 DEF Dialed, Adds
    <3>2. CASE LinkUp(s)
      BY <1>t, <2>1, <3>2 DEF LinkUp, Adds
    <3>3. CASE Refused(s)
      <4>1. callbacks' = Append(Append(callbacks, <<"refused", s>>), <<"disconnect", s>>)
        BY <3>3, <1>q, <2>1, AddingTwo DEF Refused
      <4>2. Adds(callbacks, Append(callbacks, <<"refused", s>>), <<"refused", s>>)
            /\ Adds(Append(callbacks, <<"refused", s>>), callbacks', <<"disconnect", s>>)
        BY <4>1, <1>q, <2>1, AddingTwo
      <4> QED
        BY <4>2 DEF Adds
    <3>4. CASE LinkDown(s)
      BY <1>t, <2>1, <3>4 DEF LinkDown, Adds
    <3> QED
      BY <1>1, <3>1, <3>2, <3>3, <3>4
  <2>3. UNCHANGED <<state, stopping, session, connector, reconnector, closing>>
    BY <1>1 DEF Dialed, LinkUp, Refused, LinkDown
  <2> QED
    BY <2>2, <2>3 DEF StopMarked
<1>2. ASSUME NEW p \in closing, Closed(p[1], p[2]) PROVE StopMarked' /\ state' = state
  <2>0. p[1] \in Sessions /\ p[2] \in {"stop", "reconnect"} /\ p = <<p[1], p[2]>>
    BY SessionsAssumption DEF SessionTypes, LinkTypes, NumberTypes, Sessions
  <2>1. <<"disconnect", p[1]>> \in Callbacks /\ <<"closed", p[2]>> \in Callbacks
    BY <2>0 DEF Callbacks
  <2>2. Carries(callbacks', Stopping) => Carries(callbacks, Stopping) \/ p[2] = "stop"
    <3>1. CASE net[p[1]] = "up"
      <4>1. callbacks' = Append(Append(callbacks, <<"disconnect", p[1]>>), <<"closed", p[2]>>)
        BY <1>2, <1>q, <2>1, <3>1, AddingTwo DEF Closed
      <4>2. Adds(callbacks, Append(callbacks, <<"disconnect", p[1]>>), <<"disconnect", p[1]>>)
            /\ Adds(Append(callbacks, <<"disconnect", p[1]>>), callbacks', <<"closed", p[2]>>)
        BY <4>1, <1>q, <2>1, AddingTwo
      <4> QED
        BY <4>2 DEF Adds
    <3>2. CASE net[p[1]] # "up"
      BY <1>2, <1>t, <2>1, <3>2 DEF Closed, Adds
    <3> QED
      BY <3>1, <3>2
  <2>3. p[2] = "stop" => stopping
    BY <2>0 DEF StopMarked
  <2>4. UNCHANGED <<state, stopping, session, connector, reconnector>> /\ closing' \subseteq closing
    BY <1>2 DEF Closed
  <2> QED
    BY <2>2, <2>3, <2>4 DEF StopMarked
<1>3. ASSUME NEW ok \in BOOLEAN, Subscribed(ok) PROVE StopMarked' /\ state' = state
  <2>1. <<"subscribed", ok>> \in Callbacks
    BY DEF Callbacks
  <2>2. Carries(callbacks', Stopping) => Carries(callbacks, Stopping)
    BY <1>t, <1>3, <2>1 DEF Subscribed, Adds
  <2>3. connector.phase # "none"
    BY <1>3 DEF Subscribed, Subscribing
  <2>4. ~stopping
    BY <2>3 DEF StopMarked, NoConnector
  <2>5. UNCHANGED <<state, stopping, closing>>
    BY <1>3 DEF Subscribed
  <2> QED
    BY <2>2, <2>4, <2>5 DEF StopMarked
<1> HIDE DEF Callbacks
<1>4. ASSUME Start \/ Reconnect \/ Replace PROVE StopMarked' /\ (state = "stopped" => state' = "stopped")
  <2>1. ~stopping /\ UNCHANGED stopping /\ state' \in {state, "connecting"}
    BY <1>4 DEF Start, Reconnect, Replace, StopMarked
  <2>2. Carries(callbacks', Stopping) => Carries(callbacks, Stopping)
    BY <1>4, <1>h DEF Start, Reconnect, Replace
  <2>3. closing' \subseteq closing \cup {<<session, "reconnect">>}
    BY <1>4 DEF Start, Reconnect, Replace, OpenSession
  <2>4. \A s \in Sessions : <<s, "stop">> \in closing' => <<s, "stop">> \in closing
    BY <2>3
  <2> QED
    BY <2>1, <2>2, <2>4 DEF StopMarked
<1>5. ASSUME StartFails \/ StartTimesOut \/ Stop
      PROVE  StopMarked' /\ (state = "stopped" => state' = "stopped")
  BY <1>5 DEF StartFails, StartTimesOut, Stop, StopTasks, StopMarked
<1>6. ASSUME StartReturns \/ ReconnectReturns \/ Command \/ ReconnectTimesOut
      PROVE  StopMarked' /\ state' = state
  BY <1>6 DEF StartReturns, ReconnectReturns, Command, ReconnectTimesOut, StopMarked
<1>7. ASSUME HandleConnect \/ HandleRefused \/ HandleDisconnect
      PROVE  StopMarked' /\ (state = "stopped" => state' = "stopped")
  <2>1. Carries(callbacks', Stopping) => Carries(callbacks, Stopping)
    BY <1>7, <1>h DEF HandleConnect, HandleRefused, HandleDisconnect
  <2>2. UNCHANGED <<stopping, session, closing>>
    BY <1>7 DEF HandleConnect, HandleRefused, HandleDisconnect
  <2>3. /\ stopping => UNCHANGED <<state, reconnector, connector>>
        /\ state' \in {state, "reconnecting"}
    BY <1>7 DEF HandleConnect, HandleRefused, HandleDisconnect, ScheduleReconnect
  <2> QED
    BY <2>1, <2>2, <2>3 DEF StopMarked
<1>8. ASSUME FallBack \/ CompleteFails \/ Complete PROVE StopMarked' /\ (state = "stopped" => state' = "stopped")
  <2>1. Carries(callbacks', Stopping) => Carries(callbacks, Stopping)
    BY <1>8, <1>h DEF FallBack, CompleteFails, Complete
  <2>2. connector.phase # "none"
    BY <1>8 DEF FallBack, CompleteFails, Complete
  <2>3. ~stopping
    BY <2>2 DEF StopMarked, NoConnector
  <2>4. UNCHANGED <<stopping, closing>> /\ state' \in {state, "connected"}
    BY <1>8 DEF FallBack, CompleteFails, Complete
  <2> QED
    BY <2>1, <2>3, <2>4 DEF StopMarked
<1>9. ASSUME Opened \/ Lapse \/ Stopped PROVE StopMarked' /\ (state = "stopped" => state' = "stopped")
  <2>1. Carries(callbacks', Stopping) => Carries(callbacks, Stopping)
    BY <1>9, <1>h DEF Opened, Lapse, Stopped
  <2>2. CASE Opened
    BY <2>1, <2>2 DEF Opened, AfterOpen, StopMarked
  <2>3. CASE Lapse
    BY <2>1, <2>3 DEF Lapse, StopMarked
  <2>4. CASE Stopped
    <3>1. callbacks # <<>> /\ Head(callbacks)[1] = "closed" /\ Head(callbacks)[2] = "stop"
      BY <2>4 DEF Stopped, Callback
    <3>2. Head(callbacks) = <<"closed", "stop">>
      BY <3>1, <1>q DEF Callbacks
    <3>3. stopping
      BY <3>1, <3>2, <1>t DEF Takes, StopMarked
    <3> QED
      BY <2>1, <2>4, <3>3 DEF Stopped, StopMarked
  <2> QED
    BY <1>9, <2>2, <2>3, <2>4
<1>10. CASE UNCHANGED mqttVars
  BY <1>10 DEF mqttVars, StopMarked
<1> QED
  BY <1>1, <1>2, <1>3, <1>4, <1>5, <1>6, <1>7, <1>8, <1>9, <1>10 DEF MqttNext, Handle, Resume

\* Who waits for a session to be dialed.
Opening == starter = "opening" \/ reconnector = "opening"

\* While somebody waits, the current session is dialed or its "opened" is queued,
\* once; the start waits with nothing else in the queue before it.
OneDial ==
  /\ Once(callbacks, "opened")
  /\ dialing # {} => /\ Opening /\ dialing = {session} /\ net[session] = "new"
                     /\ ~Pending(callbacks, "opened")
  /\ Pending(callbacks, "opened") => Opening
  /\ starter = "opening" =>
       /\ reconnector = "none" /\ connector.phase = "none"
       /\ callbacks # <<>> => Head(callbacks)[1] = "opened"
       /\ callbacks = <<>> => dialing = {session}

\* While the reconnect closes, there is no current session, and the old one is
\* closing or its "closed" is queued, once.
OneClose ==
  /\ Once(callbacks, "closed")
  /\ closing # {} => ~Pending(callbacks, "closed") /\ reconnector = "closing"
  /\ \A p, r \in closing : p = r
  /\ Pending(callbacks, "closed") => reconnector = "closing"
  /\ reconnector = "closing" => session = NoSession

\* A session with a running loop is the current one or the one that is closing.
CurrentOnly ==
  /\ session \in {NoSession, opened}
  /\ \A s \in Sessions : Open(s) => s = session \/ <<s, "reconnect">> \in closing

\* Nothing is queued or scheduled before the start, and whoever waits for a
\* reconnect waits for a later session than the first.
FirstOnly ==
  /\ opened = 0 <=> state = "disconnected"
  /\ opened = 0 => callbacks = <<>> /\ reconnector = "none" /\ starter = "none"
  /\ reconnector \in {"opening", "waiting", "woken"} => opened > 1

Running == OneDial /\ OneClose /\ CurrentOnly

LEMMA RunningStep ==
  SessionTypes /\ StopMarked /\ FirstOnly /\ Running /\ ~stopping /\ [MqttNext]_mqttVars /\ ~stopping' =>
    Running'
<1> SUFFICES ASSUME SessionTypes, StopMarked, FirstOnly, Running, ~stopping,
                    [MqttNext]_mqttVars, ~stopping'
             PROVE  Running'
  OBVIOUS
<1> USE DEF taskVars, threads, flags
<1>q. callbacks \in Seq(Callbacks)
  BY DEF SessionTypes
<1>t. /\ callbacks # <<>> => Takes(callbacks, Tail(callbacks))
      /\ \A c \in Callbacks : Adds(callbacks, Append(callbacks, c), c)
  BY <1>q, Taking, Adding
<1>r. OneDial /\ OneClose /\ CurrentOnly
  BY DEF Running
<1>n. /\ opened \in Nat /\ \A s \in Sessions : s \in Nat /\ s > 0
      /\ net \in [Sessions -> {"new", "down", "up", "closed"}]
      /\ closing \subseteq Sessions \X {"stop", "reconnect"} /\ dialing \subseteq Sessions
      /\ \A s \in Sessions : s > opened => net[s] = "new"
  BY SessionsAssumption DEF SessionTypes, NumberTypes, LinkTypes, Sessions
\* What follows from a callback that is taken by a handler of another kind.
<1>h. ASSUME NEW kind \in {"connect", "refused", "disconnect", "subscribed"}, Callback(kind)
      PROVE  /\ starter # "opening"
             /\ Once(callbacks', "opened") /\ Once(callbacks', "closed")
             /\ Pending(callbacks', "opened") <=> Pending(callbacks, "opened")
             /\ Pending(callbacks', "closed") <=> Pending(callbacks, "closed")
  BY <1>h, <1>t, <1>r DEF Callback, Takes, OneDial, OneClose
<1>u. ASSUME UNCHANGED <<dialing, closing, session, net, opened>>,
             starter' = starter \/ (starter # "opening" /\ starter' # "opening"),
             reconnector' = reconnector \/ (reconnector \notin {"opening", "closing"} /\ reconnector' \notin {"opening", "closing"}),
             starter' = "opening" => reconnector' = reconnector /\ connector' = connector /\ callbacks' = callbacks,
             Once(callbacks', "opened"), Once(callbacks', "closed"),
             Pending(callbacks', "opened") <=> Pending(callbacks, "opened"),
             Pending(callbacks', "closed") <=> Pending(callbacks, "closed")
      PROVE  Running'
  <2>1. Opening' <=> Opening
    BY <1>u DEF Opening
  <2>2. OneDial'
    BY <1>u, <1>r, <2>1 DEF OneDial
  <2>3. OneClose' /\ CurrentOnly'
    BY <1>u, <1>r DEF OneClose, CurrentOnly, Open
  <2> QED
    BY <2>2, <2>3 DEF Running
<1>1. ASSUME NEW s \in Sessions, Dialed(s) PROVE Running'
  <2>0. <<"opened", s>> \in Callbacks
    BY DEF Callbacks
  <2>1. Adds(callbacks, callbacks', <<"opened", s>>)
    BY <1>1, <1>t, <2>0 DEF Dialed
  <2>2. /\ s = session /\ dialing = {session} /\ dialing' = {} /\ Opening
        /\ ~Pending(callbacks, "opened")
    BY <1>1, <1>r DEF Dialed, OneDial
  <2>3. UNCHANGED <<closing, session, opened, starter, reconnector, connector>>
    BY <1>1 DEF Dialed
  <2>4. OneDial'
    BY <2>1, <2>2, <2>3, <1>r DEF Adds, OneDial, Opening
  <2>5. OneClose'
    BY <2>1, <2>3, <1>r DEF Adds, OneClose
  <2>6. CurrentOnly'
    BY <1>1, <1>n, <2>2, <2>3, <1>r DEF Dialed, CurrentOnly, Open
  <2> QED
    BY <2>4, <2>5, <2>6 DEF Running
<1>2. ASSUME NEW s \in Sessions, LinkUp(s) \/ LinkDown(s) \/ Refused(s) PROVE Running'
  <2>0. /\ <<"connect", s>> \in Callbacks /\ <<"refused", s>> \in Callbacks
        /\ <<"disconnect", s>> \in Callbacks
    BY DEF Callbacks
  <2>1. /\ callbacks' # <<>>
        /\ callbacks # <<>> => Head(callbacks') = Head(callbacks)
        /\ Once(callbacks', "opened") /\ Once(callbacks', "closed")
        /\ Pending(callbacks', "opened") <=> Pending(callbacks, "opened")
        /\ Pending(callbacks', "closed") <=> Pending(callbacks, "closed")
    <3>1. CASE LinkUp(s) \/ LinkDown(s)
      <4>1. \/ Adds(callbacks, callbacks', <<"connect", s>>)
            \/ Adds(callbacks, callbacks', <<"disconnect", s>>)
        BY <3>1, <1>t, <2>0 DEF LinkUp, LinkDown
      <4> QED
        BY <4>1, <1>r DEF Adds, OneDial, OneClose
    <3>2. CASE Refused(s)
      <4>1. callbacks' = Append(Append(callbacks, <<"refused", s>>), <<"disconnect", s>>)
        BY <3>2, <1>q, <2>0, AddingTwo DEF Refused
      <4>2. Adds(callbacks, Append(callbacks, <<"refused", s>>), <<"refused", s>>)
            /\ Adds(Append(callbacks, <<"refused", s>>), callbacks', <<"disconnect", s>>)
        BY <4>1, <1>q, <2>0, AddingTwo
      <4> QED
        BY <4>2, <1>r DEF Adds, OneDial, OneClose
    <3> QED
      BY <1>2, <3>1, <3>2
  <2>2. Open(s) /\ (s = session \/ <<s, "reconnect">> \in closing)
    BY <1>2, <1>r DEF LinkUp, LinkDown, Refused, Open, CurrentOnly
  <2>3. starter # "opening" \/ callbacks # <<>>
    <3>1. SUFFICES ASSUME starter = "opening", callbacks = <<>> PROVE FALSE
      OBVIOUS
    <3>2. net[session] = "new" /\ closing = {}
      BY <3>1, <1>r DEF OneDial, OneClose
    <3> QED
      BY <2>2, <3>2 DEF Open
  <2>4. dialing # {} => net'[session] = "new"
    <3>1. SUFFICES ASSUME dialing # {} PROVE net'[session] = "new"
      OBVIOUS
    <3>2. net[session] = "new" /\ s # session /\ session \in Sessions
      BY <3>1, <2>2, <1>r, <1>n DEF OneDial, Open
    <3> QED
      BY <1>2, <1>n, <3>2 DEF LinkUp, LinkDown, Refused
  <2>5. UNCHANGED <<dialing, closing, session, opened, starter, reconnector, connector>>
    BY <1>2 DEF LinkUp, LinkDown, Refused
  <2>6. OneDial'
    BY <2>1, <2>3, <2>4, <2>5, <1>r DEF OneDial, Opening
  <2>7. OneClose'
    BY <2>1, <2>5, <1>r DEF OneClose
  <2>8. CurrentOnly'
    BY <1>2, <1>n, <1>r, <2>2, <2>5 DEF CurrentOnly, Open, LinkUp, LinkDown, Refused
  <2> QED
    BY <2>6, <2>7, <2>8 DEF Running
<1>3. ASSUME NEW p \in closing, Closed(p[1], p[2]) PROVE Running'
  <2>0. p[1] \in Sessions /\ p[2] \in {"stop", "reconnect"} /\ p = <<p[1], p[2]>>
    BY <1>n
  <2>1. <<"disconnect", p[1]>> \in Callbacks /\ <<"closed", p[2]>> \in Callbacks
    BY <2>0 DEF Callbacks
  <2>2. reconnector = "closing" /\ starter # "opening" /\ closing' = {} /\ ~Pending(callbacks, "closed")
        /\ session = NoSession /\ dialing = {} /\ ~Pending(callbacks, "opened")
    BY <1>3, <1>r, <2>0 DEF Closed, OneClose, OneDial, Opening
  <2>3. /\ Pending(callbacks', "closed") /\ Once(callbacks', "closed") /\ Once(callbacks', "opened")
        /\ ~Pending(callbacks', "opened")
    <3>1. CASE net[p[1]] = "up"
      <4>1. callbacks' = Append(Append(callbacks, <<"disconnect", p[1]>>), <<"closed", p[2]>>)
        BY <1>3, <1>q, <2>1, <3>1, AddingTwo DEF Closed
      <4>2. Adds(callbacks, Append(callbacks, <<"disconnect", p[1]>>), <<"disconnect", p[1]>>)
            /\ Adds(Append(callbacks, <<"disconnect", p[1]>>), callbacks', <<"closed", p[2]>>)
        BY <4>1, <1>q, <2>1, AddingTwo
      <4> QED
        BY <4>2, <2>2, <1>r DEF Adds, OneDial, OneClose
    <3>2. CASE net[p[1]] # "up"
      BY <1>3, <1>t, <2>1, <2>2, <3>2, <1>r DEF Closed, Adds, OneDial, OneClose
    <3> QED
      BY <3>1, <3>2
  <2>4. UNCHANGED <<session, opened, dialing, starter, reconnector>>
    BY <1>3 DEF Closed
  <2>5. OneDial' /\ OneClose'
    BY <2>2, <2>3, <2>4 DEF OneDial, OneClose, Opening
  <2>6. \A s \in Sessions : Open(s)' => Open(s) /\ s # p[1]
    BY <1>3, <1>n DEF Closed, Open
  <2>7. \A s \in Sessions : <<s, "reconnect">> \in closing => s = p[1]
    BY <1>r, <2>0 DEF OneClose
  <2>8. CurrentOnly'
    BY <1>r, <1>n, <2>2, <2>4, <2>6, <2>7 DEF CurrentOnly, NoSession
  <2> QED
    BY <2>5, <2>8 DEF Running
<1>4. ASSUME NEW ok \in BOOLEAN, Subscribed(ok) PROVE Running'
  <2>0. <<"subscribed", ok>> \in Callbacks
    BY DEF Callbacks
  <2>1. Adds(callbacks, callbacks', <<"subscribed", ok>>)
    BY <1>4, <1>t, <2>0 DEF Subscribed
  <2>2. starter # "opening"
    BY <1>4, <1>r DEF Subscribed, Subscribing, OneDial
  <2>3. UNCHANGED <<dialing, closing, session, net, opened, starter, reconnector>>
    BY <1>4 DEF Subscribed
  <2> QED
    BY <2>1, <2>2, <2>3, <1>u, <1>r DEF Adds, OneDial, OneClose
<1> HIDE DEF Callbacks
<1>5. CASE Start
  <2>1. /\ opened = 0 /\ callbacks = <<>> /\ reconnector = "none"
        /\ session' = 1 /\ opened' = 1 /\ 1 \in Sessions
    BY <1>5, <1>n, SessionsAssumption DEF Start, OpenSession, FirstOnly, Sessions
  <2>2. dialing = {} /\ closing = {} /\ connector.phase = "none" /\ session = NoSession
    <3>1. dialing = {} /\ closing = {}
      BY <2>1 DEF SessionTypes, LinkTypes
    <3>2. connector.phase = "none"
      <4>1. connector.session \in 0..0
        BY <2>1 DEF SessionTypes, TaskTypes
      <4>2. connector.phase = "none" <=> connector.session = NoSession
        BY DEF SessionTypes, TaskTypes
      <4> QED
        BY <4>1, <4>2 DEF NoSession
    <3>3. session = NoSession
      BY <2>1 DEF SessionTypes, NumberTypes, NoSession
    <3> QED
      BY <3>1, <3>2, <3>3
  <2>3. ~Pending(callbacks, "opened") /\ ~Pending(callbacks, "closed")
    BY <2>1 DEF Pending
  <2>4. OneDial'
    BY <1>5, <1>n, <2>1, <2>2, <2>3, <1>r DEF Start, OpenSession, OneDial, Opening
  <2>5. OneClose'
    BY <1>5, <2>1, <2>2, <2>3, <1>r DEF Start, OneClose
  <2>6. CurrentOnly'
    BY <1>5, <1>r, <1>n, <2>1, <2>2 DEF Start, CurrentOnly, Open, NoSession
  <2> QED
    BY <2>4, <2>5, <2>6 DEF Running
\* A replacement is opened when no session is left.
<1>6. ASSUME OpenSession, reconnector' = "opening", session = NoSession, starter # "opening",
             reconnector # "opening", closing = {}, closing' = {}, UNCHANGED <<net, starter>>,
             Once(callbacks', "opened"), ~Pending(callbacks', "opened"),
             Once(callbacks', "closed"), ~Pending(callbacks', "closed")
      PROVE  Running'
  <2>1. dialing = {}
    BY <1>6, <1>r DEF OneDial, Opening
  <2>2. /\ session' = opened + 1 /\ opened' = opened + 1 /\ dialing' = {session'}
        /\ session' \in Sessions
    BY <1>6, <1>n, <2>1, SessionsAssumption DEF OpenSession, Sessions
  <2>3. net'[session'] = "new"
    BY <1>6, <1>n, <2>2
  <2>4. OneDial'
    BY <1>6, <2>2, <2>3 DEF OneDial, Opening
  <2>5. OneClose'
    BY <1>6 DEF OneClose
  <2>6. CurrentOnly'
    BY <1>6, <1>n, <1>r, <2>2 DEF CurrentOnly, Open, NoSession
  <2> QED
    BY <2>4, <2>5, <2>6 DEF Running
<1>7. CASE Reconnect
  <2>1. /\ reconnector = "sleeping" /\ starter # "opening" /\ closing = {} /\ dialing = {}
        /\ ~Pending(callbacks, "opened") /\ ~Pending(callbacks, "closed")
    BY <1>7, <1>r DEF Reconnect, OneDial, OneClose, Opening
  <2>2. CASE session = NoSession
    BY <1>6, <1>7, <1>r, <2>1, <2>2 DEF Reconnect, OneDial, OneClose
  <2>3. CASE session # NoSession
    <3>1. /\ session' = NoSession /\ closing' = {<<session, "reconnect">>} /\ reconnector' = "closing"
          /\ UNCHANGED <<opened, dialing, net, callbacks, starter>>
      BY <1>7, <2>1, <2>3 DEF Reconnect
    <3>2. OneDial'
      BY <3>1, <2>1, <1>r DEF OneDial, Opening
    <3>3. OneClose'
      BY <3>1, <2>1, <1>r DEF OneClose
    <3>4. CurrentOnly'
      BY <3>1, <2>1, <1>r DEF CurrentOnly, Open
    <3> QED
      BY <3>2, <3>3, <3>4 DEF Running
  <2> QED
    BY <2>2, <2>3
<1>8. CASE Replace
  <2>1. /\ callbacks # <<>> /\ Head(callbacks)[1] = "closed" /\ reconnector = "closing"
        /\ callbacks' = Tail(callbacks)
    BY <1>8 DEF Replace, Callback
  <2>2. /\ Takes(callbacks, callbacks') /\ Pending(callbacks, "closed")
    BY <2>1, <1>t DEF Takes
  <2>3. /\ session = NoSession /\ closing = {} /\ starter # "opening" /\ ~Pending(callbacks, "opened")
    BY <2>1, <2>2, <1>r DEF OneDial, OneClose, Opening
  <2>4. /\ Once(callbacks', "opened") /\ ~Pending(callbacks', "opened")
        /\ Once(callbacks', "closed") /\ ~Pending(callbacks', "closed")
    BY <2>1, <2>2, <2>3, <1>r DEF Takes, OneDial, OneClose
  <2> QED
    BY <1>6, <1>8, <2>1, <2>3, <2>4 DEF Replace
<1>9. CASE Opened
  <2>1. /\ callbacks # <<>> /\ Head(callbacks)[1] = "opened" /\ callbacks' = Tail(callbacks)
    BY <1>9 DEF Opened, Callback
  <2>2. Takes(callbacks, callbacks') /\ Pending(callbacks, "opened")
    BY <2>1, <1>t DEF Takes
  <2>3. /\ ~Pending(callbacks', "opened") /\ dialing = {} /\ Once(callbacks', "opened")
        /\ Once(callbacks', "closed")
        /\ Pending(callbacks', "closed") <=> Pending(callbacks, "closed")
    BY <2>1, <2>2, <1>r DEF Takes, OneDial, OneClose
  <2>4. /\ UNCHANGED <<dialing, closing, session, net, opened>>
        /\ ~Opening' /\ (reconnector' = "closing" <=> reconnector = "closing")
    BY <1>9, <1>r DEF Opened, AfterOpen, Opening, OneDial
  <2>5. OneDial'
    BY <2>3, <2>4 DEF OneDial, Opening
  <2>6. OneClose' /\ CurrentOnly'
    <3>1. OneClose'
      BY <2>3, <2>4, <1>r DEF OneClose
    <3>2. CurrentOnly'
      BY <2>4, <1>r DEF CurrentOnly, Open
    <3> QED
      BY <3>1, <3>2
  <2> QED
    BY <2>5, <2>6 DEF Running
<1>10. CASE Lapse
  <2>1. Callback("subscribed")
    BY <1>10, <1>t, <1>r DEF Lapse, Callback, Takes, OneDial, OneClose, Opening
  <2> QED
    BY <1>10, <1>h, <1>u, <2>1 DEF Lapse
<1>11. CASE HandleConnect \/ HandleRefused \/ HandleDisconnect
  <2>1. PICK kind \in {"connect", "refused", "disconnect"} : Callback(kind)
    BY <1>11 DEF HandleConnect, HandleRefused, HandleDisconnect
  <2>2. /\ UNCHANGED <<dialing, closing, session, net, opened, starter>>
        /\ reconnector' = reconnector \/ (reconnector = "none" /\ reconnector' = "sleeping")
    BY <1>11 DEF HandleConnect, HandleRefused, HandleDisconnect, ScheduleReconnect
  <2> QED
    BY <1>h, <1>u, <2>1, <2>2
<1>12. CASE FallBack \/ CompleteFails \/ Complete
  <2>1. Callback("subscribed")
    BY <1>12 DEF FallBack, CompleteFails, Complete
  <2>2. /\ UNCHANGED <<dialing, closing, session, net, opened>>
        /\ starter' = starter \/ (starter = "waiting" /\ starter' = "woken")
        /\ reconnector' = reconnector \/ (reconnector = "waiting" /\ reconnector' = "woken")
    BY <1>12 DEF FallBack, CompleteFails, Complete, SetConnected, Wake
  <2> QED
    BY <1>h, <1>u, <2>1, <2>2
<1>13. CASE StartReturns \/ ReconnectReturns \/ Command \/ ReconnectTimesOut
  <2>1. /\ UNCHANGED <<dialing, closing, session, net, opened, callbacks, connector>>
        /\ starter' = starter \/ (starter = "woken" /\ starter' = "done")
        /\ reconnector' = reconnector \/ (reconnector \in {"woken", "waiting"} /\ reconnector' \in {"sleeping", "none"})
        /\ starter' = starter \/ reconnector' = reconnector
    BY <1>13 DEF StartReturns, ReconnectReturns, Command, ReconnectTimesOut
  <2> QED
    BY <1>u, <2>1, <1>r DEF OneDial, OneClose
<1>14. ~(StartFails \/ StartTimesOut \/ Stop)
  BY DEF StartFails, StartTimesOut, Stop, StopTasks
<1>15. ~Stopped
  <2>1. SUFFICES ASSUME Stopped PROVE FALSE
    OBVIOUS
  <2>2. callbacks # <<>> /\ Head(callbacks)[1] = "closed" /\ Head(callbacks)[2] = "stop"
    BY <2>1 DEF Stopped, Callback
  <2>3. Head(callbacks) = <<"closed", "stop">>
    BY <2>2, <1>q DEF Callbacks
  <2> QED
    BY <2>2, <2>3, <1>t DEF Takes, StopMarked
<1>16. CASE UNCHANGED mqttVars
  BY <1>16, <1>u, <1>r DEF mqttVars, OneDial, OneClose
<1> QED
  BY <1>1, <1>2, <1>3, <1>4, <1>5, <1>7, <1>8, <1>9, <1>10, <1>11, <1>12, <1>13, <1>14, <1>15,
     <1>16 DEF MqttNext, Handle, Resume

\* What FirstSessionReady needs: of the first session, in every phase.
ReadyFirst == opened = 1 => ConnectedIsCurrent
AdapterFollows == ~Local => adapter = NoSession \/ session = NoSession \/ adapter = session

LEMMA FirstOnlyStep ==
  SessionTypes /\ StopMarked /\ FirstOnly /\ [MqttNext]_mqttVars => FirstOnly' 
<1> SUFFICES ASSUME SessionTypes, StopMarked, FirstOnly, [MqttNext]_mqttVars PROVE FirstOnly'
  OBVIOUS
<1> USE DEF taskVars, threads, flags
<1>n. /\ opened \in Nat /\ \A s \in Sessions : s \in Nat /\ s > 0
      /\ closing \subseteq (1..opened) \X {"stop", "reconnect"} /\ dialing \subseteq 1..opened
      /\ \A s \in Sessions : s > opened => net[s] = "new"
  BY SessionsAssumption DEF SessionTypes, NumberTypes, LinkTypes, Sessions
<1>c. opened = 0 => connector.phase = "none"
  <2>1. opened = 0 => connector.session \in 0..0
    BY DEF SessionTypes, TaskTypes
  <2>2. connector.phase = "none" <=> connector.session = NoSession
    BY DEF SessionTypes, TaskTypes
  <2> QED
    BY <2>1, <2>2 DEF NoSession
<1>1. ASSUME opened > 0, UNCHANGED opened, state' # "disconnected",
             \/ reconnector' = reconnector \/ reconnector' \notin {"opening", "waiting", "woken"}
             \/ reconnector \in {"opening", "waiting", "woken"}
      PROVE  FirstOnly'
  BY <1>1, <1>n DEF FirstOnly
<1>2. ASSUME NEW s \in Sessions, Dialed(s) \/ LinkUp(s) \/ Refused(s) \/ LinkDown(s)
      PROVE  FirstOnly'
  <2>1. s \in dialing \/ net[s] # "new"
    BY <1>2 DEF Dialed, LinkUp, Refused, LinkDown
  <2>2. opened > 0
    BY <2>1, <1>n
  <2>3. UNCHANGED <<opened, state, reconnector>>
    BY <1>2 DEF Dialed, LinkUp, Refused, LinkDown
  <2> QED
    BY <1>1, <2>2, <2>3 DEF FirstOnly
<1>3. ASSUME NEW p \in closing, Closed(p[1], p[2]) PROVE FirstOnly'
  BY <1>1, <1>3, <1>n DEF Closed, FirstOnly
<1>4. ASSUME NEW ok \in BOOLEAN, Subscribed(ok) PROVE FirstOnly'
  BY <1>1, <1>4, <1>n, <1>c DEF Subscribed, Subscribing, FirstOnly
<1>5. CASE Start
  BY <1>5, <1>n DEF Start, OpenSession, FirstOnly
<1>6. CASE Reconnect \/ Replace
  <2>1. opened > 0
    BY <1>6, <1>n DEF Reconnect, Replace, Callback, FirstOnly
  <2> QED
    BY <1>6, <1>n, <2>1 DEF Reconnect, Replace, OpenSession, FirstOnly
<1>7. CASE StartFails \/ StartTimesOut \/ Stop
  <2>1. opened > 0
    BY <1>7, <1>n DEF StartFails, StartTimesOut, Stop, FirstOnly
  <2>2. UNCHANGED opened /\ state' \in {state, "stopped"} /\ reconnector' = "none"
    BY <1>7 DEF StartFails, StartTimesOut, Stop, StopTasks
  <2> QED
    BY <1>1, <2>1, <2>2 DEF FirstOnly
<1>8. CASE StartReturns \/ ReconnectReturns \/ Command \/ ReconnectTimesOut
  <2>1. opened > 0 /\ state # "disconnected"
    BY <1>8, <1>n DEF StartReturns, ReconnectReturns, Command, ReconnectTimesOut, FirstOnly
  <2> QED
    BY <1>1, <1>8, <2>1
       DEF StartReturns, ReconnectReturns, Command, ReconnectTimesOut
<1>9. CASE Handle /\ ~Replace
  <2>1. opened > 0 /\ state # "disconnected"
    <3>1. callbacks # <<>>
      BY <1>9 DEF Handle, HandleConnect, HandleRefused, HandleDisconnect, FallBack, CompleteFails,
                  Complete, Lapse, Opened, Stopped, Callback
    <3> QED
      BY <3>1, <1>n DEF FirstOnly
  <2>2. UNCHANGED opened /\ state' \in {state, "reconnecting", "connected", "stopped"}
    BY <1>9 DEF Handle, HandleConnect, HandleRefused, HandleDisconnect, ScheduleReconnect, FallBack,
                CompleteFails, Complete, Lapse, Opened, Stopped
  <2>3. \/ reconnector' = reconnector \/ reconnector' = "sleeping"
        \/ reconnector \in {"opening", "waiting"}
    BY <1>9 DEF Handle, HandleConnect, HandleRefused, HandleDisconnect, ScheduleReconnect, FallBack,
                CompleteFails, Complete, SetConnected, Wake, Lapse, Opened, Stopped
  <2> QED
    BY <1>1, <2>1, <2>2, <2>3
<1>10. CASE UNCHANGED mqttVars
  BY <1>10 DEF mqttVars, FirstOnly
<1> QED
  BY <1>2, <1>3, <1>4, <1>5, <1>6, <1>7, <1>8, <1>9, <1>10 DEF MqttNext, Handle, Resume

LEMMA ReadyFirstStep ==
  SessionTypes /\ StopMarked /\ FirstOnly /\ (~stopping => Running) /\ ReadyFirst
     /\ [MqttNext]_mqttVars => ReadyFirst'
<1> SUFFICES ASSUME SessionTypes, StopMarked, FirstOnly, ~stopping => Running, ReadyFirst,
                    [MqttNext]_mqttVars,
                    opened' = 1, state' = "connected", ~stopping', session' # NoSession
             PROVE  session' \in requested' \/ Carries(callbacks', <<"disconnect", session'>>)
  BY DEF ReadyFirst, ConnectedIsCurrent, Carries
<1> USE DEF taskVars, threads, flags
<1>q. callbacks \in Seq(Callbacks) /\ opened \in Nat
  BY SessionsAssumption DEF SessionTypes, NumberTypes
<1>t. /\ callbacks # <<>> => Takes(callbacks, Tail(callbacks))
      /\ \A c \in Callbacks : Adds(callbacks, Append(callbacks, c), c)
  BY <1>q, Taking, Adding
<1>1. ASSUME UNCHANGED <<opened, state, stopping, session>>, requested \subseteq requested',
             \A s : Carries(callbacks, <<"disconnect", s>>) => Carries(callbacks', <<"disconnect", s>>)
      PROVE  session' \in requested' \/ Carries(callbacks', <<"disconnect", session'>>)
  BY <1>1 DEF ReadyFirst, ConnectedIsCurrent, Carries
<1>2. ASSUME NEW s \in Sessions, Dialed(s) \/ LinkUp(s) \/ Refused(s) \/ LinkDown(s)
      PROVE  session' \in requested' \/ Carries(callbacks', <<"disconnect", session'>>)
  <2>0. /\ <<"opened", s>> \in Callbacks /\ <<"connect", s>> \in Callbacks
        /\ <<"refused", s>> \in Callbacks /\ <<"disconnect", s>> \in Callbacks
    BY DEF Callbacks
  <2>1. \A d : Carries(callbacks, d) => Carries(callbacks', d)
    <3>1. CASE Dialed(s) \/ LinkUp(s) \/ LinkDown(s)
      BY <3>1, <1>t, <2>0 DEF Dialed, LinkUp, LinkDown, Adds
    <3>2. CASE Refused(s)
      <4>1. callbacks' = Append(Append(callbacks, <<"refused", s>>), <<"disconnect", s>>)
        BY <3>2, <1>q, <2>0, AddingTwo DEF Refused
      <4>2. Adds(callbacks, Append(callbacks, <<"refused", s>>), <<"refused", s>>)
            /\ Adds(Append(callbacks, <<"refused", s>>), callbacks', <<"disconnect", s>>)
        BY <4>1, <1>q, <2>0, AddingTwo
      <4> QED
        BY <4>2 DEF Adds
    <3> QED
      BY <1>2, <3>1, <3>2
  <2>2. CASE LinkDown(s)
    <3>1. Carries(callbacks', <<"disconnect", s>>)
      BY <1>t, <2>0, <2>2 DEF LinkDown, Adds
    <3>2. UNCHANGED <<opened, state, stopping, session>> /\ requested' = requested \ {s}
      BY <2>2 DEF LinkDown
    <3> QED
      BY <2>1, <3>1, <3>2 DEF ReadyFirst, ConnectedIsCurrent, Carries
  <2>3. CASE Dialed(s) \/ LinkUp(s) \/ Refused(s)
    BY <1>1, <2>1, <2>3 DEF Dialed, LinkUp, Refused
  <2> QED
    BY <1>2, <2>2, <2>3
<1>3. ASSUME NEW p \in closing, Closed(p[1], p[2]) PROVE FALSE
  BY <1>3 DEF Closed, Running, OneClose
<1>4. ASSUME NEW ok \in BOOLEAN, Subscribed(ok)
      PROVE  session' \in requested' \/ Carries(callbacks', <<"disconnect", session'>>)
  <2>0. <<"subscribed", ok>> \in Callbacks
    BY DEF Callbacks
  <2>1. \A d : Carries(callbacks, d) => Carries(callbacks', d)
    BY <1>4, <1>t, <2>0 DEF Subscribed, Adds
  <2> QED
    BY <1>1, <1>4, <2>1 DEF Subscribed
<1> HIDE DEF Callbacks
<1>5. ~Start
  BY DEF Start
<1>6. ~Reconnect /\ ~Replace
  BY <1>q DEF Reconnect, Replace, OpenSession, Callback, FirstOnly
<1>7. ~(StartFails \/ StartTimesOut \/ Stop)
  BY DEF StartFails, StartTimesOut, Stop, StopTasks
<1>8. CASE StartReturns \/ ReconnectReturns \/ Command \/ ReconnectTimesOut
  BY <1>1, <1>8 DEF StartReturns, ReconnectReturns, Command, ReconnectTimesOut
<1>9. ~HandleDisconnect /\ ~Stopped
  BY DEF HandleDisconnect, Stopped
<1>10. CASE Complete
  <2>0. callbacks' = Tail(callbacks) /\ callbacks # <<>> /\ Head(callbacks)[1] = "subscribed"
    BY <1>10 DEF Complete, Callback
  <2>1. \A s : Carries(callbacks, <<"disconnect", s>>) => Carries(callbacks', <<"disconnect", s>>)
    BY <1>t, <2>0 DEF Takes
  <2>2. CASE connector.session = session
    BY <1>10, <2>2 DEF Complete
  <2>3. CASE connector.session # session
    BY <1>1, <1>10, <2>1, <2>3 DEF Complete
  <2> QED
    BY <2>2, <2>3
<1>11. CASE HandleConnect \/ HandleRefused \/ FallBack \/ CompleteFails \/ Lapse \/ Opened
  <2>0. /\ callbacks' = Tail(callbacks) /\ callbacks # <<>>
        /\ Head(callbacks)[1] \in {"connect", "refused", "subscribed", "opened", "closed"}
    BY <1>11 DEF HandleConnect, HandleRefused, FallBack, CompleteFails, Lapse, Opened, Callback
  <2>1. \A s : Carries(callbacks, <<"disconnect", s>>) => Carries(callbacks', <<"disconnect", s>>)
    BY <1>t, <2>0 DEF Takes
  <2>2. UNCHANGED <<opened, stopping, session, requested>> /\ state' \in {state, "reconnecting"}
    BY <1>11 DEF HandleConnect, HandleRefused, FallBack, CompleteFails, Lapse, Opened, ScheduleReconnect
  <2> QED
    BY <1>1, <2>1, <2>2
<1>12. CASE UNCHANGED mqttVars
  BY <1>1, <1>12 DEF mqttVars
<1> QED
  BY <1>2, <1>3, <1>4, <1>5, <1>6, <1>7, <1>8, <1>9, <1>10, <1>11, <1>12 DEF MqttNext, Handle, Resume

LEMMA AdapterFollowsStep ==
  SessionTypes /\ AdapterFollows /\ [MqttNext]_mqttVars => AdapterFollows'
<1> SUFFICES ASSUME SessionTypes, AdapterFollows, [MqttNext]_mqttVars, ~Local
             PROVE  adapter' = NoSession \/ session' = NoSession \/ adapter' = session'
  BY DEF AdapterFollows
<1> USE DEF taskVars, threads, flags
<1>1. CASE UNCHANGED <<adapter, session>>
  BY <1>1 DEF AdapterFollows
<1>2. CASE OpenSession
  BY <1>2 DEF OpenSession
<1>3. CASE session' = NoSession
  BY <1>3
<1>4. CASE Command
  BY <1>4 DEF Command, AdapterFollows
<1>5. \/ UNCHANGED <<adapter, session>> \/ OpenSession \/ session' = NoSession \/ Command
  <2>1. ASSUME NEW s \in Sessions, Dialed(s) \/ LinkUp(s) \/ Refused(s) \/ LinkDown(s)
        PROVE  UNCHANGED <<adapter, session>>
    BY <2>1 DEF Dialed, LinkUp, Refused, LinkDown
  <2>2. ASSUME NEW p \in closing, Closed(p[1], p[2]) PROVE UNCHANGED <<adapter, session>>
    BY <2>2 DEF Closed
  <2>3. ASSUME NEW ok \in BOOLEAN, Subscribed(ok) PROVE UNCHANGED <<adapter, session>>
    BY <2>3 DEF Subscribed
  <2>4. ASSUME Start \/ Reconnect \/ Replace PROVE OpenSession \/ session' = NoSession
    BY <2>4 DEF Start, Reconnect, Replace
  <2>5. ASSUME StartFails \/ StartTimesOut \/ Stop PROVE session' = NoSession
    BY <2>5 DEF StartFails, StartTimesOut, Stop, StopTasks
  <2>6. ASSUME StartReturns \/ ReconnectReturns \/ ReconnectTimesOut PROVE UNCHANGED <<adapter, session>>
    BY <2>6 DEF StartReturns, ReconnectReturns, ReconnectTimesOut
  <2>7. ASSUME Handle, ~Replace PROVE UNCHANGED <<adapter, session>>
    BY <2>7 DEF Handle, HandleConnect, HandleRefused, HandleDisconnect, FallBack, CompleteFails,
                Complete, Lapse, Opened, Stopped
  <2>8. CASE UNCHANGED mqttVars
    BY <2>8 DEF mqttVars
  <2> QED
    BY <2>1, <2>2, <2>3, <2>4, <2>5, <2>6, <2>7, <2>8 DEF MqttNext, Handle, Resume
<1> QED
  BY <1>1, <1>2, <1>3, <1>4, <1>5

LEMMA FlagsStep == FlagTypes /\ [MqttNext]_mqttVars => FlagTypes'
<1> SUFFICES ASSUME FlagTypes, [MqttNext]_mqttVars PROVE FlagTypes'
  OBVIOUS
<1>1. /\ stopping' = stopping \/ stopping' = TRUE
      /\ connected' = connected \/ connected' = TRUE \/ connected' = FALSE
      /\ failure' = failure \/ failure' = TRUE \/ failure' = FALSE
  BY DEF MqttNext, Handle, Resume, mqttVars, taskVars, threads, flags, Dialed, LinkUp, Refused, LinkDown, Closed,
         Subscribed, Start, StartTimesOut, Stop, Reconnect, ReconnectTimesOut, Command, StartReturns,
         StartFails, ReconnectReturns, StopTasks, HandleConnect, HandleRefused, HandleDisconnect, FallBack, CompleteFails, Complete, SetConnected, Lapse, Opened, Replace, Stopped
<1> QED
  BY <1>1 DEF FlagTypes

\* The inductive invariant.  Once stopping, only the types and StopMarked matter.
SessionInv ==
  /\ SessionTypes /\ FlagTypes /\ StopMarked /\ FirstOnly
  /\ ~stopping => Running
  /\ ReadyFirst /\ AdapterFollows

LEMMA SessionInvStep == SessionInv /\ [MqttNext]_mqttVars => SessionInv' /\ (state = "stopped" => state' = "stopped")
<1> SUFFICES ASSUME SessionInv, [MqttNext]_mqttVars
             PROVE  SessionInv' /\ (state = "stopped" => state' = "stopped")
  OBVIOUS
<1>0. ~stopping' => ~stopping
  BY DEF MqttNext, Handle, Resume, mqttVars, taskVars, threads, flags, Dialed, LinkUp, Refused, LinkDown, Closed,
         Subscribed, Start, StartTimesOut, Stop, Reconnect, ReconnectTimesOut, Command, StartReturns,
         StartFails, ReconnectReturns, StopTasks, HandleConnect, HandleRefused, HandleDisconnect, FallBack, CompleteFails, Complete, SetConnected, Lapse, Opened, Replace, Stopped
<1> QED
  BY <1>0, SessionTypesStep, FlagsStep, StopMarkedStep, FirstOnlyStep, RunningStep, ReadyFirstStep,
     AdapterFollowsStep DEF SessionInv

LEMMA SessionInvInit == MqttInit => SessionInv
<1> SUFFICES ASSUME MqttInit PROVE SessionInv
  OBVIOUS
<1>1. \A k : ~Pending(callbacks, k) /\ Once(callbacks, k) /\ ~Carries(callbacks, k)
  BY DEF MqttInit, Pending, Once, Carries
<1>2. StopMarked
  BY <1>1 DEF MqttInit, StopMarked
<1>3. FirstOnly
  BY <1>1 DEF MqttInit, FirstOnly
<1>4. Running
  <2>1. OneDial /\ OneClose
    BY <1>1 DEF MqttInit, OneDial, OneClose
  <2>2. CurrentOnly
    BY DEF MqttInit, CurrentOnly, Open, NoSession
  <2> QED
    BY <2>1, <2>2 DEF Running
<1>5. ReadyFirst
  BY DEF MqttInit, ReadyFirst
<1>6. AdapterFollows
  BY DEF MqttInit, AdapterFollows
<1> QED
  BY <1>2, <1>3, <1>4, <1>5, <1>6, SessionTypesInit DEF SessionInv

LEMMA SessionInvGives ==
  SessionInv => /\ MqttTypeOK /\ OneSession /\ FirstSessionReady
                /\ ~Local => CommandsReachSession
<1> SUFFICES ASSUME SessionInv
             PROVE  /\ MqttTypeOK /\ OneSession /\ FirstSessionReady
                    /\ ~Local => CommandsReachSession
  OBVIOUS
<1>1. MqttTypeOK
  BY TypesAndFlags DEF SessionInv
<1>2. OneSession
  <2>1. SUFFICES ASSUME ~stopping, NEW s \in Sessions, NEW t \in Sessions, Open(s), Open(t)
                 PROVE  s = t
    BY DEF OneSession
  <2>2. OneClose /\ CurrentOnly
    BY <2>1 DEF SessionInv, Running
  <2>3. s # NoSession /\ t # NoSession
    BY DEF Sessions, NoSession
  <2>4. CASE closing = {}
    BY <2>1, <2>2, <2>4 DEF CurrentOnly
  <2>5. CASE closing # {}
    <3>1. session = NoSession
      BY <2>2, <2>5 DEF OneClose
    <3>2. <<s, "reconnect">> \in closing /\ <<t, "reconnect">> \in closing
      BY <2>1, <2>2, <2>3, <3>1 DEF CurrentOnly
    <3>3. <<s, "reconnect">> = <<t, "reconnect">>
      BY <2>2, <3>2 DEF OneClose
    <3> QED
      BY <3>3
  <2> QED
    BY <2>4, <2>5
<1>3. FirstSessionReady
  BY DEF SessionInv, ReadyFirst, FirstSessionReady
<1>4. ASSUME ~Local PROVE CommandsReachSession
  <2>1. session \in requested => session # NoSession
    BY SessionsAssumption DEF SessionInv, SessionTypes, NumberTypes, LinkTypes, NoSession
  <2> QED
    BY <1>4, <2>1 DEF SessionInv, AdapterFollows, CommandsReachSession
<1> QED
  BY <1>1, <1>2, <1>3, <1>4

\* SessionInv is an invariant, for any number of sessions and any trouble.
THEOREM SessionInvHolds == MqttSpec => []SessionInv
<1>1. SessionInv /\ [MqttNext]_mqttVars => SessionInv'
  BY SessionInvStep
<1> QED
  BY <1>1, SessionInvInit, PTL DEF MqttSpec

\* No callback that is still queued or arrives later revives a stopped transport.
THEOREM StoppedStays == MqttSpec => StoppedForGood
<1>1. SessionInv /\ [MqttNext]_mqttVars => [state = "stopped" => state' = "stopped"]_mqttVars
  BY SessionInvStep
<1> QED
  BY <1>1, SessionInvHolds, PTL DEF MqttSpec, StoppedForGood

\* Sessions of the Cloud transport are never multiplied, the first is CONNECTED
\* only when ready, and commands are published on the session that replaced it
\* (of a Local transport commands may stay on the session that was replaced).
THEOREM SessionsAreSound ==
  ASSUME ~Local PROVE MqttSpec => []SessionsSound
<1>1. SessionInv => SessionsSound
  BY SessionInvGives DEF SessionsSound
<1> QED
  BY <1>1, SessionInvHolds, PTL

-----------------------------------------------------------------------------
(***************************************************************************)
(* The router's write authority: it implements the single-writer lease, and*)
(* an authority that ended is never used again.                            *)
(***************************************************************************)

\* Every captured authority is at most as new as the lease, strictly older
\* once it was revoked; writes of the current generation went to the current
\* holder, and there are none before the lease is synchronized.
AuthNotNewer ==
  \A t \in Tasks : auth[t] # None => auth[t].generation <= lease.generation

SentByHolder ==
  \A a \in sent :
    /\ a.generation <= lease.generation
    /\ a.generation = lease.generation =>
         /\ lease.synchronized
         /\ a.device = lease.device /\ a.transport = lease.transport

RouterInv == RouterTypeOK /\ AuthNotNewer /\ RevokedIsOlder /\ SentByHolder

LEMMA RouterInitInv == RouterInit => RouterInv
BY GenerationAssumption
   DEF RouterInit, RouterInv, RouterTypeOK, AuthNotNewer, RevokedIsOlder,
       SentByHolder, Leases

\* An authority that ends takes its generation with it.
LEMMA HandOverInv ==
  ASSUME RouterInv, NEW new \in Leases,
         new.generation = lease.generation + 1, new.generation <= MaxGeneration,
         ~new.synchronized, lease' = new, RevokeCaptured, UNCHANGED <<auth, sent>>
  PROVE  RouterInv'
<1>1. lease \in Leases /\ lease.generation \in Nat
  BY DEF RouterInv, RouterTypeOK, Leases
<1>2. RouterTypeOK'
  BY DEF RouterInv, RouterTypeOK, RevokeCaptured
<1>3. \A t \in Tasks : auth[t] # None =>
        /\ auth[t].generation \in Nat
        /\ auth[t].generation <= lease.generation
  BY DEF RouterInv, RouterTypeOK, AuthNotNewer, Authorizations
<1>4. AuthNotNewer' /\ RevokedIsOlder'
  BY <1>1, <1>3 DEF AuthNotNewer, RevokedIsOlder, RevokeCaptured
<1>5. SentByHolder'
  <2> SUFFICES ASSUME NEW a \in sent
               PROVE  a.generation <= lease'.generation
                      /\ a.generation # lease'.generation
    BY DEF SentByHolder
  <2>1. a.generation \in Nat /\ a.generation <= lease.generation
    BY DEF RouterInv, RouterTypeOK, SentByHolder, Authorizations
  <2> QED BY <1>1, <2>1
<1> QED BY <1>2, <1>4, <1>5 DEF RouterInv

LEMMA RouterNextInv == RouterInv /\ [RouterNext]_routerVars => RouterInv'
<1> SUFFICES ASSUME RouterInv, [RouterNext]_routerVars PROVE RouterInv'
  OBVIOUS
<1>0. /\ lease \in Leases /\ lease.generation \in Nat
      /\ lease.generation <= MaxGeneration /\ MaxGeneration \in Nat
  BY GenerationAssumption DEF RouterInv, RouterTypeOK, Leases
<1>1. ASSUME NEW d \in Devices \cup {None}, NEW tr \in Transports \cup {None},
             Select(d, tr)
      PROVE  RouterInv'
  <2> DEFINE new == [device |-> d, transport |-> tr,
                     generation |-> lease.generation + 1, synchronized |-> FALSE]
  <2>1. /\ new \in Leases /\ new.generation = lease.generation + 1
        /\ ~new.synchronized /\ new.generation <= MaxGeneration
    BY <1>0, <1>1 DEF Leases, Select
  <2>2. lease' = new /\ RevokeCaptured /\ UNCHANGED <<auth, sent>>
    BY <1>1 DEF Select
  <2> HIDE DEF new
  <2> QED BY <2>1, <2>2, HandOverInv
<1>2. ASSUME NEW ready \in BOOLEAN, UpdateReadiness(ready)
      PROVE  RouterInv'
  <2>1. CASE lease.synchronized
    <3> DEFINE new == [device |-> lease.device, transport |-> lease.transport,
                       generation |-> lease.generation + 1, synchronized |-> FALSE]
    <3>0. lease.generation < MaxGeneration
      BY <1>2, <2>1 DEF UpdateReadiness
    <3>1. /\ new \in Leases /\ new.generation = lease.generation + 1
          /\ ~new.synchronized
      BY <1>0 DEF Leases
    <3>2. lease' = new /\ RevokeCaptured /\ UNCHANGED <<auth, sent>>
      BY <1>2, <2>1 DEF UpdateReadiness
    <3>3. new.generation <= MaxGeneration
      BY <1>0, <3>0, <3>1
    <3> HIDE DEF new
    <3> QED BY <3>1, <3>2, <3>3, HandOverInv
  <2>2. CASE ~lease.synchronized
    <3>1. /\ lease.transport # None
          /\ lease' = [lease EXCEPT !.synchronized = TRUE]
          /\ UNCHANGED <<auth, revoked, sent>>
      BY <1>2, <2>2 DEF UpdateReadiness
    <3>2. /\ lease' \in Leases /\ lease'.generation = lease.generation
          /\ lease'.transport = lease.transport
      BY <1>0, <3>1 DEF Leases
    <3>3. RouterTypeOK'
      BY <3>1, <3>2 DEF RouterInv, RouterTypeOK
    <3>4. AuthNotNewer' /\ RevokedIsOlder'
      BY <3>1, <3>2 DEF RouterInv, AuthNotNewer, RevokedIsOlder
    <3>5. SentByHolder'
      BY <2>2, <3>1, <3>2 DEF RouterInv, SentByHolder
    <3> QED BY <3>3, <3>4, <3>5 DEF RouterInv
  <2> QED BY <2>1, <2>2
<1>3. ASSUME NEW t \in Tasks, NEW d \in Devices, NEW tr \in Transports,
             Capture(t, d, tr)
      PROVE  RouterInv'
  <2> DEFINE a == [device |-> d, transport |-> tr, generation |-> lease.generation]
  <2>1. a \in Authorizations /\ a.generation = lease.generation
    BY <1>0 DEF Authorizations
  <2>2. /\ auth' = [auth EXCEPT ![t] = a] /\ revoked' = revoked \ {t}
        /\ UNCHANGED <<lease, sent>>
    BY <1>3 DEF Capture
  <2> HIDE DEF a
  <2>3. RouterTypeOK'
    BY <2>1, <2>2 DEF RouterInv, RouterTypeOK
  <2>4. auth \in [Tasks -> Authorizations \cup {None}] /\ revoked \subseteq Tasks
    BY DEF RouterInv, RouterTypeOK
  <2>5. AuthNotNewer' /\ RevokedIsOlder'
    BY <1>0, <2>1, <2>2, <2>4 DEF RouterInv, AuthNotNewer, RevokedIsOlder
  <2>6. SentByHolder'
    BY <2>2 DEF RouterInv, SentByHolder
  <2> QED BY <2>3, <2>5, <2>6 DEF RouterInv
<1>4. ASSUME NEW t \in Tasks, Execute(t)
      PROVE  RouterInv'
  <2>1. auth \in [Tasks -> Authorizations \cup {None}] /\ revoked \subseteq Tasks
    BY DEF RouterInv, RouterTypeOK
  <2>2. auth[t] \in Authorizations
    BY <1>4, <2>1 DEF Execute
  <2>3. RouterTypeOK'
    BY <1>4, <2>1, <2>2 DEF RouterInv, RouterTypeOK, Execute
  <2>4. AuthNotNewer' /\ RevokedIsOlder'
    BY <1>4, <2>1 DEF RouterInv, AuthNotNewer, RevokedIsOlder, Execute
  <2>5. SentByHolder'
    BY <1>0, <1>4 DEF RouterInv, SentByHolder, Execute
  <2> QED BY <2>3, <2>4, <2>5 DEF RouterInv
<1>5. CASE UNCHANGED routerVars
  BY <1>5 DEF routerVars, RouterInv, RouterTypeOK, AuthNotNewer, RevokedIsOlder,
              SentByHolder
<1> QED BY <1>1, <1>2, <1>3, <1>4, <1>5 DEF RouterNext

LEMMA RouterInvariant == RouterSpec => []RouterInv
BY RouterInitInv, RouterNextInv, PTL DEF RouterSpec

\* The writes of one generation all go to the device and transport that held
\* the lease in that generation: a lease is never transferred.
THEOREM LeaseNeverTransferred == RouterSpec => []OneTargetPerGeneration
<1>1. RouterInv /\ OneTargetPerGeneration /\ [RouterNext]_routerVars
        => OneTargetPerGeneration'
  <2> SUFFICES ASSUME RouterInv, OneTargetPerGeneration, [RouterNext]_routerVars
               PROVE  OneTargetPerGeneration'
    OBVIOUS
  <2>1. CASE sent' = sent
    BY <2>1 DEF OneTargetPerGeneration
  <2>2. ASSUME NEW t \in Tasks, Execute(t)
        PROVE  OneTargetPerGeneration'
    <3>1. /\ sent' = sent \cup {auth[t]}
          /\ auth[t].device = lease.device /\ auth[t].transport = lease.transport
          /\ auth[t].generation = lease.generation
      BY <2>2 DEF Execute
    <3>2. auth[t] \in Authorizations /\ sent \subseteq Authorizations
      BY <2>2 DEF Execute, RouterInv, RouterTypeOK
    <3>3. \A a \in sent : a.generation = lease.generation => a = auth[t]
      <4> SUFFICES ASSUME NEW a \in sent, a.generation = lease.generation
                   PROVE  a = auth[t]
        OBVIOUS
      <4>1. a.device = auth[t].device /\ a.transport = auth[t].transport
            /\ a.generation = auth[t].generation
        BY <3>1 DEF RouterInv, SentByHolder
      <4> QED BY <3>2, <4>1 DEF Authorizations
    <3> QED BY <3>1, <3>3 DEF OneTargetPerGeneration
  <2>3. (\A t \in Tasks : ~Execute(t)) => sent' = sent
    BY DEF RouterNext, routerVars, Select, UpdateReadiness, Capture
  <2> QED BY <2>1, <2>2, <2>3
<1>2. RouterInit => OneTargetPerGeneration
  BY DEF RouterInit, OneTargetPerGeneration
<1> QED BY <1>1, <1>2, RouterInvariant, PTL DEF RouterSpec

\* A revoked authority belongs to an older generation, so execute refuses it;
\* only a new capture lets the task write again.
THEOREM RevokedAuthorityNeverUsed == RouterSpec => NoReplay
<1>1. RouterInv /\ [RouterNext]_routerVars =>
        [\A t \in revoked : sent' # sent => auth'[t] = auth[t]]_routerVars
  <2> SUFFICES ASSUME RouterInv, RouterNext, NEW u \in revoked, sent' # sent
               PROVE  auth'[u] = auth[u]
    OBVIOUS
  <2>1. PICK t \in Tasks : Execute(t)
    BY DEF RouterNext, Select, UpdateReadiness, Capture
  <2>2. u # t
    <3>1. auth[t].generation = lease.generation
      BY <2>1 DEF Execute
    <3>2. auth[u].generation < lease.generation /\ lease.generation \in Nat
      BY DEF RouterInv, RevokedIsOlder, RouterTypeOK, Leases
    <3> QED BY <3>1, <3>2
  <2>3. auth \in [Tasks -> Authorizations \cup {None}] /\ u \in Tasks
    BY DEF RouterInv, RouterTypeOK
  <2> QED BY <2>1, <2>2, <2>3 DEF Execute
<1> QED BY <1>1, RouterInvariant, PTL DEF RouterSpec, NoReplay

(***************************************************************************)
(* Refinement: a selection or a loss of readiness revokes, readiness of the *)
(* selected transport grants, an execution writes, a capture stutters.     *)
(***************************************************************************)
LEMMA LeaseStep == RouterInv /\ [RouterNext]_routerVars
                     => [Lease!LeaseNext]_(Lease!leaseVars)
<1> SUFFICES ASSUME RouterInv, [RouterNext]_routerVars
             PROVE  [Lease!LeaseNext]_(Lease!leaseVars)
  OBVIOUS
<1> DEFINE h == IF lease.synchronized THEN <<lease.device, lease.transport>> ELSE None
           w == {<<a.generation, <<a.device, a.transport>>>> : a \in sent}
<1>0. lease \in Leases /\ lease.generation \in Nat
  BY DEF RouterInv, RouterTypeOK, Leases
<1>1. ASSUME NEW d \in Devices \cup {None}, NEW tr \in Transports \cup {None},
             Select(d, tr)
      PROVE  Lease!Revoke
  BY <1>0, <1>1 DEF Select, Lease!Revoke
<1>2. ASSUME NEW ready \in BOOLEAN, UpdateReadiness(ready)
      PROVE  Lease!LeaseNext
  <2>1. CASE lease.synchronized
    <3>1. /\ lease' = [device |-> lease.device, transport |-> lease.transport,
                       generation |-> lease.generation + 1, synchronized |-> FALSE]
          /\ sent' = sent
      BY <1>2, <2>1 DEF UpdateReadiness
    <3>2. lease'.generation = lease.generation + 1 /\ ~lease'.synchronized
      BY <3>1
    <3> QED BY <3>1, <3>2 DEF Lease!LeaseNext, Lease!Revoke
  <2>2. CASE ~lease.synchronized
    <3>1. /\ lease' = [lease EXCEPT !.synchronized = TRUE] /\ sent' = sent
          /\ lease.transport # None
      BY <1>2, <2>2 DEF UpdateReadiness
    <3>2. /\ lease'.generation = lease.generation /\ lease'.synchronized
          /\ lease'.device = lease.device /\ lease'.transport = lease.transport
          /\ lease.device \in Devices \cup {None} /\ lease.transport \in Transports
      BY <1>0, <3>1 DEF Leases
    <3>3. <<lease.device, lease.transport>> \in LeaseWriters
      BY <3>2 DEF LeaseWriters
    <3>4. Lease!Grant(<<lease.device, lease.transport>>)
      BY <2>2, <3>1, <3>2 DEF Lease!Grant
    <3> QED BY <3>3, <3>4 DEF Lease!LeaseNext
  <2> QED BY <2>1, <2>2
<1>3. ASSUME NEW t \in Tasks, NEW d \in Devices, NEW tr \in Transports,
             Capture(t, d, tr)
      PROVE  UNCHANGED Lease!leaseVars
  BY <1>3 DEF Capture, Lease!leaseVars
<1>4. ASSUME NEW t \in Tasks, Execute(t)
      PROVE  Lease!HolderWrites
  <2>1. /\ lease.synchronized /\ lease' = lease
        /\ sent' = sent \cup {auth[t]}
        /\ auth[t].device = lease.device /\ auth[t].transport = lease.transport
        /\ auth[t].generation = lease.generation
    BY <1>4 DEF Execute
  <2>2. w' = w \cup {<<lease.generation, <<lease.device, lease.transport>>>>}
    BY <2>1
  <2>3. h = <<lease.device, lease.transport>> /\ h # None
    <3>1. <<lease.device, lease.transport>> \in LeaseWriters
      BY <1>0, <2>1 DEF RouterInv, RouterTypeOK, Leases, LeaseWriters
    <3> QED BY <2>1, <3>1, NoneAssumption DEF LeaseWriters
  <2> QED BY <2>1, <2>2, <2>3 DEF Lease!HolderWrites
<1>5. CASE UNCHANGED routerVars
  BY <1>5 DEF routerVars, Lease!leaseVars
<1> QED BY <1>1, <1>2, <1>3, <1>4, <1>5 DEF RouterNext, Lease!LeaseNext

\* The router implements the abstract single-writer lease: whatever devices,
\* transports and tasks there are, a step of the router grants, revokes, writes
\* under, or leaves alone the lease on one device over one transport.
THEOREM RouterImplementsLease == RouterSpec => Lease!LeaseSpec
<1>1. RouterInit => Lease!LeaseInit
  BY DEF RouterInit, Lease!LeaseInit
<1> QED BY <1>1, LeaseStep, RouterInvariant, PTL DEF RouterSpec, Lease!LeaseSpec

-----------------------------------------------------------------------------
(***************************************************************************)
(* The delayed standby write: every pending standby task can be found and  *)
(* cancelled, and where a write ends with its task no stop undoes a newer  *)
(* target.  The lock is a queue of distinct users in which the calls of the*)
(* coordinator stand in the order in which they entered; the generation a  *)
(* call noted is older than the present one as soon as a newer active target*)
(* entered.                                                                *)
(***************************************************************************)

Users == {Call(n) : n \in Requests} \cup {Task(n) : n \in Requests}

\* A lock: each user once, the calls in the order in which they entered.
Lock(q) ==
  /\ q \in Seq(Users)
  /\ \A i, j \in 1..Len(q) : q[i] = q[j] => i = j
  /\ \A i, j \in 1..Len(q), a, b \in Requests :
       i < j /\ q[i] = Call(a) /\ q[j] = Call(b) => a < b

\* u holds the lock or waits for it.
Queued(q, u) == \E i \in 1..Len(q) : q[i] = u

\* A call is not a task, and each has its number.
LEMMA UsersDistinct ==
  ASSUME NEW a, NEW b
  PROVE  Call(a) # Task(b) /\ (Call(a) = Call(b) => a = b) /\ (Task(a) = Task(b) => a = b)
BY DEF Call, Task

\* Nobody has the lock at first.
LEMMA EmptyLock == Lock(<<>>) /\ \A u : ~Queued(<<>>, u)
BY DEF Lock, Queued

\* A new user goes to the end of the queue.
LEMMA LockAppend ==
  ASSUME NEW q, Lock(q), NEW u \in Users, ~Queued(q, u),
         \A a, b \in Requests : u = Call(b) /\ Queued(q, Call(a)) => a < b
  PROVE  /\ Lock(Append(q, u)) /\ Append(q, u) # <<>>
         /\ \A v : Queued(Append(q, u), v) <=> Queued(q, v) \/ v = u
         /\ q # <<>> => Head(Append(q, u)) = Head(q)
<1> DEFINE r == Append(q, u)
<1>1. /\ r \in Seq(Users) /\ Len(r) = Len(q) + 1 /\ Len(q) \in Nat
      /\ \A i \in 1..Len(q) : r[i] = q[i]
      /\ r[Len(q) + 1] = u
  BY DEF Lock
<1> HIDE DEF r
<1>2. \A v : Queued(r, v) <=> Queued(q, v) \/ v = u
  <2> SUFFICES ASSUME NEW v PROVE Queued(r, v) <=> Queued(q, v) \/ v = u
    OBVIOUS
  <2>1. Queued(q, v) => Queued(r, v)
    BY <1>1 DEF Queued
  <2>2. v = u => Queued(r, v)
    BY <1>1 DEF Queued
  <2>3. Queued(r, v) => Queued(q, v) \/ v = u
    BY <1>1 DEF Queued
  <2> QED BY <2>1, <2>2, <2>3
<1>3. \A i, j \in 1..Len(r) : r[i] = r[j] => i = j
  BY <1>1 DEF Lock, Queued
<1>4. \A i, j \in 1..Len(r), a, b \in Requests :
        i < j /\ r[i] = Call(a) /\ r[j] = Call(b) => a < b
  BY <1>1 DEF Lock, Queued
<1>5. q # <<>> => Head(r) = Head(q)
  BY <1>1 DEF Lock
<1> QED BY <1>1, <1>2, <1>3, <1>4, <1>5 DEF Lock, r

\* A call goes behind the calls that entered before it.
LEMMA LockAppendCall ==
  ASSUME NEW q, Lock(q), NEW e \in Requests,
         \A a \in Requests : Queued(q, Call(a)) => a < e
  PROVE  /\ Lock(Append(q, Call(e))) /\ Append(q, Call(e)) # <<>>
         /\ \A v : Queued(Append(q, Call(e)), v) <=> Queued(q, v) \/ v = Call(e)
         /\ q # <<>> => Head(Append(q, Call(e))) = Head(q)
<1>1. Call(e) \in Users /\ e \in Nat
  BY RequestAssumption DEF Users, Requests
<1>2. ~Queued(q, Call(e))
  BY <1>1
<1>3. \A a, b \in Requests : Call(e) = Call(b) /\ Queued(q, Call(a)) => a < b
  BY UsersDistinct
<1> QED BY <1>1, <1>2, <1>3, LockAppend

\* A task may go behind anybody.
LEMMA LockAppendTask ==
  ASSUME NEW q, Lock(q), NEW n \in Requests, ~Queued(q, Task(n))
  PROVE  /\ Lock(Append(q, Task(n))) /\ Append(q, Task(n)) # <<>>
         /\ \A v : Queued(Append(q, Task(n)), v) <=> Queued(q, v) \/ v = Task(n)
         /\ q # <<>> => Head(Append(q, Task(n))) = Head(q)
<1>1. Task(n) \in Users
  BY DEF Users
<1>2. \A b \in Requests : Task(n) # Call(b)
  BY UsersDistinct
<1> QED BY <1>1, <1>2, LockAppend

\* The holder leaves.
LEMMA LockTail ==
  ASSUME NEW q, Lock(q), q # <<>>
  PROVE  /\ Lock(Tail(q)) /\ Head(q) \in Users /\ Queued(q, Head(q))
         /\ \A v : Queued(Tail(q), v) <=> Queued(q, v) /\ v # Head(q)
         /\ \A a, b \in Requests :
              Head(q) = Call(a) /\ Queued(Tail(q), Call(b)) => a < b
<1> DEFINE r == Tail(q)
<1>1. /\ r \in Seq(Users) /\ Len(q) = Len(r) + 1 /\ Len(r) \in Nat
      /\ \A i \in 1..Len(r) : r[i] = q[i + 1]
      /\ Head(q) = q[1] /\ q[1] \in Users
  BY DEF Lock
<1> HIDE DEF r
<1>2. \A v : Queued(r, v) <=> Queued(q, v) /\ v # Head(q)
  <2> SUFFICES ASSUME NEW v PROVE Queued(r, v) <=> Queued(q, v) /\ v # Head(q)
    OBVIOUS
  <2>1. Queued(r, v) => Queued(q, v) /\ v # Head(q)
    BY <1>1 DEF Queued, Lock
  <2>2. ASSUME NEW i \in 1..Len(q), q[i] = v, v # Head(q) PROVE Queued(r, v)
    <3>1. i - 1 \in 1..Len(r) /\ r[i - 1] = v
      BY <1>1, <2>2
    <3> QED BY <3>1 DEF Queued
  <2> QED BY <2>1, <2>2 DEF Queued
<1>3. \A i, j \in 1..Len(r) : r[i] = r[j] => i = j
  BY <1>1, SMTT(60) DEF Lock
<1>4. \A i, j \in 1..Len(r), a, b \in Requests :
        i < j /\ r[i] = Call(a) /\ r[j] = Call(b) => a < b
  <2> SUFFICES ASSUME NEW i \in 1..Len(r), NEW j \in 1..Len(r),
                      NEW a \in Requests, NEW b \in Requests,
                      i < j, r[i] = Call(a), r[j] = Call(b)
               PROVE  a < b
    OBVIOUS
  <2>1. i + 1 \in 1..Len(q) /\ j + 1 \in 1..Len(q) /\ i + 1 < j + 1
    BY <1>1
  <2> QED BY <1>1, <2>1 DEF Lock
<1>5. ASSUME NEW a \in Requests, NEW b \in Requests, Head(q) = Call(a), Queued(r, Call(b))
      PROVE  a < b
  <2>1. PICK j \in 1..Len(r) : r[j] = Call(b)
    BY <1>5 DEF Queued
  <2>2. 1 \in 1..Len(q) /\ j + 1 \in 1..Len(q) /\ 1 < j + 1 /\ q[j + 1] = Call(b)
    BY <1>1, <2>1
  <2> QED BY <1>1, <1>5, <2>2 DEF Lock
<1>6. Queued(q, Head(q))
  BY <1>1 DEF Queued
<1> QED BY <1>1, <1>2, <1>3, <1>4, <1>5, <1>6 DEF Lock, r

\* A cancelled task leaves the queue wherever it stands.
LEMMA LockWithout ==
  ASSUME NEW q, Lock(q), NEW n
  PROVE  /\ Lock(Without(q, n))
         /\ \A v : Queued(Without(q, n), v) <=> Queued(q, v) /\ v # Task(n)
         /\ q # <<>> /\ Head(q) # Task(n) =>
              Without(q, n) # <<>> /\ Head(Without(q, n)) = Head(q)
<1>1. CASE ~Queued(q, Task(n))
  <2>1. Without(q, n) = q
    BY <1>1 DEF Without, RemoveFirst, Queued
  <2> QED BY <1>1, <2>1
<1>2. CASE Queued(q, Task(n))
  <2>1. PICK k \in 1..Len(q) : q[k] = Task(n)
    BY <1>2 DEF Queued
  <2> DEFINE r == Without(q, n)
  <2>2. r = SubSeq(q, 1, k - 1) \o SubSeq(q, k + 1, Len(q))
    <3>1. {i \in 1..Len(q) : q[i] = Task(n)} = {k}
      BY <2>1 DEF Lock
    <3>2. Min({k}) = k
      BY DEF Min
    <3> QED BY <2>1, <3>1, <3>2 DEF Without, RemoveFirst, RemoveAt, SelectInSeq
  <2>3. /\ r \in Seq(Users) /\ Len(r) \in Nat /\ Len(q) = Len(r) + 1
        /\ \A i \in 1..Len(r) : r[i] = IF i < k THEN q[i] ELSE q[i + 1]
    <3>1. q \in Seq(Users) /\ Len(q) \in Nat /\ k \in 1..Len(q)
      BY DEF Lock
    <3> DEFINE s == SubSeq(q, 1, k - 1)
               t == SubSeq(q, k + 1, Len(q))
    <3>2. /\ s \in Seq(Users) /\ Len(s) = k - 1
          /\ \A i \in 1..(k - 1) : s[i] = q[i]
      BY <3>1
    <3>3. /\ t \in Seq(Users) /\ Len(t) = Len(q) - k
          /\ \A i \in 1..(Len(q) - k) : t[i] = q[i + k]
      BY <3>1
    <3> HIDE DEF s, t
    <3>4. /\ s \o t \in Seq(Users) /\ Len(s \o t) = Len(q) - 1
          /\ \A i \in 1..(Len(q) - 1) :
               (s \o t)[i] = IF i < k THEN q[i] ELSE q[i + 1]
      <4>1. s \o t \in Seq(Users) /\ Len(s \o t) = Len(q) - 1
        <5>1. s \o t \in Seq(Users) /\ Len(s \o t) = Len(s) + Len(t)
          BY <3>2, <3>3, ConcatProperties
        <5>2. (k - 1) + (Len(q) - k) = Len(q) - 1
          BY <3>1
        <5> QED BY <3>2, <3>3, <5>1, <5>2
      <4>2. ASSUME NEW i \in 1..(Len(q) - 1)
            PROVE  (s \o t)[i] = IF i < k THEN q[i] ELSE q[i + 1]
        <5>1. (s \o t)[i] = IF i <= Len(s) THEN s[i] ELSE t[i - Len(s)]
          BY <3>1, <3>2, <3>3, ConcatProperties
        <5>2. CASE i < k
          BY <3>1, <3>2, <5>1, <5>2
        <5>3. CASE i >= k
          <6>1. i - Len(s) \in 1..(Len(q) - k) /\ (i - Len(s)) + k = i + 1
            BY <3>1, <3>2, <5>3
          <6>2. t[i - Len(s)] = q[i + 1]
            BY <3>3, <6>1
          <6>3. ~(i <= Len(s)) /\ ~(i < k)
            BY <3>1, <3>2, <5>3
          <6> QED BY <5>1, <6>2, <6>3
        <5>4. i < k \/ i >= k
          BY <3>1
        <5> QED BY <5>2, <5>3, <5>4
      <4> QED BY <4>1, <4>2
    <3>5. r = s \o t
      BY <2>2 DEF s, t
    <3>6. Len(q) = Len(s \o t) + 1 /\ Len(s \o t) \in Nat
      BY <3>1, <3>4
    <3> HIDE DEF r
    <3> QED BY <3>1, <3>4, <3>5, <3>6
  <2> HIDE DEF r
  <2>4. \A v : Queued(r, v) <=> Queued(q, v) /\ v # Task(n)
    <3> SUFFICES ASSUME NEW v PROVE Queued(r, v) <=> Queued(q, v) /\ v # Task(n)
      OBVIOUS
    <3>1. Queued(r, v) => Queued(q, v) /\ v # Task(n)
      <4> SUFFICES ASSUME NEW i \in 1..Len(r), r[i] = v
                   PROVE  Queued(q, v) /\ v # Task(n)
        BY DEF Queued
      <4>1. CASE i < k
        BY <2>1, <2>3, <4>1 DEF Queued, Lock
      <4>2. CASE i >= k
        <5>1. i + 1 \in 1..Len(q) /\ q[i + 1] = v /\ i + 1 # k
          BY <2>3, <4>2
        <5> QED BY <2>1, <5>1 DEF Queued, Lock
      <4> QED BY <4>1, <4>2, <2>3
    <3>2. ASSUME NEW i \in 1..Len(q), q[i] = v, v # Task(n) PROVE Queued(r, v)
      <4>1. CASE i < k
        BY <2>3, <3>2, <4>1 DEF Queued
      <4>2. CASE i > k
        <5>1. i - 1 \in 1..Len(r) /\ r[i - 1] = v
          BY <2>3, <3>2, <4>2
        <5> QED BY <5>1 DEF Queued
      <4> QED BY <2>1, <2>3, <3>2, <4>1, <4>2
    <3> QED BY <3>1, <3>2 DEF Queued
  <2>5. \A i, j \in 1..Len(r) : r[i] = r[j] => i = j
    BY <2>1, <2>3 DEF Lock
  <2>6. \A i, j \in 1..Len(r), a, b \in Requests :
          i < j /\ r[i] = Call(a) /\ r[j] = Call(b) => a < b
    <3> SUFFICES ASSUME NEW i \in 1..Len(r), NEW j \in 1..Len(r),
                        NEW a \in Requests, NEW b \in Requests,
                        i < j, r[i] = Call(a), r[j] = Call(b)
                 PROVE  a < b
      OBVIOUS
    <3>1. PICK x \in 1..Len(q), y \in 1..Len(q) : x < y /\ q[x] = r[i] /\ q[y] = r[j]
      <4>1. (IF i < k THEN i ELSE i + 1) \in 1..Len(q)
            /\ (IF j < k THEN j ELSE j + 1) \in 1..Len(q)
            /\ (IF i < k THEN i ELSE i + 1) < (IF j < k THEN j ELSE j + 1)
        BY <2>3
      <4> QED BY <2>3, <4>1
    <3> QED BY <3>1 DEF Lock
  <2>7. q # <<>> /\ Head(q) # Task(n) => r # <<>> /\ Head(r) = Head(q)
    BY <2>1, <2>3 DEF Lock
  <2> QED BY <2>3, <2>4, <2>5, <2>6, <2>7 DEF Lock, r
<1> QED BY <1>1, <1>2

\* Exactly those that wait or write are in the queue; only its head writes.
QueueSound ==
  /\ Lock(queue)
  /\ \A n \in Requests :
       /\ Queued(queue, Call(n)) => calls[n].phase \in {"waiting", "writing"}
       /\ Queued(queue, Task(n)) => tasks[n].phase \in {"waiting", "writing"}
       /\ calls[n].phase = "waiting" => Queued(queue, Call(n))
       /\ calls[n].phase = "writing" => Holds(Call(n))
       /\ tasks[n].phase = "writing" => Holds(Task(n))

\* Calls enter with the present generation, the active ones with a new one, and
\* get the lock in the order in which they entered.
CallsSound ==
  /\ \A n \in Requests :
       /\ n > entered => calls[n] = NewCall
       /\ n <= entered => calls[n].kind # "none" /\ calls[n].phase # "none"
       /\ calls[n].gen <= gen
       /\ calls[n].applied => calls[n].phase \in {"writing", "done"}
       /\ Alive(n) => calls[n].kind = "stop"
  /\ \A n, m \in Requests :
       n < m /\ calls[m].kind = "active" => calls[n].gen < gen
  /\ \A n, m \in Requests :
       \/ calls[n].phase = "waiting" /\ calls[m].phase \in {"writing", "done"}
       \/ calls[n].phase = "writing" /\ calls[m].phase = "done"
       => m < n

\* An active target in the device was delivered by an active call.
DeviceSound ==
  /\ ~threaded => orphans = {}
  /\ dev.target = "active" /\ dev.by # 0 =>
       /\ dev.by \in Requests
       /\ calls[dev.by].kind = "active" /\ calls[dev.by].applied

\* The inductive invariant.
StandbyInv == StandbyTracked /\ QueueSound /\ CallsSound /\ DeviceSound

\* It holds at first.
LEMMA StandbyInitInv == StandbyInit => StandbyInv
<1> SUFFICES ASSUME StandbyInit PROVE StandbyInv
  OBVIOUS
<1> USE RequestAssumption, PollAssumption, ThreadsAssumption
<1>1. StandbyTypeOK
  BY DEF StandbyInit, StandbyTypeOK, NewCall, NewTask, Requests, NoTask, Targets
<1>2. OnlyTrackedTaskRuns /\ NoStandbyBehindTarget
  BY DEF StandbyInit, OnlyTrackedTaskRuns, NoStandbyBehindTarget, Alive, NewTask
<1>3. QueueSound
  BY EmptyLock DEF StandbyInit, QueueSound, NewCall, NewTask
<1>4. CallsSound
  BY DEF StandbyInit, CallsSound, NewCall, NewTask, Alive, Requests
<1>5. DeviceSound
  BY DEF StandbyInit, DeviceSound
<1> QED BY <1>1, <1>2, <1>3, <1>4, <1>5 DEF StandbyInv, StandbyTracked

\* What the types say, in the form the steps below use.
LEMMA StandbyTypes ==
  ASSUME StandbyTypeOK
  PROVE  /\ entered \in Nat /\ entered <= MaxRequests /\ MaxRequests \in Nat
         /\ gen \in Nat /\ threaded \in BOOLEAN
         /\ \A n \in Requests :
              /\ n \in Nat \ {0}
              /\ calls[n].kind \in {"none", "active", "stop"}
              /\ calls[n].phase \in {"none", "waiting", "writing", "done"}
              /\ calls[n].gen \in Nat /\ calls[n].applied \in BOOLEAN
              /\ tasks[n].phase \in {"none", "polling", "waiting", "writing", "ended"}
BY RequestAssumption, ThreadsAssumption DEF StandbyTypeOK, Requests

\* A lock has the type of the queue.
LEMMA LockTyped ==
  ASSUME NEW q, Lock(q)
  PROVE  \A i \in DOMAIN q : \E n \in Requests : q[i] \in {Call(n), Task(n)}
BY DEF Lock, Users

\* A request enters: an active one ends the tracked task first.
LEMMA EnterInv ==
  ASSUME StandbyInv, NEW kind \in {"active", "stop"}, Enter(kind)
  PROVE  StandbyInv'
<1> DEFINE e == entered + 1
<1> USE DEF StandbyInv, StandbyTracked
<1>1. e \in Requests /\ entered' = e /\ e \in Nat /\ entered \in Nat /\ \A n \in Requests : n <= entered \/ n = e \/ n > e
  BY StandbyTypes, RequestAssumption DEF Enter, Requests
<1>2. calls[e] = NewCall /\ ~Queued(queue, Call(e)) /\ ~Alive(e)
  BY <1>1 DEF CallsSound, QueueSound, NewCall, Alive
<1>3. /\ \A n \in Requests : n # e => calls'[n] = calls[n]
      /\ calls'[e] = [kind |-> kind, phase |-> "waiting", gen |-> gen', applied |-> FALSE]
      /\ calls' \in [Requests -> [kind : {"none", "active", "stop"},
                                  phase : {"none", "waiting", "writing", "done"},
                                  gen : Nat, applied : BOOLEAN]]
  <2>1. gen' \in Nat
    BY StandbyTypes DEF Enter
  <2>2. calls' = [calls EXCEPT ![e] = [kind |-> kind, phase |-> "waiting", gen |-> gen', applied |-> FALSE]]
    BY DEF Enter
  <2> HIDE DEF e
  <2> QED BY <1>1, <2>1, <2>2 DEF StandbyTypeOK
<1>4. \A a \in Requests : Queued(queue, Call(a)) => a < e
  <2> SUFFICES ASSUME NEW a \in Requests, Queued(queue, Call(a)) PROVE a < e
    OBVIOUS
  <2>1. calls[a].phase \in {"waiting", "writing"}
    BY DEF QueueSound
  <2>2. ~(a > entered)
    BY <2>1 DEF CallsSound, NewCall
  <2> QED BY <1>1, <2>2 DEF Requests
<1> HIDE DEF e
<1>5. CASE kind = "active"
  <2>1. /\ gen' = gen + 1 /\ tracked' = NoTask /\ tasks' = Ended(tasks, tracked)
        /\ queue' = Append(Without(queue, tracked), Call(e))
        /\ orphans' = Survivors(tracked)
        /\ UNCHANGED <<threaded, dev, report>>
    BY <1>5 DEF Enter, e
  <2>2. \A n \in Requests : ~Alive(n)' /\ (n # tracked => tasks'[n] = tasks[n])
    BY <2>1 DEF OnlyTrackedTaskRuns, Alive, Ended, StandbyTypeOK, NoTask, Requests
  <2>3. /\ Lock(Without(queue, tracked))
        /\ \A v : Queued(Without(queue, tracked), v) <=> Queued(queue, v) /\ v # Task(tracked)
        /\ queue # <<>> /\ Head(queue) # Task(tracked) =>
              Without(queue, tracked) # <<>> /\ Head(Without(queue, tracked)) = Head(queue)
    BY LockWithout DEF QueueSound
  <2>4. /\ Lock(queue') /\ queue' # <<>>
        /\ \A v : Queued(queue', v) <=> (Queued(queue, v) /\ v # Task(tracked)) \/ v = Call(e)
        /\ queue # <<>> /\ Head(queue) # Task(tracked) => Head(queue') = Head(queue)
    <3>1. \A a \in Requests : Queued(Without(queue, tracked), Call(a)) => a < e
      BY <1>4, <2>3
    <3>2. Lock(Without(queue, tracked))
      BY <2>3
    <3> HIDE DEF StandbyInv, StandbyTracked
    <3>3. /\ Lock(queue') /\ queue' # <<>>
          /\ \A v : Queued(queue', v) <=> Queued(Without(queue, tracked), v) \/ v = Call(e)
          /\ Without(queue, tracked) # <<>> => Head(queue') = Head(Without(queue, tracked))
      BY <1>1, <2>1, <3>1, <3>2, LockAppendCall
    <3> QED BY <2>3, <3>3
  <2>5. StandbyTypeOK'
    <3>1. tasks' \in [Requests ->
                 [phase : {"none", "polling", "waiting", "writing", "ended"},
                  gen : Nat, left : 0..ConfirmPolls, idle : 0..DelayPolls,
                  applied : BOOLEAN]]
      BY <2>1, ZenonT(60) DEF StandbyTypeOK, Ended
    <3>2. orphans' \subseteq Requests /\ gen' \in Nat /\ entered' \in 0..MaxRequests
      BY <1>1, <2>1, StandbyTypes DEF StandbyTypeOK, Survivors, Requests, NoTask
    <3>3. \A i \in DOMAIN queue' : \E n \in Requests : queue'[i] \in {Call(n), Task(n)}
      BY <2>4, LockTyped
    <3> QED BY <1>3, <2>1, <3>1, <3>2, <3>3 DEF StandbyTypeOK
  <2>6. OnlyTrackedTaskRuns' /\ NoStandbyBehindTarget'
    BY <2>2 DEF OnlyTrackedTaskRuns, NoStandbyBehindTarget
  <2>7. QueueSound'
    <3> SUFFICES ASSUME NEW n \in Requests
                 PROVE  /\ Queued(queue', Call(n)) => calls'[n].phase \in {"waiting", "writing"}
                        /\ Queued(queue', Task(n)) => tasks'[n].phase \in {"waiting", "writing"}
                        /\ calls'[n].phase = "waiting" => Queued(queue', Call(n))
                        /\ calls'[n].phase = "writing" => Holds(Call(n))'
                        /\ tasks'[n].phase = "writing" => Holds(Task(n))'
      BY <2>4 DEF QueueSound
    <3>1. Call(n) # Task(tracked) /\ Task(n) # Call(e) /\ (Call(n) = Call(e) => n = e)
          /\ (Task(n) # Task(tracked) => n # tracked)
      BY UsersDistinct
    <3>2. tasks'[n].phase # "writing"
      BY <2>2 DEF Alive
    <3>3. Queued(queue', Task(n)) => tasks'[n].phase \in {"waiting", "writing"}
      BY <2>2, <2>4, <3>1 DEF QueueSound
    <3>4. CASE n = e
      BY <1>3, <2>4, <3>2, <3>3, <3>4
    <3>5. CASE n # e
      BY <1>3, <2>4, <3>1, <3>2, <3>3, <3>5 DEF QueueSound, Holds
    <3> QED BY <3>4, <3>5
  <2>8. CallsSound'
    <3>0. \A n \in Requests :
            /\ n > entered' => n > entered /\ n # e
            /\ n <= entered' => n <= entered \/ n = e
      BY <1>1, StandbyTypes DEF e
    <3>1. \A n \in Requests :
            /\ n > entered' => calls'[n] = NewCall
            /\ n <= entered' => calls'[n].kind # "none" /\ calls'[n].phase # "none"
            /\ calls'[n].applied => calls'[n].phase \in {"writing", "done"}
      BY <1>1, <1>3, <3>0, StandbyTypes DEF CallsSound
    <3>2. \A n \in Requests : n # e => calls'[n].gen < gen'
      BY <1>3, <2>1, StandbyTypes DEF CallsSound
    <3>3. \A n \in Requests : calls'[n].gen <= gen'
      BY <1>3, <2>1, <3>2, StandbyTypes
    <3>4. \A n, m \in Requests : n < m /\ calls'[m].kind = "active" => calls'[n].gen < gen'
      BY <1>1, <1>3, <3>1, <3>2 DEF NewCall
    <3>5. \A n, m \in Requests :
            \/ calls'[n].phase = "waiting" /\ calls'[m].phase \in {"writing", "done"}
            \/ calls'[n].phase = "writing" /\ calls'[m].phase = "done"
            => m < n
      BY <1>1, <1>3, <3>1 DEF CallsSound, NewCall
    <3> QED BY <2>2, <3>1, <3>3, <3>4, <3>5 DEF CallsSound
  <2>9. DeviceSound'
    BY <1>2, <1>3, <2>1, StandbyTypes DEF DeviceSound, Survivors, NewCall
  <2> QED BY <2>5, <2>6, <2>7, <2>8, <2>9
<1>6. CASE kind = "stop"
  <2>1. /\ queue' = Append(queue, Call(e))
        /\ UNCHANGED <<gen, tracked, tasks, orphans, threaded, dev, report>>
    BY <1>6 DEF Enter, e
  <2>4. /\ Lock(queue') /\ queue' # <<>>
        /\ \A v : Queued(queue', v) <=> Queued(queue, v) \/ v = Call(e)
        /\ queue # <<>> => Head(queue') = Head(queue)
    BY <1>1, <1>4, <2>1, LockAppendCall DEF QueueSound
  <2>5. StandbyTypeOK'
    BY <1>1, <1>3, <2>1, <2>4, LockTyped, SMTT(60) DEF StandbyTypeOK, Requests
  <2>6. OnlyTrackedTaskRuns' /\ NoStandbyBehindTarget'
    BY <1>3, <1>6, <2>1 DEF OnlyTrackedTaskRuns, NoStandbyBehindTarget, Alive
  <2>7. QueueSound'
    <3> SUFFICES ASSUME NEW n \in Requests
                 PROVE  /\ Queued(queue', Call(n)) => calls'[n].phase \in {"waiting", "writing"}
                        /\ Queued(queue', Task(n)) => tasks'[n].phase \in {"waiting", "writing"}
                        /\ calls'[n].phase = "waiting" => Queued(queue', Call(n))
                        /\ calls'[n].phase = "writing" => Holds(Call(n))'
                        /\ tasks'[n].phase = "writing" => Holds(Task(n))'
      BY <2>4 DEF QueueSound
    <3>1. Task(n) # Call(e) /\ (Call(n) = Call(e) => n = e)
      BY UsersDistinct
    <3>4. CASE n = e
      BY <1>3, <2>1, <2>4, <3>1, <3>4 DEF QueueSound, Holds
    <3>5. CASE n # e
      BY <1>3, <2>1, <2>4, <3>1, <3>5 DEF QueueSound, Holds
    <3> QED BY <3>4, <3>5
  <2>8. CallsSound'
    <3>0. \A n \in Requests :
            /\ n > entered' => n > entered /\ n # e
            /\ n <= entered' => n <= entered \/ n = e
      BY <1>1, StandbyTypes DEF e
    <3>1. \A n \in Requests :
            /\ n > entered' => calls'[n] = NewCall
            /\ n <= entered' => calls'[n].kind # "none" /\ calls'[n].phase # "none"
            /\ calls'[n].applied => calls'[n].phase \in {"writing", "done"}
            /\ calls'[n].gen <= gen'
      BY <1>1, <1>3, <1>6, <2>1, <3>0, StandbyTypes DEF CallsSound
    <3>2. \A n \in Requests : Alive(n)' => calls'[n].kind = "stop"
      BY <1>3, <1>6, <2>1 DEF CallsSound, Alive
    <3>4. \A n, m \in Requests : n < m /\ calls'[m].kind = "active" => calls'[n].gen < gen'
      BY <1>1, <1>3, <1>6, <2>1, <3>1 DEF CallsSound, NewCall
    <3>5. \A n, m \in Requests :
            \/ calls'[n].phase = "waiting" /\ calls'[m].phase \in {"writing", "done"}
            \/ calls'[n].phase = "writing" /\ calls'[m].phase = "done"
            => m < n
      BY <1>1, <1>3, <3>1 DEF CallsSound, NewCall
    <3> QED BY <3>1, <3>2, <3>4, <3>5 DEF CallsSound
  <2>9. DeviceSound'
    <3>1. dev.by \in Requests /\ calls[dev.by].kind = "active" => dev.by # e
      BY <1>2 DEF NewCall
    <3> QED BY <1>3, <2>1, <3>1 DEF DeviceSound
  <2> QED BY <2>5, <2>6, <2>7, <2>8, <2>9
<1> QED BY <1>5, <1>6

\* The holder of the lock, and what stands behind it.
LEMMA HolderFacts ==
  ASSUME StandbyInv, NEW n \in Requests
  PROVE  /\ Holds(Call(n)) \/ Holds(Task(n)) =>
              /\ queue # <<>> /\ Lock(Tail(queue))
              /\ \A v : Queued(Tail(queue), v) <=> Queued(queue, v) /\ v # Head(queue)
         /\ Holds(Call(n)) =>
              \A m \in Requests :
                /\ calls[m].phase = "waiting" /\ m # n => n < m
                /\ calls[m].phase = "writing" => m = n
                /\ tasks[m].phase # "writing"
         /\ Holds(Task(n)) =>
              \A m \in Requests :
                /\ calls[m].phase # "writing"
                /\ tasks[m].phase = "writing" => m = n
<1> USE DEF StandbyInv
<1>1. ASSUME queue # <<>>
      PROVE  /\ Lock(Tail(queue))
             /\ \A v : Queued(Tail(queue), v) <=> Queued(queue, v) /\ v # Head(queue)
             /\ \A a, b \in Requests :
                  Head(queue) = Call(a) /\ Queued(Tail(queue), Call(b)) => a < b
  BY <1>1, LockTail DEF QueueSound
<1>2. ASSUME Holds(Call(n)), NEW m \in Requests
      PROVE  /\ calls[m].phase = "waiting" /\ m # n => n < m
             /\ calls[m].phase = "writing" => m = n
             /\ tasks[m].phase # "writing"
  BY <1>1, <1>2, UsersDistinct DEF QueueSound, Holds
<1>3. ASSUME Holds(Task(n)), NEW m \in Requests
      PROVE  /\ calls[m].phase # "writing"
             /\ tasks[m].phase = "writing" => m = n
  BY <1>3, UsersDistinct DEF QueueSound, Holds
<1>4. Holds(Call(n)) \/ Holds(Task(n)) => queue # <<>>
  BY DEF Holds
<1> QED BY <1>1, <1>2, <1>3, <1>4

\* Nothing of the coordinator's requests changes but the phase of one of them.
LEMMA PhaseTypes ==
  ASSUME StandbyTypeOK, NEW n \in Requests,
         NEW p \in {"none", "waiting", "writing", "done"},
         calls' = [calls EXCEPT ![n].phase = p]
  PROVE  /\ calls' \in [Requests -> [kind : {"none", "active", "stop"},
                                    phase : {"none", "waiting", "writing", "done"},
                                    gen : Nat, applied : BOOLEAN]]
         /\ calls'[n].phase = p
         /\ \A m \in Requests :
              /\ calls'[m].kind = calls[m].kind /\ calls'[m].gen = calls[m].gen
              /\ calls'[m].applied = calls[m].applied
              /\ m # n => calls'[m] = calls[m]
BY DEF StandbyTypeOK

\* A step that changes the phase or the delivery of one call keeps what is known
\* of the calls, but for the order of their phases.
LEMMA CallsKept ==
  ASSUME CallsSound, NEW n \in Requests, calls[n].phase # "none",
         calls'[n].phase # "none", UNCHANGED <<entered, gen, tasks>>,
         calls'[n].applied => calls'[n].phase \in {"writing", "done"},
         \A m \in Requests :
           /\ calls'[m].kind = calls[m].kind /\ calls'[m].gen = calls[m].gen
           /\ m # n => calls'[m] = calls[m]
  PROVE  /\ \A m \in Requests :
              /\ m > entered' => calls'[m] = NewCall
              /\ m <= entered' => calls'[m].kind # "none" /\ calls'[m].phase # "none"
              /\ calls'[m].gen <= gen'
              /\ calls'[m].applied => calls'[m].phase \in {"writing", "done"}
              /\ Alive(m)' => calls'[m].kind = "stop"
         /\ \A a, b \in Requests : a < b /\ calls'[b].kind = "active" => calls'[a].gen < gen'
<1>1. ~(n > entered)
  BY DEF CallsSound, NewCall
<1>2. \A m \in Requests :
        /\ m > entered' => calls'[m] = NewCall
        /\ m <= entered' => calls'[m].kind # "none" /\ calls'[m].phase # "none"
  BY <1>1 DEF CallsSound
<1>3. \A m \in Requests :
        /\ calls'[m].gen <= gen'
        /\ calls'[m].applied => calls'[m].phase \in {"writing", "done"}
        /\ Alive(m)' => calls'[m].kind = "stop"
  BY DEF CallsSound, Alive
<1>4. \A a, b \in Requests : a < b /\ calls'[b].kind = "active" => calls'[a].gen < gen'
  BY DEF CallsSound
<1> QED BY <1>2, <1>3, <1>4

\* The holder starts its write.
LEMMA StartWriteInv ==
  ASSUME StandbyInv, NEW n \in Requests, StartWrite(n)
  PROVE  StandbyInv'
<1> USE DEF StandbyInv, StandbyTracked
<1>1. /\ Holds(Call(n)) /\ calls[n].phase = "waiting"
      /\ calls' = [calls EXCEPT ![n].phase = "writing"]
      /\ report' = [report EXCEPT !.before = @ \cup {n}]
      /\ UNCHANGED <<threaded, entered, gen, tracked, tasks, queue, orphans, dev>>
  BY DEF StartWrite
<1>2. /\ calls' \in [Requests -> [kind : {"none", "active", "stop"},
                                 phase : {"none", "waiting", "writing", "done"},
                                 gen : Nat, applied : BOOLEAN]]
      /\ calls'[n].phase = "writing"
      /\ \A m \in Requests :
           /\ calls'[m].kind = calls[m].kind /\ calls'[m].gen = calls[m].gen
           /\ calls'[m].applied = calls[m].applied
           /\ m # n => calls'[m] = calls[m]
  BY <1>1, PhaseTypes
<1>3. StandbyTypeOK'
  BY <1>1, <1>2 DEF StandbyTypeOK
<1>4. OnlyTrackedTaskRuns' /\ NoStandbyBehindTarget'
  BY <1>1, <1>2 DEF OnlyTrackedTaskRuns, NoStandbyBehindTarget, Alive
<1>5. QueueSound'
  BY <1>1, <1>2 DEF QueueSound, Holds
<1>6. CallsSound'
  <2>1. \A m \in Requests :
          /\ m > entered' => calls'[m] = NewCall
          /\ m <= entered' => calls'[m].kind # "none" /\ calls'[m].phase # "none"
          /\ calls'[m].gen <= gen'
          /\ calls'[m].applied => calls'[m].phase \in {"writing", "done"}
          /\ Alive(m)' => calls'[m].kind = "stop"
    BY <1>1, <1>2, CallsKept DEF CallsSound
  <2>2. \A a, b \in Requests : a < b /\ calls'[b].kind = "active" => calls'[a].gen < gen'
    BY <1>1, <1>2, CallsKept DEF CallsSound
  <2>3. \A m \in Requests :
          /\ calls[m].phase = "waiting" /\ m # n => n < m
          /\ calls[m].phase = "writing" => m = n
    BY <1>1, HolderFacts
  <2>4. \A a, b \in Requests :
          \/ calls'[a].phase = "waiting" /\ calls'[b].phase \in {"writing", "done"}
          \/ calls'[a].phase = "writing" /\ calls'[b].phase = "done"
          => b < a
    BY <1>1, <1>2, <2>3 DEF CallsSound
  <2> QED BY <2>1, <2>2, <2>4 DEF CallsSound
<1>7. DeviceSound'
  BY <1>1, <1>2 DEF DeviceSound
<1> QED BY <1>3, <1>4, <1>5, <1>6, <1>7

\* A call leaves the lock: it was skipped, failed, or left nothing behind.
LEMMA CallLeavesInv ==
  ASSUME StandbyInv, NEW n \in Requests, Holds(Call(n)),
         calls[n].phase \in {"waiting", "writing"},
         calls' = [calls EXCEPT ![n].phase = "done"], queue' = Tail(queue),
         UNCHANGED <<threaded, entered, gen, tracked, tasks, orphans, dev, report>>
  PROVE  StandbyInv'
<1> USE DEF StandbyInv, StandbyTracked
<1>1. /\ Lock(queue')
      /\ \A v : Queued(queue', v) <=> Queued(queue, v) /\ v # Call(n)
  BY HolderFacts DEF Holds
<1>2. /\ calls' \in [Requests -> [kind : {"none", "active", "stop"},
                                 phase : {"none", "waiting", "writing", "done"},
                                 gen : Nat, applied : BOOLEAN]]
      /\ calls'[n].phase = "done"
      /\ \A m \in Requests :
           /\ calls'[m].kind = calls[m].kind /\ calls'[m].gen = calls[m].gen
           /\ calls'[m].applied = calls[m].applied
           /\ m # n => calls'[m] = calls[m]
  BY PhaseTypes
<1>3. \A m \in Requests :
        /\ calls[m].phase = "waiting" /\ m # n => n < m
        /\ calls[m].phase = "writing" => m = n
        /\ tasks[m].phase # "writing"
  BY HolderFacts
<1>4. StandbyTypeOK'
  BY <1>1, <1>2, LockTyped DEF StandbyTypeOK
<1>5. OnlyTrackedTaskRuns' /\ NoStandbyBehindTarget'
  BY <1>2 DEF OnlyTrackedTaskRuns, NoStandbyBehindTarget, Alive
<1>6. QueueSound'
  <2> SUFFICES ASSUME NEW m \in Requests
               PROVE  /\ Queued(queue', Call(m)) => calls'[m].phase \in {"waiting", "writing"}
                      /\ Queued(queue', Task(m)) => tasks'[m].phase \in {"waiting", "writing"}
                      /\ calls'[m].phase = "waiting" => Queued(queue', Call(m))
                      /\ calls'[m].phase # "writing" /\ tasks'[m].phase # "writing"
    BY <1>1 DEF QueueSound
  <2>1. Call(m) = Call(n) => m = n
    BY UsersDistinct
  <2> QED BY <1>1, <1>2, <1>3, <2>1 DEF QueueSound
<1>7. CallsSound'
  <2>1. \A m \in Requests :
          /\ m > entered' => calls'[m] = NewCall
          /\ m <= entered' => calls'[m].kind # "none" /\ calls'[m].phase # "none"
          /\ calls'[m].gen <= gen'
          /\ calls'[m].applied => calls'[m].phase \in {"writing", "done"}
          /\ Alive(m)' => calls'[m].kind = "stop"
    BY <1>2, CallsKept DEF CallsSound
  <2>2. \A a, b \in Requests : a < b /\ calls'[b].kind = "active" => calls'[a].gen < gen'
    BY <1>2, CallsKept DEF CallsSound
  <2>3. \A a, b \in Requests :
          \/ calls'[a].phase = "waiting" /\ calls'[b].phase \in {"writing", "done"}
          \/ calls'[a].phase = "writing" /\ calls'[b].phase = "done"
          => b < a
    BY <1>2, <1>3 DEF CallsSound
  <2> QED BY <2>1, <2>2, <2>3 DEF CallsSound
<1>8. DeviceSound'
  BY <1>2 DEF DeviceSound
<1> QED BY <1>4, <1>5, <1>6, <1>7, <1>8

\* A request is skipped or fails.
LEMMA SkipInv ==
  ASSUME StandbyInv, NEW n \in Requests, Skip(n) \/ FinishFailed(n)
  PROVE  StandbyInv'
<1>1. /\ Holds(Call(n)) /\ calls[n].phase \in {"waiting", "writing"}
      /\ calls' = [calls EXCEPT ![n].phase = "done"] /\ queue' = Tail(queue)
      /\ UNCHANGED <<threaded, entered, gen, tracked, tasks, orphans, dev, report>>
  BY DEF Skip, FinishFailed, StandbyInv, QueueSound
<1> QED BY <1>1, CallLeavesInv

\* A write reaches the device.
LEMMA DeliverInv ==
  ASSUME StandbyInv, NEW n \in Requests, Deliver(n)
  PROVE  StandbyInv'
<1> USE DEF StandbyInv, StandbyTracked
<1>1. /\ calls[n].phase = "writing" /\ ~calls[n].applied
      /\ calls' = [calls EXCEPT ![n].applied = TRUE]
      /\ dev' = [target |-> IF calls[n].kind = "active" THEN "active" ELSE "zero", by |-> n]
      /\ UNCHANGED <<threaded, entered, gen, tracked, tasks, queue, orphans, report>>
  BY DEF Deliver
<1>2. /\ calls' \in [Requests -> [kind : {"none", "active", "stop"},
                                 phase : {"none", "waiting", "writing", "done"},
                                 gen : Nat, applied : BOOLEAN]]
      /\ calls'[n].applied
      /\ \A m \in Requests :
           /\ calls'[m].kind = calls[m].kind /\ calls'[m].gen = calls[m].gen
           /\ calls'[m].phase = calls[m].phase
           /\ m # n => calls'[m] = calls[m]
  BY <1>1 DEF StandbyTypeOK
<1>3. StandbyTypeOK'
  BY <1>1, <1>2, SMTT(60) DEF StandbyTypeOK, Targets, Requests
<1>4. OnlyTrackedTaskRuns' /\ NoStandbyBehindTarget'
  BY <1>1, <1>2 DEF OnlyTrackedTaskRuns, NoStandbyBehindTarget, Alive
<1>5. QueueSound'
  BY <1>1, <1>2 DEF QueueSound, Holds
<1>6. CallsSound'
  <2>1. \A m \in Requests :
          /\ m > entered' => calls'[m] = NewCall
          /\ m <= entered' => calls'[m].kind # "none" /\ calls'[m].phase # "none"
          /\ calls'[m].gen <= gen'
          /\ calls'[m].applied => calls'[m].phase \in {"writing", "done"}
          /\ Alive(m)' => calls'[m].kind = "stop"
    BY <1>1, <1>2, CallsKept DEF CallsSound
  <2>2. \A a, b \in Requests : a < b /\ calls'[b].kind = "active" => calls'[a].gen < gen'
    BY <1>1, <1>2, CallsKept DEF CallsSound
  <2>3. \A a, b \in Requests :
          \/ calls'[a].phase = "waiting" /\ calls'[b].phase \in {"writing", "done"}
          \/ calls'[a].phase = "writing" /\ calls'[b].phase = "done"
          => b < a
    BY <1>1, <1>2 DEF CallsSound
  <2> QED BY <2>1, <2>2, <2>3 DEF CallsSound
<1>7. DeviceSound'
  BY <1>1, <1>2 DEF DeviceSound
<1> QED BY <1>3, <1>4, <1>5, <1>6, <1>7

\* A write was accepted; a stop that no newer target replaced leaves its task.
LEMMA FinishInv ==
  ASSUME StandbyInv, NEW n \in Requests, Finish(n)
  PROVE  StandbyInv'
<1> USE DEF StandbyInv, StandbyTracked
<1>1. /\ calls[n].phase = "writing" /\ Holds(Call(n))
      /\ calls' = [calls EXCEPT ![n].phase = "done"]
      /\ UNCHANGED <<threaded, entered, dev, report>>
  BY DEF Finish, QueueSound
<1>2. CASE ~(calls[n].kind = "stop" /\ calls[n].gen = gen)
  BY <1>1, <1>2, CallLeavesInv DEF Finish
<1>3. CASE calls[n].kind = "stop" /\ calls[n].gen = gen
  <2> DEFINE w == Without(queue, tracked)
  <2>1. /\ gen' = gen + 1 /\ tracked' = n
        /\ tasks' = [Ended(tasks, tracked) EXCEPT ![n] = Polling(gen + 1)]
        /\ queue' = Tail(w) /\ orphans' = Survivors(tracked)
    BY <1>3 DEF Finish
  <2>2. /\ Lock(w) /\ w # <<>> /\ Head(w) = Call(n)
        /\ \A v : Queued(w, v) <=> Queued(queue, v) /\ v # Task(tracked)
    BY <1>1, LockWithout, UsersDistinct DEF QueueSound, Holds
  <2> HIDE DEF w
  <2>3. /\ Lock(queue')
        /\ \A v : Queued(queue', v) <=> Queued(w, v) /\ v # Call(n)
    BY <2>1, <2>2, LockTail
  <2>4. \A m \in Requests : ~Queued(queue', Task(m))
    BY <2>2, <2>3 DEF QueueSound, OnlyTrackedTaskRuns, Alive
  <2>5. /\ calls' \in [Requests -> [kind : {"none", "active", "stop"},
                                   phase : {"none", "waiting", "writing", "done"},
                                   gen : Nat, applied : BOOLEAN]]
        /\ calls'[n].phase = "done"
        /\ \A m \in Requests :
             /\ calls'[m].kind = calls[m].kind /\ calls'[m].gen = calls[m].gen
             /\ calls'[m].applied = calls[m].applied
             /\ m # n => calls'[m] = calls[m]
    BY <1>1, PhaseTypes
  <2>6. /\ tasks' \in [Requests ->
                 [phase : {"none", "polling", "waiting", "writing", "ended"},
                  gen : Nat, left : 0..ConfirmPolls, idle : 0..DelayPolls,
                  applied : BOOLEAN]]
        /\ tasks'[n].phase = "polling" /\ tasks'[n].gen = gen + 1
        /\ \A m \in Requests : m # n => ~Alive(m)'
    <3>1. /\ Ended(tasks, tracked) \in [Requests ->
                 [phase : {"none", "polling", "waiting", "writing", "ended"},
                  gen : Nat, left : 0..ConfirmPolls, idle : 0..DelayPolls,
                  applied : BOOLEAN]]
          /\ \A m \in Requests :
               Ended(tasks, tracked)[m].phase \notin {"polling", "waiting", "writing"}
      BY StandbyTypes DEF Ended, StandbyTypeOK, OnlyTrackedTaskRuns, Alive, NoTask
    <3>2. Polling(gen + 1) \in
                 [phase : {"none", "polling", "waiting", "writing", "ended"},
                  gen : Nat, left : 0..ConfirmPolls, idle : 0..DelayPolls,
                  applied : BOOLEAN]
      BY PollAssumption DEF Polling, StandbyTypeOK
    <3>3. /\ tasks'[n] = Polling(gen + 1)
          /\ \A m \in Requests : m # n => tasks'[m] = Ended(tasks, tracked)[m]
      BY <2>1, <3>1
    <3>4. tasks'[n].phase = "polling" /\ tasks'[n].gen = gen + 1
      BY <3>3 DEF Polling
    <3>5. \A m \in Requests : m # n => ~Alive(m)'
      BY <3>1, <3>3 DEF Alive
    <3> QED BY <2>1, <3>1, <3>2, <3>4, <3>5
  <2>7. \A m \in Requests :
          /\ calls[m].phase = "waiting" /\ m # n => n < m
          /\ calls[m].phase = "writing" => m = n
    BY <1>1, HolderFacts
  <2>8. StandbyTypeOK'
    <3>1. gen' \in Nat /\ tracked' \in Requests \cup {NoTask}
      BY <2>1 DEF StandbyTypeOK
    <3>2. orphans' \subseteq Requests
      BY <2>1 DEF StandbyTypeOK, Survivors
    <3>3. \A i \in DOMAIN queue' : \E m \in Requests : queue'[i] \in {Call(m), Task(m)}
      BY <2>3, LockTyped
    <3> QED BY <1>1, <2>5, <2>6, <3>1, <3>2, <3>3 DEF StandbyTypeOK
  <2>9. OnlyTrackedTaskRuns' /\ NoStandbyBehindTarget'
    <3>1. \A m \in Requests : n < m => calls[m].kind # "active"
      BY <1>3, StandbyTypes DEF CallsSound
    <3> QED BY <2>1, <2>5, <2>6, <3>1 DEF OnlyTrackedTaskRuns, NoStandbyBehindTarget
  <2>10. QueueSound'
    <3> SUFFICES ASSUME NEW m \in Requests
                 PROVE  /\ Queued(queue', Call(m)) => calls'[m].phase \in {"waiting", "writing"}
                        /\ calls'[m].phase = "waiting" => Queued(queue', Call(m))
                        /\ calls'[m].phase # "writing" /\ tasks'[m].phase # "writing"
      BY <2>3, <2>4 DEF QueueSound
    <3>1. (Call(m) = Call(n) => m = n) /\ Call(m) # Task(tracked)
      BY UsersDistinct
    <3>2. tasks'[m].phase # "writing"
      BY <2>6 DEF Alive
    <3> QED BY <2>2, <2>3, <2>5, <2>7, <3>1, <3>2 DEF QueueSound
  <2>11. CallsSound'
    <3>1. ~(n > entered)
      BY <1>1 DEF CallsSound, NewCall
    <3>2. \A m \in Requests :
            /\ m > entered' => calls'[m] = NewCall
            /\ m <= entered' => calls'[m].kind # "none" /\ calls'[m].phase # "none"
      BY <1>1, <2>5, <3>1 DEF CallsSound
    <3>3. \A m \in Requests :
            /\ calls'[m].applied => calls'[m].phase \in {"writing", "done"}
            /\ Alive(m)' => calls'[m].kind = "stop"
      BY <1>3, <2>5, <2>6 DEF CallsSound
    <3>4. \A m \in Requests : calls'[m].gen < gen'
      BY <2>1, <2>5, StandbyTypes DEF CallsSound
    <3>5. \A m \in Requests : calls'[m].gen <= gen'
      BY <2>1, <2>5, <3>4, StandbyTypes
    <3>6. \A a, b \in Requests :
            \/ calls'[a].phase = "waiting" /\ calls'[b].phase \in {"writing", "done"}
            \/ calls'[a].phase = "writing" /\ calls'[b].phase = "done"
            => b < a
      BY <2>5, <2>7 DEF CallsSound
    <3> QED BY <3>2, <3>3, <3>4, <3>5, <3>6 DEF CallsSound
  <2>12. DeviceSound'
    BY <1>1, <2>1, <2>5, StandbyTypes DEF DeviceSound, Survivors
  <2> QED BY <2>8, <2>9, <2>10, <2>11, <2>12
<1> QED BY <1>2, <1>3

\* A standby task that takes a step of its own, or ends, and leaves the calls alone.
LEMMA TaskStepInv ==
  ASSUME StandbyInv, NEW n \in Requests, Alive(n),
         UNCHANGED <<threaded, entered, calls, gen, orphans, report>>,
         dev' = dev \/ (dev' = [target |-> "standby", by |-> n]),
         NEW t \in [phase : {"polling", "waiting", "writing", "ended"},
                    gen : {tasks[n].gen}, left : 0..ConfirmPolls, idle : 0..DelayPolls,
                    applied : BOOLEAN],
         tasks' = [tasks EXCEPT ![n] = t],
         tracked' = IF t.phase = "ended" THEN Untracked(n) ELSE tracked,
         Lock(queue'),
         \A v : v # Task(n) => (Queued(queue', v) <=> Queued(queue, v)),
         Queued(queue', Task(n)) => t.phase \in {"waiting", "writing"},
         t.phase = "writing" => Holds(Task(n))',
         \A m \in Requests : Holds(Call(m)) => Holds(Call(m))'
  PROVE  StandbyInv'
<1> USE DEF StandbyInv, StandbyTracked
<1>1. /\ tracked = n /\ tasks[n].gen = gen
      /\ \A m \in Requests : m # n => ~Alive(m)
  BY DEF OnlyTrackedTaskRuns
<1>2. tasks'[n] = t /\ \A m \in Requests : m # n => tasks'[m] = tasks[m]
  BY DEF StandbyTypeOK
<1>3. StandbyTypeOK'
  <2>1. t \in [phase : {"none", "polling", "waiting", "writing", "ended"},
               gen : Nat, left : 0..ConfirmPolls, idle : 0..DelayPolls, applied : BOOLEAN]
    BY <1>1 DEF StandbyTypeOK
  <2>2. tracked' \in Requests \cup {NoTask}
    BY DEF StandbyTypeOK, Untracked
  <2>3. dev' \in [target : Targets, by : 0..MaxRequests]
    BY DEF StandbyTypeOK, Targets, Requests
  <2> QED BY <2>1, <2>2, <2>3, LockTyped DEF StandbyTypeOK
<1>4. OnlyTrackedTaskRuns' /\ NoStandbyBehindTarget'
  BY <1>1, <1>2 DEF OnlyTrackedTaskRuns, NoStandbyBehindTarget, Alive
<1>5. QueueSound'
  <2> SUFFICES ASSUME NEW m \in Requests
               PROVE  /\ Queued(queue', Call(m)) => calls'[m].phase \in {"waiting", "writing"}
                      /\ Queued(queue', Task(m)) => tasks'[m].phase \in {"waiting", "writing"}
                      /\ calls'[m].phase = "waiting" => Queued(queue', Call(m))
                      /\ calls'[m].phase = "writing" => Holds(Call(m))'
                      /\ tasks'[m].phase = "writing" => Holds(Task(m))'
    BY DEF QueueSound
  <2>1. Call(m) # Task(n) /\ (Task(m) = Task(n) => m = n)
    BY UsersDistinct
  <2>2. m # n => tasks[m].phase # "writing"
    BY <1>1 DEF Alive
  <2> QED BY <1>1, <1>2, <2>1, <2>2 DEF QueueSound
<1>6. CallsSound'
  BY <1>2 DEF CallsSound, Alive
<1>7. DeviceSound'
  BY DEF DeviceSound
<1> QED BY <1>3, <1>4, <1>5, <1>6, <1>7

\* A round of the polling loop.
LEMMA PollInv ==
  ASSUME StandbyInv, NEW n \in Requests,
         NEW ok \in BOOLEAN, NEW fresh \in BOOLEAN, Poll(n, ok, fresh)
  PROVE  StandbyInv'
<1> DEFINE tt == [phase : {"none", "polling", "waiting", "writing", "ended"},
                  gen : Nat, left : 0..ConfirmPolls, idle : 0..DelayPolls, applied : BOOLEAN]
<1> USE DEF StandbyInv, StandbyTracked
<1>1. /\ tasks[n].phase = "polling" /\ Alive(n) /\ tasks[n] \in tt /\ tasks \in [Requests -> tt]
      /\ UNCHANGED <<threaded, entered, calls, gen, orphans, dev, report>>
  BY DEF Poll, Alive, StandbyTypeOK
<1>2. ~Queued(queue, Task(n)) /\ Lock(queue)
  BY <1>1 DEF QueueSound
<1> DEFINE aged == [tasks[n] EXCEPT !.left = IF @ > 0 THEN @ - 1 ELSE 0]
           t1 == [tasks[n] EXCEPT !.phase = "ended"]
           t3 == [aged EXCEPT !.idle = @ + 1]
           t4 == [tasks[n] EXCEPT !.phase = "waiting"]
<1>3. \/ tasks' = [tasks EXCEPT ![n].phase = "ended"] /\ tracked' = Untracked(n) /\ queue' = queue
      \/ tasks' = [tasks EXCEPT ![n] = aged] /\ tracked' = tracked /\ queue' = queue
      \/ /\ tasks[n].idle < DelayPolls
         /\ tasks' = [tasks EXCEPT ![n] = t3] /\ tracked' = tracked /\ queue' = queue
      \/ /\ tasks' = [tasks EXCEPT ![n].phase = "waiting"] /\ tracked' = tracked
         /\ queue' = Append(queue, Task(n))
  BY <1>1 DEF Poll, TaskReturns, Ended, NoTask, Requests
<1> DEFINE tn == [phase : {"polling", "waiting", "writing", "ended"},
                  gen : {tasks[n].gen}, left : 0..ConfirmPolls, idle : 0..DelayPolls,
                  applied : BOOLEAN]
<1>4. aged \in tn /\ aged.phase = "polling" /\ aged.idle = tasks[n].idle
  BY <1>1, PollAssumption
<1>5. CASE tasks' = [tasks EXCEPT ![n].phase = "ended"] /\ tracked' = Untracked(n) /\ queue' = queue
  <2>1. t1 \in tn /\ t1.phase = "ended" /\ tasks' = [tasks EXCEPT ![n] = t1]
    BY <1>1, <1>5
  <2> HIDE DEF t1, StandbyInv, StandbyTracked
  <2> QED BY <1>1, <1>2, <1>5, <2>1, TaskStepInv DEF Holds
<1>6. CASE tasks' = [tasks EXCEPT ![n] = aged] /\ tracked' = tracked /\ queue' = queue
  <2> HIDE DEF aged, StandbyInv, StandbyTracked
  <2> QED BY <1>1, <1>2, <1>4, <1>6, TaskStepInv DEF Holds
<1>7. CASE /\ tasks[n].idle < DelayPolls
           /\ tasks' = [tasks EXCEPT ![n] = t3] /\ tracked' = tracked /\ queue' = queue
  <2>1. t3 \in tn /\ t3.phase = "polling"
    <3> HIDE DEF aged
    <3> QED BY <1>1, <1>4, <1>7, PollAssumption
  <2> HIDE DEF t3, StandbyInv, StandbyTracked
  <2> QED BY <1>1, <1>2, <1>7, <2>1, TaskStepInv DEF Holds
<1>8. CASE /\ tasks' = [tasks EXCEPT ![n].phase = "waiting"] /\ tracked' = tracked
           /\ queue' = Append(queue, Task(n))
  <2>1. t4 \in tn /\ t4.phase = "waiting" /\ tasks' = [tasks EXCEPT ![n] = t4]
    BY <1>1, <1>8
  <2>2. /\ Lock(queue') /\ queue' # <<>>
        /\ \A v : Queued(queue', v) <=> Queued(queue, v) \/ v = Task(n)
        /\ queue # <<>> => Head(queue') = Head(queue)
    BY <1>2, <1>8, LockAppendTask
  <2>3. \A m \in Requests : Holds(Call(m)) => Holds(Call(m))'
    BY <2>2 DEF Holds
  <2>4. \A v : v # Task(n) => (Queued(queue', v) <=> Queued(queue, v))
    BY <2>2
  <2> HIDE DEF t4, StandbyInv, StandbyTracked
  <2> QED BY <1>1, <1>8, <2>1, <2>2, <2>3, <2>4, TaskStepInv
<1> QED BY <1>3, <1>5, <1>6, <1>7, <1>8

\* The task starts its write, and the write reaches the device.
LEMMA TaskWritesInv ==
  ASSUME StandbyInv, NEW n \in Requests, TaskStartWrite(n) \/ TaskDeliver(n)
  PROVE  StandbyInv'
<1> USE DEF StandbyInv, StandbyTracked
<1>1. /\ Alive(n) /\ Holds(Task(n)) /\ Lock(queue)
      /\ UNCHANGED <<threaded, entered, calls, gen, tracked, queue, orphans, report>>
      /\ dev' = dev \/ dev' = [target |-> "standby", by |-> n]
  BY DEF TaskStartWrite, TaskDeliver, Alive, QueueSound
<1> DEFINE t == IF tasks[n].phase = "waiting" THEN [tasks[n] EXCEPT !.phase = "writing"]
                                             ELSE [tasks[n] EXCEPT !.applied = TRUE]
<1>2. /\ t \in [phase : {"polling", "waiting", "writing", "ended"},
                gen : {tasks[n].gen}, left : 0..ConfirmPolls, idle : 0..DelayPolls,
                applied : BOOLEAN]
      /\ t.phase = "writing" /\ tasks' = [tasks EXCEPT ![n] = t]
  BY DEF TaskStartWrite, TaskDeliver, StandbyTypeOK
<1> HIDE DEF t, StandbyInv, StandbyTracked
<1> QED BY <1>1, <1>2, TaskStepInv DEF Holds

\* The task returns.
LEMMA TaskLeavesInv ==
  ASSUME StandbyInv, NEW n \in Requests, TaskSkip(n) \/ TaskFinish(n)
  PROVE  StandbyInv'
<1> USE DEF StandbyInv, StandbyTracked
<1>1. /\ Alive(n) /\ Holds(Task(n)) /\ queue' = Tail(queue)
      /\ UNCHANGED <<threaded, entered, calls, gen, orphans, dev, report>>
      /\ tasks' = [tasks EXCEPT ![n].phase = "ended"] /\ tracked' = Untracked(n)
  BY StandbyTypes DEF TaskSkip, TaskFinish, TaskReturns, Ended, NoTask, Alive, QueueSound
<1> DEFINE t == [tasks[n] EXCEPT !.phase = "ended"]
<1>2. /\ t \in [phase : {"polling", "waiting", "writing", "ended"},
                gen : {tasks[n].gen}, left : 0..ConfirmPolls, idle : 0..DelayPolls,
                applied : BOOLEAN]
      /\ t.phase = "ended" /\ tasks' = [tasks EXCEPT ![n] = t]
  BY <1>1, ZenonT(60) DEF StandbyTypeOK
<1>3. /\ Lock(queue')
      /\ \A v : Queued(queue', v) <=> Queued(queue, v) /\ v # Task(n)
  BY <1>1, HolderFacts DEF Holds
<1>4. \A m \in Requests : ~Holds(Call(m))
  BY <1>1, UsersDistinct DEF Holds
<1> HIDE DEF t, StandbyInv, StandbyTracked
<1> QED BY <1>1, <1>2, <1>3, <1>4, TaskStepInv

\* Steps of the device and of threads nobody awaits.
LEMMA DeviceInv ==
  ASSUME StandbyInv, Report \/ \E n \in Requests : OrphanDeliver(n)
  PROVE  StandbyInv'
<1> USE DEF StandbyInv, StandbyTracked
<1>1. /\ UNCHANGED <<threaded, entered, calls, gen, tracked, tasks, queue>>
      /\ orphans' \subseteq orphans
      /\ dev' = dev \/ \E n \in Requests : dev' = [target |-> "standby", by |-> n]
      /\ report' = report \/ report' = [target |-> dev.target, before |-> {}]
  BY DEF Report, OrphanDeliver
<1>2. StandbyTypeOK'
  BY <1>1 DEF StandbyTypeOK, Targets, Requests
<1>3. OnlyTrackedTaskRuns' /\ NoStandbyBehindTarget'
  BY <1>1 DEF OnlyTrackedTaskRuns, NoStandbyBehindTarget, Alive
<1>4. QueueSound' /\ CallsSound'
  BY <1>1 DEF QueueSound, CallsSound, Holds, Alive
<1>5. DeviceSound'
  BY <1>1 DEF DeviceSound
<1> QED BY <1>2, <1>3, <1>4, <1>5

\* Every step keeps the invariant.
LEMMA StandbyNextInv == StandbyInv /\ [StandbyNext]_standbyVars => StandbyInv'
<1> SUFFICES ASSUME StandbyInv, [StandbyNext]_standbyVars PROVE StandbyInv'
  OBVIOUS
<1>1. ASSUME NEW kind \in {"active", "stop"}, Enter(kind) PROVE StandbyInv'
  BY <1>1, EnterInv
<1>2. ASSUME NEW n \in Requests,
             StartWrite(n) \/ Skip(n) \/ Deliver(n) \/ Finish(n) \/ FinishFailed(n)
      PROVE  StandbyInv'
  BY <1>2, StartWriteInv, SkipInv, DeliverInv, FinishInv
<1>3. ASSUME NEW n \in Requests, NEW ok \in BOOLEAN, NEW fresh \in BOOLEAN, Poll(n, ok, fresh)
      PROVE  StandbyInv'
  BY <1>3, PollInv
<1>4. ASSUME NEW n \in Requests,
             TaskStartWrite(n) \/ TaskSkip(n) \/ TaskDeliver(n) \/ TaskFinish(n)
      PROVE  StandbyInv'
  BY <1>4, TaskWritesInv, TaskLeavesInv
<1>5. ASSUME Report \/ \E n \in Requests : OrphanDeliver(n) PROVE StandbyInv'
  BY <1>5, DeviceInv
<1>6. CASE UNCHANGED standbyVars
  BY <1>6 DEF standbyVars, StandbyInv, StandbyTracked, StandbyTypeOK, OnlyTrackedTaskRuns,
              NoStandbyBehindTarget, QueueSound, CallsSound, DeviceSound, Holds, Alive
<1> QED BY <1>1, <1>2, <1>3, <1>4, <1>5, <1>6 DEF StandbyNext

\* Requests reach the device in the order in which they entered, so none undoes a newer target.
LEMMA StandbyNothingUndone ==
  StandbyInv /\ [StandbyNext]_standbyVars => (~threaded => ~Undone)
<1> SUFFICES ASSUME StandbyInv, [StandbyNext]_standbyVars, ~threaded, Undone PROVE FALSE
  OBVIOUS
<1> USE DEF StandbyInv, StandbyTracked
<1>1. dev.target = "active" /\ dev'.target # "active" /\ dev'.by <= dev.by
  BY DEF Undone
<1>2. ASSUME NEW n \in Requests, dev'.by = n
      PROVE  /\ dev.by \in Requests /\ calls[dev.by].kind = "active"
             /\ calls[dev.by].phase \in {"writing", "done"} /\ n <= dev.by
  <2>1. dev.by # 0
    BY <1>1, <1>2, StandbyTypes
  <2> QED BY <1>1, <1>2, <2>1 DEF DeviceSound, CallsSound
<1>3. ASSUME NEW n \in Requests, Deliver(n) PROVE FALSE
  <2>1. dev'.by = n /\ calls[n].kind # "active" /\ calls[n].phase = "writing"
    BY <1>1, <1>3 DEF Deliver
  <2>2. n < dev.by
    BY <1>2, <2>1, StandbyTypes
  <2>3. calls[dev.by].phase # "writing"
    BY <1>2, <2>1, <2>2, StandbyTypes, HolderFacts DEF QueueSound
  <2> QED BY <1>2, <2>1, <2>2, <2>3, StandbyTypes DEF CallsSound
<1>4. ASSUME NEW n \in Requests, TaskDeliver(n) PROVE FALSE
  <2>1. dev'.by = n /\ Alive(n)
    BY <1>4 DEF TaskDeliver, Alive
  <2>2. calls[n].kind = "stop"
    BY <2>1 DEF CallsSound
  <2>3. n < dev.by
    BY <1>2, <2>1, <2>2, StandbyTypes
  <2> QED BY <1>2, <2>1, <2>3 DEF NoStandbyBehindTarget
<1>5. \A n \in Requests : ~OrphanDeliver(n)
  BY DEF OrphanDeliver, DeviceSound
<1>6. dev' = dev
  BY <1>3, <1>4, <1>5 DEF StandbyNext, standbyVars, Enter, StartWrite, Skip, Finish, FinishFailed,
     Poll, TaskStartWrite, TaskSkip, TaskFinish, Report
<1> QED BY <1>1, <1>6

\* Whatever standby task is pending is the tracked one and of the current
\* generation, and none is pending behind a newer active target, for any number of
\* overlapping requests and every length of the polling loop.
THEOREM StandbyIsTracked == StandbySpec => []StandbyTracked
<1>1. StandbyInv => StandbyTracked
  BY DEF StandbyInv
<1>2. QED
  BY <1>1, StandbyInitInv, StandbyNextInv, PTL DEF StandbySpec

\* Where the write ends with its task (the ZenSDK POST), no stop and no standby
\* write undoes an active target that entered after it.
THEOREM PostNeverUndoes == StandbySpec => NewestTargetWinsByPost
<1>1. StandbyInv /\ [StandbyNext]_standbyVars => [~threaded => ~Undone]_standbyVars
  BY StandbyNothingUndone
<1>2. QED
  BY <1>1, StandbyInitInv, StandbyNextInv, PTL DEF StandbySpec, NewestTargetWinsByPost

-----------------------------------------------------------------------------
(***************************************************************************)
(* The abstract lease, whose promise every implementation of LeaseSpec     *)
(* inherits through its refinement mapping.                                *)
(***************************************************************************)

\* No write is of a later epoch, and those of the current epoch are by its
\* holder: an epoch that was revoked is over, so nobody else writes under it.
LeaseInv ==
  /\ epoch \in Nat
  /\ \A a \in written :
       a[1] \in Nat /\ a[1] <= epoch /\ a[2] # Nobody /\ (a[1] = epoch => a[2] = holder)
  /\ OneWriterPerEpoch

LEMMA LeaseNextInv == LeaseInv /\ [LeaseNext]_leaseVars => LeaseInv'
<1> SUFFICES ASSUME LeaseInv, [LeaseNext]_leaseVars PROVE LeaseInv'
  OBVIOUS
<1>1. ASSUME NEW w \in Writers, Grant(w) PROVE LeaseInv'
  BY <1>1 DEF Grant, LeaseInv, OneWriterPerEpoch
<1>2. CASE Revoke
  BY <1>2 DEF Revoke, LeaseInv, OneWriterPerEpoch
<1>3. CASE HolderWrites
  <2>1. <<epoch, holder>>[1] = epoch /\ <<epoch, holder>>[2] = holder
    OBVIOUS
  <2>2. \A a \in written' : a \in written \/ a = <<epoch, holder>>
    BY <1>3 DEF HolderWrites
  <2>3. OneWriterPerEpoch'
    BY <2>1, <2>2 DEF LeaseInv, OneWriterPerEpoch
  <2> QED BY <1>3, <2>1, <2>2, <2>3 DEF HolderWrites, LeaseInv
<1>4. CASE UNCHANGED leaseVars
  BY <1>4 DEF leaseVars, LeaseInv, OneWriterPerEpoch
<1> QED BY <1>1, <1>2, <1>3, <1>4 DEF LeaseNext

\* Two writes of one epoch are by one writer: what native_transport_router.py
\* calls a lease that is never transferable.
THEOREM SingleWriter == LeaseSpec => []OneWriterPerEpoch
<1>1. LeaseInit => LeaseInv
  BY DEF LeaseInit, LeaseInv, OneWriterPerEpoch
<1>2. LeaseInv => OneWriterPerEpoch
  BY DEF LeaseInv
<1> QED BY <1>1, <1>2, LeaseNextInv, PTL DEF LeaseSpec

-----------------------------------------------------------------------------
(***************************************************************************)
(* HEMS: the gate fails closed for every length of the confirmation window. *)
(***************************************************************************)
\* An age grows to Window + 1 and stays there, so it is Over for good.
LEMMA OlderAge ==
  ASSUME NEW age \in Ages
  PROVE  /\ Older(age) \in Ages
         /\ age # Never => Older(age) # Never
         /\ age = Never => Older(age) = Never
         /\ Over(age) => Over(Older(age))
  BY WindowAssumption DEF Ages, Older, Over, Never

\* Status answers "inactive" only of an observed device whose last heartbeat,
\* if there was one, is older than the window.
LEMMA StatusInactive ==
  ASSUME NEW mon \in BOOLEAN, NEW start \in Ages, NEW act \in Ages
  PROVE  /\ Status(mon, start, act) \in Decisions
         /\ Status(mon, start, act) = "inactive" =>
              mon /\ (act = Never \/ Over(act))
  BY DEF Status, Decisions

LEMMA HemsInitInv == HemsInit => HemsSound
  BY DEF HemsInit, HemsSound, HemsTypeOK, NoControlAfterHeartbeat,
         LossBlocksControl, CommandAllowed, Ages, Decisions, Never

LEMMA HemsNextInv == HemsSound /\ [HemsNext]_hemsVars => HemsSound'
<1> SUFFICES ASSUME HemsSound, [HemsNext]_hemsVars PROVE HemsSound'
  OBVIOUS
<1> USE DEF HemsSound, HemsTypeOK, NoControlAfterHeartbeat, LossBlocksControl,
            CommandAllowed
<1>0. 0 \in Ages /\ 0 # Never
  BY WindowAssumption DEF Ages, Never
<1>1. CASE Refresh
  <2>1. monitoring' \in BOOLEAN /\ started' \in Ages /\ activity' \in Ages
    BY <1>0, <1>1 DEF Refresh
  <2>2. monitoring' => started' # Never
    BY <1>0, <1>1 DEF Refresh
  <2>3. decision' = Status(monitoring', started', activity')
    BY <1>1 DEF Refresh
  <2>4. QED
    BY <1>1, <2>1, <2>2, <2>3, StatusInactive DEF Refresh
<1>2. CASE Heartbeat
  <2>1. decision' = Status(monitoring', started', activity')
    BY <1>2 DEF Heartbeat
  <2>2. QED
    BY <1>0, <1>2, <2>1, StatusInactive DEF Heartbeat
<1>3. CASE Message
  BY <1>3, StatusInactive DEF Message
<1>4. CASE Tick
  BY <1>4, OlderAge DEF Tick
<1>5. CASE MqttChanges \/ PollsChange \/ HemsChanges
  <2>1. mqtt' \in BOOLEAN /\ polls' \in BOOLEAN /\ hems' \in BOOLEAN
    BY <1>5 DEF MqttChanges, PollsChange, HemsChanges
  <2>2. UNCHANGED <<monitoring, started, activity, decision>>
    BY <1>5 DEF MqttChanges, PollsChange, HemsChanges
  <2>3. QED
    BY <2>1, <2>2 DEF Over
<1>6. CASE UNCHANGED hemsVars
  BY <1>6 DEF hemsVars
<1>7. QED
  BY <1>1, <1>2, <1>3, <1>4, <1>5, <1>6 DEF HemsNext

\* The gate fails closed in every reachable state, whatever the window.
THEOREM HemsGateSound == HemsSpec => []HemsSound
<1>1. HemsInit => HemsSound
  BY HemsInitInv
<1>2. HemsSound /\ [HemsNext]_hemsVars => HemsSound'
  BY HemsNextInv
<1>3. QED
  BY <1>1, <1>2, PTL DEF HemsSpec

\* No command passes the gate before the whole window after the last heartbeat
\* has passed (hems_activity.py measurement, hems.py command_allowed).
THEOREM HeartbeatBlocksControl == HemsSpec => []NoControlAfterHeartbeat
<1>1. HemsSound => NoControlAfterHeartbeat
  BY DEF HemsSound
<1>2. QED
  BY <1>1, HemsGateSound, PTL

\* While the device is not observed no command passes the gate.
THEOREM UnobservedBlocksControl == HemsSpec => []LossBlocksControl
<1>1. HemsSound => LossBlocksControl
  BY DEF HemsSound
<1>2. QED
  BY <1>1, HemsGateSound, PTL

(***************************************************************************)
(* The first write test, for any time it may take.                          *)
(***************************************************************************)
TestValues == Limits \cup {Requested}

\* The requested value is not among w.
Unasked(w) == \A i \in 1..Len(w) : w[i] # Requested

\* The requested value is at most the last of w.
LastAsked(w) == \A i \in 1..(Len(w) - 1) : w[i] # Requested

LEMMA TestValuesShape ==
  /\ Limits \subseteq TestValues /\ Requested \in TestValues /\ Requested \notin Limits
  /\ \A w \in Seq(TestValues) : ToSet(w) \subseteq Limits \cup {Requested}
BY DEF TestValues, Limits, Requested, ToSet

LEMMA WritesAppended ==
  ASSUME NEW w \in Seq(TestValues), NEW v \in TestValues
  PROVE  /\ Append(w, v) \in Seq(TestValues)
         /\ w = <<>> => Append(w, v) = <<v>>
         /\ Unasked(w) => LastAsked(Append(w, v)) /\ LastAsked(w)
<1>1. /\ Append(w, v) \in Seq(TestValues) /\ Len(Append(w, v)) = Len(w) + 1 /\ Len(w) \in Nat
      /\ \A i \in 1..Len(w) : Append(w, v)[i] = w[i]
  OBVIOUS
<1>2. w = <<>> => Append(w, v) = <<v>>
  OBVIOUS
<1> QED BY <1>1, <1>2 DEF Unasked, LastAsked

LEMMA WritesLeft ==
  ASSUME NEW w \in Seq(TestValues), w # <<>>
  PROVE  /\ Tail(w) \in Seq(TestValues) /\ Head(w) \in TestValues
         /\ Unasked(w) => Unasked(Tail(w)) /\ Head(w) # Requested
         /\ LastAsked(w) => LastAsked(Tail(w)) /\ (Head(w) = Requested => Tail(w) = <<>>)
         /\ \A v : w = <<v>> => Tail(w) = <<>> /\ Head(w) = v
<1> DEFINE r == Tail(w)
<1>1. /\ r \in Seq(TestValues) /\ Len(w) = Len(r) + 1 /\ Len(r) \in Nat
      /\ Head(w) = w[1] /\ w[1] \in TestValues
      /\ \A i \in 1..Len(r) : r[i] = w[i + 1]
  OBVIOUS
<1>6. Len(r) = 0 => r = <<>>
  BY <1>1, EmptySeq
<1>2. \A v : w = <<v>> => r = <<>> /\ Head(w) = v
  OBVIOUS
<1> HIDE DEF r
<1>3. Unasked(w) => Unasked(r) /\ Head(w) # Requested
  BY <1>1 DEF Unasked
<1>4. LastAsked(w) => LastAsked(r)
  <2> SUFFICES ASSUME LastAsked(w), NEW i \in 1..(Len(r) - 1) PROVE r[i] # Requested
    BY DEF LastAsked
  <2>1. i \in 1..Len(r) /\ i + 1 \in 1..(Len(w) - 1)
    BY <1>1
  <2> QED BY <1>1, <2>1 DEF LastAsked
<1>5. LastAsked(w) /\ Head(w) = Requested => r = <<>>
  BY <1>1, <1>6 DEF LastAsked
<1> QED BY <1>1, <1>2, <1>3, <1>4, <1>5 DEF r

LEMMA FirstWritten ==
  ASSUME NEW v \in Limits
  PROVE  <<v>> \in Seq(TestValues) /\ Unasked(<<v>>)
<1>1. v \in TestValues /\ v # Requested
  BY TestValuesShape
<1> QED BY <1>1 DEF Unasked

LEMMA NothingWritten == Unasked(<<>>) /\ LastAsked(<<>>) /\ <<>> \in Seq(TestValues)
BY DEF Unasked, LastAsked

\* What is on its way to the device in each step of the test.
TestInv ==
  /\ TestTypeOK
  /\ writes \in Seq(TestValues)
  /\ step # "done" => verdict = "none"
  /\ step \in {"idle", "write"} =>
       ~seen /\ limit # Requested /\ reported # Requested /\ Unasked(writes)
  /\ step \in {"await requested", "gate"} =>
       /\ limit = Requested => writes = <<>>
       /\ LastAsked(writes)
       /\ seen => limit = Requested /\ step = "gate"
  /\ step = "await original" /\ seen =>
       \/ limit = Requested /\ writes \in {<<original>>, <<>>}
       \/ limit = original /\ writes = <<>>
  /\ verdict = "restored" => step = "done" /\ limit = original /\ writes = <<>>

LEMMA TestInitInv == TestInit => TestInv
BY TestValuesShape, NothingWritten DEF TestInit, TestInv, TestTypeOK

LEMMA TestNextInv == TestInv /\ [TestNext]_testVars => TestInv'
<1> SUFFICES ASSUME TestInv, [TestNext]_testVars PROVE TestInv'
  OBVIOUS
<1> USE TestValuesShape DEF TestInv, TestTypeOK
<1>1. CASE EarlierCommand
  <2>1. PICK v \in Limits : writes = <<>> /\ writes' = <<v>>
    BY <1>1 DEF EarlierCommand
  <2>2. writes' \in Seq(TestValues) /\ Unasked(writes')
    BY <2>1, FirstWritten
  <2> QED BY <1>1, <2>2 DEF EarlierCommand
<1>2. CASE LimitReported
  BY <1>2 DEF LimitReported
<1>3. CASE Begin
  <2>1. original' \in Limits
    BY <1>3 DEF Begin
  <2> QED BY <1>3, <2>1 DEF Begin
<1>4. CASE Write
  <2>1. writes' \in {Append(writes, Requested), writes}
    BY <1>4 DEF Write, Accepted, Erred
  <2>2. writes' \in Seq(TestValues) /\ LastAsked(writes')
    BY <1>4, <2>1, WritesAppended DEF Write
  <2> QED BY <1>4, <2>2 DEF Write, Accepted, Erred
<1>5. CASE Restore
  <2>1. writes' \in {Append(writes, original), writes}
    BY <1>5 DEF Restore, Accepted, Erred
  <2>2. writes' \in Seq(TestValues) /\ (seen => writes' \in {<<original>>, <<>>})
    BY <1>5, <2>1, WritesAppended DEF Restore
  <2>3. /\ verdict' \in {"none", "not confirmed", "restore_failed"}
        /\ step' # "done" => verdict' = "none"
        /\ step' \in {"done", "await original"}
    BY <1>5 DEF Restore, Accepted, Erred, Unconfirmed
  <2> QED BY <1>5, <2>2, <2>3 DEF Restore
<1>6. CASE ReadRequested
  BY <1>6 DEF ReadRequested
<1>7. CASE ReadOriginal
  BY <1>7 DEF ReadOriginal, Confirmed
<1>8. CASE TimeIsOver
  BY <1>8 DEF TimeIsOver, Unconfirmed
<1>9. CASE Apply \/ Ignore
  <2>1. /\ writes # <<>> /\ writes' = Tail(writes)
        /\ UNCHANGED <<up, hemsActs, reported, original, step, seen, verdict>>
        /\ limit' = limit \/ limit' = Head(writes)
    BY <1>9 DEF Apply, Ignore
  <2>3. /\ writes' \in Seq(TestValues) /\ Head(writes) \in TestValues
        /\ Unasked(writes) => Unasked(writes') /\ Head(writes) # Requested
        /\ LastAsked(writes) => LastAsked(writes') /\ (Head(writes) = Requested => writes' = <<>>)
        /\ \A v : writes = <<v>> => writes' = <<>> /\ Head(writes) = v
    BY <2>1, WritesLeft
  <2>4. limit' \in TestValues
    BY <2>1, <2>3 DEF TestValues
  <2>5. TestTypeOK'
    BY <2>1, <2>3, <2>4 DEF TestValues
  <2>6. step' \in {"idle", "write"} =>
          ~seen' /\ limit' # Requested /\ reported' # Requested /\ Unasked(writes')
    BY <2>1, <2>3
  <2>7. step' \in {"await requested", "gate"} =>
          /\ limit' = Requested => writes' = <<>>
          /\ LastAsked(writes')
          /\ seen' => limit' = Requested /\ step' = "gate"
    BY <2>1, <2>3
  <2>8. step' = "await original" /\ seen' =>
          writes' = <<>> /\ (limit' = original' \/ limit' = Requested)
    <3> SUFFICES ASSUME step = "await original", seen
                 PROVE  writes' = <<>> /\ (limit' = original \/ limit' = Requested)
      BY <2>1
    <3>1. limit = Requested /\ writes = <<original>>
      BY <2>1
    <3> QED BY <2>1, <2>3, <3>1
  <2> QED BY <2>1, <2>3, <2>5, <2>6, <2>7, <2>8
<1>10. CASE DeviceChanges
  BY <1>10 DEF DeviceChanges
<1>11. CASE UNCHANGED testVars
  BY <1>11 DEF testVars
<1> QED BY <1>1, <1>2, <1>3, <1>4, <1>5, <1>6, <1>7, <1>8, <1>9, <1>10, <1>11 DEF TestNext

\* A test reported as restored left the original limit in the device.
THEOREM TestRestores == TestSpec => []RestoredIsRestored
<1>1. TestInv => RestoredIsRestored
  BY DEF TestInv, RestoredIsRestored
<1> QED BY <1>1, TestInitInv, TestNextInv, PTL DEF TestSpec

(***************************************************************************)
(* The local polls, for any number of devices and any permitted age.        *)
(***************************************************************************)
LEMMA PairMin ==
  ASSUME NEW a \in Int, NEW b \in Int
  PROVE  Min({a, b}) = IF a <= b THEN a ELSE b
<1> DEFINE m == IF a <= b THEN a ELSE b
<1>1. m \in {a, b} /\ \A y \in {a, b} : m <= y
  OBVIOUS
<1>2. \A x \in {a, b} : (\A y \in {a, b} : x <= y) => x = m
  BY <1>1
<1> QED BY <1>1, <1>2 DEF Min

LEMMA PairMax ==
  ASSUME NEW a \in Int, NEW b \in Int
  PROVE  Max({a, b}) = IF a >= b THEN a ELSE b
<1> DEFINE m == IF a >= b THEN a ELSE b
<1>1. m \in {a, b} /\ \A y \in {a, b} : m >= y
  OBVIOUS
<1>2. \A x \in {a, b} : (\A y \in {a, b} : x >= y) => x = m
  BY <1>1
<1> QED BY <1>1, <1>2 DEF Max

LEMMA AgedType ==
  ASSUME NEW a \in {Missed} \cup 0..Ancient
  PROVE  /\ Aged(a) \in {Missed} \cup 0..Ancient
         /\ a = Missed <=> Aged(a) = Missed
         /\ a # Missed => Aged(a) = (IF a + 1 <= Ancient THEN a + 1 ELSE Ancient)
<1>1. MaxDataAge \in Nat
  BY PollingAssumption
<1>2. CASE a = Missed
  BY <1>2 DEF Aged
<1>3. CASE a # Missed
  <2>1. a \in 0..Ancient /\ a + 1 \in Int /\ Ancient \in Int
    BY <1>1, <1>3 DEF Ancient
  <2>2. Min({a + 1, Ancient}) = IF a + 1 <= Ancient THEN a + 1 ELSE Ancient
    BY <2>1, PairMin
  <2> QED BY <1>1, <1>3, <2>1, <2>2 DEF Aged, Missed, Ancient
<1> QED BY <1>2, <1>3

\* Ages that were recorded are no younger than the answers they stand for.
PollingInv ==
  /\ PollingTypeOK
  /\ asked \in [Readers -> SUBSET Units] /\ reading \in [Readers -> SUBSET Units]
  /\ \A u \in Units : success[u] # Missed => answered[u] <= success[u]
  /\ \A r \in Readers, u \in Units : got[r][u] # Missed => answered[u] <= got[r][u]

LEMMA PollingInitInv == PollingInit => PollingInv
BY PollingAssumption DEF PollingInit, PollingInv, PollingTypeOK, Readers, Missed, Ancient, Delays, MaxFailures

LEMMA DelaysShape == Delays[MaxFailures] = 6 /\ \A f \in 0..MaxFailures : Delay(f) \in 0..6
BY DEF Delays, MaxFailures, Delay

LEMMA PollingNextInv == PollingInv /\ [PollingNext]_pollVars => PollingInv'
<1> SUFFICES ASSUME PollingInv, [PollingNext]_pollVars PROVE PollingInv'
  OBVIOUS
<1> USE PollingAssumption DEF PollingInv, PollingTypeOK
<1>0. /\ Ancient \in Nat /\ Ancient = MaxDataAge + 1 /\ Missed \notin 0..Ancient /\ 0 # Missed
  BY DEF Ancient, Missed
<1>1. ASSUME NEW r \in Readers, NEW units \in SUBSET Units, StartRead(r, units) PROVE PollingInv'
  BY <1>0, <1>1 DEF StartRead
<1>2. ASSUME NEW r \in Readers, NEW u \in Units, Answers(r, u) PROVE PollingInv'
  <2>1. reading' \in [Readers -> SUBSET Units] /\ \A x \in Readers : reading'[x] \subseteq reading[x]
    BY <1>2 DEF Answers
  <2>2. answered' \in [Units -> 0..Ancient] /\ \A w \in Units : answered'[w] <= answered[w] /\ answered'[u] = 0
    BY <1>0, <1>2 DEF Answers
  <2>3. got' \in [Readers -> [Units -> {Missed} \cup 0..Ancient]]
    BY <1>0, <1>2 DEF Answers
  <2>4. \A x \in Readers, w \in Units : got'[x][w] = IF x = r /\ w = u THEN 0 ELSE got[x][w]
    BY <1>2 DEF Answers
  <2>5. \A x \in Readers, w \in Units : got'[x][w] # Missed => answered'[w] <= got'[x][w]
    <3> SUFFICES ASSUME NEW x \in Readers, NEW w \in Units, got'[x][w] # Missed
                 PROVE answered'[w] <= got'[x][w]
      OBVIOUS
    <3>1. CASE x = r /\ w = u
      BY <2>2, <2>4, <3>1
    <3>2. CASE ~(x = r /\ w = u)
      <4>1. got[x][w] \in 0..Ancient /\ answered[w] <= got[x][w]
        BY <2>4, <3>2
      <4> QED BY <2>2, <2>4, <3>2, <4>1
    <3> QED BY <3>1, <3>2
  <2>6. \A w \in Units : success'[w] # Missed => answered'[w] <= success'[w]
    <3> SUFFICES ASSUME NEW w \in Units, success[w] # Missed PROVE answered'[w] <= success[w]
      BY <1>2 DEF Answers
    <3> QED BY <1>0, <2>2
  <2> QED BY <1>2, <2>1, <2>2, <2>3, <2>5, <2>6 DEF Answers, bounds
<1>3. ASSUME NEW r \in Readers, NEW u \in Units, TimesOut(r, u) \/ Rejected(r, u) PROVE PollingInv'
  BY <1>3 DEF TimesOut, Rejected
<1>4. ASSUME NEW r \in Readers, Record(r) PROVE PollingInv'
  <2>1. failures' \in [Units -> 0..MaxFailures]
    <3>1. \A u \in Units : Counts(r, u) \in 0..MaxFailures
      <4> SUFFICES ASSUME NEW u \in Units PROVE Counts(r, u) \in 0..MaxFailures
        OBVIOUS
      <4>1. failures[u] + 1 \in Int /\ failures[u] >= 0 /\ MaxFailures \in Int
        BY DEF MaxFailures
      <4>2. Min({failures[u] + 1, MaxFailures}) =
              IF failures[u] + 1 <= MaxFailures THEN failures[u] + 1 ELSE MaxFailures
        BY <4>1, PairMin
      <4> QED BY <4>1, <4>2 DEF Counts, MaxFailures
    <3> QED BY <1>4, <3>1 DEF Record
  <2>2. success' \in [Units -> {Missed} \cup 0..Ancient]
    BY <1>4 DEF Record
  <2>3. \A u \in Units : success'[u] # Missed => answered'[u] <= success'[u]
    BY <1>4 DEF Record
  <2>4. wait' \in [Units -> 0..Delays[MaxFailures]]
    BY <1>4, <2>1, DelaysShape DEF Record
  <2>5. /\ got' \in [Readers -> [Units -> {Missed} \cup 0..Ancient]]
        /\ \A x \in Readers, u \in Units : got'[x][u] = IF x = r THEN Missed ELSE got[x][u]
    BY <1>4 DEF Record
  <2>6. left' \in [Readers -> 0..ReadTime]
    BY <1>4 DEF Record
  <2>7. /\ asked' \in [Readers -> SUBSET Units] /\ reading' = reading
        /\ \A x \in Readers : reading[x] \subseteq asked'[x]
    BY <1>4 DEF Record, Ready
  <2> QED BY <1>4, <2>1, <2>2, <2>3, <2>4, <2>5, <2>6, <2>7 DEF Record
<1>5. CASE PollingTick
  <2>1. /\ left' = [r \in Readers |-> Max({left[r] - 1, 0})]
        /\ wait' = [u \in Units |-> Max({wait[u] - 1, 0})]
        /\ success' = [u \in Units |-> Aged(success[u])]
        /\ answered' = [u \in Units |-> Aged(answered[u])]
        /\ got' = [r \in Readers |-> [u \in Units |-> Aged(got[r][u])]]
        /\ UNCHANGED <<reachable, failures, reading, asked, bounds>>
    BY <1>5 DEF PollingTick
  <2>2. left' \in [Readers -> 0..ReadTime]
    <3> SUFFICES ASSUME NEW r \in Readers PROVE Max({left[r] - 1, 0}) \in 0..ReadTime
      BY <2>1
    <3>1. left[r] \in 0..ReadTime /\ left[r] - 1 \in Int
      OBVIOUS
    <3> QED BY <3>1, PairMax
  <2>3. wait' \in [Units -> 0..Delays[MaxFailures]]
    <3> SUFFICES ASSUME NEW u \in Units PROVE Max({wait[u] - 1, 0}) \in 0..6
      BY <2>1, DelaysShape
    <3>1. wait[u] \in 0..6 /\ wait[u] - 1 \in Int
      BY DelaysShape
    <3> QED BY <3>1, PairMax
  <2>4. /\ \A u \in Units : Aged(answered[u]) \in 0..Ancient
        /\ answered' \in [Units -> 0..Ancient]
    BY <1>0, <2>1, AgedType
  <2>5. success' \in [Units -> {Missed} \cup 0..Ancient]
    BY <2>1, AgedType
  <2>6. got' \in [Readers -> [Units -> {Missed} \cup 0..Ancient]]
    BY <2>1, AgedType
  <2>7. \A a \in 0..Ancient, b \in 0..Ancient : a <= b => Aged(a) <= Aged(b)
    <3> SUFFICES ASSUME NEW a \in 0..Ancient, NEW b \in 0..Ancient, a <= b PROVE Aged(a) <= Aged(b)
      OBVIOUS
    <3>1. Aged(a) = (IF a + 1 <= Ancient THEN a + 1 ELSE Ancient) /\ Aged(b) = (IF b + 1 <= Ancient THEN b + 1 ELSE Ancient)
      BY <1>0, AgedType
    <3> QED BY <1>0, <3>1
  <2>8. \A u \in Units : success'[u] # Missed => answered'[u] <= success'[u]
    BY <1>0, <2>1, <2>7, AgedType
  <2>9. \A r \in Readers, u \in Units : got'[r][u] # Missed => answered'[u] <= got'[r][u]
    BY <1>0, <2>1, <2>7, AgedType
  <2> QED BY <2>1, <2>2, <2>3, <2>4, <2>5, <2>6, <2>8, <2>9
<1>6. ASSUME NEW u \in Units, ReachabilityChanges(u) PROVE PollingInv'
  BY <1>6 DEF ReachabilityChanges
<1>7. CASE UNCHANGED pollVars
  BY <1>7 DEF pollVars, bounds
<1>8. AskDue \/ TestReads => PollingInv'
  <2>1. "poll" \in Readers /\ "test" \in Readers /\ Due \in SUBSET Units
    BY DEF Readers, Due
  <2> QED BY <1>1, <2>1 DEF AskDue, TestReads
<1> QED BY <1>2, <1>3, <1>4, <1>5, <1>6, <1>7, <1>8 DEF PollingNext

LEMMA PollingInvGives == PollingInv => AvailableIsFresh
<1> SUFFICES ASSUME PollingInv, NEW u \in Units, Available(u) PROVE answered[u] <= MaxDataAge
  BY DEF AvailableIsFresh, PollingInv
<1>1. success[u] # Missed /\ ~(success[u] > MaxDataAge)
  BY DEF Available, Availability
<1>2. success[u] \in 0..Ancient /\ answered[u] \in 0..Ancient /\ answered[u] <= success[u]
  BY <1>1 DEF PollingInv, PollingTypeOK
<1> QED BY <1>1, <1>2, PollingAssumption DEF Ancient

\* A device that counts as available answered within the permitted age.
THEOREM AvailableAnswered == PollingSpec => []AvailableIsFresh
BY PollingInvGives, PollingInitInv, PollingNextInv, PTL DEF PollingSpec

(***************************************************************************)
(* The intake of reports, for any length of the deque and any number of     *)
(* reports, with the cursor by identity and by count.                       *)
(***************************************************************************)
\* The deque holds the latest reports, without a gap.
DequeSound ==
  /\ Len(buffer) = IF received <= Capacity THEN received ELSE Capacity
  /\ \A i \in 1..Len(buffer) : buffer[i] = received - Len(buffer) + i

Rising(s) == \A i, j \in 1..Len(s) : i < j => s[i] < s[j]

\* What the capture took is what arrived first; what was handed over ends with
\* lastSeen, or lies below the position of the count.
CursorSound ==
  /\ phase # "observing" =>
       /\ Cursor = "identity" /\ received <= Capacity /\ handed = <<>> /\ lastSeen = 0
       /\ cursor <= Len(buffer) /\ Len(captured) = cursor
       /\ \A i \in 1..Len(captured) : captured[i] = i
  /\ Cursor = "identity" =>
       /\ handed = <<>> => lastSeen = 0
       /\ handed # <<>> => lastSeen = handed[Len(handed)]
  /\ Cursor = "count" =>
       /\ cursor <= Len(buffer)
       /\ cursor < Capacity => \A i \in 1..Len(handed) : handed[i] <= cursor

IntakeInv == IntakeSound /\ DequeSound /\ CursorSound

\* A later run of numbers continues a rising sequence.
LEMMA RisingConcat ==
  ASSUME NEW N \in Nat, NEW s \in Seq(1..N), NEW t \in Seq(1..N), Rising(s), Rising(t),
         \A i \in 1..Len(s), j \in 1..Len(t) : s[i] < t[j]
  PROVE  /\ s \o t \in Seq(1..N) /\ Rising(s \o t)
         /\ t = <<>> => s \o t = s
         /\ t # <<>> => s \o t # <<>> /\ (s \o t)[Len(s \o t)] = t[Len(t)]
<1> DEFINE r == s \o t
<1>1. /\ r \in Seq(1..N) /\ Len(r) = Len(s) + Len(t) /\ Len(s) \in Nat /\ Len(t) \in Nat
      /\ \A i \in 1..Len(r) : r[i] = IF i <= Len(s) THEN s[i] ELSE t[i - Len(s)]
  BY ConcatProperties
<1>2. \A i \in 1..Len(s) : s[i] \in 1..N
  BY ElementOfSeq
<1>3. \A i \in 1..Len(t) : t[i] \in 1..N
  BY ElementOfSeq
<1>4. t = <<>> => r = s
  BY ConcatEmptySeq
<1>5. t # <<>> => Len(t) > 0
  BY <1>1, EmptySeq
<1> HIDE DEF r
<1>6. \A i \in 1..Len(r) : i > Len(s) => i - Len(s) \in 1..Len(t)
  BY <1>1
<1>7. Rising(r)
  <2> SUFFICES ASSUME NEW i \in 1..Len(r), NEW j \in 1..Len(r), i < j PROVE r[i] < r[j]
    BY DEF Rising
  <2>1. CASE j <= Len(s)
    <3>1. i \in 1..Len(s) /\ j \in 1..Len(s) /\ i <= Len(s)
      BY <1>1, <2>1
    <3>2. r[i] = s[i] /\ r[j] = s[j]
      BY <1>1, <2>1, <3>1
    <3> QED BY <3>1, <3>2 DEF Rising
  <2>2. CASE i <= Len(s) /\ j > Len(s)
    <3>1. i \in 1..Len(s) /\ j - Len(s) \in 1..Len(t) /\ ~(j <= Len(s))
      BY <1>1, <1>6, <2>2
    <3>2. r[i] = s[i] /\ r[j] = t[j - Len(s)]
      BY <1>1, <2>2, <3>1
    <3> QED BY <3>1, <3>2
  <2>3. CASE i > Len(s)
    <3>1. /\ i - Len(s) \in 1..Len(t) /\ j - Len(s) \in 1..Len(t) /\ i - Len(s) < j - Len(s)
          /\ r[i] = t[i - Len(s)] /\ r[j] = t[j - Len(s)]
      BY <1>1, <1>6, <2>3, SMTT(60)
    <3> QED BY <3>1 DEF Rising
  <2> QED BY <1>1, <2>1, <2>2, <2>3
<1>8. t # <<>> => r # <<>> /\ r[Len(r)] = t[Len(t)]
  <2> SUFFICES ASSUME t # <<>> PROVE r # <<>> /\ r[Len(r)] = t[Len(t)]
    OBVIOUS
  <2>1. Len(r) \in 1..Len(r) /\ ~(Len(r) <= Len(s)) /\ Len(r) - Len(s) = Len(t)
    BY <1>1, <1>5
  <2>2. r[Len(r)] = t[Len(t)]
    BY <1>1, <2>1
  <2>3. r # <<>>
    BY <1>1, <2>1, EmptySeq
  <2> QED BY <2>2, <2>3
<1> QED BY <1>1, <1>4, <1>7, <1>8 DEF r

\* A turn takes what stands behind position p.
LEMMA FromShape ==
  ASSUME NEW N \in Nat, NEW s \in Seq(1..N), NEW p \in 0..Len(s)
  PROVE  /\ From(s, p) \in Seq(1..N) /\ Len(From(s, p)) = Len(s) - p
         /\ \A i \in 1..(Len(s) - p) : From(s, p)[i] = s[p + i]
         /\ From(s, p) = <<>> <=> p = Len(s)
<1>1. /\ Len(s) \in Nat /\ From(s, p) = SubSeq(s, p + 1, Len(s))
  BY DEF From
<1>2. /\ From(s, p) \in Seq(1..N) /\ Len(From(s, p)) = Len(s) - p
      /\ \A i \in 1..(Len(s) - p) : From(s, p)[i] = s[p + i]
  BY <1>1
<1>3. From(s, p) = <<>> <=> p = Len(s)
  <2>1. From(s, p) = <<>> <=> Len(From(s, p)) = 0
    BY <1>2, EmptySeq
  <2> QED BY <1>1, <1>2, <2>1
<1> QED BY <1>2, <1>3

LEMMA IntakeInitInv == IntakeInit => IntakeInv
<1> SUFFICES ASSUME IntakeInit PROVE IntakeInv
  OBVIOUS
<1> USE CapacityAssumption, CursorAssumption, ReportsAssumption
<1>1. /\ Len(buffer) = 0 /\ Len(handed) = 0 /\ Len(captured) = 0 /\ received = 0
  BY DEF IntakeInit
<1>2. IntakeTypeOK
  BY <1>1 DEF IntakeInit, IntakeTypeOK
<1>3. HandedOnceInOrder
  BY DEF IntakeInit, HandedOnceInOrder
<1>4. DequeSound /\ CursorSound
  BY <1>1 DEF IntakeInit, DequeSound, CursorSound
<1> QED BY <1>2, <1>3, <1>4 DEF IntakeInv, IntakeSound

LEMMA HandedRising ==
  ASSUME IntakeTypeOK
  PROVE  HandedOnceInOrder <=> Rising(handed)
<1>1. DOMAIN handed = 1..Len(handed)
  BY LenProperties DEF IntakeTypeOK
<1> QED BY <1>1 DEF HandedOnceInOrder, Rising

LEMMA ReceiveInv == ASSUME IntakeInv, Receive PROVE IntakeInv'
<1> USE CapacityAssumption, CursorAssumption, ReportsAssumption DEF IntakeInv, IntakeSound
<1> DEFINE b == Append(buffer, received + 1)
<1>1. /\ received \in Nat /\ received' = received + 1 /\ received < MaxReports
      /\ buffer \in Seq(1..received) /\ Len(buffer) \in Nat /\ Len(buffer) <= Capacity
      /\ UNCHANGED <<phase, captured, cursor, lastSeen, handed>>
  BY DEF Receive, IntakeTypeOK
<1>2. Seq(1..received) \subseteq Seq(1..received')
  <2>1. 1..received \subseteq 1..received'
    BY <1>1
  <2> QED BY <2>1, SeqMonotonic
<1>3. /\ b \in Seq(1..received') /\ Len(b) = Len(buffer) + 1
      /\ \A i \in 1..Len(buffer) : b[i] = buffer[i]
      /\ b[Len(buffer) + 1] = received + 1
  BY <1>1, <1>2
<1>4. /\ \A i \in 1..Len(b) : b[i] = received' - Len(b) + i
      /\ buffer' = IF Len(b) > Capacity THEN Tail(b) ELSE b
  <2>1. buffer' = IF Len(b) > Capacity THEN Tail(b) ELSE b
    BY DEF Receive
  <2> HIDE DEF b
  <2>2. ASSUME NEW i \in 1..Len(b) PROVE b[i] = received' - Len(b) + i
    <3>1. received' - Len(b) = received - Len(buffer)
      BY <1>1, <1>3
    <3>2. CASE i \in 1..Len(buffer)
      BY <1>3, <3>1, <3>2 DEF DequeSound
    <3>3. CASE i = Len(buffer) + 1
      BY <1>1, <1>3, <3>1, <3>3
    <3> QED BY <1>1, <1>3, <3>2, <3>3
  <2> QED BY <2>1, <2>2
<1> HIDE DEF b
<1>7. /\ buffer' \in Seq(1..received') /\ Len(buffer') <= Capacity /\ Len(buffer') >= Len(buffer)
      /\ DequeSound'
  <2>1. CASE Len(b) > Capacity
    <3>1. /\ buffer' = Tail(b) /\ Len(b) = Capacity + 1 /\ received' > Capacity
          /\ Len(buffer) = Capacity
      BY <1>1, <1>3, <1>4, <2>1, SMTT(60) DEF DequeSound
    <3>2. /\ buffer' \in Seq(1..received') /\ Len(buffer') = Capacity
          /\ \A i \in 1..Capacity : buffer'[i] = b[i + 1]
      BY <1>3, <3>1
    <3>3. \A i \in 1..Capacity : buffer'[i] = received' - Capacity + i
      BY <1>1, <1>4, <3>1, <3>2
    <3>4. DequeSound'
      <4>1. Len(buffer') = IF received' <= Capacity THEN received' ELSE Capacity
        BY <1>1, <3>1, <3>2
      <4>2. \A i \in 1..Len(buffer') : buffer'[i] = received' - Len(buffer') + i
        BY <3>2, <3>3
      <4> QED BY <4>1, <4>2 DEF DequeSound
    <3> QED BY <1>1, <3>1, <3>2, <3>4
  <2>2. CASE Len(b) <= Capacity
    <3>1. buffer' = b /\ ~(Len(b) > Capacity)
      BY <1>1, <1>3, <1>4, <2>2
    <3>2. Len(b) = IF received' <= Capacity THEN received' ELSE Capacity
      BY <1>1, <1>3, <2>2 DEF DequeSound
    <3>3. DequeSound'
      BY <1>4, <3>1, <3>2 DEF DequeSound
    <3> QED BY <1>1, <1>3, <2>2, <3>1, <3>3
  <2> QED BY <1>1, <1>3, <2>1, <2>2
<1>8. IntakeTypeOK'
  BY <1>1, <1>2, <1>7 DEF IntakeTypeOK, Receive
<1>9. CursorSound'
  BY <1>1, <1>7, SMTT(60) DEF CursorSound, Receive, IntakeTypeOK
<1>10. HandedOnceInOrder'
  BY <1>1 DEF HandedOnceInOrder
<1> QED BY <1>7, <1>8, <1>9, <1>10

LEMMA CaptureInv ==
  ASSUME IntakeInv, NEW done \in BOOLEAN, CaptureTurn(done)
  PROVE  IntakeInv'
<1> USE CapacityAssumption, CursorAssumption, ReportsAssumption DEF IntakeInv, IntakeSound
<1>1. /\ phase = "capturing" /\ captured' = captured \o From(buffer, cursor)
      /\ cursor' = Len(buffer) /\ pending' = 0 /\ phase' \in {"capturing", "exporting"}
      /\ UNCHANGED <<received, buffer, lastSeen, handed>>
  BY DEF CaptureTurn
<1>2. /\ received \in Nat /\ buffer \in Seq(1..received) /\ captured \in Seq(1..received)
      /\ Len(buffer) = received /\ cursor \in 0..Len(buffer) /\ Len(captured) = cursor
      /\ cursor \in Nat /\ cursor <= received
      /\ \A i \in 1..Len(captured) : captured[i] = i
      /\ \A i \in 1..Len(buffer) : buffer[i] = i
  BY <1>1 DEF IntakeTypeOK, CursorSound, DequeSound
<1> DEFINE t == From(buffer, cursor)
<1>3. /\ t \in Seq(1..received) /\ Len(t) = received - cursor
      /\ \A i \in 1..(received - cursor) : t[i] = cursor + i
  <2>1. /\ t \in Seq(1..received) /\ Len(t) = Len(buffer) - cursor
        /\ \A i \in 1..(Len(buffer) - cursor) : t[i] = buffer[cursor + i]
    BY <1>2, FromShape, ZenonT(60)
  <2> HIDE DEF t
  <2>2. \A i \in 1..(received - cursor) : cursor + i \in 1..Len(buffer)
    BY <1>2
  <2> QED BY <1>2, <2>1, <2>2
<1> HIDE DEF t
<1>4. /\ captured \o t \in Seq(1..received) /\ Len(captured \o t) = received
      /\ \A i \in 1..received : (captured \o t)[i] = i
  <2>1. /\ captured \o t \in Seq(1..received) /\ Len(captured \o t) = Len(captured) + Len(t)
        /\ \A i \in 1..Len(captured) + Len(t) :
             (captured \o t)[i] = IF i <= Len(captured) THEN captured[i] ELSE t[i - Len(captured)]
    <3>1. captured \in Seq(1..received) /\ t \in Seq(1..received)
      BY <1>2, <1>3
    <3> QED BY <3>1, ConcatProperties
  <2>2. Len(captured) + Len(t) = received
    BY <1>2, <1>3
  <2>3. ASSUME NEW i \in 1..received PROVE (captured \o t)[i] = i
    <3>1. CASE i <= cursor
      BY <1>2, <2>1, <2>2, <3>1
    <3>2. CASE i > cursor
      <4>1. i - cursor \in 1..(received - cursor) /\ ~(i <= Len(captured))
        BY <1>2, <3>2
      <4>2. (captured \o t)[i] = t[i - cursor]
        BY <1>2, <2>1, <2>2, <4>1
      <4>3. t[i - cursor] = cursor + (i - cursor)
        BY <1>3, <4>1
      <4> QED BY <1>2, <4>2, <4>3
    <3>3. i <= cursor \/ i > cursor
      BY <1>2
    <3> QED BY <3>1, <3>2, <3>3
  <2> QED BY <2>1, <2>2, <2>3
<1>5. captured' = captured \o t
  BY <1>1 DEF t
<1>6. IntakeTypeOK'
  BY <1>1, <1>2, <1>4, <1>5 DEF IntakeTypeOK
<1>7. CursorSound'
  BY <1>1, <1>2, <1>4, <1>5 DEF CursorSound
<1>8. DequeSound' /\ HandedOnceInOrder'
  BY <1>1 DEF DequeSound, HandedOnceInOrder
<1> QED BY <1>6, <1>7, <1>8

LEMMA ConsumeCapturedInv == ASSUME IntakeInv, ConsumeCaptured PROVE IntakeInv'
<1> USE CapacityAssumption, CursorAssumption, ReportsAssumption DEF IntakeInv, IntakeSound
<1>1. /\ phase = "exporting" /\ handed' = handed \o captured /\ phase' = "observing"
      /\ lastSeen' = IF captured = <<>> THEN lastSeen ELSE Last(captured)
      /\ UNCHANGED <<received, pending, buffer, captured, cursor>>
  BY DEF ConsumeCaptured
<1>2. /\ captured \in Seq(1..received) /\ handed = <<>> /\ lastSeen = 0 /\ Cursor = "identity"
      /\ \A i \in 1..Len(captured) : captured[i] = i
  BY <1>1 DEF IntakeTypeOK, CursorSound
<1>3. handed' = captured
  BY <1>1, <1>2
<1>4. captured # <<>> => lastSeen' = captured[Len(captured)] /\ lastSeen' \in 0..received
  <2>1. captured # <<>> => Len(captured) \in 1..Len(captured)
    BY <1>2, EmptySeq
  <2>2. captured # <<>> => captured[Len(captured)] \in 1..received
    BY <1>2, <2>1, ElementOfSeq
  <2>3. received \in Nat
    BY DEF IntakeTypeOK
  <2> QED BY <1>1, <2>2, <2>3 DEF Last
<1>5. captured = <<>> => lastSeen' = 0
  BY <1>1, <1>2
<1>6. IntakeTypeOK'
  <2>1. lastSeen' \in 0..received
    BY <1>4, <1>5 DEF IntakeTypeOK
  <2> QED BY <1>1, <1>2, <1>3, <2>1 DEF IntakeTypeOK
<1>7. HandedOnceInOrder'
  <2>1. DOMAIN captured = 1..Len(captured) /\ Len(captured) \in Nat
    BY <1>2, LenProperties
  <2> QED BY <1>2, <1>3, <2>1 DEF HandedOnceInOrder
<1>8. CursorSound'
  BY <1>1, <1>2, <1>3, <1>4, <1>5 DEF CursorSound
<1>9. DequeSound'
  BY <1>1 DEF DequeSound
<1> QED BY <1>6, <1>7, <1>8, <1>9

\* The new positions are those behind position p, and what stands there is later
\* than everything handed over.
LEMMA NewPositionsShape ==
  ASSUME IntakeInv, phase = "observing"
  PROVE  \E p \in 0..Len(buffer) :
           /\ Cardinality(NewPositions) = Len(buffer) - p
           /\ \A i \in 1..Len(handed) : p < Len(buffer) => handed[i] <= received - Len(buffer) + p
           /\ Cursor = "count" => p = cursor
<1> USE CapacityAssumption, CursorAssumption, ReportsAssumption DEF IntakeInv, IntakeSound
<1>1. /\ received \in Nat /\ buffer \in Seq(1..received) /\ Len(buffer) \in Nat
      /\ Len(buffer) <= received /\ handed \in Seq(1..received) /\ Len(handed) \in Nat
      /\ lastSeen \in 0..received
      /\ \A i \in 1..Len(buffer) : buffer[i] = received - Len(buffer) + i
  BY DEF IntakeTypeOK, DequeSound
<1>2. \A p \in 0..Len(buffer) : Cardinality((p + 1)..Len(buffer)) = Len(buffer) - p
  <2> SUFFICES ASSUME NEW p \in 0..Len(buffer)
               PROVE  Cardinality((p + 1)..Len(buffer)) = Len(buffer) - p
    OBVIOUS
  <2>1. p + 1 \in Int /\ Len(buffer) \in Int
    BY <1>1
  <2>2. Cardinality((p + 1)..Len(buffer)) =
          IF p + 1 > Len(buffer) THEN 0 ELSE Len(buffer) - (p + 1) + 1
    BY <2>1, FS_Interval
  <2> QED BY <1>1, <2>2
<1>3. CASE Cursor = "count"
  <2>1. cursor \in 0..Len(buffer) /\ NewPositions = (cursor + 1)..Len(buffer)
    BY <1>1, <1>3 DEF NewPositions, CursorSound, IntakeTypeOK
  <2>2. \A i \in 1..Len(handed) : cursor < Len(buffer) => handed[i] <= received - Len(buffer) + cursor
    <3> SUFFICES ASSUME NEW i \in 1..Len(handed), cursor < Len(buffer)
                 PROVE  handed[i] <= received - Len(buffer) + cursor
      OBVIOUS
    <3>1. handed[i] <= cursor /\ handed[i] \in 1..received
      BY <1>1, <1>3, <2>1, ElementOfSeq DEF CursorSound, IntakeTypeOK
    <3> QED BY <1>1, <2>1, <3>1
  <2> QED BY <1>2, <2>1, <2>2
<1>4. CASE Cursor = "identity"
  <2> DEFINE p == IF lastSeen > received - Len(buffer) THEN lastSeen - (received - Len(buffer)) ELSE 0
  <2>1. p \in 0..Len(buffer)
    BY <1>1
  <2>3. \A i \in 1..Len(buffer) : buffer[i] # lastSeen <=> i # p
    <3> SUFFICES ASSUME NEW i \in 1..Len(buffer) PROVE buffer[i] # lastSeen <=> i # p
      OBVIOUS
    <3>1. buffer[i] = received - Len(buffer) + i
      BY <1>1
    <3>2. CASE lastSeen > received - Len(buffer)
      BY <1>1, <3>1, <3>2
    <3>3. CASE ~(lastSeen > received - Len(buffer))
      <4>1. p = 0
        BY <3>3
      <4> QED BY <1>1, <3>1, <3>3, <4>1
    <3> QED BY <3>2, <3>3
  <2> HIDE DEF p
  <2>4. NewPositions = {i \in DOMAIN buffer : \A j \in i..Len(buffer) : buffer[j] # lastSeen}
    BY <1>4 DEF NewPositions
  <2>5. DOMAIN buffer = 1..Len(buffer)
    BY <1>1, LenProperties
  <2>6. NewPositions = (p + 1)..Len(buffer)
    <3>1. ASSUME NEW i \in (p + 1)..Len(buffer) PROVE i \in NewPositions
      BY <1>1, <2>1, <2>3, <2>4, <2>5, <3>1
    <3>2. ASSUME NEW i \in NewPositions PROVE i \in (p + 1)..Len(buffer)
      <4>1. i \in 1..Len(buffer) /\ \A j \in i..Len(buffer) : buffer[j] # lastSeen
        BY <2>4, <2>5
      <4>2. i > p
        <5> SUFFICES ASSUME i <= p PROVE FALSE
          BY <1>1, <2>1, <4>1
        <5>1. p \in i..Len(buffer) /\ p \in 1..Len(buffer)
          BY <1>1, <2>1, <4>1
        <5> QED BY <2>3, <4>1, <5>1
      <4> QED BY <1>1, <2>1, <4>1, <4>2
    <3> QED BY <3>1, <3>2
  <2>7. \A i \in 1..Len(handed) : handed[i] <= lastSeen
    <3> SUFFICES ASSUME NEW i \in 1..Len(handed) PROVE handed[i] <= lastSeen
      OBVIOUS
    <3>1. handed # <<>> /\ Len(handed) \in 1..Len(handed) /\ handed[i] \in 1..received
      BY <1>1, EmptySeq, ElementOfSeq
    <3>2. lastSeen = handed[Len(handed)]
      BY <1>4, <3>1 DEF CursorSound
    <3>3. i < Len(handed) => handed[i] < handed[Len(handed)]
      BY <3>1, HandedRising DEF Rising
    <3> QED BY <1>1, <3>1, <3>2, <3>3
  <2>8. lastSeen <= received - Len(buffer) + p
    BY <1>1 DEF p
  <2>9. \A i \in 1..Len(handed) : handed[i] <= received - Len(buffer) + p
    BY <1>1, <2>1, <2>7, <2>8, ElementOfSeq
  <2> QED BY <1>2, <1>4, <2>1, <2>6, <2>9
<1> QED BY <1>3, <1>4

LEMMA ConsumeInv == ASSUME IntakeInv, Consume PROVE IntakeInv'
<1> USE CapacityAssumption, CursorAssumption, ReportsAssumption DEF IntakeInv, IntakeSound
<1> DEFINE t == From(buffer, Len(buffer) - Cardinality(NewPositions))
<1>1. /\ phase = "observing" /\ handed' = handed \o t
      /\ lastSeen' = IF t = <<>> \/ Cursor = "count" THEN lastSeen ELSE Last(t)
      /\ cursor' = IF Cursor = "count" THEN Len(buffer) ELSE cursor
      /\ pending' = 0
      /\ UNCHANGED <<received, buffer, phase, captured>>
  BY DEF Consume
<1>2. /\ received \in Nat /\ buffer \in Seq(1..received) /\ Len(buffer) \in Nat
      /\ Len(buffer) <= received /\ handed \in Seq(1..received) /\ Len(handed) \in Nat
      /\ \A i \in 1..Len(buffer) : buffer[i] = received - Len(buffer) + i
  BY DEF IntakeTypeOK, DequeSound
<1>3. PICK p \in 0..Len(buffer) :
        /\ Cardinality(NewPositions) = Len(buffer) - p
        /\ \A i \in 1..Len(handed) : p < Len(buffer) => handed[i] <= received - Len(buffer) + p
        /\ Cursor = "count" => p = cursor
  BY <1>1, NewPositionsShape
<1>4. t = From(buffer, p)
  <2>1. Len(buffer) - Cardinality(NewPositions) = p
    BY <1>2, <1>3
  <2> QED BY <2>1
<1> HIDE DEF t
<1>5. /\ t \in Seq(1..received) /\ Len(t) = Len(buffer) - p
      /\ \A i \in 1..(Len(buffer) - p) : t[i] = buffer[p + i]
      /\ t = <<>> <=> p = Len(buffer)
  BY <1>2, <1>4, FromShape, ZenonT(60)
<1>6. \A i \in 1..Len(t) : t[i] = received - Len(buffer) + (p + i)
  BY <1>2, <1>5
<1>7. Rising(t)
  BY <1>2, <1>5, <1>6 DEF Rising
<1>8. \A i \in 1..Len(handed), j \in 1..Len(t) : handed[i] < t[j]
  <2> SUFFICES ASSUME NEW i \in 1..Len(handed), NEW j \in 1..Len(t) PROVE handed[i] < t[j]
    OBVIOUS
  <2>1. p < Len(buffer) /\ handed[i] \in 1..received
    BY <1>2, <1>5, ElementOfSeq, SMTT(60)
  <2>2. t[j] = received - Len(buffer) + (p + j) /\ j \in Nat /\ j >= 1
    BY <1>2, <1>5, <1>6
  <2>3. handed[i] <= received - Len(buffer) + p
    BY <1>3, <2>1
  <2> QED BY <1>2, <2>1, <2>2, <2>3
<1>9. /\ handed' \in Seq(1..received) /\ Rising(handed')
      /\ t = <<>> => handed' = handed
      /\ t # <<>> => handed' # <<>> /\ handed'[Len(handed')] = t[Len(t)]
  BY <1>1, <1>2, <1>5, <1>7, <1>8, HandedRising, RisingConcat, SMTT(60)
<1>10. t # <<>> => Last(t) \in 1..received /\ Last(t) = t[Len(t)]
  <2>1. t # <<>> => Len(t) \in 1..Len(t)
    BY <1>5, EmptySeq
  <2> QED BY <1>5, <2>1, ElementOfSeq DEF Last
<1>11. IntakeTypeOK'
  <2>1. lastSeen' \in 0..received
    BY <1>1, <1>10 DEF IntakeTypeOK
  <2>2. cursor' \in 0..Capacity
    BY <1>1, <1>2 DEF IntakeTypeOK
  <2> QED BY <1>1, <1>9, <2>1, <2>2 DEF IntakeTypeOK
<1>12. HandedOnceInOrder'
  <2>1. DOMAIN handed' = 1..Len(handed')
    BY <1>9, LenProperties
  <2> QED BY <1>9, <2>1 DEF HandedOnceInOrder, Rising
<1>13. CursorSound'
  <2>1. CASE Cursor = "identity"
    BY <1>1, <1>9, <1>10, <2>1 DEF CursorSound
  <2>2. CASE Cursor = "count"
    <3>1. /\ cursor' = Len(buffer) /\ phase' = "observing"
          /\ cursor' <= Len(buffer') /\ Cursor # "identity"
      BY <1>1, <1>2, <2>2
    <3>2. ASSUME Len(buffer) < Capacity, NEW i \in 1..Len(handed') PROVE handed'[i] <= cursor'
      <4>1. received = Len(buffer)
        BY <1>2, <3>2 DEF DequeSound
      <4>2. handed'[i] \in 1..received
        BY <1>9, ElementOfSeq
      <4> QED BY <3>1, <4>1, <4>2
    <3> QED BY <2>2, <3>1, <3>2 DEF CursorSound
  <2> QED BY <2>1, <2>2
<1>14. DequeSound'
  BY <1>1 DEF DequeSound
<1> QED BY <1>11, <1>12, <1>13, <1>14

LEMMA IntakeNextInv == IntakeInv /\ [IntakeNext]_intakeVars => IntakeInv'
<1> SUFFICES ASSUME IntakeInv, [IntakeNext]_intakeVars PROVE IntakeInv'
  OBVIOUS
<1>1. CASE UNCHANGED intakeVars
  BY <1>1 DEF intakeVars, IntakeInv, IntakeSound, IntakeTypeOK, HandedOnceInOrder, DequeSound, CursorSound
<1> QED BY <1>1, ReceiveInv, CaptureInv, ConsumeCapturedInv, ConsumeInv DEF IntakeNext

\* Only reports that were received are handed over, each at most once and in the
\* order of arrival, whatever arrives while they are captured and consumed.
THEOREM ReportsHandedOnce == IntakeSpec => []IntakeSound
<1>1. IntakeInv => IntakeSound
  BY DEF IntakeInv
<1> QED BY <1>1, IntakeInitInv, IntakeNextInv, PTL DEF IntakeSpec

(***************************************************************************)
(* The runtime as a whole.                                                  *)
(***************************************************************************)

\* A step of the runtime is a step of one component and leaves the others alone.
LEMMA OneComponent ==
  [Next]_runtimeVars =>
    /\ [MqttNext]_mqttVars /\ [IntakeNext]_intakeVars /\ [PollingNext]_pollVars
    /\ [HemsNext]_hemsVars /\ [RouterNext]_routerVars /\ [StandbyNext]_standbyVars
    /\ [TestNext]_testVars
BY DEF Next, runtimeVars

LEMMA AllComponents ==
  Init => /\ MqttInit /\ IntakeInit /\ PollingInit /\ HemsInit
          /\ RouterInit /\ StandbyInit /\ TestInit
BY DEF Init

\* The router of the runtime is a router.
LEMMA RuntimeRoutes == Spec => RouterSpec
BY OneComponent, AllComponents, PTL DEF Spec, RouterSpec

\* The safety of the whole runtime, whichever component a behaviour follows.
THEOREM RuntimeIsSound ==
  ASSUME ~Local
  PROVE  Spec => [](/\ OneTargetPerGeneration /\ StandbyTracked /\ IntakeSound /\ HemsSound
                    /\ SessionsSound /\ AvailableIsFresh /\ RestoredIsRestored)
<1>1. Spec => []OneTargetPerGeneration
  BY RuntimeRoutes, LeaseNeverTransferred
<1>2. Spec => []StandbyTracked
  <2>1. StandbyInv => StandbyTracked
    BY DEF StandbyInv
  <2> QED BY <2>1, OneComponent, AllComponents, StandbyInitInv, StandbyNextInv, PTL DEF Spec
<1>3. Spec => []IntakeSound
  <2>1. IntakeInv => IntakeSound
    BY DEF IntakeInv
  <2> QED BY <2>1, OneComponent, AllComponents, IntakeInitInv, IntakeNextInv, PTL DEF Spec
<1>4. Spec => []HemsSound
  BY OneComponent, AllComponents, HemsInitInv, HemsNextInv, PTL DEF Spec
<1>5. Spec => []SessionsSound
  <2>1. SessionInv => SessionsSound
    BY SessionInvGives DEF SessionsSound
  <2>2. SessionInv /\ [MqttNext]_mqttVars => SessionInv'
    BY SessionInvStep
  <2> QED BY <2>1, <2>2, OneComponent, AllComponents, SessionInvInit, PTL DEF Spec
<1>6. Spec => []AvailableIsFresh
  <2> QED BY PollingInvGives, OneComponent, AllComponents, PollingInitInv, PollingNextInv, PTL DEF Spec
<1>7. Spec => []RestoredIsRestored
  <2>1. TestInv => RestoredIsRestored
    BY DEF TestInv, RestoredIsRestored
  <2> QED BY <2>1, OneComponent, AllComponents, TestInitInv, TestNextInv, PTL DEF Spec
<1> QED
  BY <1>1, <1>2, <1>3, <1>4, <1>5, <1>6, <1>7, PTL

\* No revoked authority is used, no stop undoes a newer target where the write
\* ends with its task, and a stopped transport stays stopped.
THEOREM RuntimeNeverReverts == Spec => NoReplay /\ NewestTargetWinsByPost /\ StoppedForGood
<1>1. Spec => NoReplay
  BY RuntimeRoutes, RevokedAuthorityNeverUsed
<1>2. Spec => NewestTargetWinsByPost
  <2>1. StandbyInv /\ [StandbyNext]_standbyVars => [~threaded => ~Undone]_standbyVars
    BY StandbyNothingUndone
  <2> QED BY <2>1, OneComponent, AllComponents, StandbyInitInv, StandbyNextInv, PTL
          DEF Spec, NewestTargetWinsByPost
<1>3. Spec => StoppedForGood
  <2>1. SessionInv /\ [MqttNext]_mqttVars =>
          SessionInv' /\ [state = "stopped" => state' = "stopped"]_mqttVars
    BY SessionInvStep
  <2> QED BY <2>1, OneComponent, AllComponents, SessionInvInit, PTL DEF Spec, StoppedForGood
<1> QED
  BY <1>1, <1>2, <1>3

\* The runtime's write authority is the abstract lease of one writer.
THEOREM RuntimeImplementsLease == Spec => ImplementsLease
BY RuntimeRoutes, RouterImplementsLease DEF ImplementsLease
=============================================================================
