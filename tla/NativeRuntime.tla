---------------------------- MODULE NativeRuntime ----------------------------
(***************************************************************************)
(* The native runtime between its transports and the coordinator            *)
(* (native_zendure_runtime.py): the connection, the intake of reports, the  *)
(* local polls, the observation of HEMS, the write authority, targets and   *)
(* standby writes, and the first write test.  They run on one event loop    *)
(* and each keeps its own state; what one of them gets from another one --  *)
(* messages, readiness, answers, requests -- it may get at any time.  A     *)
(* behaviour follows one of them.                                           *)
(***************************************************************************)
EXTENDS MqttConnection, ReportIntake, DevicePolling, HemsProtection,
        TransportRouter, SmartModeStandby, FirstWriteTest

VARIABLE part   \* the component this behaviour follows

runtimeVars == <<part, mqttVars, intakeVars, pollVars, hemsVars, routerVars,
                 standbyVars, testVars>>

Init ==
  /\ part \in {"mqtt", "intake", "polling", "hems", "router", "standby", "test"}
  /\ MqttInit /\ IntakeInit /\ PollingInit /\ HemsInit
  /\ RouterInit /\ StandbyInit /\ TestInit
  /\ part # "polling" => reachable = {}
  /\ part # "hems" => ~mqtt /\ ~polls /\ ~hems
  /\ part # "standby" => ~threaded
  /\ part # "test" => limit = "low"

Next ==
  /\ UNCHANGED part
  /\ IF part = "mqtt" THEN MqttNext ELSE UNCHANGED mqttVars
  /\ IF part = "intake" THEN IntakeNext ELSE UNCHANGED intakeVars
  /\ IF part = "polling" THEN PollingNext ELSE UNCHANGED pollVars
  /\ IF part = "hems" THEN HemsNext ELSE UNCHANGED hemsVars
  /\ IF part = "router" THEN RouterNext ELSE UNCHANGED routerVars
  /\ IF part = "standby" THEN StandbyNext ELSE UNCHANGED standbyVars
  /\ IF part = "test" THEN TestNext ELSE UNCHANGED testVars

\* The fairness of each component, while it is followed.
Fairness ==
  /\ \A s \in Sessions :
       /\ WF_mqttVars(part = "mqtt" /\ Dialed(s))
       /\ WF_mqttVars(part = "mqtt" /\ LinkUp(s))
       /\ \A by \in {"stop", "reconnect"} : WF_mqttVars(part = "mqtt" /\ Closed(s, by))
  /\ WF_mqttVars(part = "mqtt" /\ \E ok \in BOOLEAN : Subscribed(ok))
  /\ WF_mqttVars(part = "mqtt" /\ Handle)
  /\ WF_mqttVars(part = "mqtt" /\ StartReturns)
  /\ WF_mqttVars(part = "mqtt" /\ StartFails)
  /\ WF_mqttVars(part = "mqtt" /\ StartTimesOut)
  /\ WF_mqttVars(part = "mqtt" /\ Reconnect)
  /\ WF_mqttVars(part = "mqtt" /\ ReconnectReturns)
  /\ WF_mqttVars(part = "mqtt" /\ ReconnectTimesOut)
  /\ WF_intakeVars(part = "intake" /\ CaptureTurn(TRUE))
  /\ WF_intakeVars(part = "intake" /\ ConsumeCaptured)
  /\ WF_intakeVars(part = "intake" /\ Consume)
  /\ WF_pollVars(part = "polling" /\ AskDue)
  /\ WF_pollVars(part = "polling" /\ PollingTick)
  /\ \A r \in Readers :
       /\ WF_pollVars(part = "polling" /\ Record(r))
       /\ \A u \in Units : WF_pollVars(part = "polling" /\ (Answers(r, u) \/ TimesOut(r, u)))
  /\ WF_hemsVars(part = "hems" /\ Refresh)
  /\ WF_hemsVars(part = "hems" /\ Tick)
  /\ \A n \in Requests :
       /\ WF_standbyVars(part = "standby" /\ (StartWrite(n) \/ Skip(n)))
       /\ WF_standbyVars(part = "standby" /\ (Finish(n) \/ FinishFailed(n)))
       /\ WF_standbyVars(part = "standby" /\ \E ok, fresh \in BOOLEAN : Poll(n, ok, fresh))
       /\ WF_standbyVars(part = "standby" /\ (TaskStartWrite(n) \/ TaskSkip(n)))
       /\ WF_standbyVars(part = "standby" /\ TaskFinish(n))
  /\ WF_testVars(part = "test" /\ Write)
  /\ WF_testVars(part = "test" /\ Restore)
  /\ WF_testVars(part = "test" /\ TimeIsOver)

Spec == Init /\ [][Next]_runtimeVars /\ Fairness

(***************************************************************************)
(* Properties                                                              *)
(***************************************************************************)
\* Nothing waits for ever: requests are decided and standby tasks end, reports
\* reach the normalizer, control returns once HEMS is silent, the transport
\* reconnects and a stop ends, devices that answer become available, and a test
\* gives the write lock back.
RuntimeSettles ==
  /\ RequestsDecided /\ ReportsConsumed /\ QuietReleasesControl
  /\ Reconnects /\ StopCompletes /\ ReachableRecovers /\ TestEnds
=============================================================================
