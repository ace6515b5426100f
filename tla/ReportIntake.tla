---------------------------- MODULE ReportIntake ----------------------------
(***************************************************************************)
(* How NativeZendureRuntime picks up what its MQTT transports received      *)
(* (native_zendure_runtime.py).  A transport appends every report to a      *)
(* bounded deque (cloud_mqtt.py _handle_message); once per second the       *)
(* runtime hands the reports that are new to the normalizer:                *)
(*                                                                         *)
(* Cursor = "identity": _consume_messages (Cloud MQTT) searches the deque   *)
(* for the last report it handed over; the startup capture                  *)
(* (initial_sync.py) hands over its own copy first.                         *)
(* Cursor = "count": _consume_local_messages (Local MQTT) skips as many     *)
(* reports as the deque held on its last turn; there is no capture.         *)
(*                                                                         *)
(* Reports are numbered in the order of their arrival.                      *)
(***************************************************************************)
EXTENDS Integers, Sequences, SequencesExt, FiniteSetsExt

CONSTANTS Capacity,     \* maxlen of the deque (10 000 in the code)
          MaxReports,   \* bound on the reports that arrive
          Burst,        \* bound on the reports between two turns of a loop
          Cursor

ASSUME CapacityAssumption == Capacity \in Nat \ {0}
ASSUME CursorAssumption == Cursor \in {"identity", "count"}
ASSUME ReportsAssumption == MaxReports \in Nat /\ Burst \in Nat

VARIABLES received,   \* reports that arrived
          pending,    \* those that arrived since the last turn
          buffer,     \* the deque
          phase,      \* "capturing", "exporting" or "observing"
          captured,   \* what the startup recorder took, in order
          cursor,     \* recorder's and local transport's position
          lastSeen,   \* _last_processed_message, 0 when None
          handed      \* what the normalizer was given, in order

intakeVars == <<received, pending, buffer, phase, captured, cursor, lastSeen, handed>>

IntakeInit ==
  /\ received = 0 /\ pending = 0 /\ buffer = <<>> /\ captured = <<>> /\ handed = <<>>
  /\ cursor = 0 /\ lastSeen = 0
  /\ phase = IF Cursor = "identity" THEN "capturing" ELSE "observing"

\* _handle_message: append to the deque, which forgets its oldest report (the
\* traffic of the startup phase fits into the deque)
Receive ==
  /\ received < MaxReports /\ pending < Burst
  /\ phase = "observing" \/ received < Capacity
  /\ received' = received + 1 /\ pending' = pending + 1
  /\ buffer' = LET b == Append(buffer, received + 1)
               IN IF Len(b) > Capacity THEN Tail(b) ELSE b
  /\ UNCHANGED <<phase, captured, cursor, lastSeen, handed>>

From(s, n) == SubSeq(s, n + 1, Len(s))

(***************************************************************************)
(* async_capture_initial_sync reads the deque every 0.1 s until traffic is  *)
(* quiet (done); the capture is exported in an executor, then handed over.  *)
(***************************************************************************)
CaptureTurn(done) ==
  /\ phase = "capturing"
  /\ captured' = captured \o From(buffer, cursor)
  /\ cursor' = Len(buffer) /\ pending' = 0
  /\ phase' = IF done THEN "exporting" ELSE phase
  /\ UNCHANGED <<received, buffer, lastSeen, handed>>

\* defect: the runtime forgets what the capture already handed over
ConsumeCapturedOnly ==
  /\ phase = "exporting"
  /\ handed' = handed \o captured
  /\ phase' = "observing"
  /\ UNCHANGED <<received, pending, buffer, captured, cursor, lastSeen>>

ConsumeCaptured ==
  /\ phase = "exporting"
  /\ handed' = handed \o captured
  /\ lastSeen' = IF captured = <<>> THEN lastSeen ELSE Last(captured)
  /\ phase' = "observing"
  /\ UNCHANGED <<received, pending, buffer, captured, cursor>>

(***************************************************************************)
(* One turn of the observation loop                                        *)
(***************************************************************************)
\* identity: everything after the last report handed over, or everything when
\* the deque does not hold it any more
NewPositions ==
  IF Cursor = "identity"
  THEN {i \in DOMAIN buffer : \A j \in i..Len(buffer) : buffer[j] # lastSeen}
  ELSE cursor + 1 .. Len(buffer)

Consume ==
  /\ phase = "observing"
  /\ LET fresh == From(buffer, Len(buffer) - Cardinality(NewPositions))
     IN /\ handed' = handed \o fresh
        /\ lastSeen' = IF fresh = <<>> \/ Cursor = "count" THEN lastSeen ELSE Last(fresh)
  /\ cursor' = IF Cursor = "count" THEN Len(buffer) ELSE cursor
  /\ pending' = 0
  /\ UNCHANGED <<received, buffer, phase, captured>>

IntakeNext ==
  \/ Receive
  \/ \E done \in BOOLEAN : CaptureTurn(done)
  \/ ConsumeCaptured
  \/ Consume

\* The capture ends (it has a hard timeout) and the loop keeps turning.
IntakeSpec ==
  /\ IntakeInit /\ [][IntakeNext]_intakeVars
  /\ WF_intakeVars(CaptureTurn(TRUE))
  /\ WF_intakeVars(ConsumeCaptured)
  /\ WF_intakeVars(Consume)

(***************************************************************************)
(* Properties                                                              *)
(***************************************************************************)
IntakeTypeOK ==
  /\ received \in 0..MaxReports /\ pending \in 0..Burst
  /\ buffer \in Seq(1..received) /\ Len(buffer) <= Capacity
  /\ phase \in {"capturing", "exporting", "observing"}
  /\ captured \in Seq(1..received) /\ handed \in Seq(1..received)
  /\ cursor \in 0..Capacity
  /\ lastSeen \in 0..received

\* The normalizer is given every report at most once and in the order of
\* arrival, across the startup capture, the export during which reports keep
\* arriving, and overruns of the deque: energy and activity are not counted
\* twice and an older state never overwrites a newer one.
HandedOnceInOrder ==
  \A i, j \in DOMAIN handed : i < j => handed[i] < handed[j]

\* The same together with the types of the intake: deque and cursor stay
\* within their bounds, and nothing is handed over that was not received.
IntakeSound == IntakeTypeOK /\ HandedOnceInOrder

\* "Reports ... enter the existing neutral device/pack normalizer"
\* (zendure-local-mqtt-v5.0.0.md): a report is handed over unless an overrun
\* evicted it from the deque before.
ReportsConsumed ==
  \A m \in 1..MaxReports :
    []<>(m \in Range(handed) \/ m \notin Range(buffer))
=============================================================================
