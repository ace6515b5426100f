--------------------------- MODULE HemsProtection ---------------------------
(***************************************************************************)
(* Whether Zendure's own HEMS controls the device, inferred from its        *)
(* heartbeat (hems_activity.py HemsActivityTracker, for devices that do not *)
(* report hemsState), and the fail-closed gate that keeps native commands   *)
(* away from a device under HEMS (hems.py ZendureHemsCommandGate).          *)
(*                                                                         *)
(* One device.  Heartbeats arrive over MQTT only; the runtime counts the    *)
(* device as observed when MQTT or the ZenSDK polls are healthy.  Both may  *)
(* be lost and regained.  Only the ages of the tracker's timestamps matter, *)
(* and only up to the confirmation window: an age is capped at Window + 1.  *)
(***************************************************************************)
EXTENDS Integers

CONSTANT Window   \* HEMS_ACTIVITY_TIMEOUT_SECONDS, in clock ticks

ASSUME WindowAssumption == Window \in Nat \ {0}

Never == -1
Ages == 0..Window + 1 \cup {Never}
Over(age) == age > Window
Older(age) == IF age = Never \/ Over(age) THEN age ELSE age + 1

VARIABLES mqtt,        \* an MQTT session of the device is up
          polls,       \* the device answers its ZenSDK polls
          monitoring,  \* _monitoring
          started,     \* age of _monitoring_started_at
          activity,    \* age of _last_activity_at
          decision,    \* the status the gate decided on last
          hems         \* HEMS is controlling the device and sends heartbeats

hemsVars == <<mqtt, polls, monitoring, started, activity, decision, hems>>

Decisions == {"active", "inactive", "stale", "unknown"}

HemsInit ==
  /\ mqtt \in BOOLEAN /\ polls \in BOOLEAN /\ hems \in BOOLEAN
  /\ monitoring = FALSE /\ started = Never /\ activity = Never
  /\ decision = "unknown"

(***************************************************************************)
(* measurement, and the status the gate's update derives from it           *)
(***************************************************************************)
\* defect: silence counts before the window is over
StatusEarly(mon, start, act) ==
  IF act # Never
  THEN IF ~mon THEN "stale" ELSE IF act >= Window THEN "inactive" ELSE "active"
  ELSE IF mon /\ start >= Window THEN "inactive" ELSE "unknown"

Status(mon, start, act) ==
  IF act # Never
  THEN IF ~mon THEN "stale" ELSE IF Over(act) THEN "inactive" ELSE "active"
  ELSE IF mon /\ Over(start) THEN "inactive" ELSE "unknown"

(***************************************************************************)
(* The runtime's loop and the messages                                     *)
(***************************************************************************)

\* _refresh_snapshots: set_monitoring with the health of the paths, then the
\* snapshot that _apply_state feeds to the gate
Refresh ==
  /\ monitoring' = (mqtt \/ polls)
  /\ started' = IF monitoring' /\ ~monitoring THEN 0 ELSE started
  /\ decision' = Status(monitoring', started', activity)
  /\ UNCHANGED <<mqtt, polls, activity, hems>>

\* A properties/energy message that is not retained: observe_energy and the
\* snapshot of the same message
Heartbeat ==
  /\ hems /\ mqtt
  /\ activity' = 0
  /\ decision' = Status(monitoring, started, activity')
  /\ UNCHANGED <<mqtt, polls, monitoring, started, hems>>

\* Any other message or poll only renews the snapshot
Message ==
  /\ mqtt \/ polls
  /\ decision' = Status(monitoring, started, activity)
  /\ UNCHANGED <<mqtt, polls, monitoring, started, activity, hems>>

(***************************************************************************)
(* The environment                                                         *)
(***************************************************************************)
\* A tick is a third of the window, or less: the loop turns within each
Tick ==
  /\ monitoring = (mqtt \/ polls)
  /\ started' = Older(started) /\ activity' = Older(activity)
  /\ UNCHANGED <<mqtt, polls, monitoring, decision, hems>>

MqttChanges ==
  /\ mqtt' = ~mqtt
  /\ UNCHANGED <<polls, monitoring, started, activity, decision, hems>>

PollsChange ==
  /\ polls' = ~polls
  /\ UNCHANGED <<mqtt, monitoring, started, activity, decision, hems>>

HemsChanges ==
  /\ hems' = ~hems
  /\ UNCHANGED <<mqtt, polls, monitoring, started, activity, decision>>

HemsNext == \/ Refresh \/ Heartbeat \/ Message
            \/ Tick \/ MqttChanges \/ PollsChange \/ HemsChanges

HemsSpec == /\ HemsInit /\ [][HemsNext]_hemsVars
            /\ WF_hemsVars(Refresh) /\ WF_hemsVars(Tick)

\* ZendureHemsCommandGate.decision(...).command_allowed
CommandAllowed == decision = "inactive"

(***************************************************************************)
(* Properties                                                              *)
(***************************************************************************)
\* Each variable has its type, and while the device is observed the quiet
\* window has a beginning.
HemsTypeOK ==
  /\ mqtt \in BOOLEAN /\ polls \in BOOLEAN
  /\ monitoring \in BOOLEAN /\ hems \in BOOLEAN
  /\ started \in Ages /\ activity \in Ages
  /\ decision \in Decisions
  /\ monitoring => started # Never

\* No command passes the gate within the window after a heartbeat that was
\* received, whatever was lost, regained and refreshed in between.
NoControlAfterHeartbeat == CommandAllowed => activity = Never \/ Over(activity)

\* A turn of the loop that finds the paths unhealthy blocks commands, and they
\* stay blocked until a turn finds a path healthy again.
LossBlocksControl == ~monitoring => ~CommandAllowed

\* The gate fails closed: heartbeats that were seen and observation that was
\* lost both block commands, in every state the types allow.
HemsSound == HemsTypeOK /\ NoControlAfterHeartbeat /\ LossBlocksControl

\* Control is not withheld for ever: once a path stays healthy and HEMS stays
\* silent, commands come to be allowed for good.
QuietReleasesControl ==
  <>[]((mqtt \/ polls) /\ ~hems) => <>[]CommandAllowed
=============================================================================
