--------------------------- MODULE RegulationCycle ---------------------------
(***************************************************************************)
(* The technical half of a regulation cycle: the grid history, the         *)
(* ModeArbiter, the power controller, the command builder, the persisted   *)
(* run-time state and the execution of the command.  The strategic half    *)
(* (StrategyCycle) is the intent a cycle starts from.                      *)
(*                                                                         *)
(* Powers are counted in small units: every exact number is abstracted to  *)
(* "any value the step limits and caps admit".  Times are counted in       *)
(* ticks; a cycle may run without one (a grid event refresh) or after one  *)
(* (the polling interval).                                                 *)
(***************************************************************************)
EXTENDS Integers, FiniteSets

CONSTANTS
  PvHold, DischargeHold, PassthroughHold,  \* minimum holds of the latched states, in ticks
  Overshoot,      \* POST_OUTPUT_OVERSHOOT_HOLD_S
  InputBlock,     \* INPUT_AFTER_OUTPUT_BLOCK_S
  OutputBlock,    \* OUTPUT_AFTER_INPUT_BLOCK_S
  ExportCycles,   \* STABLE_EXPORT_CYCLES_FOR_PV_CHARGE
  ImportCycles,   \* STABLE_IMPORT_CYCLES_FOR_DISCHARGE
  ExitImport,     \* PV_CHARGE_EXIT_IMPORT_CYCLES
  ExitExport,     \* DISCHARGE_EXIT_EXPORT_CYCLES
  MaxPower, Step, \* power limit and step limit of the controller
  KeepAlive,      \* KEEPALIVE_MIN_OUTPUT_W
  FastSwitch,     \* SUPPORTS_FAST_MODE_SWITCH
  StableInput,    \* REQUIRES_STABLE_EXPORT_FOR_INPUT
  HasPassthrough  \* SUPPORTS_PASSTHROUGH

ASSUME RegulationAssumption ==
  /\ {PvHold, DischargeHold, PassthroughHold, Overshoot, InputBlock, OutputBlock,
      ExportCycles, ImportCycles, ExitImport, ExitExport} \subseteq Nat \ {0}
  /\ {MaxPower, Step, KeepAlive} \subseteq Nat \ {0} /\ KeepAlive <= MaxPower
  /\ {FastSwitch, StableInput, HasPassthrough} \subseteq BOOLEAN

VARIABLES
  pc,         \* "idle": between two cycles, "due": a cycle is about to run
  grid,       \* class of the newest valid grid sample
  imports,    \* stable_import_cycles
  exports,    \* stable_export_cycles
  active,     \* regulation_active_state
  latch,      \* the one latch start that is set, as [of, age]
  overshoot,  \* ticks left of regulation_post_output_overshoot_hold_until
  since,      \* ticks since regulation_last_mode_change_ts
  resolved,   \* regulation_last_resolved_mode
  mode,       \* last_set_mode
  inW, outW,  \* last_set_input_w, last_set_output_w
  stopped,    \* manual_standby_stop_applied
  cycle       \* what the cycle that just ended was asked and what it sent

history == <<grid, imports, exports>>
runtime == <<active, latch, overshoot, since, resolved>>
setpoint == <<mode, inW, outW>>
vars == <<pc, grid, imports, exports, active, latch, overshoot, since, resolved,
          mode, inW, outW, stopped, cycle>>

SmallestOf(a, b) == IF a <= b THEN a ELSE b
LargestOf(a, b) == IF a >= b THEN a ELSE b

Powers == 0 .. MaxPower
Modes == {"input", "output"}
NoLatch == [of |-> "none", age |-> 0]
HoldOf == [pv_charge_active |-> PvHold, discharge_active |-> DischargeHold,
           passthrough_active |-> PassthroughHold]
Latched == DOMAIN HoldOf
Block == LargestOf(InputBlock, OutputBlock)

\* Stable import, about zero, some export, export beyond threshold and guard.
Samples == {"import", "near", "dip", "export"}
Height == [import |-> 3, near |-> 2, dip |-> 1, export |-> 0]
Exporting(sample) == sample \in {"dip", "export"}

-----------------------------------------------------------------------------
(* The intents of the strategic layer.                                     *)

Intent(of, wants, force) == [of |-> of, wants |-> wants, force |-> force]
Idle == Intent("idle", "idle", FALSE)
Standby == Intent("manual_idle", "idle", TRUE)
PvFast == Intent("pv_fast", "input", FALSE)       \* Automatic: fast hand-over
PvStable == Intent("pv_stable", "input", FALSE)   \* Autarky: load coverage first
Planned == Intent("planned_charge", "input", FALSE)
Emergency == Intent("emergency_charge", "input", TRUE)
Cover == Intent("cover_deficit", "output", FALSE)
Passthrough == Intent("passthrough", "output", FALSE)
ManualDischarge == Intent("manual_discharge", "output", TRUE)

IsPv(intent) == intent \in {PvFast, PvStable}
FixedCharge(intent) == intent \in {Planned, Emergency}

\* The strategic layer has already turned a blocked discharge into idle;
\* only the pass-through of PV power gets here while discharging is blocked.
Intents(blocked) ==
  {Idle, Standby, PvFast, PvStable, Planned, Emergency, Passthrough}
    \cup (IF blocked THEN {} ELSE {Cover, ManualDischarge})

StateOf(intent) ==
  CASE IsPv(intent) -> "pv_charge_active"
    [] intent = Passthrough -> "passthrough_active"
    [] intent \in {Cover, ManualDischarge} -> "discharge_active"
    [] FixedCharge(intent) -> "input_active"
    [] OTHER -> "none"

-----------------------------------------------------------------------------
(* ModeArbiter.evaluate.  An input x holds the intent, the grid history    *)
(* with the new sample and the permissions; a verdict says the resolved    *)
(* mode, whether it was allowed and the next regulation state.             *)

Verdict(r, ok, state) == [mode |-> r, allowed |-> ok, state |-> state]
Neutral(ok) == Verdict("idle", ok, "neutral_hold")
Wait == Verdict("hold", FALSE, active)
RampDown == Verdict("ramp_down_output", TRUE, "discharge_active")

Remaining(state) == IF latch.of = state THEN HoldOf[state] - latch.age ELSE 0

FastReady(x) ==
  /\ x.intent = PvFast
  /\ outW = 0
  /\ Exporting(x.grid)
  /\ StableInput => x.exports >= ExportCycles

\* Also the ramp-down after a fast drop of the load.
PostHold(x) ==
  /\ IsPv(x.intent) /\ ~FastReady(x)
  /\ overshoot > 0 \/ (x.drop /\ active = "discharge_active")

OvershootCleared(x) ==
  overshoot > 0 /\ outW = 0 /\ x.exports >= ExportCycles /\ Exporting(x.grid)

\* defect: the minimum hold ignores a stable import
PvHeldAnyway(x) ==
  /\ active = "pv_charge_active" /\ x.intent.wants # "input"
  /\ Remaining("pv_charge_active") > 0

PvHeld(x) ==
  /\ active = "pv_charge_active" /\ x.intent.wants # "input"
  /\ x.latched # FALSE
  /\ x.imports < ExitImport /\ Remaining("pv_charge_active") > 0

DischargeHeld(x) ==
  /\ active = "discharge_active" /\ x.intent.wants # "output"
  /\ Remaining("discharge_active") > 0 /\ ~FastReady(x)

PassthroughHeld(x) ==
  /\ active = "passthrough_active" /\ x.intent.wants # "output"
  /\ Remaining("passthrough_active") > 0

CoolingDown(wants) ==
  /\ ~FastSwitch
  /\ mode \in Modes /\ mode # wants
  /\ since < (IF wants = "input" THEN InputBlock ELSE OutputBlock)

\* A running PV charge goes on until the import is stable.
ContinuePv(x) == IF x.imports < ExitImport THEN Verdict("input", TRUE, active) ELSE Neutral(FALSE)

\* A new one needs a present export, and a stable one in Autarky.
StartPv(x) ==
  IF \/ ~Exporting(x.grid)
     \/ x.intent = PvStable /\ x.exports < ExportCycles
    THEN Wait
  ELSE Verdict("input", TRUE, "pv_charge_active")

EvaluatePv(x) ==
  IF outW > 0 THEN RampDown
  ELSE IF active = "pv_charge_active" THEN ContinuePv(x) ELSE StartPv(x)

EvaluateOutput(x) ==
  IF x.intent = Cover /\ active # "discharge_active" /\ x.imports < ImportCycles THEN Wait
  ELSE IF x.intent = Passthrough /\ ~HasPassthrough THEN Neutral(FALSE)
  ELSE Verdict("output", TRUE, StateOf(x.intent))

\* defect: only a requested output is protected, not a running one
ProtectedRequest(x) == x.blocked /\ x.intent.wants = "output"

Protected(x) ==
  /\ x.blocked
  /\ x.intent.wants = "output" \/ active \in {"discharge_active", "passthrough_active"}

OtherDischarges(x) ==
  x.other /\ (x.intent.wants = "input" \/ active = "pv_charge_active")

Arbitrate(x) ==
  IF Protected(x) THEN Neutral(FALSE)
  ELSE IF x.intent.force THEN Verdict(x.intent.wants, TRUE, StateOf(x.intent))
  ELSE IF OtherDischarges(x) THEN Neutral(FALSE)
  ELSE IF PostHold(x)
    THEN IF OvershootCleared(x) THEN Verdict("input", TRUE, "pv_charge_active") ELSE RampDown
  ELSE IF PvHeld(x) THEN Verdict("input", TRUE, active)
  ELSE IF DischargeHeld(x) THEN RampDown
  ELSE IF PassthroughHeld(x) THEN Verdict("output", TRUE, active)
  ELSE IF x.intent.wants = "idle" THEN Neutral(TRUE)
  ELSE IF CoolingDown(x.intent.wants) THEN Wait
  ELSE IF IsPv(x.intent) THEN EvaluatePv(x)
  ELSE IF x.intent.wants = "input" THEN Verdict("input", TRUE, StateOf(x.intent))
  ELSE EvaluateOutput(x)

-----------------------------------------------------------------------------
(* RegulationPowerController.calculate: the powers a verdict can lead to.  *)

Stepped(from, to) ==
  IF to > from THEN SmallestOf(to, from + Step) ELSE LargestOf(to, from - Step)

\* What the law asks for: the weighted grid value, the adaptive response and
\* its fine steps near the target may come to any power.
Asked == Powers

\* Economic discharge is kept alive until the export is stable.
KeptAlive(x) == x.intent \in {Cover, ManualDischarge} /\ x.exports < ExitExport
OutputTargets(x) ==
  IF KeptAlive(x) THEN {LargestOf(KeepAlive, target) : target \in Asked} ELSE Asked

\* PV charging never rises against a present import, and a reduction to
\* avoid import is not slowed down by the step limit.
PvPowers(x) ==
  IF x.grid = "import" THEN 0 .. LargestOf(0, inW - 1)
  ELSE {Stepped(inW, target) : target \in Asked}

\* requested_power_w of an intent
Requested(intent) == IF intent.wants = "idle" THEN {0} ELSE Powers

FinalPowers(x, v) ==
  CASE ~v.allowed \/ v.mode \in {"idle", "hold"} -> {0}
    [] v.mode = "ramp_down_output" -> {Stepped(outW, 0)}
    [] v.mode = "output" -> {Stepped(outW, target) : target \in OutputTargets(x)}
    [] v.mode = "input" /\ FixedCharge(x.intent) -> {MaxPower}
    [] v.mode = "input" /\ IsPv(x.intent) -> PvPowers(x)
    \* a held PV charge takes what another intent asks for
    [] OTHER -> {Stepped(inW, power) : power \in Requested(x.intent)}

-----------------------------------------------------------------------------
(* DeviceCommandBuilder.build and what is stored of the result.  A native  *)
(* device has no AC mode entity: the builder sees no current mode, writes  *)
(* mode and active side every time, and a hold is OUTPUT 0 W.  Writing one *)
(* side clears the other one.                                              *)

Command(side, power) == [side |-> side, power |-> power]
InputCommand(power) == Command("input", power)
OutputCommand(power) == Command("output", power)
HoldCommand == Command("output", 0)   \* keeps the current mode, where one is known
IdleCommand == Command("output", 0)

Build(v, power) ==
  CASE v.mode = "input" -> InputCommand(power)
    [] v.mode \in {"output", "ramp_down_output"} -> OutputCommand(power)
    [] v.mode = "hold" -> HoldCommand
    [] OTHER -> IdleCommand

\* The runtime drops a setpoint the device already shows: "applied" stands for
\* the side that was written or all of it found unchanged, "partial" for a
\* command of which only the mode was written. A stop is never cut down so.
Outcomes(intent, side, power) ==
  IF intent = Standby THEN {"returned", "raised"}
  ELSE {"applied", "refused"} \cup
         (IF side = "input" \/ power > 0 THEN {"partial"} ELSE {})

\* confirmed_command_state_updates after _execute_device_command
Execute(side, power, outcome) ==
  CASE outcome = "applied" -> /\ mode' = side
                              /\ inW' = IF side = "input" THEN power ELSE 0
                              /\ outW' = IF side = "output" THEN power ELSE 0
    [] outcome = "partial" -> mode' = side /\ UNCHANGED <<inW, outW>>
    [] OTHER -> UNCHANGED setpoint

\* Manual standby stops the active side once and is passive afterwards; the
\* result is not looked at: a refused stop counts as done.
ExecuteStandby(outcome) ==
  IF stopped \/ outcome = "raised" THEN UNCHANGED <<mode, inW, outW, stopped>>
  ELSE mode' = "output" /\ inW' = 0 /\ outW' = 0 /\ stopped' = TRUE

-----------------------------------------------------------------------------
(* _update_regulation_runtime_state, before the command is executed.       *)

ModeChanged(v, side) ==
  \/ mode \in Modes /\ side # mode
  \/ v.mode \in Modes /\ resolved \in Modes /\ v.mode # resolved

\* defect: every cycle restarts the latch
LatchRestarted(state) ==
  IF state \in Latched THEN [of |-> state, age |-> 0] ELSE NoLatch

\* A latch start is kept while its state lasts and cleared by every other one.
NextLatch(state) == IF latch.of = state THEN latch ELSE LatchRestarted(state)

\* Not extended once the output is zero, or PV charging were blocked for good.
NextOvershoot(x, state) ==
  IF x.grid = "export" /\ outW > 0 /\ "discharge_active" \in {active, state}
    THEN Overshoot ELSE overshoot

UpdateRuntime(x, v, side) ==
  /\ active' = v.state
  /\ resolved' = v.mode
  /\ since' = IF ModeChanged(v, side) THEN 0 ELSE since
  /\ latch' = NextLatch(v.state)
  /\ overshoot' = NextOvershoot(x, v.state)

\* GridHistory.update; an invalid sample leaves everything as it was.
Counted(count, hit, bound) == IF hit THEN SmallestOf(count + 1, bound) ELSE 0
Cap == LargestOf(LargestOf(ExportCycles, ImportCycles), LargestOf(ExitImport, ExitExport))

Observed(sample) ==
  IF sample = "gap" THEN [grid |-> grid, imports |-> imports, exports |-> exports]
  ELSE [grid |-> sample,
        imports |-> Counted(imports, sample = "import", Cap),
        exports |-> Counted(exports, sample = "export", Cap)]

\* A fast drop is a fresh sample far below the previous one.
Drops(sample) ==
  IF sample # "gap" /\ grid # "none" /\ Height[sample] < Height[grid]
    THEN BOOLEAN ELSE {FALSE}

NoCycle == [intent |-> Idle, blocked |-> FALSE, other |-> FALSE, sound |-> FALSE,
            side |-> "none", power |-> 0]

-----------------------------------------------------------------------------
(* Time passes between two cycles: a whole interval or, when a grid event  *)
(* asks for an early refresh, none.                                        *)
Tick ==
  /\ pc = "idle"
  /\ pc' = "due"
  /\ cycle' = NoCycle
  /\ latch' = IF latch.of = "none" THEN latch
              ELSE [latch EXCEPT !.age = SmallestOf(@ + 1, HoldOf[latch.of])]
  /\ overshoot' = LargestOf(overshoot - 1, 0)
  /\ since' = SmallestOf(since + 1, Block)
  /\ UNCHANGED <<history, active, resolved, setpoint, stopped>>

GridEvent ==
  /\ pc = "idle"
  /\ pc' = "due"
  /\ cycle' = NoCycle
  /\ UNCHANGED <<history, runtime, setpoint, stopped>>

Regulate(x, fresh) ==
  \E v \in {Arbitrate(x)} : \E power \in FinalPowers(x, v) :
   \E command \in {Build(v, power)} :
    \E outcome \in Outcomes(x.intent, command.side, command.power) :
     /\ grid' = x.grid /\ imports' = x.imports /\ exports' = x.exports
     /\ UpdateRuntime(x, v, command.side)
     /\ IF x.intent = Standby
          THEN ExecuteStandby(outcome)
          ELSE stopped' = FALSE /\ Execute(command.side, command.power, outcome)
     /\ cycle' = [intent |-> x.intent, blocked |-> x.blocked, other |-> x.other,
                  sound |-> fresh /\ outcome = "applied",
                  side |-> command.side, power |-> command.power]

\* One cycle of _async_update_data that reaches the regulation.
RegulationStep ==
  /\ pc = "due"
  /\ pc' = "idle"
  /\ \E sample \in Samples \cup {"gap"}, blocked, other, latched \in BOOLEAN :
       \E seen \in {Observed(sample)}, drop \in Drops(sample), intent \in Intents(blocked) :
         Regulate([intent |-> intent, grid |-> seen.grid, imports |-> seen.imports,
                   exports |-> seen.exports, drop |-> drop, blocked |-> blocked,
                   other |-> other, latched |-> latched],
                  sample # "gap")

\* A cycle that ends early and leaves the regulation alone: the grace periods
\* of the grid meter and the state of charge, or a failed update.
SkippedCycle ==
  /\ pc = "due"
  /\ pc' = "idle"
  /\ UNCHANGED <<history, runtime, setpoint, stopped, cycle>>

\* _enter_safe_idle: the active side is stopped. The zero powers are stored
\* whatever the result, the mode only when the stop was applied; a stop that
\* raises stores nothing, as a skipped cycle does.
SafeIdle ==
  /\ pc = "due"
  /\ pc' = "idle"
  /\ inW' = 0 /\ outW' = 0
  /\ mode' \in {mode, IF mode = "input" \/ inW > 0 THEN "input"
                     ELSE IF mode = "output" \/ outW > 0 THEN "output" ELSE "none"}
  /\ active' = "none"
  /\ resolved' = "idle"
  /\ UNCHANGED <<history, latch, overshoot, since, stopped, cycle>>

\* consume_control_baseline: control of the device is taken over, its
\* setpoints become the baseline of the regulation.
AdoptBaseline ==
  /\ pc = "idle"
  /\ \E side \in Modes, power \in Powers :
       /\ mode' = side
       /\ inW' = IF side = "input" THEN power ELSE 0
       /\ outW' = IF side = "output" THEN power ELSE 0
  /\ cycle' = NoCycle
  /\ UNCHANGED <<pc, history, runtime, stopped>>

\* The run-time state is persisted, the grid history is not.
Restart ==
  /\ pc = "idle"
  /\ grid' = "none" /\ imports' = 0 /\ exports' = 0
  /\ cycle' = NoCycle
  /\ UNCHANGED <<pc, runtime, setpoint, stopped>>

Init ==
  /\ pc = "idle"
  /\ grid = "none" /\ imports = 0 /\ exports = 0
  /\ active = "none" /\ latch = NoLatch /\ overshoot = 0 /\ since = Block
  /\ resolved = "idle"
  /\ mode = "none" /\ inW = 0 /\ outW = 0
  /\ stopped = FALSE
  /\ cycle = NoCycle

Next ==
  \/ Tick \/ GridEvent
  \/ RegulationStep \/ SkippedCycle \/ SafeIdle
  \/ AdoptBaseline \/ Restart

\* The coordinator's timer fires again and again however many grid events
\* refresh in between, and a due cycle runs.
Fairness ==
  /\ SF_vars(Tick)
  /\ WF_pc(pc = "due" /\ pc' = "idle")

Spec == Init /\ [][Next]_vars /\ Fairness

-----------------------------------------------------------------------------
(* Properties.                                                             *)

\* The regulation state is one of the states the persisted fields can hold.
RegTypeOK ==
  /\ pc \in {"idle", "due"}
  /\ grid \in Samples \cup {"none"}
  /\ imports \in 0 .. Cap /\ exports \in 0 .. Cap /\ (imports = 0 \/ exports = 0)
  /\ active \in Latched \cup {"none", "neutral_hold", "input_active"}
  /\ latch \in {NoLatch} \cup UNION {[of : {s}, age : 0 .. HoldOf[s]] : s \in Latched}
  /\ active \in Latched => latch.of = active
  /\ overshoot \in 0 .. Overshoot /\ since \in 0 .. Block
  /\ resolved \in Modes \cup {"idle", "hold", "ramp_down_output"}
  /\ mode \in Modes \cup {"none"} /\ inW \in Powers /\ outW \in Powers
  /\ inW = 0 \/ outW = 0

\* Hard discharge protection: in a cycle in which discharging is blocked no
\* hold, latch, pass-through or forced intent commands output. The one output
\* it can command ramps down a setpoint the regulation did not know it had:
\* one adopted with the device, or left by a write that failed.
NoOutputWhileBlocked ==
  [][cycle'.blocked /\ cycle'.side = "output" /\ cycle'.power > 0
       => cycle'.power < outW /\ active \notin {"discharge_active", "passthrough_active"}]_cycle

\* While another battery discharges, only a forced charge draws power.
NoChargeFromOther ==
  cycle.other /\ cycle.side = "input" /\ ~cycle.intent.force => cycle.power = 0

\* A PV charge is not kept by its latch or its minimum hold once the import
\* has been stable for PV_CHARGE_EXIT_IMPORT_CYCLES.
PvEndsOnStableImport ==
  active = "pv_charge_active" /\ imports >= ExitImport /\ cycle.side = "input"
    => cycle.power = 0

\* What the verdict of the arbiter leaves of a charge, in every state the
\* types allow.
ChargeSafe == RegTypeOK /\ NoChargeFromOther /\ PvEndsOnStableImport

\* Issue #207: export seen while OUTPUT is still commanded does not start a
\* PV charge; it starts from zero output on a present export.
PvStartsFromZeroOutput ==
  [][active' = "pv_charge_active" /\ active # "pv_charge_active"
       => outW = 0 /\ Exporting(grid')]_vars

\* Persistent export ends in charging, whatever holds, latches, cooldowns and
\* ramps were under way.
Surplus == cycle.sound /\ grid = "export" /\ IsPv(cycle.intent) /\ ~cycle.other
PersistentExportCharges ==
  <>[](pc = "idle" => Surplus)
    => <>[](pc = "idle" => cycle.side = "input")

\* An idle intent that stays ends every minimum hold: power goes to zero.
IdleEndsHolds ==
  <>[](pc = "idle" => cycle.side # "none" /\ cycle.intent = Idle)
    => <>[](pc = "idle" => cycle.power = 0)

\* What is held ends: the output for a surplus, everything for an idle intent.
HoldsEnd == PersistentExportCharges /\ IdleEndsHolds

\* Neither side starts from what the other one left: no output while it is
\* blocked, no PV charge while there is output.
SidesStartSafely == NoOutputWhileBlocked /\ PvStartsFromZeroOutput
=============================================================================
