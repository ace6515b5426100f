--------------------------- MODULE HousePassthrough ---------------------------
(***************************************************************************)
(* Passing PV on to the house instead of charging with it, for devices      *)
(* whose PV input is clipped while nothing is put out (coordinator.py,      *)
(* _update_pv_houseload_passthrough, with the start gate of the forecast    *)
(* in automatic_strategy.py).  Powers are in units of 20 W.                 *)
(***************************************************************************)
EXTENDS Integers, FiniteSetsExt

CONSTANTS
  PvPowers, Demands, Limits,   \* PV, house load, discharge limit in a cycle
  MinPv, MinLoad,            \* ..._MIN_PV_W, ..._MIN_HOUSE_LOAD_W
  Useful,                    \* 60 W: less is not worth a passthrough
  MinOutput, StepUp, StepDown,   \* of the output of a passthrough
  HoldTime,                  \* ..._HOLD_SECONDS
  ExportCycles,              \* ..._EXPORT_STOP_CYCLES
  SocLow, SocFull,           \* soc_min and soc_max
  Never                      \* no pv_houseload_passthrough_started_ts

ASSUME PassthroughAssumption ==
  /\ {MinPv, MinLoad, Useful, MinOutput, StepUp, StepDown} \subseteq Nat
  /\ {HoldTime, ExportCycles} \subseteq Nat \ {0}
  /\ PvPowers \cup Demands \cup Limits \subseteq Nat
  /\ {SocLow, SocFull} \subseteq Nat /\ SocLow < SocFull - 2 /\ Never \notin Nat

VARIABLES
  active,    \* pv_houseload_passthrough_active
  begun,     \* age of ..._started_ts, or Never
  forced,    \* ..._forced
  exports,   \* ..._export_counter
  power,     \* sf800_passthrough_prev_output_w, the target when active
  level,    \* soc
  clipped,   \* mppt_clips_without_output
  pale,      \* cycles in a row: active, not forced, too little PV
  giving     \* cycles in a row: active, not forced, export to charge with

passVars == <<active, begun, forced, exports, power, level, clipped,
              pale, giving>>

PassIdle ==
  /\ active = FALSE /\ begun = Never /\ forced = FALSE
  /\ exports = 0 /\ power = 0 /\ pale = 0 /\ giving = 0

PassInit == PassIdle /\ level = SocFull - 2 /\ clipped \in BOOLEAN

(* What one cycle may find; `surplus` stands for a forecast that exceeds    *)
(* the headroom of the battery.                                             *)
Situations ==
  [pv : PvPowers, day : BOOLEAN, load : Demands, limit : Limits,
   export : BOOLEAN, little : BOOLEAN, latch : BOOLEAN, surplus : BOOLEAN]

Possible(c) == c.export => c.little   \* a meter shows one of the two

Raw(c) == Min({c.pv, c.load, c.limit})

Forces(c) ==
  /\ clipped /\ c.day /\ c.limit >= Useful /\ c.load >= Useful
  /\ level >= SocFull - 1 \/ (forced /\ level >= SocFull - 2)

(* The forecast gates the start and is no reason to stop.                   *)
ForecastBlocks(c) ==
  clipped /\ ~active /\ level < SocFull - 2 /\ ~c.surplus

Counted(c) == IF c.export THEN exports + 1 ELSE 0

Enough(c) == c.pv >= MinPv /\ c.load >= MinLoad

InHold(age) == age < HoldTime

Goes(c, age) ==
  \/ InHold(age)
  \/ Enough(c) /\ Counted(c) < ExportCycles /\ Raw(c) >= Useful

MayStart(c) ==
  /\ ~c.latch /\ Enough(c) /\ Raw(c) >= Useful /\ ~c.export
  /\ c.surplus \/ c.little

(* _sf800_compute_passthrough_output: smoothing and step limits admit any   *)
(* output within a step of the previous one; the minimum output comes after *)
(* the limit and may exceed it.                                             *)
Limited(goal, limit) ==
  LET outputs == {Min({limit, o}) : o \in Max({0, power - StepDown})..(power + StepUp)}
  IN  IF goal > 0 THEN {Max({o, MinOutput}) : o \in outputs} ELSE outputs

-----------------------------------------------------------------------------
Off ==
  /\ active' = FALSE /\ begun' = Never /\ exports' = 0 /\ power' = 0
  /\ pale' = 0 /\ giving' = 0

On(c, age, goal, counted) ==
  /\ active' = TRUE
  /\ begun' = IF active THEN age ELSE 0
  /\ exports' = counted
  /\ power' \in Limited(goal, c.limit)
  /\ pale' = IF ~forced' /\ c.pv < MinPv THEN pale + 1 ELSE 0
  /\ giving' = IF ~forced' /\ c.export /\ active THEN giving + 1 ELSE 0

ForcedCycle(c, age) ==
  /\ Forces(c) /\ forced' = TRUE
  /\ On(c, age, Min({c.load, c.limit, Max({c.pv + 1, MinOutput})}), 0)

RunningCycle(c, age) ==
  /\ ~Forces(c) /\ active /\ forced' = FALSE
  /\ IF Goes(c, age) THEN On(c, age, Raw(c), Counted(c)) ELSE Off

StartingCycle(c) ==
  /\ ~Forces(c) /\ ~active /\ forced' = FALSE
  /\ IF ~ForecastBlocks(c) /\ MayStart(c)
     THEN On(c, 0, Raw(c), 0) ELSE Off

(* A protection or another battery that charges ends a passthrough at once, *)
(* and so does an empty battery.                                            *)
StoppedCycle == Off /\ forced' = FALSE

(* One cycle of an enabled device: time passes, by a gap too, and the       *)
(* state of charge moves.                                                   *)
PassCycle ==
  /\ \/ StoppedCycle
     \/ \E c \in Situations, gap \in {1, HoldTime} :
          LET age == IF begun = Never THEN 0 ELSE Min({begun + gap, HoldTime})
          IN  /\ Possible(c) /\ level > SocLow
              /\ \/ ForcedCycle(c, age)
                 \/ RunningCycle(c, age)
                 \/ StartingCycle(c)
  /\ level' \in {level - 1, level, level + 1} \cap (SocLow..SocFull)
  /\ UNCHANGED clipped

(* The manual mode resets all but the output the next one is limited from.  *)
Manual ==
  /\ active' = FALSE /\ forced' = FALSE /\ begun' = Never /\ exports' = 0
  /\ pale' = 0 /\ giving' = 0
  /\ UNCHANGED <<level, clipped, power>>

PassNext == PassCycle \/ Manual

-----------------------------------------------------------------------------
PassTypeOK ==
  /\ active \in BOOLEAN /\ forced \in BOOLEAN /\ clipped \in BOOLEAN
  /\ begun \in (0..HoldTime) \cup {Never} /\ exports \in Nat
  /\ power \in Nat
  /\ power \in {0, MinOutput} \/ \E limit \in Limits : power <= limit
  /\ level \in SocLow..SocFull

(* Without PV the house is supplied for less than the hold, unless the       *)
(* battery is full and the sun is up, however often the passthrough is       *)
(* forced, interrupted and started again; a lasting export ends it as soon   *)
(* as the hold and the export cycles are over; and one that ended leaves     *)
(* neither hold nor count behind for the next.                               *)
PassthroughSound ==
  /\ PassTypeOK
  /\ pale < HoldTime
  /\ giving < Max({ExportCycles, HoldTime})
  /\ forced => active /\ level >= SocFull - 3
  /\ active <=> begun # Never
  /\ ~active => exports = 0
=============================================================================
