----------------------------- MODULE ChargeSplit -----------------------------
(***************************************************************************)
(* What of a bound charge comes from PV and what from the grid: the limits *)
(* of device_profiles.py, the split of charge_source_allocator.py, the AC  *)
(* input the coordinator commands from it, and how classify_charge_pricing *)
(* (charge_economics.py) prices the flows that follow, while load and PV   *)
(* change between the cycles.  Powers are integers of about 100 W, so that *)
(* the tolerance of 60 W is below one unit.                                *)
(***************************************************************************)
EXTENDS Integers, FiniteSetsExt

CONSTANTS Loads, AcPowers,    \* house load and power of PV on the AC side
          NativePowers,       \* power of PV on the battery side
          Targets,            \* total charge targets of the binding
          InputMax,           \* MAX_INPUT_W and the configured charge power
          BatteryMax,         \* MAX_BATTERY_CHARGE_W, or NoLimit
          NoLimit

ASSUME SplitAssumption ==
  /\ Loads \cup AcPowers \cup NativePowers \cup Targets \subseteq Nat
  /\ InputMax \in Nat /\ BatteryMax \in Nat \cup {NoLimit}

VARIABLES house, acPv, nativePv, target,
          blend,    \* charge_commit_allow_pv_blend
          input,    \* AC input commanded in the last cycle
          split,    \* the allocation of the last cycle
          pricing   \* how the flows before that cycle were priced

splitVars == <<house, acPv, nativePv, target, blend, input, split, pricing>>

Least(a, b) == Min({a, b})
Rest(a, b) == Max({0, a - b})

\* resolve_charge_limits: the limit of the battery and of the AC input
TotalLimit == IF BatteryMax = NoLimit THEN InputMax ELSE BatteryMax
InputLimit(native) ==
  IF BatteryMax = NoLimit THEN InputMax ELSE Least(InputMax, Rest(BatteryMax, native))

\* defect: PV after the house load is added to the grid share, not taken off it
AllocateOnTop(wanted, native, pv, load, mixed) ==
  LET total     == Least(wanted, TotalLimit)
      own       == Least(total, native)
      limit     == Least(InputLimit(native), Rest(TotalLimit, own))
      surplus   == IF mixed THEN Rest(pv, load) ELSE 0
      fromPv    == Least(Rest(total, own), surplus)
      requested == IF mixed THEN Least(Rest(total, own), limit) ELSE Least(total, limit)
  IN [native |-> own, pv |-> fromPv, grid |-> requested, limit |-> limit,
      input |-> IF mixed THEN Least(limit, Max({fromPv + requested, surplus}))
                ELSE requested]

\* allocate: native PV first, then AC PV after the house load, then the grid
Allocate(wanted, native, pv, load, mixed) ==
  LET total     == Least(wanted, TotalLimit)
      own       == Least(total, native)
      limit     == Least(InputLimit(native), Rest(TotalLimit, own))
      surplus   == IF mixed THEN Rest(pv, load) ELSE 0
      fromPv    == Least(Rest(total, own), surplus)
      requested == IF mixed THEN Least(Rest(Rest(total, own), fromPv), limit)
                   ELSE Least(total, limit)
  IN [native |-> own, pv |-> fromPv, grid |-> requested, limit |-> limit,
      input |-> IF mixed THEN Least(limit, Max({fromPv + requested, surplus}))
                ELSE requested]

\* the plant: what the house, the AC input and PV leave to the grid meter
Import == Rest(house + input, acPv)
Export == Rest(acPv, house + input)
BatteryCharge == input + Least(nativePv, Rest(TotalLimit, input))

\* classify_charge_pricing of a measured charge: its grid and its PV part
Classify(charge, import, export, native) ==
  LET grid == Least(import, Rest(charge, native))
  IN IF charge = 0 THEN [grid |-> 0, pv |-> 0]
     ELSE IF export > 0 \/ import = 0 THEN [grid |-> 0, pv |-> charge]
     ELSE [grid |-> grid, pv |-> charge - grid]

NoSplit == [native |-> 0, pv |-> 0, grid |-> 0, limit |-> 0, input |-> 0]

SplitInit ==
  /\ house \in Loads /\ acPv \in AcPowers /\ nativePv \in NativePowers
  /\ target \in Targets /\ blend \in BOOLEAN
  /\ input = 0 /\ split = NoSplit /\ pricing = [grid |-> 0, pv |-> 0]

\* One cycle: price what flowed, split the target, command the AC input
SplitCycle ==
  /\ pricing' = Classify(BatteryCharge, Import, Export, nativePv)
  /\ split' = Allocate(target, nativePv, acPv, house, blend)
  /\ input' = split'.input
  /\ UNCHANGED <<house, acPv, nativePv, target, blend>>

\* Between two cycles
PlantChanges ==
  /\ house' \in Loads /\ acPv' \in AcPowers /\ nativePv' \in NativePowers
  /\ target' \in Targets
  /\ UNCHANGED <<blend, input, split, pricing>>

SplitNext == SplitCycle \/ PlantChanges

SplitSpec == SplitInit /\ [][SplitNext]_splitVars

(***************************************************************************)
(* Properties                                                              *)
(***************************************************************************)
\* Whatever load, PV and target: the command stays within the limit of the AC
\* input and leaves the battery room for its own PV, no surplus is exported that
\* the input could take, and if the plant stays as it is, the next cycle prices
\* no more as grid energy than was requested, and no less unless the limit of the
\* AC input cut the command short.
SplitSound ==
  [][SplitCycle =>
       /\ input' <= InputLimit(nativePv) /\ input' + split'.native <= TotalLimit
       /\ blend =>
            LET priced == Classify(BatteryCharge', Import', Export', nativePv)
            IN /\ Export' > 0 => input' = split'.limit
               /\ priced.grid <= split'.grid
               /\ priced.grid < split'.grid => input' = split'.limit]_splitVars
=============================================================================
