---------------------------- MODULE PvChargeLatch ----------------------------
(***************************************************************************)
(* The latch that says whether there is PV surplus to charge with           *)
(* (decision_engine.py, advance_pv_charge_hysteresis; coordinator.py,       *)
(* _update_pv_charge_hysteresis).  It is fed with the grid meter, yet what  *)
(* is exported may come from a battery: the installation around the latch   *)
(* is part of the model, with a meter that lags by up to one cycle.         *)
(* Powers are in units of 25 W.                                             *)
(***************************************************************************)
EXTENDS Integers, FiniteSetsExt

CONSTANTS
  Suns,       \* PV powers
  Homes,      \* house loads
  Outputs,    \* powers the battery may be told to put out, 0 among them
  Inputs,     \* powers it may charge with, 0 among them
  Extras,     \* discharge of another battery behind the same meter
  StartExport, HoldExport, WeakExport,  \* thresholds of the surplus
  PlausiblePv, SmallImport, HardImport,
  SourceActive,   \* from here on a discharge counts as a source (> 25 W)
  ExtraActive     \* from here on another battery discharges (> 50 W)

ASSUME LatchAssumption ==
  /\ {WeakExport, HoldExport, StartExport, PlausiblePv, SmallImport, HardImport,
      SourceActive, ExtraActive} \subseteq Nat
  /\ WeakExport < HoldExport /\ HoldExport <= StartExport
  /\ SmallImport < HardImport /\ 0 < SourceActive /\ 0 < ExtraActive
  /\ Suns \cup Homes \cup Outputs \cup Inputs \cup Extras \subseteq Nat
  /\ 0 \in Suns /\ 0 \in Outputs /\ 0 \in Inputs /\ 0 \in Extras

VARIABLES
  starts,    \* pv_charge_start_counter
  stops,     \* pv_charge_stop_counter
  latched,   \* pv_charge_latched
  sun,       \* PV power
  out,       \* what the battery puts out
  others,    \* what another battery discharged in the last cycle
  balance,   \* export (or import, negative) of the last cycle
  ago,       \* cycles since there was surplus to charge with, capped
  asked,     \* prev_discharge_w
  set,       \* last_set_output_w
  clips,     \* mppt_clips_without_output of the device
  conflict,  \* cycles in a row in which a latched charge met a discharge
  dark,      \* cycles in a row with strong import and no PV, no discharge
  falls,     \* cycles in a row in which the battery put out less than before, capped
  grounded   \* what the latch closed on was a surplus, or an output that fell twice

latchVars == <<starts, stops, latched, sun, out, others, balance, ago, asked,
               set, clips, conflict, dark, falls, grounded>>

LatchIdle ==
  /\ starts = 0 /\ stops = 0 /\ latched = FALSE
  /\ out = 0 /\ others = 0 /\ balance = 0 /\ ago = 3 /\ asked = 0 /\ set = 0
  /\ conflict = 0 /\ dark = 0 /\ falls = 0 /\ grounded = TRUE

LatchInit == LatchIdle /\ sun \in Suns /\ clips \in BOOLEAN

Positive(x) == Max({x, 0})

(* The export no battery explains.                                          *)
Attributable(export, discharge, extra) ==
  Positive(export - Max({discharge, asked, set}) - extra)

-----------------------------------------------------------------------------
(* advance_pv_charge_hysteresis.                                            *)
Plausible(pv, own) == pv >= PlausiblePv \/ (clips /\ own >= HoldExport)

Conflicts(discharge, own, extra) ==
  \/ set >= SourceActive
  \/ Max({discharge, asked, set, extra}) >= SourceActive /\ own <= WeakExport

Weak(pv, own, import) ==
  import >= HardImport /\ (~Plausible(pv, own) \/ own <= WeakExport)

Rests(pv, own, import) ==
  (Plausible(pv, own) /\ own >= HoldExport) \/ import <= SmallImport

(* defect: a conflict counts once, like any other reason to stop.           *)
NextStopsOnce(pv, own, import, conflicting) ==
  IF conflicting THEN stops + 1
  ELSE IF ~Plausible(pv, own)
       THEN stops + IF Weak(pv, own, import) THEN 4 ELSE 1
       ELSE IF ~Weak(pv, own, import) /\ Rests(pv, own, import)
            THEN 0 ELSE stops + 1

NextStops(pv, own, import, conflicting) ==
  CASE conflicting -> stops + 2
    [] ~conflicting /\ ~Plausible(pv, own) ->
         stops + IF Weak(pv, own, import) THEN 4 ELSE 1
    [] ~conflicting /\ Plausible(pv, own) ->
         IF ~Weak(pv, own, import) /\ Rests(pv, own, import)
         THEN 0 ELSE stops + 1

Starts(pv, own) ==
  set < SourceActive /\ Plausible(pv, own) /\ own >= StartExport

(* Another battery that discharges opens the latch before it is advanced.   *)
Advance(pv, own, import, conflicting, extra) ==
  LET held  == latched /\ extra < ExtraActive
      n     == NextStops(pv, own, import, conflicting)
      m     == 1 + IF extra < ExtraActive THEN starts ELSE 0
      opens == held /\ n >= 8
      shuts == ~held /\ Starts(pv, own) /\ m >= 2
  IN  /\ latched'  = ((held /\ ~opens) \/ shuts)
      /\ stops'    = IF held /\ ~opens THEN n ELSE 0
      /\ starts'   = IF ~held /\ Starts(pv, own) /\ ~shuts THEN m ELSE 0
      /\ conflict' = IF held /\ ~opens /\ conflicting THEN conflict + 1 ELSE 0
      /\ dark'     = IF held /\ ~opens /\ ~conflicting
                         /\ ~Plausible(pv, own) /\ import >= HardImport
                     THEN dark + 1 ELSE 0
      /\ grounded' = IF shuts THEN ago' < 3 \/ falls' = 2 ELSE grounded

(* What a cycle reads: the meter and the other battery, and its own         *)
(* discharge.                                                               *)
Reading(shown, discharge) ==
  LET own == Attributable(Positive(shown[1]), discharge, shown[2])
  IN  [own |-> own, import |-> Positive(-shown[1]), extra |-> shown[2],
       conflicting |-> Conflicts(discharge, own, shown[2])]

(* One cycle: sun and loads change, the battery follows what it was told or *)
(* does not yet; the meter and the other battery's sensor show this cycle   *)
(* or, both, the last one, and its own sensor either.  A passthrough is not *)
(* kept as prev_discharge_w.                                                *)
LatchCycle ==
  \E pv \in Suns, load \in Homes, extra \in Extras,
     o \in {set, asked, out}, i \in Inputs :
    LET truth == pv + o + extra - load - IF o = 0 THEN i ELSE 0
    IN  /\ sun' = pv /\ out' = o /\ others' = extra
        /\ balance' = truth
        /\ falls' = IF o < out THEN Min({falls + 1, 2}) ELSE 0
        /\ ago' = IF pv - load >= StartExport THEN 0 ELSE Min({ago + 1, 3})
        /\ \E r \in {Reading(m, d) : m \in {<<truth, extra>>, <<balance, others>>},
                                     d \in {o, out}} :
             Advance(pv, r.own, r.import, r.conflicting, r.extra)
        /\ asked' \in Outputs
        /\ set' \in {asked', set} \/ (asked' = 0 /\ set' \in Outputs)
        /\ UNCHANGED clips

LatchNext == LatchCycle

-----------------------------------------------------------------------------
LatchTypeOK ==
  /\ starts \in 0..1 /\ stops \in 0..7 /\ latched \in BOOLEAN
  /\ sun \in Suns /\ balance \in Int /\ others \in Extras /\ ago \in 0..3
  /\ {out, asked, set} \subseteq Outputs /\ clips \in BOOLEAN
  /\ falls \in 0..2 /\ (starts = 0 \/ ~latched)

(* The latch only closes on a PV surplus that existed in one of the cycles  *)
(* it was read from, although batteries and their commands change the       *)
(* export all the time and the meter lags -- unless the battery's own       *)
(* output fell in both cycles, so that the lagging meter twice showed an    *)
(* export its present output no longer explains; a closed latch that meets  *)
(* a discharge opens within four cycles (the comment at                     *)
(* decision_engine.py:146), and within two when there is strong import and  *)
(* no PV.                                                                   *)
LatchSound ==
  /\ LatchTypeOK
  /\ grounded
  /\ conflict < 4 /\ dark < 2

(* When the sun stays away, and a device whose PV input is clipped without  *)
(* output is not told to discharge, the latch opens and stays open: what    *)
(* other batteries and a lagging meter show does not keep it closed.        *)
LatchOpens ==
  <>[](sun = 0 /\ (clips => asked = 0 /\ set = 0)) => <>[]~latched
=============================================================================
