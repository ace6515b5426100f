------------------------ MODULE RegulationCycleProofs ------------------------
(***************************************************************************)
(* The regulation cycle for any holds, blocks, counts of samples, powers   *)
(* and capabilities of the device: what the verdict of the ModeArbiter     *)
(* leaves of charging and discharging.                                     *)
(***************************************************************************)
EXTENDS RegulationCycle, TLAPS

-----------------------------------------------------------------------------
(* Constants and small operators                                           *)

LEMMA Positive ==
  /\ PvHold \in Nat \ {0} /\ DischargeHold \in Nat \ {0} /\ PassthroughHold \in Nat \ {0}
  /\ Overshoot \in Nat \ {0} /\ InputBlock \in Nat \ {0} /\ OutputBlock \in Nat \ {0}
  /\ ExportCycles \in Nat \ {0} /\ ImportCycles \in Nat \ {0}
  /\ ExitImport \in Nat \ {0} /\ ExitExport \in Nat \ {0}
  /\ MaxPower \in Nat \ {0} /\ Step \in Nat \ {0} /\ KeepAlive \in Nat \ {0}
  /\ KeepAlive <= MaxPower
BY RegulationAssumption

LEMMA CapType == Cap \in Nat \ {0} /\ Block \in Nat \ {0}
BY Positive DEF Cap, Block, LargestOf

LEMMA HoldType == ASSUME NEW s \in Latched PROVE HoldOf[s] \in Nat \ {0}
BY Positive DEF Latched, HoldOf

\* One step towards a target stays within the powers; towards zero it falls.
LEMMA SteppedType ==
  ASSUME NEW from \in Powers, NEW to \in Powers
  PROVE  Stepped(from, to) \in Powers
BY Positive DEF Stepped, SmallestOf, LargestOf, Powers

LEMMA SteppedDown ==
  ASSUME NEW from \in Powers, Stepped(from, 0) > 0
  PROVE  Stepped(from, 0) < from
BY Positive DEF Stepped, SmallestOf, LargestOf, Powers

LEMMA CountedType ==
  ASSUME NEW count \in 0 .. Cap, NEW hit \in BOOLEAN
  PROVE  Counted(count, hit, Cap) \in 0 .. Cap /\ (~hit => Counted(count, hit, Cap) = 0)
BY CapType DEF Counted, SmallestOf

-----------------------------------------------------------------------------
(* The grid history                                                        *)

\* Imports and exports are counted only while the newest valid sample is one.
CountsSeen ==
  /\ imports > 0 => grid = "import"
  /\ exports > 0 => grid = "export"

LEMMA ObservedSound ==
  ASSUME RegTypeOK, CountsSeen, NEW sample \in Samples \cup {"gap"}
  PROVE  LET seen == Observed(sample)
         IN  /\ seen.grid \in Samples \cup {"none"}
             /\ seen.imports \in 0 .. Cap /\ seen.exports \in 0 .. Cap
             /\ seen.imports > 0 => seen.grid = "import"
             /\ seen.exports > 0 => seen.grid = "export"
<1>1. imports \in 0 .. Cap /\ exports \in 0 .. Cap /\ grid \in Samples \cup {"none"}
  BY DEF RegTypeOK
<1>2. CASE sample = "gap"
  BY <1>1, <1>2 DEF Observed, CountsSeen
<1>3. CASE sample # "gap"
  <2> DEFINE i == Counted(imports, sample = "import", Cap)
             e == Counted(exports, sample = "export", Cap)
  <2>1. i \in 0 .. Cap /\ (sample # "import" => i = 0)
    BY <1>1, CountedType
  <2>2. e \in 0 .. Cap /\ (sample # "export" => e = 0)
    BY <1>1, CountedType
  <2>3. Observed(sample) = [grid |-> sample, imports |-> i, exports |-> e]
    BY <1>3 DEF Observed
  <2> HIDE DEF i, e
  <2>4. sample \in Samples
    BY <1>3
  <2> QED BY <2>1, <2>2, <2>3, <2>4, CapType
<1> QED BY <1>2, <1>3

-----------------------------------------------------------------------------
(* The verdict of the ModeArbiter                                          *)

\* What the strategic layer can ask for.
Asks(intent) ==
  /\ intent.wants \in {"idle", "input", "output"}
  /\ IsPv(intent) => intent.wants = "input" /\ ~intent.force
                     /\ StateOf(intent) = "pv_charge_active" /\ ~FixedCharge(intent)
  /\ ~IsPv(intent) => StateOf(intent) \in
                        {"none", "passthrough_active", "discharge_active", "input_active"}
  /\ intent.wants = "input" /\ ~IsPv(intent) => FixedCharge(intent)
  /\ intent.force \in BOOLEAN

LEMMA IntentFields ==
  /\ Idle.wants = "idle" /\ Standby.wants = "idle" /\ PvFast.wants = "input"
  /\ PvStable.wants = "input" /\ Planned.wants = "input" /\ Emergency.wants = "input"
  /\ Cover.wants = "output" /\ Passthrough.wants = "output"
  /\ ManualDischarge.wants = "output"
  /\ PvFast.force = FALSE /\ PvStable.force = FALSE /\ Passthrough.force = FALSE
  /\ \A i \in {Idle, Standby, PvFast, PvStable, Planned, Emergency, Cover, Passthrough,
               ManualDischarge} : i.force \in BOOLEAN
BY DEF Intent, Idle, Standby, PvFast, PvStable, Planned, Emergency, Cover, Passthrough,
       ManualDischarge

LEMMA IntentsDiffer ==
  /\ \A i \in {Idle, Standby, Planned, Emergency, Cover, Passthrough, ManualDischarge} :
       i # PvFast /\ i # PvStable
  /\ PvFast # Planned /\ PvFast # Emergency /\ PvStable # Planned /\ PvStable # Emergency
BY DEF Intent, Idle, Standby, PvFast, PvStable, Planned, Emergency, Cover, Passthrough,
       ManualDischarge

LEMMA IntentsAsk ==
  ASSUME NEW blocked \in BOOLEAN, NEW intent \in Intents(blocked)
  PROVE  Asks(intent) /\ (blocked /\ intent.force => intent.wants # "output")
<1>1. intent \in {Idle, Standby, PvFast, PvStable, Planned, Emergency, Cover, Passthrough,
                  ManualDischarge}
  BY DEF Intents
<1>2. intent.wants \in {"idle", "input", "output"} /\ intent.force \in BOOLEAN
  BY <1>1, IntentFields
<1>3. IsPv(intent) => intent.wants = "input" /\ ~intent.force
                      /\ StateOf(intent) = "pv_charge_active" /\ ~FixedCharge(intent)
  BY IntentFields, IntentsDiffer DEF IsPv, StateOf, FixedCharge
<1>4. ~IsPv(intent) => StateOf(intent) \in
                         {"none", "passthrough_active", "discharge_active", "input_active"}
  BY DEF StateOf
<1>5. intent.wants = "input" /\ ~IsPv(intent) => FixedCharge(intent)
  BY <1>1, IntentFields DEF IsPv, FixedCharge
<1>6. blocked => intent \in {Idle, Standby, PvFast, PvStable, Planned, Emergency, Passthrough}
  BY DEF Intents
<1>7. blocked /\ intent.force => intent.wants # "output"
  BY <1>6, IntentFields
<1> QED BY <1>2, <1>3, <1>4, <1>5, <1>7 DEF Asks

\* The input of one evaluation.
InputOK(x) ==
  /\ Asks(x.intent) /\ x.blocked \in BOOLEAN /\ x.other \in BOOLEAN
  /\ x.blocked /\ x.intent.force => x.intent.wants # "output"
  /\ x.grid \in Samples \cup {"none"}
  /\ x.imports \in 0 .. Cap /\ x.exports \in 0 .. Cap
  /\ x.imports > 0 => x.grid = "import"
  /\ x.exports > 0 => x.grid = "export"

States == Latched \cup {"none", "neutral_hold", "input_active"}
Verdicts == {"input", "output", "idle", "hold", "ramp_down_output"}

\* The verdicts by the branch that gives them.
PvStarts(x, v) ==
  /\ outW = 0 /\ Exporting(x.grid)
  /\ v = Verdict("input", TRUE, "pv_charge_active")
PvGoesOn(x, v) ==
  /\ active = "pv_charge_active" /\ x.imports < ExitImport
  /\ v = Verdict("input", TRUE, active)
NoSide(v) ==
  \/ v = Neutral(TRUE) \/ v = Neutral(FALSE) \/ v = Wait

LEMMA EvaluatePvCases ==
  ASSUME NEW x, outW \in Powers
  PROVE  LET v == EvaluatePv(x)
         IN  NoSide(v) \/ v = RampDown \/ PvStarts(x, v) \/ PvGoesOn(x, v)
<1>1. outW > 0 \/ outW = 0
  BY Positive DEF Powers
<1>2. CASE outW > 0
  BY <1>2 DEF EvaluatePv
<1>3. CASE outW = 0
  <2>1. ~(outW > 0)
    BY <1>3
  <2>2. CASE active = "pv_charge_active"
    BY <2>1, <2>2 DEF EvaluatePv, ContinuePv, NoSide, PvGoesOn
  <2>3. CASE active # "pv_charge_active"
    BY <1>3, <2>1, <2>3 DEF EvaluatePv, StartPv, NoSide, PvStarts
  <2> QED BY <2>2, <2>3
<1> QED BY <1>1, <1>2, <1>3

LEMMA EvaluateOutputCases ==
  ASSUME NEW x
  PROVE  LET v == EvaluateOutput(x)
         IN  NoSide(v) \/ v = Verdict("output", TRUE, StateOf(x.intent))
BY DEF EvaluateOutput, NoSide

LEMMA ArbitrateCases ==
  ASSUME NEW x, InputOK(x), outW \in Powers
  PROVE  LET v == Arbitrate(x)
         IN  \/ NoSide(v)
             \/ v = RampDown /\ ~Protected(x)
             \/ /\ x.intent.force /\ ~Protected(x)
                /\ v = Verdict(x.intent.wants, TRUE, StateOf(x.intent))
             \/ ~OtherDischarges(x) /\ IsPv(x.intent) /\ PvStarts(x, v)
             \/ ~OtherDischarges(x) /\ PvGoesOn(x, v)
             \/ /\ ~OtherDischarges(x) /\ x.intent.wants = "input" /\ ~IsPv(x.intent)
                /\ v = Verdict("input", TRUE, StateOf(x.intent))
             \/ /\ active = "passthrough_active" /\ ~Protected(x)
                /\ v = Verdict("output", TRUE, active)
             \/ /\ x.intent.wants = "output" /\ ~Protected(x)
                /\ v = Verdict("output", TRUE, StateOf(x.intent))
<1> DEFINE v == Arbitrate(x)
<1>1. PostHold(x) => IsPv(x.intent)
  BY DEF PostHold
<1>2. OvershootCleared(x) => outW = 0 /\ Exporting(x.grid)
  BY DEF OvershootCleared
<1>3. PvHeld(x) => active = "pv_charge_active" /\ x.imports < ExitImport
  BY DEF PvHeld
<1>4. PassthroughHeld(x) => active = "passthrough_active"
  BY DEF PassthroughHeld
<1>5. CASE Protected(x)
  BY <1>5 DEF Arbitrate, NoSide
<1>6. CASE ~Protected(x) /\ x.intent.force
  BY <1>6 DEF Arbitrate
<1>7. CASE ~Protected(x) /\ ~x.intent.force /\ OtherDischarges(x)
  BY <1>7 DEF Arbitrate, NoSide
<1>8. CASE ~Protected(x) /\ ~x.intent.force /\ ~OtherDischarges(x)
  <2>1. \/ PostHold(x) /\ OvershootCleared(x)
               /\ v = Verdict("input", TRUE, "pv_charge_active")
        \/ v = RampDown
        \/ PvHeld(x) /\ v = Verdict("input", TRUE, active)
        \/ PassthroughHeld(x) /\ v = Verdict("output", TRUE, active)
        \/ NoSide(v)
        \/ IsPv(x.intent) /\ v = EvaluatePv(x)
        \/ /\ x.intent.wants = "input" /\ ~IsPv(x.intent)
           /\ v = Verdict("input", TRUE, StateOf(x.intent))
        \/ /\ x.intent.wants \notin {"idle", "input"} /\ v = EvaluateOutput(x)
    BY <1>8 DEF Arbitrate, NoSide
  <2>2. x.intent.wants \notin {"idle", "input"} => x.intent.wants = "output"
    BY DEF InputOK, Asks
  <2> HIDE DEF v
  <2> QED BY <1>1, <1>2, <1>3, <1>4, <1>8, <2>1, <2>2, EvaluatePvCases, EvaluateOutputCases
          DEF PvStarts, PvGoesOn, v
<1> QED BY <1>5, <1>6, <1>7, <1>8

LEMMA VerdictType ==
  ASSUME NEW x, InputOK(x), outW \in Powers, active \in States
  PROVE  Arbitrate(x).mode \in Verdicts /\ Arbitrate(x).state \in States
<1> DEFINE v == Arbitrate(x)
<1>1. StateOf(x.intent) \in States
  BY DEF InputOK, Asks, States, Latched, HoldOf
<1>2. x.intent.wants \in Verdicts
  BY DEF InputOK, Asks, Verdicts
<1>3. NoSide(v) \/ v = RampDown \/ PvStarts(x, v) \/ PvGoesOn(x, v)
      \/ v = Verdict(x.intent.wants, TRUE, StateOf(x.intent))
      \/ v = Verdict("input", TRUE, StateOf(x.intent))
      \/ v = Verdict("output", TRUE, active)
      \/ v = Verdict("output", TRUE, StateOf(x.intent))
  BY ArbitrateCases
<1> HIDE DEF v
<1>4. v.mode \in Verdicts
  BY <1>2, <1>3 DEF NoSide, Neutral, Wait, RampDown, PvStarts, PvGoesOn, Verdict, Verdicts
<1>5. v.state \in States
  BY <1>1, <1>3 DEF NoSide, Neutral, Wait, RampDown, PvStarts, PvGoesOn, Verdict, States,
                    Latched, HoldOf
<1> QED BY <1>4, <1>5 DEF v

\* While another battery discharges, only a forced charge gets its input.
LEMMA InputVerdict ==
  ASSUME NEW x, InputOK(x), outW \in Powers, Arbitrate(x).mode = "input", x.other
  PROVE  x.intent.force
<1> DEFINE v == Arbitrate(x)
<1> SUFFICES ASSUME ~x.intent.force PROVE FALSE
  OBVIOUS
<1>1. \/ /\ x.intent.wants # "input"
         /\ ~IsPv(x.intent)
         /\ active # "pv_charge_active"
      \/ OtherDischarges(x)
  BY DEF OtherDischarges, InputOK, Asks
<1>2. ~NoSide(v) /\ v # RampDown
  BY DEF NoSide, Neutral, Wait, RampDown, Verdict
<1>3. v # Verdict("output", TRUE, active) /\ v # Verdict("output", TRUE, StateOf(x.intent))
  BY DEF Verdict
<1>4. PvGoesOn(x, v) => active = "pv_charge_active"
  BY DEF PvGoesOn
<1> HIDE DEF v
<1>5. \/ ~OtherDischarges(x) /\ IsPv(x.intent)
      \/ ~OtherDischarges(x) /\ PvGoesOn(x, v)
      \/ ~OtherDischarges(x) /\ x.intent.wants = "input"
  BY <1>2, <1>3, ArbitrateCases DEF v
<1> QED BY <1>1, <1>4, <1>5

\* A PV charge that starts finds the output at zero and a present export; one
\* that goes on finds no stable import.
LEMMA PvVerdict ==
  ASSUME NEW x, InputOK(x), outW \in Powers, Arbitrate(x).state = "pv_charge_active"
  PROVE  LET v == Arbitrate(x)
         IN  \/ v.mode \in {"hold", "idle"} /\ active = "pv_charge_active"
             \/ outW = 0 /\ Exporting(x.grid)
             \/ active = "pv_charge_active" /\ x.imports < ExitImport
<1>1. x.intent.force => StateOf(x.intent) # "pv_charge_active"
  BY DEF InputOK, Asks
<1>2. ~IsPv(x.intent) => StateOf(x.intent) # "pv_charge_active"
  BY DEF InputOK, Asks
<1>3. x.intent.wants = "output" => ~IsPv(x.intent)
  BY DEF InputOK, Asks
<1> QED BY <1>1, <1>2, <1>3, ArbitrateCases
        DEF NoSide, Neutral, Wait, RampDown, Verdict, PvStarts, PvGoesOn

\* While discharging is blocked there is at most an output to ramp down, and
\* only where the regulation did not know of it.
LEMMA BlockedVerdict ==
  ASSUME NEW x, InputOK(x), outW \in Powers, x.blocked
  PROVE  LET v == Arbitrate(x)
         IN  /\ v.mode # "output"
             /\ v.mode = "ramp_down_output" =>
                  active \notin {"discharge_active", "passthrough_active"}
<1>1. ~Protected(x) => /\ x.intent.wants # "output"
                       /\ active \notin {"discharge_active", "passthrough_active"}
  BY DEF Protected
<1>2. x.intent.wants # "ramp_down_output"
  BY DEF InputOK, Asks
<1> QED BY <1>1, <1>2, ArbitrateCases
        DEF NoSide, Neutral, Wait, RampDown, Verdict, PvStarts, PvGoesOn

-----------------------------------------------------------------------------
(* Power and command                                                       *)

LEMMA PowersOf ==
  ASSUME NEW x, InputOK(x), inW \in Powers, outW \in Powers, NEW v, NEW p \in FinalPowers(x, v)
  PROVE  /\ p \in Powers
         /\ v.mode \in {"idle", "hold"} => p = 0
         /\ v.mode = "ramp_down_output" /\ p > 0 => p < outW
<1>1. 0 \in Powers /\ MaxPower \in Powers
  BY Positive DEF Powers
<1>2. \A t \in Powers : Stepped(inW, t) \in Powers /\ Stepped(outW, t) \in Powers
  BY SteppedType
<1>3. OutputTargets(x) \subseteq Powers
  BY Positive DEF OutputTargets, Asked, Powers, LargestOf
<1>4. PvPowers(x) \subseteq Powers
  <2>1. 0 .. LargestOf(0, inW - 1) \subseteq Powers
    BY Positive DEF Powers, LargestOf
  <2> QED BY <1>2, <2>1 DEF PvPowers, Asked
<1>0. Requested(x.intent) \subseteq Powers
  BY <1>1 DEF Requested
<1>5. p \in Powers
  BY <1>0, <1>1, <1>2, <1>3, <1>4 DEF FinalPowers
<1>6. v.mode \in {"idle", "hold"} => p = 0
  BY DEF FinalPowers
<1>7. v.mode = "ramp_down_output" => p = 0 \/ p = Stepped(outW, 0)
  BY DEF FinalPowers
<1> QED BY <1>5, <1>6, <1>7, SteppedDown

LEMMA BuildSides ==
  ASSUME NEW v, NEW p
  PROVE  LET c == Build(v, p)
         IN  /\ c.side = "input" => v.mode = "input" /\ c.power = p
             /\ c.side = "output" =>
                  c.power = 0 \/ (v.mode \in {"output", "ramp_down_output"} /\ c.power = p)
             /\ c.side \in Modes
             /\ c.power = 0 \/ c.power = p
BY DEF Build, InputCommand, OutputCommand, HoldCommand, IdleCommand, Command, Modes

-----------------------------------------------------------------------------
(* The run-time state and the command                                      *)

LatchTypes == {NoLatch} \cup UNION {[of : {s}, age : 0 .. HoldOf[s]] : s \in Latched}

LEMMA LatchMember ==
  ASSUME NEW l
  PROVE  /\ l = NoLatch => l \in LatchTypes
         /\ \A s \in Latched : \A n \in 0 .. HoldOf[s] :
              l = [of |-> s, age |-> n] => l \in LatchTypes
BY DEF LatchTypes

LEMMA LatchRestartedType ==
  ASSUME NEW s
  PROVE  /\ LatchRestarted(s) \in LatchTypes
         /\ s \in Latched => LatchRestarted(s).of = s
<1>1. CASE s \in Latched
  <2>1. 0 \in 0 .. HoldOf[s]
    BY <1>1, HoldType
  <2> QED BY <1>1, <2>1, LatchMember DEF LatchRestarted
<1>2. CASE s \notin Latched
  BY <1>2, LatchMember DEF LatchRestarted
<1> QED BY <1>1, <1>2

LEMMA AgedLatchType ==
  ASSUME NEW l \in LatchTypes, l.of # "none"
  PROVE  /\ [l EXCEPT !.age = SmallestOf(@ + 1, HoldOf[l.of])] \in LatchTypes
         /\ [l EXCEPT !.age = SmallestOf(@ + 1, HoldOf[l.of])].of = l.of
<1>0. PICK s \in Latched : l \in [of : {s}, age : 0 .. HoldOf[s]]
  BY DEF LatchTypes, NoLatch
<1>1. PICK n \in 0 .. HoldOf[s] : l = [of |-> s, age |-> n]
  BY <1>0
<1> DEFINE m == SmallestOf(n + 1, HoldOf[s])
<1>2. m \in 0 .. HoldOf[s]
  BY HoldType DEF SmallestOf
<1>3. l.of = s /\ l.age = n
  BY <1>1
<1>4. [l EXCEPT !.age = SmallestOf(@ + 1, HoldOf[l.of])] = [of |-> s, age |-> m]
  BY <1>1, <1>3
<1> HIDE DEF m
<1> QED BY <1>2, <1>3, <1>4, LatchMember

LEMMA SetNames ==
  /\ States = Latched \cup {"none", "neutral_hold", "input_active"}
  /\ Verdicts = Modes \cup {"idle", "hold", "ramp_down_output"}
  /\ LatchTypes = {NoLatch} \cup UNION {[of : {s}, age : 0 .. HoldOf[s]] : s \in Latched}
BY DEF States, Verdicts, Modes, LatchTypes

\* The types, with the latches named.
LEMMA RegTypes ==
  RegTypeOK <=>
    /\ pc \in {"idle", "due"}
    /\ grid \in Samples \cup {"none"}
    /\ imports \in 0 .. Cap /\ exports \in 0 .. Cap /\ (imports = 0 \/ exports = 0)
    /\ active \in States
    /\ latch \in LatchTypes
    /\ active \in Latched => latch.of = active
    /\ overshoot \in 0 .. Overshoot /\ since \in 0 .. Block
    /\ resolved \in Verdicts
    /\ mode \in Modes \cup {"none"} /\ inW \in Powers /\ outW \in Powers
    /\ inW = 0 \/ outW = 0
BY SetNames DEF RegTypeOK

LEMMA UpdateRuntimeTypes ==
  ASSUME RegTypeOK, NEW x, NEW v, v.mode \in Verdicts, v.state \in States, NEW side,
         UpdateRuntime(x, v, side)
  PROVE  /\ active' \in States /\ latch' \in LatchTypes
         /\ active' \in Latched => latch'.of = active'
         /\ overshoot' \in 0 .. Overshoot /\ since' \in 0 .. Block
         /\ resolved' \in Verdicts
<1>1. /\ active' = v.state /\ resolved' = v.mode
      /\ since' \in {0, since}
      /\ latch' = NextLatch(v.state)
      /\ overshoot' \in {Overshoot, overshoot}
  BY DEF UpdateRuntime, NextOvershoot
<1>2. latch \in LatchTypes /\ overshoot \in 0 .. Overshoot /\ since \in 0 .. Block
  BY RegTypes
<1>3. latch' \in {latch, LatchRestarted(v.state)} /\ (latch.of = v.state => latch' = latch)
      /\ (latch.of # v.state => latch' = LatchRestarted(v.state))
  BY <1>1 DEF NextLatch
<1>4. latch' \in LatchTypes /\ (v.state \in Latched => latch'.of = v.state)
  BY <1>2, <1>3, LatchRestartedType
<1>5. overshoot' \in 0 .. Overshoot /\ since' \in 0 .. Block
  BY <1>1, <1>2, Positive, CapType
<1> QED BY <1>1, <1>4, <1>5

SetpointOK ==
  /\ mode \in Modes \cup {"none"} /\ inW \in Powers /\ outW \in Powers
  /\ inW = 0 \/ outW = 0

LEMMA ExecuteTypes ==
  ASSUME SetpointOK, NEW side \in Modes, NEW power \in Powers, NEW outcome,
         Execute(side, power, outcome)
  PROVE  SetpointOK'
<1>1. 0 \in Powers
  BY Positive DEF Powers
<1>2. \/ mode' = side /\ inW' = power /\ outW' = 0
      \/ mode' = side /\ inW' = 0 /\ outW' = power
      \/ mode' = side /\ UNCHANGED <<inW, outW>>
      \/ UNCHANGED <<mode, inW, outW>>
  BY DEF Execute, setpoint, Modes
<1> QED BY <1>1, <1>2 DEF SetpointOK

LEMMA ExecuteStandbyTypes ==
  ASSUME SetpointOK, NEW outcome, ExecuteStandby(outcome)
  PROVE  SetpointOK'
<1>1. 0 \in Powers
  BY Positive DEF Powers
<1> QED BY <1>1 DEF ExecuteStandby, SetpointOK, Modes

-----------------------------------------------------------------------------
(* Every step                                                              *)

RegInv == ChargeSafe /\ CountsSeen

\* What one evaluation does, seen from the properties.
LEMMA RegulateParts ==
  ASSUME NEW x, NEW fresh, Regulate(x, fresh), RegTypeOK, InputOK(x)
  PROVE  \E power \in FinalPowers(x, Arbitrate(x)) : \E outcome :
           LET v == Arbitrate(x)
               command == Build(v, power)
           IN  /\ grid' = x.grid /\ imports' = x.imports /\ exports' = x.exports
               /\ UpdateRuntime(x, v, command.side)
               /\ \/ ExecuteStandby(outcome)
                  \/ Execute(command.side, command.power, outcome)
               /\ /\ cycle'.intent = x.intent /\ cycle'.blocked = x.blocked
                  /\ cycle'.other = x.other
                  /\ cycle'.side = command.side /\ cycle'.power = command.power
<1>1. PICK power \in FinalPowers(x, Arbitrate(x)) :
        \E command \in {Build(Arbitrate(x), power)} :
         \E outcome \in Outcomes(x.intent, command.side, command.power) :
           /\ grid' = x.grid /\ imports' = x.imports /\ exports' = x.exports
           /\ UpdateRuntime(x, Arbitrate(x), command.side)
           /\ IF x.intent = Standby
                THEN ExecuteStandby(outcome)
                ELSE stopped' = FALSE /\ Execute(command.side, command.power, outcome)
           /\ cycle' = [intent |-> x.intent, blocked |-> x.blocked, other |-> x.other,
                        sound |-> fresh /\ outcome = "applied",
                        side |-> command.side, power |-> command.power]
  BY DEF Regulate
<1> DEFINE command == Build(Arbitrate(x), power)
<1>2. PICK outcome :
           /\ grid' = x.grid /\ imports' = x.imports /\ exports' = x.exports
           /\ UpdateRuntime(x, Arbitrate(x), command.side)
           /\ IF x.intent = Standby
                THEN ExecuteStandby(outcome)
                ELSE stopped' = FALSE /\ Execute(command.side, command.power, outcome)
           /\ cycle' = [intent |-> x.intent, blocked |-> x.blocked, other |-> x.other,
                        sound |-> fresh /\ outcome = "applied",
                        side |-> command.side, power |-> command.power]
  BY <1>1
<1> HIDE DEF command
<1>3. /\ cycle'.intent = x.intent /\ cycle'.blocked = x.blocked
      /\ cycle'.other = x.other
      /\ cycle'.side = command.side /\ cycle'.power = command.power
  BY <1>2
<1>4. ExecuteStandby(outcome) \/ Execute(command.side, command.power, outcome)
  BY <1>2
<1> QED BY <1>2, <1>3, <1>4 DEF command

\* A regulated cycle keeps the types and the counts, and what the properties
\* say holds of it.
LEMMA RegulateSound ==
  ASSUME NEW x, NEW fresh, Regulate(x, fresh), RegTypeOK, InputOK(x), pc' = "idle"
  PROVE  /\ RegTypeOK' /\ CountsSeen'
         /\ NoChargeFromOther' /\ PvEndsOnStableImport'
         /\ cycle'.blocked /\ cycle'.side = "output" /\ cycle'.power > 0
              => cycle'.power < outW /\ active \notin {"discharge_active", "passthrough_active"}
         /\ active' = "pv_charge_active" /\ active # "pv_charge_active"
              => outW = 0 /\ Exporting(grid')
<1> DEFINE v == Arbitrate(x)
<1>1. PICK power \in FinalPowers(x, v) : \E outcome :
        LET command == Build(v, power)
        IN  /\ grid' = x.grid /\ imports' = x.imports /\ exports' = x.exports
            /\ UpdateRuntime(x, v, command.side)
            /\ \/ ExecuteStandby(outcome)
               \/ Execute(command.side, command.power, outcome)
            /\ /\ cycle'.intent = x.intent /\ cycle'.blocked = x.blocked
               /\ cycle'.other = x.other
               /\ cycle'.side = command.side /\ cycle'.power = command.power
  BY RegulateParts
<1> DEFINE command == Build(v, power)
<1>2. outW \in Powers /\ inW \in Powers /\ active \in States /\ SetpointOK
  BY RegTypes DEF SetpointOK
<1>3. v.mode \in Verdicts /\ v.state \in States
  BY <1>2, VerdictType
<1>4. /\ power \in Powers
      /\ v.mode \in {"idle", "hold"} => power = 0
      /\ v.mode = "ramp_down_output" /\ power > 0 => power < outW
  BY <1>2, PowersOf
<1>5. /\ command.side = "input" => v.mode = "input" /\ command.power = power
      /\ command.side = "output" =>
           command.power = 0 \/ (v.mode \in {"output", "ramp_down_output"}
                                 /\ command.power = power)
      /\ command.side \in Modes
      /\ command.power = 0 \/ command.power = power
  BY BuildSides
<1>6. command.power \in Powers
  BY <1>4, <1>5, Positive DEF Powers
<1>7. v.mode = "input" /\ x.other => x.intent.force
  BY <1>2, InputVerdict
<1>8. v.state = "pv_charge_active" =>
        \/ v.mode \in {"hold", "idle"} /\ active = "pv_charge_active"
        \/ outW = 0 /\ Exporting(x.grid)
        \/ active = "pv_charge_active" /\ x.imports < ExitImport
  BY <1>2, PvVerdict
<1>9. x.blocked => /\ v.mode # "output"
                   /\ v.mode = "ramp_down_output" =>
                        active \notin {"discharge_active", "passthrough_active"}
  BY <1>2, BlockedVerdict
<1>10. /\ x.grid \in Samples \cup {"none"} /\ x.imports \in 0 .. Cap /\ x.exports \in 0 .. Cap
       /\ x.imports > 0 => x.grid = "import"
       /\ x.exports > 0 => x.grid = "export"
  BY DEF InputOK
<1> HIDE DEF v, command
<1>11. PICK outcome :
       /\ grid' = x.grid /\ imports' = x.imports /\ exports' = x.exports
       /\ UpdateRuntime(x, v, command.side)
       /\ ExecuteStandby(outcome) \/ Execute(command.side, command.power, outcome)
  BY <1>1 DEF command
<1>12. /\ cycle'.intent = x.intent /\ cycle'.blocked = x.blocked /\ cycle'.other = x.other
       /\ cycle'.side = command.side /\ cycle'.power = command.power
  BY <1>1 DEF command
<1>13. /\ active' \in States /\ latch' \in LatchTypes
       /\ active' \in Latched => latch'.of = active'
       /\ overshoot' \in 0 .. Overshoot /\ since' \in 0 .. Block
       /\ resolved' \in Verdicts
  BY <1>3, <1>11, UpdateRuntimeTypes
<1>14. active' = v.state
  BY <1>11 DEF UpdateRuntime
<1>15. SetpointOK'
  BY <1>2, <1>5, <1>6, <1>11, ExecuteTypes, ExecuteStandbyTypes
<1>16. /\ grid' \in Samples \cup {"none"} /\ imports' \in 0 .. Cap /\ exports' \in 0 .. Cap
  BY <1>10, <1>11
<1>17. (imports' > 0 => grid' = "import") /\ (exports' > 0 => grid' = "export")
  BY <1>10, <1>11
<1>18. imports' = 0 \/ exports' = 0
  BY <1>16, <1>17, CapType
<1>19. RegTypeOK'
  <2>1. pc' \in {"idle", "due"}
    OBVIOUS
  <2> QED BY <1>13, <1>15, <1>16, <1>18, <2>1, SetNames DEF RegTypeOK, SetpointOK
<1>20. CountsSeen'
  BY <1>17 DEF CountsSeen
<1>21. NoChargeFromOther'
  BY <1>5, <1>7, <1>12 DEF NoChargeFromOther
<1>22. PvEndsOnStableImport'
  <2> SUFFICES ASSUME active' = "pv_charge_active", imports' >= ExitImport,
                      cycle'.side = "input"
               PROVE  cycle'.power = 0
    BY DEF PvEndsOnStableImport
  <2>1. v.state = "pv_charge_active" /\ v.mode = "input"
    BY <1>5, <1>12, <1>14
  <2>2. Exporting(x.grid) \/ x.imports < ExitImport
    BY <1>8, <2>1
  <2>3. x.imports > 0 /\ ~(x.imports < ExitImport)
    BY <1>10, <1>11, Positive
  <2>4. ~Exporting(x.grid)
    BY <1>10, <2>3 DEF Exporting
  <2> QED BY <2>2, <2>3, <2>4
<1>23. cycle'.blocked /\ cycle'.side = "output" /\ cycle'.power > 0
         => cycle'.power < outW /\ active \notin {"discharge_active", "passthrough_active"}
  <2> SUFFICES ASSUME x.blocked, command.side = "output", command.power > 0
               PROVE  command.power < outW
                      /\ active \notin {"discharge_active", "passthrough_active"}
    BY <1>12
  <2>1. command.power # 0
    BY <1>6 DEF Powers
  <2>2. v.mode \in {"output", "ramp_down_output"} /\ command.power = power
    BY <1>5, <2>1
  <2>3. v.mode = "ramp_down_output"
    BY <1>9, <2>2
  <2> QED BY <1>4, <1>9, <2>2, <2>3
<1>24. active' = "pv_charge_active" /\ active # "pv_charge_active"
         => outW = 0 /\ Exporting(grid')
  BY <1>8, <1>11, <1>14
<1> QED BY <1>19, <1>20, <1>21, <1>22, <1>23, <1>24

LEMMA RegulationInput ==
  ASSUME RegTypeOK, CountsSeen, RegulationStep
  PROVE  pc' = "idle" /\ \E x, fresh : InputOK(x) /\ Regulate(x, fresh)
<1>1. PICK sample \in Samples \cup {"gap"}, blocked \in BOOLEAN, other \in BOOLEAN,
           latched \in BOOLEAN :
        \E seen \in {Observed(sample)}, drop \in Drops(sample), intent \in Intents(blocked) :
          Regulate([intent |-> intent, grid |-> seen.grid, imports |-> seen.imports,
                    exports |-> seen.exports, drop |-> drop, blocked |-> blocked,
                    other |-> other, latched |-> latched], sample # "gap")
  BY DEF RegulationStep
<1> DEFINE seen == Observed(sample)
<1>2. PICK drop \in Drops(sample), intent \in Intents(blocked) :
          Regulate([intent |-> intent, grid |-> seen.grid, imports |-> seen.imports,
                    exports |-> seen.exports, drop |-> drop, blocked |-> blocked,
                    other |-> other, latched |-> latched], sample # "gap")
  BY <1>1
<1>3. /\ seen.grid \in Samples \cup {"none"}
      /\ seen.imports \in 0 .. Cap /\ seen.exports \in 0 .. Cap
      /\ seen.imports > 0 => seen.grid = "import"
      /\ seen.exports > 0 => seen.grid = "export"
  BY ObservedSound
<1>4. Asks(intent) /\ (blocked /\ intent.force => intent.wants # "output")
  BY IntentsAsk
<1> HIDE DEF seen
<1> DEFINE x == [intent |-> intent, grid |-> seen.grid, imports |-> seen.imports,
                 exports |-> seen.exports, drop |-> drop, blocked |-> blocked,
                 other |-> other, latched |-> latched]
<1>5. /\ x.intent = intent /\ x.grid = seen.grid /\ x.imports = seen.imports
      /\ x.exports = seen.exports /\ x.blocked = blocked /\ x.other = other
  OBVIOUS
<1>6. Regulate(x, sample # "gap")
  BY <1>2
<1> HIDE DEF x
<1>7. InputOK(x)
  BY <1>3, <1>4, <1>5 DEF InputOK
<1>8. pc' = "idle"
  BY DEF RegulationStep
<1> QED BY <1>6, <1>7, <1>8

\* Where no command is judged, the properties hold of none.
LEMMA NoCycleSafe ==
  ASSUME cycle' = NoCycle
  PROVE  NoChargeFromOther' /\ PvEndsOnStableImport' /\ cycle'.blocked = FALSE
BY DEF NoCycle, NoChargeFromOther, PvEndsOnStableImport

\* The two action properties, as actions.
OutputStep ==
  cycle'.blocked /\ cycle'.side = "output" /\ cycle'.power > 0
    => cycle'.power < outW /\ active \notin {"discharge_active", "passthrough_active"}
PvStep ==
  active' = "pv_charge_active" /\ active # "pv_charge_active"
    => outW = 0 /\ Exporting(grid')

LEMMA RegStep ==
  ASSUME RegInv, [Next]_vars
  PROVE  RegInv' /\ [OutputStep]_cycle /\ [PvStep]_vars
<1>0. /\ RegTypeOK /\ CountsSeen /\ NoChargeFromOther /\ PvEndsOnStableImport
  BY DEF RegInv, ChargeSafe
<1>1. CASE RegulationStep
  <2>1. PICK x, fresh : InputOK(x) /\ Regulate(x, fresh)
    BY <1>0, <1>1, RegulationInput
  <2>2. pc' = "idle"
    BY <1>1 DEF RegulationStep
  <2> QED BY <1>0, <2>1, <2>2, RegulateSound DEF RegInv, ChargeSafe, OutputStep, PvStep
<1>2. CASE Tick
  <2>1. /\ pc' = "due" /\ cycle' = NoCycle
        /\ latch' = IF latch.of = "none" THEN latch
                    ELSE [latch EXCEPT !.age = SmallestOf(@ + 1, HoldOf[latch.of])]
        /\ overshoot' = LargestOf(overshoot - 1, 0)
        /\ since' = SmallestOf(since + 1, Block)
        /\ UNCHANGED <<grid, imports, exports, active, resolved, mode, inW, outW>>
    BY <1>2 DEF Tick, history, setpoint
  <2>2. latch' \in LatchTypes /\ latch'.of = latch.of
    BY <1>0, <2>1, RegTypes, AgedLatchType
  <2>3. overshoot' \in 0 .. Overshoot /\ since' \in 0 .. Block
    <3>1. overshoot \in 0 .. Overshoot /\ since \in 0 .. Block
      BY <1>0, RegTypes
    <3> QED BY <2>1, <3>1, Positive, CapType DEF LargestOf, SmallestOf
  <2>4. RegTypeOK'
    BY <1>0, <2>1, <2>2, <2>3, SetNames DEF RegTypeOK
  <2>5. CountsSeen'
    BY <1>0, <2>1 DEF CountsSeen
  <2> QED BY <2>1, <2>4, <2>5, NoCycleSafe DEF RegInv, ChargeSafe, OutputStep, PvStep
<1>3. CASE GridEvent
  <2>1. /\ pc' = "due" /\ cycle' = NoCycle
        /\ UNCHANGED <<grid, imports, exports, active, latch, overshoot, since, resolved,
                       mode, inW, outW>>
    BY <1>3 DEF GridEvent, history, runtime, setpoint
  <2>2. RegTypeOK' /\ CountsSeen'
    BY <1>0, <2>1 DEF RegTypeOK, CountsSeen
  <2> QED BY <2>1, <2>2, NoCycleSafe DEF RegInv, ChargeSafe, OutputStep, PvStep
<1>4. CASE SkippedCycle
  <2>1. /\ pc' = "idle"
        /\ UNCHANGED <<grid, imports, exports, active, latch, overshoot, since, resolved,
                       mode, inW, outW, cycle>>
    BY <1>4 DEF SkippedCycle, history, runtime, setpoint
  <2>2. RegTypeOK' /\ CountsSeen' /\ NoChargeFromOther' /\ PvEndsOnStableImport'
    BY <1>0, <2>1 DEF RegTypeOK, CountsSeen, NoChargeFromOther, PvEndsOnStableImport
  <2> QED BY <2>1, <2>2 DEF RegInv, ChargeSafe, OutputStep, PvStep
<1>5. CASE SafeIdle
  <2>1. /\ pc' = "idle" /\ inW' = 0 /\ outW' = 0 /\ active' = "none" /\ resolved' = "idle"
        /\ mode' \in {mode, "input", "output", "none"}
        /\ UNCHANGED <<grid, imports, exports, latch, overshoot, since, cycle>>
    BY <1>5 DEF SafeIdle, history
  <2>2. RegTypeOK'
    <3>1. active' \in States /\ active' \notin Latched /\ resolved' \in Verdicts
      BY <2>1 DEF States, Verdicts, Latched, HoldOf
    <3>2. mode' \in Modes \cup {"none"} /\ inW' \in Powers /\ outW' \in Powers
      BY <1>0, <2>1, Positive DEF RegTypeOK, Modes, Powers
    <3> QED BY <1>0, <2>1, <3>1, <3>2, SetNames DEF RegTypeOK
  <2>3. CountsSeen' /\ NoChargeFromOther' /\ PvEndsOnStableImport'
    BY <1>0, <2>1 DEF CountsSeen, NoChargeFromOther, PvEndsOnStableImport
  <2> QED BY <2>1, <2>2, <2>3 DEF RegInv, ChargeSafe, OutputStep, PvStep
<1>6. CASE AdoptBaseline
  <2>1. PICK side \in Modes, power \in Powers :
          /\ mode' = side
          /\ inW' = IF side = "input" THEN power ELSE 0
          /\ outW' = IF side = "output" THEN power ELSE 0
    BY <1>6 DEF AdoptBaseline
  <2>2. /\ cycle' = NoCycle
        /\ UNCHANGED <<pc, grid, imports, exports, active, latch, overshoot, since, resolved>>
    BY <1>6 DEF AdoptBaseline, history, runtime
  <2>3. /\ mode' \in Modes \cup {"none"} /\ inW' \in Powers /\ outW' \in Powers
        /\ inW' = 0 \/ outW' = 0
    BY <2>1, Positive DEF Powers
  <2>4. RegTypeOK' /\ CountsSeen'
    BY <1>0, <2>2, <2>3 DEF RegTypeOK, CountsSeen
  <2> QED BY <2>2, <2>4, NoCycleSafe DEF RegInv, ChargeSafe, OutputStep, PvStep
<1>7. CASE Restart
  <2>1. /\ grid' = "none" /\ imports' = 0 /\ exports' = 0 /\ cycle' = NoCycle
        /\ UNCHANGED <<pc, active, latch, overshoot, since, resolved, mode, inW, outW>>
    BY <1>7 DEF Restart, runtime, setpoint
  <2>2. grid' \in Samples \cup {"none"} /\ imports' \in 0 .. Cap /\ exports' \in 0 .. Cap
    BY <2>1, CapType
  <2>3. RegTypeOK'
    BY <1>0, <2>1, <2>2 DEF RegTypeOK
  <2>4. CountsSeen'
    BY <2>1 DEF CountsSeen
  <2> QED BY <2>1, <2>3, <2>4, NoCycleSafe DEF RegInv, ChargeSafe, OutputStep, PvStep
<1>8. CASE UNCHANGED vars
  <2>1. UNCHANGED <<pc, grid, imports, exports, active, latch, overshoot, since, resolved,
                    mode, inW, outW, cycle>>
    BY <1>8 DEF vars
  <2>2. RegTypeOK' /\ CountsSeen' /\ NoChargeFromOther' /\ PvEndsOnStableImport'
    BY <1>0, <2>1 DEF RegTypeOK, CountsSeen, NoChargeFromOther, PvEndsOnStableImport
  <2> QED BY <1>8, <2>1, <2>2 DEF RegInv, ChargeSafe
<1> QED BY <1>1, <1>2, <1>3, <1>4, <1>5, <1>6, <1>7, <1>8 DEF Next

LEMMA RegInit == Init => RegInv
<1> SUFFICES ASSUME Init PROVE RegInv
  OBVIOUS
<1>1. /\ grid \in Samples \cup {"none"} /\ imports \in 0 .. Cap /\ exports \in 0 .. Cap
      /\ imports = 0 /\ exports = 0
  BY CapType DEF Init
<1>2. active \in States /\ active \notin Latched /\ resolved \in Verdicts
      /\ latch \in LatchTypes
  BY LatchMember DEF Init, States, Verdicts, Latched, HoldOf
<1>3. overshoot \in 0 .. Overshoot /\ since \in 0 .. Block
  BY Positive, CapType DEF Init
<1>4. mode \in Modes \cup {"none"} /\ inW \in Powers /\ outW \in Powers /\ inW = 0
  BY Positive DEF Init, Powers
<1>5. pc \in {"idle", "due"}
  BY DEF Init
<1>6. RegTypeOK
  BY <1>1, <1>2, <1>3, <1>4, <1>5, RegTypes
<1>7. CountsSeen
  BY <1>1 DEF CountsSeen
<1>8. NoChargeFromOther /\ PvEndsOnStableImport
  BY DEF Init, NoCycle, NoChargeFromOther, PvEndsOnStableImport
<1> QED BY <1>6, <1>7, <1>8 DEF RegInv, ChargeSafe

\* While another battery discharges only a forced charge draws power, and no
\* latch or minimum hold keeps a PV charge over a stable import
\* (ModeArbiter.evaluate), for any holds, counts and powers.
THEOREM ChargeIsSafe == Spec => []ChargeSafe
<1>1. RegInv => ChargeSafe
  BY DEF RegInv
<1>2. RegInv /\ [Next]_vars => RegInv'
  BY RegStep
<1> QED BY <1>1, <1>2, RegInit, PTL DEF Spec

\* A cycle in which discharging is blocked commands no output but a ramp-down
\* of one the regulation did not know of, and a PV charge starts from zero
\* output on a present export.
THEOREM SidesAreSafe == Spec => SidesStartSafely
<1>1. RegInv /\ [Next]_vars => RegInv' /\ [OutputStep]_cycle /\ [PvStep]_vars
  BY RegStep
<1>2. Spec => [][OutputStep]_cycle /\ [][PvStep]_vars
  BY <1>1, RegInit, PTL DEF Spec
<1> QED BY <1>2 DEF SidesStartSafely, NoOutputWhileBlocked, PvStartsFromZeroOutput,
                    OutputStep, PvStep
=============================================================================
