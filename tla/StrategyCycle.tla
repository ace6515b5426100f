--------------------------- MODULE StrategyCycle ---------------------------
(***************************************************************************)
(* The strategic part of a coordinator cycle: the decision engine collects *)
(* a candidate of every rule and selects one (decision_engine.py,          *)
(* strategy_adapter.py), the coordinator filters it by the limits of the   *)
(* battery, holds a running discharge, and the strategic AC charge binding *)
(* (charge commit) starts, keeps, pauses or stops grid charging over many  *)
(* cycles (_apply_charge_commit, charge_commit_policy.py).                 *)
(*                                                                         *)
(* A decision is its reason.  A price is a rank; the thresholds the code   *)
(* derives from the price curve are ranks too, in the order the code       *)
(* guarantees (StrategyAssumption).                                        *)
(***************************************************************************)
EXTENDS Integers, FiniteSets, Sequences, SequencesExt

CONSTANTS NoPrice,       \* no valid import price
          NoBinding,     \* charge_commit_active is False
          Prices,        \* ranks of the import price
          VeryCheap, Valley, Acceptable, Average, Effective, VeryExpensive,
          FeedIn,        \* opportunity cost of PV energy
          Tolerance,     \* price_comparison_tolerance
          Hysteresis,    \* max(tolerance, 1 % of the threshold)
          EmergencySoc, SocMin, Resume, SocMax, \* ranks of the state of charge
          Margin,        \* the 3 % before the maximum, in ranks
          ReserveTarget, ReservePrice, \* SoC and price ceiling of the reserve
          Need,          \* energy the learned plan asks for, in ranks
          Latest, Deadline, MaxTime, \* latest start, deadline, bound of time
          GapLimit       \* cycles the grid gap grace may hold a discharge

ASSUME StrategyAssumption ==
    /\ Prices \subseteq Int /\ NoPrice \notin Int
    /\ {VeryCheap, Valley, Acceptable, Average, Effective, VeryExpensive,
        ReservePrice, FeedIn} \subseteq Int
    /\ Tolerance \in Nat /\ Hysteresis \in Nat /\ Tolerance <= Hysteresis
    /\ VeryCheap < Valley /\ Valley < Effective /\ Acceptable + Tolerance < Effective
    /\ Effective <= VeryExpensive /\ Average < Effective
    /\ ReservePrice < Effective
    /\ {EmergencySoc, SocMin, Resume, SocMax, Margin, GapLimit, MaxTime} \subseteq Nat
    /\ EmergencySoc < SocMin /\ SocMin < SocMax
    /\ ReserveTarget \in 0 .. SocMax /\ Need \in Nat \ {0}
    /\ Latest \in Nat /\ Latest < Deadline /\ Deadline \in 0 .. MaxTime

VARIABLES
    soc, now,
    commit,  \* the persisted binding, or NoBinding
    picked,  \* history: the decision after the protections, before the binding
    out,     \* the decision of the cycle
    seen,    \* history: what the last cycle saw, conditions and zone of the price
    gap,     \* consecutive cycles without a valid grid reading
    pc       \* "cycle": a cycle is due; "env": the cycle has ended

vars == <<soc, now, commit, picked, out, seen, gap, pc>>

Never == MaxTime + 1

\* cell: cell voltage emergency; addDischarge, addCharge: another battery runs
\* above 50 W; noGrid: no grid reading; limits: SoC or power limits invalid;
\* upper, lower: socLimit 1 and 2; socBlock: below the resume level after SoC
\* minimum; cellBlock, cellSensor: discharge blocked by cell voltage or by its
\* missing sensor; noReserve, noDischarge, noPlanning, noValley: not allowed by
\* AutomaticStrategy (or by forecast and PV); noDeficit: nothing to cover, or
\* Autarky protects a low battery; pv: PV exports a surplus; passthrough: its
\* latch is active with a target; stalled: the battery accepts no AC charge;
\* noNeed: the learned plan asks for no energy.
Conditions == {"cell", "addDischarge", "addCharge", "noGrid", "limits", "upper",
               "lower", "socBlock", "cellBlock", "cellSensor", "noReserve",
               "noDischarge", "noPlanning", "noValley", "noDeficit", "pv",
               "passthrough", "stalled", "noNeed"}
Modes == {"automatic", "summer", "charge", "discharge", "standby", "pv_surplus"}

\* Bound: at most two of the conditions at once in automatic, one in the other
\* modes, and in Autarky one besides a house with nothing to cover.
AtMostTwo == {{c, d} : c, d \in Conditions \ {"noDeficit"}} \cup {{}}
AtMostOne == {{c} : c \in Conditions} \cup {{}}
Covered == {{"noDeficit", c} : c \in Conditions}
Inputs == [price : Prices \cup {NoPrice}, mode : {"automatic"}, is : AtMostTwo]
          \cup [price : {Effective}, mode : Modes \ {"automatic"}, is : AtMostOne]
          \cup [price : {Effective}, mode : {"summer"}, is : Covered]

Manual(in) == in.mode \notin {"automatic", "summer"}

(***************************************************************************)
(* Reasons, from the highest priority of the strategy adapter to the       *)
(* lowest; equal priorities in the order of the rules.                     *)
(***************************************************************************)
Ranking == <<"emergency", "manual_charge", "manual_discharge", "manual_idle",
             "learned_forced", "planning", "learned_active", "very_cheap",
             "valley", "reserve", "pv", "cover", "peak_discharge",
             "price_discharge", "passthrough", "wait", "idle">>
Economic == {"peak_discharge", "price_discharge"}
Discharges == Economic \cup {"cover", "manual_discharge"}
Outputs == Discharges \cup {"passthrough"}
Sources == {"learned_forced", "learned_active", "planning", "very_cheap",
            "valley", "reserve"}
Charges == Sources \cup {"pv", "manual_charge", "commit"}
Inputting == Charges \cup {"emergency"}
Idles == {"manual_idle", "wait", "idle"}

-----------------------------------------------------------------------------
(* The rules of the decision engine                                        *)

Known(in) == in.price # NoPrice
At(in, p) == Known(in) /\ in.price >= p
Cheap(in, p) == Known(in) /\ in.price <= p
Automatic(in) == in.mode = "automatic"

\* A surplus counts only while the battery itself does not feed the export.
Surplus(in) == "pv" \in in.is /\ out \notin Outputs
\* _pv_power_is_relevant_for_charging
PvRelevant(in) == Surplus(in) /\ soc < SocMax /\ "addDischarge" \notin in.is
\* _optional_grid_charge_should_wait_for_pv; an equal price may charge
PvFirst(in) == PvRelevant(in) /\ ~Cheap(in, FeedIn)
\* _market_grid_charge_should_wait_for_pv; an equal price must wait
MarketPvFirst(in) == PvRelevant(in) /\ ~Cheap(in, FeedIn - 1)

EmergencyRule(in) == soc <= EmergencySoc \/ "cell" \in in.is

\* Manual PV surplus leaves the decision to the PV rule.
ManualRule(in) ==
    CASE in.mode = "charge" -> {"manual_charge"}
      [] in.mode = "discharge" -> {"manual_discharge"}
      [] in.mode = "standby" -> {"manual_idle"}
      [] OTHER -> {}

\* _learned_planning_has_usable_charge_need and the mode of the plan
Usable(in) == /\ Automatic(in) /\ Known(in) /\ "noNeed" \notin in.is
              /\ now < Deadline /\ soc < SocMax - Margin
LearnedReason(in) == IF now >= Latest THEN "learned_forced"
                     ELSE IF Cheap(in, Acceptable) THEN "learned_active" ELSE "wait"
Waits(in) == Usable(in) /\ LearnedReason(in) = "wait"

\* _evaluate_adaptive_planning
Planning(in) == /\ Automatic(in) /\ "noPlanning" \notin in.is /\ ~Waits(in)
                /\ soc < SocMax - Margin
                /\ Cheap(in, Valley) /\ in.price > VeryCheap
                /\ now >= Latest /\ now < Deadline

VeryCheapRule(in) ==
    Automatic(in) /\ soc < SocMax /\ Cheap(in, VeryCheap) /\ ~PvFirst(in)

\* Two rules with one reason class: boost and opportunity.
ValleyRules(in) == /\ Automatic(in) /\ "noValley" \notin in.is /\ soc < SocMax
                   /\ Cheap(in, Valley) /\ ~MarketPvFirst(in)

\* The window ends with the price ceiling of the energy still missing, and
\* before the next peak.
ReserveWindow(in) == soc < ReserveTarget /\ now < Deadline /\ Cheap(in, ReservePrice)
ReserveRule(in) == /\ Automatic(in) /\ "noReserve" \notin in.is
                   /\ ReserveWindow(in) /\ ~At(in, Effective)

\* Other planned charging goes first, except in manual mode.
PvRule(in) == Surplus(in) /\ soc < SocMax /\ ~Planning(in)

\* Autarky covers the house, idles without a deficit, and leaves a surplus to
\* the PV rule.
CoverRule(in) ==
    IF in.mode # "summer" \/ (soc > SocMin /\ Surplus(in)) THEN {}
    ELSE IF soc > SocMin /\ "noDeficit" \notin in.is THEN {"cover"} ELSE {"idle"}

PassthroughRule(in) == /\ "passthrough" \in in.is /\ in.mode # "summer"
                       /\ ~(Usable(in) /\ ~Waits(in))

\* Only above the average of the remaining prices.
MayDischarge(in) == /\ Automatic(in) /\ "noDischarge" \notin in.is
                    /\ ~Surplus(in) /\ soc > SocMin
                    /\ Known(in) /\ in.price > Average
PeakRule(in) == MayDischarge(in) /\ At(in, VeryExpensive)
ArbitrageRule(in) == MayDischarge(in) /\ At(in, Effective)

Only(r, holds) == IF holds THEN {r} ELSE {}

\* _collect_rule_candidates: the reasons the rules offer.
Offered(in) == UNION {
    ManualRule(in), CoverRule(in),
    Only("emergency", EmergencyRule(in)),
    Only(LearnedReason(in), Usable(in)),
    Only("planning", Planning(in)),
    Only("very_cheap", VeryCheapRule(in)),
    Only("valley", ValleyRules(in)),
    Only("reserve", ReserveRule(in)),
    Only("pv", PvRule(in)),
    Only("peak_discharge", PeakRule(in)),
    Only("price_discharge", ArbitrageRule(in)),
    Only("passthrough", PassthroughRule(in))}

-----------------------------------------------------------------------------
(* Collecting, rejecting and selecting                                     *)

\* _candidate_rejection_reason of an active candidate.
Rejected(in, r) ==
    \/ "noGrid" \in in.is /\ r \notin {"emergency", "manual_charge", "manual_discharge"}
    \/ "addCharge" \in in.is /\ r \in Outputs
    \/ "addDischarge" \in in.is /\ r \in Inputting \ {"emergency"}
    \/ Waits(in) /\ r \in {"planning", "valley", "reserve"}

Rank == [r \in ToSet(Ranking) |-> CHOOSE i \in DOMAIN Ranking : Ranking[i] = r]
Best(S) == CHOOSE r \in S : \A q \in S : Rank[r] <= Rank[q]

\* DecisionEngine.evaluate: the best candidate that is not rejected.  Without
\* an active one a rejection by grid or direction ends in safe idle.
Decide(in, offered) ==
    LET kept == {r \in offered : r \in Idles \/ ~Rejected(in, r)}
        free == IF Economic \cap kept = {} THEN kept ELSE kept \ {"learned_active"}
        active == free \ {"wait", "idle"}
    IN IF "limits" \in in.is THEN "limits_invalid"
       ELSE IF active # {} THEN Best(active)
       ELSE IF "noGrid" \in in.is THEN "grid_sensor_invalid"
       ELSE IF \/ "addCharge" \in in.is /\ offered \cap Outputs # {}
               \/ "addDischarge" \in in.is /\ offered \cap Inputting # {}
            THEN "direction_blocked"
       ELSE IF free # {} THEN Best(free) ELSE "idle"

-----------------------------------------------------------------------------
(* The filters of the coordinator                                          *)

SocBlocked(in) == soc <= SocMin \/ ("socBlock" \in in.is /\ soc < Resume)
CellBlocked(in) == in.is \cap {"cellBlock", "cellSensor", "cell"} # {}
MayOutput(in) == ~SocBlocked(in) /\ ~CellBlocked(in) /\ "lower" \notin in.is

Filtered(in, r) ==
    IF r \in Inputting /\ "upper" \in in.is THEN "soc_limit_upper"
    ELSE IF r \in Outputs /\ "lower" \in in.is THEN "soc_limit_lower"
    ELSE IF r \in Discharges /\ SocBlocked(in) THEN "soc_min_resume_block"
    ELSE IF r \in Discharges /\ CellBlocked(in)
         THEN IF "cellSensor" \in in.is THEN "cell_voltage_sensor_invalid"
              ELSE "cell_voltage_cutoff_block"
    ELSE r

\* maintain_active_economic_discharge: its own effect on the grid does not
\* cancel a discharge.
Maintained(in) == /\ Automatic(in) /\ At(in, Effective)
                  /\ "noDischarge" \notin in.is \/ out \in Discharges
\* economic_discharge_continuation_reason, for a neutral decision
Neutral == {"wait", "idle"}
Continuation == IF out \in Economic THEN out ELSE "price_discharge"

\* defect: the protections are not asked again.
HoldsBlindly(in, r) ==
    /\ out \in Outputs
    /\ in.is \cap {"addCharge", "pv"} = {}
    /\ \/ in.mode = "summer" /\ r = "idle"
       \/ Maintained(in) /\ r \in Neutral
\* A running discharge outlives neutral cycles.
Holds(in, r) ==
    /\ out \in Outputs /\ soc > SocMin /\ MayOutput(in)
    /\ in.is \cap {"addCharge", "pv"} = {}
    /\ \/ in.mode = "summer" /\ r = "idle"
       \/ Maintained(in) /\ r \in Neutral
Held(in, r) == IF ~Holds(in, r) THEN r
               ELSE IF in.mode = "summer" THEN "cover" ELSE Continuation

\* A running PV charge outlives short import; its decision has no thresholds.
Lingers(in, r) == /\ out = "pv" /\ r = "idle" /\ ~Manual(in) /\ soc < SocMax
                  /\ in.is \cap {"upper", "addDischarge", "cell"} = {}

Critical == {"limits_invalid", "grid_sensor_invalid", "cell_voltage_sensor_invalid"}

-----------------------------------------------------------------------------
(* The charge binding                                                      *)

Type(r) == IF r \in {"learned_forced", "learned_active"} THEN "learned" ELSE r
Goal(c) == IF c.target < SocMax THEN c.target ELSE SocMax

\* _clear_charge_commit
Cleared == NoBinding

\* _strategic_ac_charge_price_conflict: strategic charging stands back at the
\* prices of a discharge; thr: the decision carries a threshold.
Strategic(r) == Type(r) \in {"learned", "reserve"}
Conflict(in, r, thr) ==
    Strategic(r) /\ (At(in, VeryExpensive) \/ (thr /\ At(in, Effective + Tolerance)))

\* What a charging decision becomes when its binding ends: a stop at the
\* target, or the price guard.
TargetStop(r) == IF r \in Charges THEN "target_reached" ELSE r
PriceStop(r) == IF r \in Charges THEN "blocked_price" ELSE r

\* learned_plan_may_complete_active_commit: the target of a forced binding
\* outlives the need, the binding does not.
NeedGone(in, c) == c.type = "learned" /\ c.phase = "forced" /\ "noNeed" \in in.is
\* automatic_peak_reserve_abort_reason
Withdrawn(in, c) == c.type = "reserve" /\ "noReserve" \in in.is

TooDear(in, c) == At(in, c.acceptable + Tolerance + 1)

\* defect: the deadline does not end a paused binding.
ExpiredUnlessPaused(c) == now >= c.deadline /\ c.phase # "yielded"
Expired(c) == now >= c.deadline

\* _charge_commit_abort_reason, as what follows from it: the plain decision,
\* an idle stop at the target, or the price guard.
Abort(in, c, thr, full) ==
    IF in.mode # "automatic" \/ in.is \cap {"cell", "addDischarge"} # {} THEN "decision"
    ELSE IF soc >= Goal(c) THEN "target"
    ELSE IF Withdrawn(in, c) \/ NeedGone(in, c) THEN "decision"
    ELSE IF Conflict(in, c.src, thr) THEN "price"
    ELSE IF \/ /\ c.phase = "active" /\ Goal(c) >= SocMax - Margin
               /\ soc >= Goal(c) - Margin /\ thr /\ At(in, Effective)
            \/ full
            \/ Expired(c)
         THEN "decision"
    ELSE "none"

\* The measured charge stalls close to the target; its timer ran out if full.
Stalls(in, c) == /\ c.phase \in {"active", "forced"} /\ "stalled" \in in.is
                 /\ Goal(c) >= SocMax - Margin /\ soc >= Goal(c) - Margin

Forced(c) == \/ c.phase = "forced" \/ c.src = "learned_forced" \/ now >= c.latest

\* defect: the latch is dropped as soon as the strategy changes.
YieldsUnlatched(in, c, r, thr) == r \in Economic

\* charge_commit_should_yield_to_discharge
Yields(in, c, r, thr) ==
    \/ r \in Economic
    \/ c.phase = "yielded" /\ (~Known(in) \/ ~thr \/ in.price >= Effective - Hysteresis)
PhaseOf(in, c, r, thr) ==
    IF Yields(in, c, r, thr) THEN "yielded"
    ELSE IF c.type # "learned" THEN "active"
    ELSE IF Forced(c) THEN "forced"
    ELSE IF c.phase = "active" THEN "active"
    ELSE IF TooDear(in, c) THEN "waiting" ELSE "active"

\* _committed_charge_decision and _waiting_charge_commit_decision
Bound(c, r) ==
    IF c.phase \in {"active", "forced"} THEN "commit"
    ELSE IF r \in Outputs \cup {"pv", "emergency"} THEN r ELSE "waiting_price"

Targets(r) == CASE Type(r) = "learned" -> IF soc + Need < SocMax THEN soc + Need ELSE SocMax
                [] r = "reserve" -> ReserveTarget
                [] OTHER -> SocMax
NewBinding(in, r) ==
    LET c == [type |-> Type(r), src |-> r, phase |-> "waiting", stall |-> FALSE,
              target |-> Targets(r),
              latest |-> IF Type(r) = "learned" THEN Latest ELSE Never,
              deadline |-> IF Type(r) = "learned" THEN Deadline ELSE Never,
              acceptable |-> Acceptable]
    IN [c EXCEPT !.phase = PhaseOf(in, c, "none", TRUE)]

\* _apply_charge_commit: the binding and the decision after the cycle.
Bind(in, r, thr, full) ==
    IF commit # NoBinding THEN
        LET why == Abort(in, commit, thr, full)
            next == [commit EXCEPT !.phase = PhaseOf(in, commit, r, thr),
                                   !.stall = Stalls(in, commit)]
        IN IF why = "none" THEN [commit |-> next, out |-> Bound(next, r)]
           ELSE [commit |-> Cleared,
                 out |-> CASE why = "target" -> TargetStop(r)
                           [] why = "price" -> PriceStop(r)
                           [] OTHER -> r]
    ELSE IF Conflict(in, r, thr) THEN [commit |-> NoBinding, out |-> PriceStop(r)]
    ELSE IF r \in Sources /\ soc < SocMax
         THEN [commit |-> NewBinding(in, r), out |-> Bound(NewBinding(in, r), r)]
    ELSE [commit |-> NoBinding, out |-> r]

-----------------------------------------------------------------------------
(* A cycle                                                                 *)

Zone(in) == IF ~Known(in) THEN "unknown"
            ELSE IF in.price < Effective - Hysteresis THEN "below"
            ELSE IF in.price < Effective THEN "band"
            ELSE IF in.price < Effective + Tolerance THEN "window" ELSE "conflict"
\* What the properties say of the last cycle.
Facts(in, thr) == [zone |-> Zone(in), thr |-> thr, waits |-> Waits(in),
                   blocked |-> ~MayOutput(in),
                   is |-> in.is \cap {"cell", "upper", "limits", "noGrid"}]

\* During a short gap of the grid reading a running discharge goes on
\* untouched: no command, no binding logic.
HoldsGap(in, r) == /\ r = "grid_sensor_invalid" /\ out \in Outputs
                   /\ gap < GapLimit /\ ~Manual(in)
HoldGap == UNCHANGED <<commit, out>>

\* Without critical data the binding is cleared and the device is stopped.
SafeIdle(r) ==
    /\ commit' = Cleared
    /\ out' = r

\* The decision goes through the binding.
\* ("\E x \in {e}" names a value: TLC then evaluates e once.)
Commanded(in, r, thr) ==
    \E full \in {FALSE, commit # NoBinding /\ commit.stall /\ Stalls(in, commit)} :
    \E b \in {Bind(in, r, thr, full)} :
        /\ commit' = b.commit
        /\ out' = b.out

Cycle ==
    /\ pc = "cycle"
    /\ \E in \in Inputs : \E offered \in {Offered(in)} :
       \E selected \in {Decide(in, offered)} :
       \E r \in {Held(in, Filtered(in, selected))} :
         /\ \/ /\ picked' = r
               /\ seen' = Facts(in, TRUE)
               /\ IF HoldsGap(in, r) THEN HoldGap
                  ELSE IF r \in Critical THEN SafeIdle(r)
                  ELSE Commanded(in, r, TRUE)
            \/ /\ Lingers(in, r)
               /\ picked' = "pv"
               /\ seen' = Facts(in, FALSE)
               /\ Commanded(in, "pv", FALSE)
         /\ gap' = IF "noGrid" \notin in.is THEN 0
                   ELSE IF gap < GapLimit THEN gap + 1 ELSE gap
    /\ pc' = "env"
    /\ UNCHANGED <<soc, now>>

\* Until the next cycle, which has no use for the history.
NoFacts == [zone |-> "unknown", thr |-> TRUE, waits |-> FALSE, blocked |-> FALSE, is |-> {}]
Elapse == /\ pc = "env" /\ pc' = "cycle"
          /\ picked' = "idle" /\ seen' = NoFacts
          /\ UNCHANGED <<commit, out, gap>>
Rest == Elapse /\ UNCHANGED <<soc, now>>
Charge == Elapse /\ out \in Inputting /\ soc < SocMax /\ soc' = soc + 1 /\ UNCHANGED now
Drain == Elapse /\ out \notin Inputting /\ soc > 0 /\ soc' = soc - 1 /\ UNCHANGED now
Tick == Elapse /\ now < MaxTime /\ now' = now + 1 /\ UNCHANGED soc

Init ==
    /\ soc \in 0 .. SocMax
    /\ now = 0
    /\ commit = NoBinding
    /\ picked = "idle"
    /\ out = "idle"
    /\ seen = NoFacts
    /\ gap = 0
    /\ pc = "cycle"

Next == Cycle \/ Rest \/ Charge \/ Drain \/ Tick

\* The coordinator polls for ever, and time passes.
Spec == /\ Init /\ [][Next]_vars
        /\ WF_pc(pc = "cycle" /\ pc' = "env")
        /\ WF_pc(pc = "env" /\ pc' = "cycle")
        /\ SF_now(pc = "env" /\ now < MaxTime /\ now' = now + 1)

-----------------------------------------------------------------------------
(* Properties                                                              *)

Bindings == [type : {"learned", "planning", "very_cheap", "valley", "reserve"},
             src : Sources, phase : {"waiting", "active", "forced", "yielded"},
             stall : BOOLEAN, target : 0 .. SocMax, latest : {Latest, Never},
             deadline : {Deadline, Never}, acceptable : {Acceptable}]
\* Type invariant.
StrategyTypeOK ==
    /\ soc \in 0 .. SocMax /\ now \in 0 .. MaxTime
    /\ commit \in Bindings \cup {NoBinding}
    /\ gap \in 0 .. GapLimit /\ pc \in {"cycle", "env"}

Done == pc = "env"

\* "Every AC binding must yield instead of overriding that selected OUTPUT
\* action": when a cycle selects an economic discharge, grid charging never
\* replaces it, whatever the binding is and however urgent it is.
DischargeWins == Done /\ picked \in Economic => out = picked

\* A binding of the learned plan or of the reserve buys nothing at a price in
\* the discharge range, not even past its latest start, unless the decision
\* came without thresholds.
LearnedBuysBelowDischarge ==
    Done /\ out = "commit" /\ seen.thr /\ commit.type \in {"learned", "reserve"}
        => seen.zone # "conflict"

\* A binding charges only below its target, also when the state of charge
\* reached it in a cycle in which the binding was paused.
BuysBelowTarget == Done /\ out = "commit" => soc < commit.target /\ soc < SocMax

\* Past its latest start a learned binding waits for no price: it charges, or
\* stands back for a discharge.
LateNeverWaits ==
    Done /\ commit # NoBinding /\ now >= commit.latest /\ commit.type = "learned"
        /\ out = "waiting_price" => commit.phase = "yielded"

\* A cell voltage emergency overrides every binding, mode and limit of the
\* other batteries and of the grid reading; only the battery's own upper limit
\* and invalid limits stop it.
EmergencyWins ==
    Done /\ "cell" \in seen.is /\ seen.is \cap {"upper", "limits"} = {}
        => out = "emergency" /\ commit = NoBinding

\* What a binding may never do, at any price, phase and state of charge.
BindingSafe ==
    /\ StrategyTypeOK
    /\ DischargeWins /\ LearnedBuysBelowDischarge /\ BuysBelowTarget /\ LateNeverWaits

\* Below SoC minimum, at the lower limit or with the cell voltage too low no
\* rule, hold or binding discharges; only a held gap of the grid reading
\* (which sends no command) goes on.
NoBlockedDischarge ==
    Done /\ seen.blocked /\ "noGrid" \notin seen.is => out \notin Discharges

\* The protections of the battery win over rules, holds and bindings.
ProtectionSafe == EmergencyWins /\ NoBlockedDischarge

\* The charge that a cycle decides is allowed by the binding and by the
\* protections of the battery.
CycleSafe == BindingSafe /\ ProtectionSafe

\* While the learned plan waits for its window no cycle starts a cheaper
\* binding, except at the very cheap price.
PlanKeepsOthersOut ==
    [][Done' /\ commit = NoBinding /\ commit' # NoBinding /\ seen'.waits
        => commit'.type = "very_cheap"]_vars

\* A paused binding resumes only when the price left the hysteresis band
\* below the discharge threshold.
PauseHasHysteresis ==
    [][pc = "cycle" /\ commit # NoBinding /\ commit' # NoBinding
        /\ commit.phase = "yielded" /\ commit'.phase # "yielded"
        => seen'.zone = "below"]_vars

\* A step neither starts nor resumes a binding that it must not.
BindingGuarded == PlanKeepsOthersOut /\ PauseHasHysteresis

\* A learned binding never outlives its deadline: it ends by its target, by an
\* abort or by the deadline, whatever prices, protections and gaps do.
Learned == commit # NoBinding /\ commit.type = "learned"
LearnedEnds == Learned ~> ~Learned

\* docs/user-guide.md: "upper limit active: Charging is blocked".
UpperLimitBlocks == Done /\ "upper" \in seen.is => out \notin Inputting

=============================================================================
