----------------------------- MODULE PricePlan -----------------------------
(***************************************************************************)
(* When the automatic mode charges from the grid: the learned charge plan  *)
(* (learned_planning.py), rebuilt from scratch in every cycle, the reserve *)
(* charge and the classic planning of the decision engine, and the latched *)
(* permission of the reserve charge (automatic_strategy.py), over one day  *)
(* of prices while the battery is charged, discharged and time passes.     *)
(*                                                                         *)
(* Time is counted in ticks, two per price slot.  Energy is counted in     *)
(* units above the minimum state of charge; charging at full power stores  *)
(* Rate units per tick.  The losses of charging are left out: the learned  *)
(* plan sizes its windows with the stored power, the other two with the    *)
(* power at the socket.                                                    *)
(***************************************************************************)
EXTENDS Integers, FiniteSets, FiniteSetsExt, Functions

CONSTANTS Slots,         \* number of price slots of the day
          SlotPrices,    \* prices of a slot
          PeakPct,       \* peak factor in percent
          ValleyPct,     \* valley factor in percent
          ProfitPct,     \* profit margin in percent
          VeryExpensive, \* price at which discharging is forced
          Capacity,      \* usable energy, maximum SoC minus minimum SoC
          Rate,          \* energy of one tick at full power
          Energies,      \* energy at the start
          HouseLoads,    \* consumption of the house per tick
          Forecasts,     \* outlooks of the PV forecast
          Margin,        \* smallest reserve on top of the consumption
          MaxAdjustment, \* largest surcharge of a poor or mixed forecast
          Floor,         \* smallest actionable energy
          NearMax,       \* energy below the maximum that is not planned
          PoorHorizon,   \* ticks to the forecast-critical period
          Morning, Day,  \* tick of the morning load, ticks of a day
          Hour,          \* slots of one hour
          SlotCap        \* longest effective window

ASSUME PricePlanAssumption ==
    /\ {Slots, Capacity, Rate, PoorHorizon, Day, Hour} \subseteq Nat \ {0}
    /\ {PeakPct, ProfitPct, VeryExpensive, Margin, MaxAdjustment, Floor, NearMax, Morning,
        SlotCap} \subseteq Nat
    /\ SlotPrices \subseteq Nat /\ SlotPrices # {} /\ 2 * Slots <= Day
    /\ PeakPct >= 100 /\ ValleyPct \in 0..100 /\ SlotCap > 1
    /\ Energies \subseteq 0..Capacity /\ HouseLoads \subseteq Nat
    /\ Forecasts \subseteq {"unknown", "poor", "mixed", "good"}

VARIABLES
    prices,   \* price of every slot
    load,     \* the learned consumption per tick, which the house has
    forecast, \* outlook of the PV forecast
    ready,    \* LearningReadiness.ready and learned planning enabled
    tick,     \* time of the day
    stored,   \* energy above the minimum SoC
    allowed,  \* _automatic_peak_reserve_allowed
    plan,     \* the LearnedChargePlan of the cycle
    charge    \* the grid charge of the cycle: rule, power and target

planVars == <<prices, load, forecast, ready, tick, stored, allowed, plan, charge>>
dayVars == <<prices, load, forecast, ready>>

MaxOf(a, b) == IF a > b THEN a ELSE b
MinOf(a, b) == IF a < b THEN a ELSE b
CeilDiv(a, b) == (a + b - 1) \div b

Start(s) == 2 * s
End(s) == 2 * s + 2
Slot(t) == t \div 2

\* planning_price_points: the slots that have not ended.
Remaining(t) == {s \in 0..(Slots - 1) : End(s) > t}
Total(S) == SumFunctionOnSet(prices, S)
Span(S) == Max({prices[s] : s \in S}) - Min({prices[s] : s \in S})

(***************************************************************************)
(* Thresholds of the prices that remain, times 100 and the number of them. *)
(***************************************************************************)
PeakThreshold(S) ==
    100 * Total(S) + MaxOf((PeakPct - 100) * Total(S), 10 * Cardinality(S) * Span(S))
ValleyThreshold(S) == ValleyPct * Total(S)
Scaled(price, S) == 100 * Cardinality(S) * price

Peaks(t) ==
    LET S == Remaining(t)
        limit == PeakThreshold(S)
    IN  {s \in S : Scaled(prices[s], S) >= limit}

\* The discharge threshold while the battery holds no paid energy and no
\* expensive price is configured, times 10000 and the number of prices.
DischargeThreshold(S) ==
    LET peak == PeakThreshold(S)
        valley == 100 * ValleyThreshold(S)
        anchor == MaxOf(valley, 82 * peak)
        middle == valley + (55 * (anchor - valley)) \div 100
    IN  MinOf(MaxOf(valley, middle), 90 * peak)

(***************************************************************************)
(* The learned plan.                                                       *)
(***************************************************************************)
\* The peak that is active is left as a whole before the next one counts.
\* P is the set of the peaks that remain.
PeakEnd(s, P) == Min({o \in s..Slots : o \notin P})
NextPeaksByStart(t, P) == {s \in P : Start(s) > t}
NextPeaks(t, P) == {s \in P : s >= PeakEnd(Slot(t), P)}

\* Start of the morning load that comes next.
NextMorning(t) == Min({d \in {Morning, Morning + Day} : d > t})

Deadline(t, P) ==
    LET next == NextPeaks(t, P) IN
    CASE next # {} -> [at |-> Start(Min(next)), why |-> "peak"]
      [] next = {} /\ forecast = "poor" -> [at |-> t + PoorHorizon, why |-> "poor"]
      [] OTHER -> [at |-> NextMorning(t), why |-> "morning"]

\* The energy has to last through the peak that starts at the deadline.
CoverageEnd(d, P) == IF d.why = "peak" THEN Start(PeakEnd(Slot(d.at), P)) ELSE d.at

Share(pct, amount) == CeilDiv(pct * amount, 100)

Adjustment(expected) ==
    CASE forecast = "poor" -> MinOf(MaxAdjustment, Share(15, expected))
      [] forecast = "mixed" -> MinOf(MaxAdjustment, Share(5, expected))
      [] OTHER -> 0

\* One unit of PV per tick is forecast, and weighted by the outlook.
Credit(ticks) ==
    CASE forecast = "good" -> (90 * ticks) \div 100
      [] forecast = "mixed" -> (50 * ticks) \div 100
      [] OTHER -> 0

Consumption(t, until) == load * (until - t)
Reserve(expected) == MaxOf(Margin, Share(15, expected))

\* What is missing, as far as the battery can take it and it is worth a plan.
Actionable(raw, e) ==
    LET clamped == MinOf(MaxOf(raw, 0), Capacity - e)
    IN  IF clamped < Floor THEN 0 ELSE clamped

Required(t, e, d, coverage) ==
    LET expected == Consumption(t, coverage)
    IN  Actionable(expected + Reserve(expected) + Adjustment(expected)
                   - Credit(d.at - t) - e, e)

CoreSlots(required) == MaxOf(1, CeilDiv(required, 2 * Rate))

\* One or two slots of safety, at least two slots, at most SlotCap.
WindowSlots(required) ==
    LET safety == IF required <= 2 * Rate * Hour THEN 1 ELSE 2
    IN  MinOf(MaxOf(2, CeilDiv(required, 2 * Rate) + safety), SlotCap)

Score(s, n) == SumFunction([i \in 0..(n - 1) |-> prices[s + i] * MinOf(i + 1, n - i)])

\* The windows of n whole slots that end before the deadline.
Windows(t, d, n) ==
    {s \in Remaining(t) : /\ (s + n - 1) \in Remaining(t)
                          /\ End(s + n - 1) <= d.at}

Cheapest(W, n) ==
    LET best == Min({Score(s, n) : s \in W}) IN {s \in W : Score(s, n) = best}

BestByMidpoint(W, n) ==
    LET ties == Cheapest(W, n)
        middle == (Min(ties) + Max(ties)) \div 2
        Distance(s) == MaxOf(s - middle, middle - s)
    IN  CHOOSE s \in ties : \A o \in ties :
            \/ Distance(s) < Distance(o)
            \/ Distance(s) = Distance(o) /\ s <= o

\* Windows of equal cost: the one nearest to an hour before the last.
Best(W, n) ==
    LET ties == Cheapest(W, n)
        preferred == MaxOf(Min(ties), Max(ties) - Hour)
        Distance(s) == MaxOf(s - preferred, preferred - s)
    IN  CHOOSE s \in ties : \A o \in ties :
            \/ Distance(s) < Distance(o)
            \/ Distance(s) = Distance(o) /\ s <= o

\* The power that stores the energy until the end of the window.
Power(required, from, until) ==
    IF until <= from THEN Rate ELSE MinOf(Rate, MaxOf(1, CeilDiv(required, until - from)))

NoPlan == [mode |-> "none", why |-> "none", deadline |-> 0, reason |-> "none", coverage |-> 0,
           required |-> 0, start |-> 0, end |-> 0, latest |-> 0, power |-> 0]

BuildPlan(t, e, P) ==
    LET d == Deadline(t, P)
        coverage == CoverageEnd(d, P)
        required == Required(t, e, d, coverage)
        n == CoreSlots(required)
        windows == Windows(t, d, n)
        found == windows # {}
        start == IF found THEN Start(Best(windows, n)) ELSE t
        end == start + 2 * n
        latest == d.at - 2 * WindowSlots(required)
        mode == IF ~found \/ t >= latest \/ t >= start THEN "charge" ELSE "wait"
        why == CASE ~found -> "too_close" [] found /\ t >= latest -> "latest_start"
                 [] found /\ t < latest /\ t >= start -> "active" [] OTHER -> "wait"
    IN  IF required = 0
        THEN [NoPlan EXCEPT !.mode = "ready", !.deadline = d.at, !.reason = d.why,
                            !.coverage = coverage]
        ELSE [mode |-> mode, why |-> why, deadline |-> d.at, reason |-> d.why,
              coverage |-> coverage, required |-> required, start |-> start,
              end |-> end, latest |-> latest,
              power |-> Power(required, MaxOf(t, start), MinOf(end, d.at))]

(***************************************************************************)
(* Permissions of the automatic strategy; there is no PV at present.       *)
(***************************************************************************)
ReserveWeight(e) == (100 * (Capacity - e)) \div Capacity

\* reserve_critical, reserve_low: 15 of 90 percentage points.
LowReserve(e) == 6 * e <= Capacity

\* The permission holds two percent longer than it is given.
WeakPvReserve(e) == ReserveWeight(e) >= (IF allowed THEN 35 ELSE 37)

ReservePermission(e) ==
    CASE forecast = "poor" -> "strong"
      [] forecast # "poor" /\ LowReserve(e) -> "strong"
      [] forecast # "poor" /\ ~LowReserve(e) /\ WeakPvReserve(e) -> "weak_pv"
      [] OTHER -> "none"

(***************************************************************************)
(* The reserve charge.                                                     *)
(***************************************************************************)
ReservePeaks(t, P) == P \cup {s \in Remaining(t) : prices[s] >= VeryExpensive}

\* A weak permission fills to the level at which it ends.
ReserveTarget(why) == IF why = "weak_pv" THEN (65 * Capacity) \div 100 ELSE Capacity

Usable(s, t) == Rate * (End(s) - MaxOf(t, Start(s)))
Sum(S, t) == SumFunction([s \in S |-> Usable(s, t)])

\* The candidates, cheapest first, until the energy is covered.
Covering(C, t, gap) ==
    {s \in C : Sum({o \in C : \/ prices[o] < prices[s]
                              \/ prices[o] = prices[s] /\ o < s}, t) < gap}

Comfortable(C, t, gap) ==
    /\ Sum(C, t) >= gap
    /\ prices[Slot(t)] <= Max({prices[s] : s \in Covering(C, t, gap)})

\* No time left to wait: a quarter more than the hours needed.
Urgent(t, gap, next, expected) ==
    /\ gap > Floor
    /\ 100 * Rate * (Start(next) - t) <= 125 * MaxOf(gap, 2 * Rate)
    /\ 100 * prices[Slot(t)] < 80 * expected

\* The slots before the next peak, and the price expected in a peak.
Ahead(t, Q) == {s \in Q : Start(s) > t}
Before(t, Q) == {s \in Remaining(t) : s < Min(Ahead(t, Q))}
Expected(Q) == Max({prices[s] : s \in Q})

ReserveWindow(t, gap, P, Q) ==
    LET price == prices[Slot(t)] IN
    /\ Ahead(t, Q) # {}
    /\ Slot(t) \notin P
    /\ 100 * price < 85 * Expected(Q)
    /\ gap > 0
    /\ \/ Comfortable(Before(t, Q), t, gap)
       \/ Urgent(t, gap, Min(Ahead(t, Q)), Expected(Q))

ReserveRule(t, e, why, P) ==
    LET price == prices[Slot(t)]
        Q == ReservePeaks(t, P)
        S == Remaining(t)
    IN  /\ why # "none" /\ e < Capacity /\ price < VeryExpensive
        /\ ReserveWindow(t, ReserveTarget(why) - e, P, Q)
        /\ (100 + ProfitPct) * price <= 100 * Expected(Q)
        /\ 100 * Scaled(price, S) < DischargeThreshold(S)

(***************************************************************************)
(* The classic planning.                                                   *)
(***************************************************************************)
\* Two peaks within six hours ask for more, the outlook scales it.
ClassicNeed(e, F) ==
    LET first == Min(F)
        double == \E s \in F \ {first} : s - first < 6 * Hour
        base == IF double THEN Share(140, Capacity - e) ELSE Capacity - e
        factor == [good |-> 60, mixed |-> 90, poor |-> 115, unknown |-> 100]
    IN  Share(factor[forecast], base)

ClassicRule(t, e, P) ==
    LET price == prices[Slot(t)]
        S == Remaining(t)
        F == {s \in P : Start(s) > t}
        need == ClassicNeed(e, F)
        offered == {s \in S : t <= Start(s) /\ s <= Min(F)}
        cheap == {s \in offered :
                    Cardinality({o \in offered : prices[o] < prices[s]})
                        < CeilDiv(need, 2 * Rate)}
    IN  /\ e < Capacity - NearMax
        /\ Scaled(price, S) <= ValleyThreshold(S)
        /\ F # {}
        /\ 100 * Expected(F) >= (100 + ProfitPct) * price
        /\ forecast # "good"
        /\ offered # {} => price <= Max({prices[s] : s \in cheap})
        /\ 100 * Rate * (Start(Min(F)) - t) <= MaxOf(110 * need, 200 * Rate)

(***************************************************************************)
(* The cheap slot that is running, and the price for a discharge.          *)
(***************************************************************************)
\* A full battery does not charge in a valley, nor does one that expects PV.
ValleyRule(t, e) ==
    /\ e < Capacity /\ 5 * e < 4 * Capacity
    /\ Scaled(prices[Slot(t)], Remaining(t)) <= ValleyThreshold(Remaining(t))
    /\ forecast # "good"

ValleyPower == IF forecast = "mixed" THEN (80 * Rate) \div 100 ELSE Rate

\* Dearer than the average of the slots that remain, and dear enough.
DischargePrice(t) ==
    LET S == Remaining(t)
        price == prices[Slot(t)]
    IN  /\ Cardinality(S) > 1 => Cardinality(S) * price > Total(S)
        /\ \/ 100 * Scaled(price, S) >= DischargeThreshold(S)
           \/ price >= VeryExpensive

(***************************************************************************)
(* What a cycle does.  A learned plan that waits holds back the other      *)
(* charges; one near the maximum is not used, and one whose window is      *)
(* active stands back when discharging pays.                               *)
(***************************************************************************)
UsableNeed(p, e) == ready /\ p.required > 0 /\ e < Capacity - NearMax

NoCharge == [rule |-> "none", power |-> 0]

\* The priorities of the strategy adapter; classic is only as urgent as a
\* forced learned charge while nothing is known of the PV.
Forced(p) == p.why \in {"latest_start", "too_close"}
LearnedPriority(p) == IF Forced(p) THEN 650 ELSE 640
ClassicPriority == IF forecast = "unknown" THEN 650 ELSE 630

Candidates(t, e, p, classic, reserve) ==
    LET usable == UsableNeed(p, e)
        free == ~(usable /\ p.mode = "wait")
        discharge == e > 0 /\ DischargePrice(t)
        Offer(rule, power, priority, order, offered) ==
            {c \in {[rule |-> rule, power |-> power, priority |-> priority,
                     order |-> order]} : offered}
    IN  Offer("learned", p.power, LearnedPriority(p), 1,
              usable /\ p.mode = "charge" /\ (Forced(p) \/ ~discharge))
            \cup Offer("classic", Rate, ClassicPriority, 2, classic /\ free)
            \cup Offer("reserve", Rate, 610, 3, reserve /\ free)
            \cup Offer("valley", ValleyPower, 620, 4, ValleyRule(t, e) /\ free)
            \cup Offer("discharge", 0, 430, 5, discharge)

\* The highest priority wins, at a tie the first of the rules.
Decide(C) ==
    LET first == CHOOSE c \in C : \A o \in C :
                    \/ c.priority > o.priority
                    \/ c.priority = o.priority /\ c.order <= o.order
    IN  IF C = {} THEN NoCharge ELSE [rule |-> first.rule, power |-> first.power]

PlanCycle(t, e) ==
    LET why == ReservePermission(e)
        P == Peaks(t)
        p == BuildPlan(t, e, P)
    IN  /\ allowed' = (why # "none")
        /\ plan' = p
        /\ charge' = Decide(Candidates(t, e, p, ClassicRule(t, e, P), ReserveRule(t, e, why, P)))

PlanInit ==
    /\ prices \in [0..(Slots - 1) -> SlotPrices]
    /\ load \in HouseLoads /\ forecast \in Forecasts /\ ready \in BOOLEAN
    /\ tick = 0 /\ stored \in Energies
    /\ allowed = FALSE /\ plan = NoPlan /\ charge = NoCharge

\* The first cycle of the day.
Begin == plan = NoPlan /\ UNCHANGED <<tick, stored>>

\* The charge runs for a tick: the grid carries the house.
Charge ==
    /\ plan # NoPlan /\ charge.power > 0 /\ tick + 1 < 2 * Slots
    /\ tick' = tick + 1 /\ stored' = MinOf(Capacity, stored + charge.power)

\* A discharge carries the house; otherwise the battery carries it or another
\* rule leaves it idle.  PV that was forecast may arrive.
DischargeOrIdle ==
    /\ plan # NoPlan /\ charge.power = 0 /\ tick + 1 < 2 * Slots
    /\ tick' = tick + 1
    /\ \E covered \in {TRUE, charge.rule = "discharge"},
          pv \in {0, IF forecast \in {"good", "mixed"} THEN 1 ELSE 0} :
        stored' = MinOf(Capacity, MaxOf(0, stored - (IF covered THEN load ELSE 0) + pv))

\* Every step ends with a cycle, which decides anew.
PlanNext ==
    /\ Begin \/ Charge \/ DischargeOrIdle
    /\ PlanCycle(tick', stored')
    /\ UNCHANGED dayVars

PlanSpec == PlanInit /\ [][PlanNext]_planVars

-----------------------------------------------------------------------------
(***************************************************************************)
(* Type correctness, and what the plans of a cycle promise.                *)
(***************************************************************************)
PlanTypeOK ==
    /\ prices \in [0..(Slots - 1) -> SlotPrices] /\ tick \in 0..(2 * Slots)
    /\ stored \in 0..Capacity /\ allowed \in BOOLEAN
    /\ plan.mode \in {"none", "ready", "wait", "charge"}
    /\ charge \in [rule : {"none", "learned", "classic", "reserve", "valley", "discharge"},
                   power : 0..Rate]

\* A deadline "before the peak" lies behind the end of the peak that is
\* running (build_learned_charge_plan, choose_deadline): between now and the
\* deadline there is a slot that is no peak.
DeadlineBehindActivePeak ==
    plan.reason = "peak" =>
        LET P == Peaks(tick) IN
        /\ plan.deadline > tick /\ plan.coverage > plan.deadline
        /\ Slot(plan.deadline) \in P
        /\ \E s \in Slot(tick)..(Slot(plan.deadline) - 1) : s \notin P

\* The reserve charge buys now only if the cheaper slots before the next peak
\* cannot hold the missing energy, or if time runs out (ReserveChargeRule,
\* _reserve_charge_window).
ReservePatient ==
    charge.rule = "reserve" =>
        LET Q == ReservePeaks(tick, Peaks(tick))
            gap == ReserveTarget(ReservePermission(stored)) - stored
            cheaper == {s \in Before(tick, Q) : prices[s] < prices[Slot(tick)]}
        IN  \/ Urgent(tick, gap, Min(Ahead(tick, Q)), Expected(Q))
            \/ Sum(cheaper, tick) < gap

Optional == {"classic", "reserve", "valley"}

\* While a learned plan waits no grid charge runs, and a charge nothing forces
\* is never bought at a price at which the battery discharges: charging and
\* discharging do not alternate within a slot.  A valley that costs nothing, or
\* one without a discount on the average, may be worth a discharge all the same.
WaitHolds ==
    /\ ready /\ plan.mode = "wait" /\ stored < Capacity - NearMax => charge.power = 0
    /\ \/ charge.rule = "reserve"
       \/ charge.rule \in Optional /\ ValleyPct < 100 /\ prices[Slot(tick)] > 0
       => Slot(tick) \notin Peaks(tick) /\ ~DischargePrice(tick)

PlansSound == PlanTypeOK /\ DeadlineBehindActivePeak /\ ReservePatient /\ WaitHolds

\* The energy the plan asks for can still be stored before its deadline.
Fits(t, p) == t + CeilDiv(p.required, Rate) <= p.deadline

\* Besides the charge the house takes no more, and PV brings no less, than was
\* learned; from a plan that is to fill the battery the house takes nothing.
AsExpected ==
    /\ stored' - stored >= charge.power + Credit(plan.deadline - tick)
                             - Credit(plan.deadline - tick') - load
    /\ plan.required = Capacity - stored => stored' >= stored

SamePeak == plan'.deadline = plan.deadline /\ plan'.coverage = plan.coverage
            /\ plan'.reason = plan.reason

\* A learned plan that is used and can be kept is never put off until it cannot:
\* as long as its deadline stands and the day runs as learned, a plan that fits
\* before the deadline, and into the longest window, still fits in the next
\* cycle, although every cycle chooses the window anew, may wait for a cheaper
\* one and spreads the power over it.
LearnedKeepsReach ==
    [][UsableNeed(plan, stored) /\ plan.required <= 2 * Rate * SlotCap
        /\ Fits(tick, plan) /\ SamePeak /\ AsExpected
        => Fits(tick', plan') \/ stored' >= Capacity - NearMax]_planVars

\* A window that was announced does not run away: while the need and the
\* deadline stand, the start a waiting plan has named stays where it is when
\* old price slots expire (optimize_charge_window).
WindowStands ==
    [][plan.mode = "wait" /\ SamePeak /\ plan'.required = plan.required
        => plan'.start = plan.start]_planVars
=============================================================================
