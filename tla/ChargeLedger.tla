---------------------------- MODULE ChargeLedger ----------------------------
(***************************************************************************)
(* The economic charge ledger of the coordinator: the state of charge that *)
(* may count (soc_plausibility.py, soc_sensor_grace.py), the evidence of   *)
(* what a charge costs until the next change of the state of charge        *)
(* (charge_economics.py), the average price of the energy charged and its  *)
(* reset at the minimum (coordinator.py, _async_update_data).              *)
(*                                                                         *)
(* The state of charge moves in steps of the outlier tolerance, at most    *)
(* one step a cycle.  An amount of energy is only none or some, and a      *)
(* mixed price is the set of prices it is mixed from: whatever the         *)
(* weights, it lies between them.                                          *)
(***************************************************************************)
EXTENDS Integers

CONSTANTS Full,         \* levels of the state of charge are 0..Full
          Minimum,      \* soc_min
          GridPrices,   \* prices of imported energy, not zero
          FeedIn,       \* feed_in_tariff
          Confirm,      \* confirming cycles of an outlier and of the reset: 3
          Grace,        \* SOC_SENSOR_GAP_GRACE_SECONDS, in cycles
          Continuous,   \* SOC_OUTLIER_MAX_CONTINUOUS_SECONDS, in cycles
          EvidenceAge,  \* max_age_seconds of the evidence, in cycles
          Gaps,         \* cycles from one sample to the next
          Far,          \* level from which a transient zero is told from a real one
          MaxEvents,    \* bound on transient samples, gaps and outages
          None

ASSUME LedgerAssumption ==
  /\ Full \in Nat /\ {Minimum, Far} \subseteq 0..Full /\ Confirm \in Nat \ {0}
  /\ {Grace, Continuous, EvidenceAge, MaxEvents} \subseteq Nat
  /\ Gaps \subseteq Nat \ {0} /\ None \notin Nat
  /\ Far > 2   \* a transient zero is beyond the tolerance of the next cycle

VARIABLES soc,       \* the battery's true state of charge
          previous,  \* prev_soc
          age,       \* cycles since soc_accounting_last_accepted_at, None when unset
          pending,   \* soc_outlier_pending_soc and _count
          low,       \* trade_soc_min_reset_count
          below,     \* trade_cycle_below_soc_min
          average,   \* trade_avg_charge_price: prices in the average, {} when None
          charged,   \* trade_charged_kwh is positive
          evidence,  \* pending_charge_price_evidence: prices and age, or None
          paid,      \* prices charged at since the ledger was cleared (history)
          recent,    \* prices charged at since a change of prev_soc was last booked (history)
          steady,    \* consecutive equal readings and their level (history)
          lows,      \* consecutive readings not above the minimum (history)
          checked,   \* prev_soc is above the minimum, or came from there in steps
                     \* of consecutive cycles (history)
          cleared,   \* this cycle emptied a ledger with energy in it (history)
          events

ledgerVars == <<soc, previous, age, pending, low, below, average, charged, evidence,
                paid, recent, steady, lows, checked, cleared, events>>

Levels == 0..Full
Prices == GridPrices \cup {FeedIn, 0}
Capped(n, m) == IF n > m THEN m ELSE n
Distance(a, b) == IF a > b THEN a - b ELSE b - a

NoPending == [soc |-> None, count |-> 0]

LedgerInit ==
  /\ soc \in Levels /\ previous = None /\ age = None /\ pending = NoPending
  /\ low = 0 /\ below = FALSE
  /\ average = {} /\ charged = FALSE /\ evidence = None
  /\ paid = {} /\ recent = {} /\ steady = [soc |-> None, count |-> 0]
  /\ lows = 0 /\ checked = FALSE /\ cleared = FALSE /\ events = 0

(***************************************************************************)
(* evaluate_soc_for_accounting for a reading, `at` cycles after the last   *)
(* accepted one                                                            *)
(***************************************************************************)
Accepts(reading) == [soc |-> reading, accepted |-> TRUE, pending |-> NoPending]

PendingCount(reading) ==
  IF pending.soc = reading THEN Capped(pending.count + 1, Confirm) ELSE 1

Evaluate(reading, at) ==
  IF previous = None \/ at > Continuous THEN Accepts(reading)
  ELSE IF Distance(reading, previous) <= 1 + at THEN Accepts(reading)
  ELSE IF PendingCount(reading) >= Confirm THEN Accepts(reading)
  ELSE [soc |-> previous, accepted |-> FALSE,
        pending |-> [soc |-> reading, count |-> PendingCount(reading)]]

\* may_reuse_cached_soc_during_gap: strictly inside the window, for a short time
MayReuse(at) == previous # None /\ at <= Grace /\ previous > Minimum /\ previous < Full

Held == [soc |-> previous, accepted |-> FALSE, pending |-> pending]

(***************************************************************************)
(* trade_soc_min_reset_state                                               *)
(***************************************************************************)
LowCount(a) == IF a > Minimum THEN 0
               ELSE IF below THEN Confirm ELSE Capped(low + 1, Confirm)

Confirmed(a) == a <= Minimum /\ (below \/ LowCount(a) >= Confirm)

(***************************************************************************)
(* classify_charge_pricing: the prices of the power that charges           *)
(***************************************************************************)
Pricing(mode, source, price) ==
  IF mode # "charge" THEN {}
  ELSE IF source = "pv" \/ price = None THEN {FeedIn}  \* export, low import, no price
  ELSE IF source = "grid" THEN {price}
  ELSE {price, FeedIn}

\* recent_charge_evidence, `dt` later
Recent(e, dt) == IF e = None THEN None
                 ELSE IF e.age + dt > EvidenceAge THEN None
                 ELSE [e EXCEPT !.age = @ + dt]

\* add_charge_evidence
WithSample(e, prices) ==
  IF prices = {} THEN e
  ELSE [prices |-> (IF e = None THEN {} ELSE e.prices) \cup prices, age |-> 0]

\* pricing_from_charge_evidence, or the present pricing
Applied(e, prices) == IF e = None THEN prices ELSE e.prices

(***************************************************************************)
(* One cycle                                                               *)
(***************************************************************************)
\* Books the change of the state of charge from `previous` to a: what is left
\* of average, charged and evidence e, after the ledger was cleared or not
Mixed(avg, some, prices) == (IF some THEN avg ELSE {}) \cup prices

\* defect: evidence survives a discharge
KeptEvidence(e) == e

EvidenceAfterDischarge(e) == None

Bootstrap(avg, some, prices, mode, source) ==
  /\ mode = "charge" /\ source # "pv" /\ prices # {}
  /\ ~some /\ (avg = {} \/ avg = {0})

Raised(avg, e, prices, isBelow, some, mode, source) ==
  LET applied == Applied(e, prices)
      counts  == applied # {} /\ ~isBelow
  IN /\ charged' = (counts \/ some)
     /\ average' = IF counts THEN Mixed(avg, some, applied)
                   ELSE IF Bootstrap(avg, some, applied, mode, source) THEN applied
                   ELSE avg
     /\ evidence' = None

Lowered(avg, e, some, mode) ==
  /\ \E left \in BOOLEAN :         \* part of the energy or all of it was sold
       /\ left => some
       /\ mode # "discharge" => left = some
       /\ charged' = left
  /\ average' = avg
  /\ evidence' = EvidenceAfterDischarge(e)

Level(avg, e, prices, some, mode, source) ==
  /\ charged' = some
  /\ average' = IF Bootstrap(avg, some, prices, mode, source) THEN prices ELSE avg
  /\ evidence' = e

Book(d, dt, raw, mode, source, price) ==
  LET a      == d.soc
      reset  == Confirmed(a)
      prices == Pricing(mode, source, price)
      some   == charged /\ ~reset
      avg    == IF reset THEN {0} ELSE average
      kept   == Recent(IF reset THEN None ELSE evidence, dt)
      e      == WithSample(kept, prices)
      delta  == IF d.accepted /\ previous # None THEN a - previous ELSE 0
  IN /\ low' = LowCount(a)
     /\ below' = (reset \/ (below /\ raw <= Minimum))
     /\ \/ delta > 0 /\ Raised(avg, e, prices, below', some, mode, source)
        \/ delta < 0 /\ Lowered(avg, e, some, mode)
        \/ delta = 0 /\ Level(avg, e, prices, some, mode, source)
     /\ cleared' = (reset /\ charged)
     /\ paid' = (IF reset THEN {} ELSE paid) \cup prices
     /\ recent' = IF delta # 0 THEN {} ELSE (IF reset THEN {} ELSE recent) \cup prices

\* A cycle that ends early, in safe idle or with the output held over a gap of
\* the grid reading: prev_soc moves and the reset is done, but the change of the
\* state of charge is not booked and evidence is not dropped.
Unbooked(d, dt, raw) ==
  LET reset == Confirmed(d.soc)
  IN /\ low' = LowCount(d.soc)
     /\ below' = (reset \/ (below /\ raw <= Minimum))
     /\ charged' = (charged /\ ~reset)
     /\ average' = IF reset THEN {0} ELSE average
     /\ evidence' = Recent(IF reset THEN None ELSE evidence, dt)
     /\ cleared' = (reset /\ charged)
     /\ paid' = IF reset THEN {} ELSE paid
     /\ recent' = IF reset THEN {} ELSE recent

Accounts(d, dt, raw, mode, source, price) ==
  Book(d, dt, raw, mode, source, price) \/ Unbooked(d, dt, raw)

\* A cycle with the reading `raw`
Read(dt, raw, mode, source, price) ==
  LET at == IF age = None THEN None ELSE age + dt
      d  == Evaluate(raw, at)
  IN /\ Accounts(d, dt, raw, mode, source, price)
     /\ pending' = d.pending
     /\ checked' = IF ~d.accepted THEN checked
                   ELSE \/ raw > Minimum
                        \/ checked /\ at = 1 /\ Distance(raw, previous) <= 1 + at
     /\ previous' = IF d.accepted THEN d.soc ELSE previous
     /\ age' = IF d.accepted THEN 0 ELSE Capped(at, Continuous + 1)
     /\ steady' = [soc |-> raw,
                   count |-> IF steady.soc = raw THEN Capped(steady.count + 1, Confirm)
                             ELSE 1]
     /\ lows' = IF raw > Minimum THEN 0 ELSE Capped(lows + 1, Confirm)

\* A cycle without reading, within the grace of the last one
Reuse(mode, source, price) ==
  /\ age # None /\ MayReuse(age + 1) /\ mode # "idle"
  /\ Accounts(Held, 1, previous, mode, source, price)
  /\ age' = age + 1
  /\ UNCHANGED <<previous, pending, checked, steady, lows>>

\* Cycles without a state of charge (soc_invalid), or no program at all
Missed(dt) ==
  /\ age' = IF age = None THEN None ELSE Capped(age + dt, Continuous + 1)
  /\ evidence' = Recent(evidence, dt)
  /\ cleared' = FALSE
  /\ UNCHANGED <<previous, pending, low, below, average, charged, paid, recent,
                 steady, lows, checked>>

Trouble == events < MaxEvents /\ events' = events + 1

Moves(mode) == CASE mode = "charge" -> {soc, soc + 1}
                 [] mode = "discharge" -> {soc, soc - 1}
                 [] OTHER -> {soc}

\* The battery does what the mode says, and the cycle reads it
Cycle(mode, source, price) ==
  /\ soc' \in Moves(mode) \cap Levels
  /\ Read(1, soc', mode, source, price)
  /\ UNCHANGED events

\* ... reads a transient zero instead, far from what the battery really has
Transient(mode, source, price) ==
  /\ Trouble /\ soc >= Far /\ soc' = soc
  /\ Read(1, 0, mode, source, price)

\* ... has no reading and reuses the last one
Gap(mode, source, price) ==
  /\ Trouble /\ soc' \in Moves(mode) \cap Levels
  /\ Reuse(mode, source, price)

\* An outage or a restart: the state of charge may have moved meanwhile
Outage(dt) ==
  /\ Trouble /\ Missed(dt)
  /\ soc' \in {l \in Levels : Distance(l, soc) <= dt}

LedgerNext ==
  \/ \E mode \in {"charge", "discharge", "idle"}, source \in {"pv", "grid", "mixed"},
        price \in GridPrices \cup {None} :
       \/ Cycle(mode, source, price)
       \/ Transient(mode, source, price)
       \/ Gap(mode, source, price)
  \/ \E dt \in Gaps : Outage(dt)

LedgerSpec == LedgerInit /\ [][LedgerNext]_ledgerVars

(***************************************************************************)
(* Properties                                                              *)
(***************************************************************************)
LedgerTypeOK ==
  /\ soc \in Levels /\ previous \in Levels \cup {None}
  /\ pending.count \in 0..Confirm /\ low \in 0..Confirm
  /\ average \subseteq Prices
  /\ evidence = None \/ (evidence.prices \subseteq Prices /\ evidence.age <= EvidenceAge)

\* The average price of the energy in the ledger is made of prices that applied
\* while the battery charged since the ledger was cleared, however late the
\* state of charge moved; and what a coming change of the state of charge will
\* be priced with was charged since a change was last booked.
PricesPaid ==
  /\ charged => average # {} /\ average \subseteq paid
  /\ evidence # None => evidence.prices \subseteq recent

\* A reading that stays is believed after three cycles: plausibility never
\* locks the ledger on to a state of charge the battery has left.
SteadyBelieved == steady.count >= Confirm => previous = steady.soc

\* The ledger is cleared only after the reading was low for three cycles, unless
\* the low value was taken over after an interruption or an outlier, and did not
\* come in steps of consecutive cycles from a value above the minimum.
ClearedWhenLow == cleared => lows >= Confirm \/ ~checked

LedgerSound == LedgerTypeOK /\ PricesPaid /\ SteadyBelieved /\ ClearedWhenLow

\* "Never carry charge evidence across a discharge interval" (coordinator.py:7926);
\* cycles that end early do.
EvidenceEndsWithDischarge ==
  [][previous # None /\ previous' < previous => evidence' = None]_ledgerVars

\* "Confirm a real SoC-min event without trusting one transient sample.  Some
\* battery integrations briefly expose 0 percent while their entities refresh.
\* Clearing the economic charge ledger on that single sample loses the average
\* charge price permanently." (charge_economics.py:23)
TransientKeepsLedger == cleared => lows > 0
=============================================================================
