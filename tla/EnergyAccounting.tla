-------------------------- MODULE EnergyAccounting --------------------------
(***************************************************************************)
(* What economics.py counts: EnergyAccumulator turns the power samples of  *)
(* the cycles into daily and lifetime energy, EconomicsEngine values that  *)
(* energy with the prices of the sample, and the coordinator keeps both    *)
(* across midnight, gaps, restarts, missing prices and another currency    *)
(* (coordinator.py, _load and _async_update_data).                         *)
(*                                                                         *)
(* One unit of power flows for one tick of the clock: energies and values  *)
(* are integers.  A cycle that dies before it saves is a restart from the  *)
(* state before it.                                                        *)
(***************************************************************************)
EXTENDS Integers

CONSTANTS MaxInterval,   \* max_interval_seconds, in ticks
          DayLength,     \* ticks of a day
          MaxTime,       \* bound on the clock
          Intervals,     \* times between two samples
          Samples,       \* sets of flows that may have power at the same time
          ImportPrices,  \* import prices; NoPrice when invalid
          ExportPrices,
          NoPrice,
          NoTime

ASSUME TimeAssumption ==
  /\ {MaxInterval, DayLength, MaxTime} \subseteq Nat \ {0}
  /\ Intervals \subseteq Nat /\ NoTime \notin Nat
ASSUME PriceAssumption ==
  /\ ImportPrices \cup ExportPrices \subseteq Nat \cup {NoPrice} /\ NoPrice \notin Nat
  /\ \E p, q \in ImportPrices \ {NoPrice} :
       \A r \in ImportPrices \ {NoPrice} : p <= r /\ r <= q

VARIABLES now,       \* the clock
          last,      \* _last_sample_at
          day,       \* _day
          energy,    \* bucket -> flow -> energy of the accumulator
          moneyDay,  \* economics_money_day
          money,     \* bucket -> totals of the engine
          seen,      \* the last sample of this run of the program (history)
          awake,     \* time between samples of the same run (history)
          cut,       \* a limited gap was assigned to the present day (history)
          unpriced   \* bucket -> flow -> energy that had no price (history)

energyVars == <<now, last, day, energy, moneyDay, money, seen, awake, cut, unpriced>>

Imported == {"grid_to_battery", "battery_to_home", "native_pv_to_home"}
Exported == {"pv_to_battery", "grid_export", "battery_to_grid"}
Flows == Imported \cup Exported
Buckets == {"daily", "total"}

NoEnergy == [f \in Flows |-> 0]
Plus(a, b) == [f \in DOMAIN a |-> a[f] + b[f]]
DayOf(t) == t \div DayLength
Midnight(t) == DayOf(t) * DayLength

\* to_energy: every flow with power, for the given time
ToEnergy(power, time) == [f \in Flows |-> IF f \in power THEN time ELSE 0]

NoTotals ==
  [grid_charge_kwh |-> 0, grid_charge_cost |-> 0, pv_charge_kwh |-> 0,
   pv_opportunity_cost |-> 0, export_kwh |-> 0, export_revenue |-> 0,
   battery_discharge_kwh |-> 0, battery_discharge_value |-> 0,
   battery_benefit |-> 0, native_kwh |-> 0, native_value |-> 0]

EnergyInit ==
  /\ now = 0 /\ last = NoTime /\ day = NoTime /\ moneyDay = NoTime
  /\ energy = [b \in Buckets |-> NoEnergy]
  /\ money = [b \in Buckets |-> NoTotals]
  /\ seen = NoTime /\ awake = 0 /\ cut = FALSE
  /\ unpriced = [b \in Buckets |-> NoEnergy]

(***************************************************************************)
(* EnergyAccumulator.add_sample                                            *)
(***************************************************************************)
Accounted(elapsed) == IF elapsed > MaxInterval THEN MaxInterval ELSE elapsed

\* defect: an interval over midnight goes to the new day as a whole
WholeToday(t) == Accounted(t - last)

\* the part of the interval up to t that belongs to the day of t: an interval
\* that is accounted in full is divided at midnight, a limited gap is not
Today(t) == IF DayOf(last) # DayOf(t) /\ Accounted(t - last) = t - last
            THEN t - Midnight(t) ELSE Accounted(t - last)

\* the daily bucket as _ensure_day leaves it for the day d
DailyOf(x, d, zero) == IF day = d THEN x ELSE zero

(***************************************************************************)
(* EconomicsEngine: the two record methods value the priceable flows       *)
(***************************************************************************)
Priced(f, imp, exp) == IF f \in Imported THEN imp # NoPrice ELSE exp # NoPrice

Priceable(flows, imp, exp) ==
  [f \in Flows |-> IF Priced(f, imp, exp) THEN flows[f] ELSE 0]

\* _price of a flow that is not there is zero
Value(flows, f, imp, exp) ==
  IF flows[f] = 0 THEN 0 ELSE flows[f] * (IF f \in Imported THEN imp ELSE exp)

RecordGrid(t, flows, imp, exp) ==
  LET V(f) == Value(flows, f, imp, exp)
  IN [t EXCEPT !.grid_charge_kwh = @ + flows["grid_to_battery"],
               !.grid_charge_cost = @ + V("grid_to_battery"),
               !.export_kwh = @ + flows["grid_export"],
               !.export_revenue = @ + V("grid_export"),
               !.battery_discharge_kwh = @ + flows["battery_to_home"],
               !.battery_discharge_value = @ + V("battery_to_home"),
               !.native_kwh = @ + flows["native_pv_to_home"],
               !.native_value = @ + V("native_pv_to_home")]

RecordBattery(t, flows, imp, exp) ==
  LET V(f) == Value(flows, f, imp, exp)
  IN [t EXCEPT !.pv_charge_kwh = @ + flows["pv_to_battery"],
               !.pv_opportunity_cost = @ + V("pv_to_battery"),
               !.battery_discharge_kwh = @ + flows["battery_to_grid"],
               !.battery_discharge_value = @ + V("battery_to_grid"),
               !.battery_benefit = @ + V("battery_to_home") - V("grid_to_battery")
                                     - V("pv_to_battery") + V("battery_to_grid")]

Record(t, flows, imp, exp) ==
  RecordBattery(RecordGrid(t, Priceable(flows, imp, exp), imp, exp),
                Priceable(flows, imp, exp), imp, exp)

\* reset_daily when the day of the energy is not the day of the money
MoneyDaily(d) == IF moneyDay = d THEN money.daily ELSE NoTotals

(***************************************************************************)
(* One cycle's accounting                                                  *)
(***************************************************************************)
\* a sample of the day d: today's and the whole energy of its interval
Account(d, power, today, all, imp, exp) ==
  LET flows == [daily |-> ToEnergy(power, today), total |-> ToEnergy(power, all)]
      Left(b) == [f \in Flows |->
                    flows[b][f] - Priceable(flows[b], imp, exp)[f]]
  IN /\ day' = d
     /\ energy' = [daily |-> Plus(DailyOf(energy.daily, d, NoEnergy), flows.daily),
                   total |-> Plus(energy.total, flows.total)]
     /\ money' = [daily |-> Record(MoneyDaily(d), flows.daily, imp, exp),
                  total |-> Record(money.total, flows.total, imp, exp)]
     /\ moneyDay' = d
     /\ unpriced' = [daily |-> Plus(DailyOf(unpriced.daily, d, NoEnergy), Left("daily")),
                     total |-> Plus(unpriced.total, Left("total"))]

\* the first sample after a start only sets the time base
Baseline(t, imp, exp) ==
  /\ last = NoTime
  /\ Account(DayOf(t), {}, 0, 0, imp, exp)
  /\ last' = t /\ cut' = (cut /\ day = DayOf(t))
  /\ seen' = t /\ UNCHANGED awake

\* a sample of the same or an earlier time changes nothing
Duplicate(t, imp, exp) ==
  /\ last # NoTime /\ t <= last
  /\ Account(day, {}, 0, 0, imp, exp)
  /\ UNCHANGED <<last, seen, awake, cut>>

Interval(t, power, imp, exp) ==
  /\ last # NoTime /\ t > last
  /\ Account(DayOf(t), power, Today(t), Accounted(t - last), imp, exp)
  /\ last' = t /\ seen' = t
  /\ awake' = IF seen = NoTime THEN awake ELSE awake + t - seen
  /\ cut' = ((cut /\ day = DayOf(t)) \/ Accounted(t - last) < t - last)

Sample(dt, power, imp, exp) ==
  /\ now + dt \in 0..MaxTime
  /\ now' = now + dt
  /\ Baseline(now', imp, exp) \/ Duplicate(now', imp, exp)
       \/ Interval(now', power, imp, exp)

\* from_state of both, after dt: the time base is gone, money of another
\* currency as well
Restart(dt, sameCurrency) ==
  /\ now + dt <= MaxTime
  /\ now' = now + dt
  /\ last' = NoTime /\ seen' = NoTime
  /\ IF sameCurrency THEN UNCHANGED <<money, unpriced>>
     ELSE /\ money' = [b \in Buckets |-> NoTotals]
          /\ unpriced' = energy
  /\ UNCHANGED <<day, energy, moneyDay, awake, cut>>

EnergyNext ==
  \/ \E dt \in Intervals, power \in Samples, imp \in ImportPrices, exp \in ExportPrices :
       Sample(dt, power, imp, exp)
  \/ \E dt \in Intervals, same \in BOOLEAN : Restart(dt, same)

EnergySpec == EnergyInit /\ [][EnergyNext]_energyVars

(***************************************************************************)
(* Properties                                                              *)
(***************************************************************************)
EnergyTypeOK ==
  /\ now \in 0..MaxTime /\ last \in 0..MaxTime \cup {NoTime}
  /\ energy \in [Buckets -> [Flows -> Nat]]
  /\ \A b \in Buckets : DOMAIN money[b] = DOMAIN NoTotals

\* No energy is invented: never more than flowed while the program was awake
\* (economics.py: accounting the gap from shutdown until the first new reading
\* would invent energy after restart), and today never more than since midnight
\* unless a limited gap was assigned to today.
EnergySound ==
  /\ EnergyTypeOK
  /\ \A f \in Flows :
       /\ energy.daily[f] <= energy.total[f] /\ energy.total[f] <= awake
       /\ last # NoTime /\ ~cut => energy.daily[f] <= last - Midnight(last)

Kwh(t, f) == CASE f = "grid_to_battery" -> t.grid_charge_kwh
               [] f = "pv_to_battery" -> t.pv_charge_kwh
               [] f = "grid_export" -> t.export_kwh
               [] f = "native_pv_to_home" -> t.native_kwh
               [] OTHER -> t.battery_discharge_kwh

ImportCosts == ImportPrices \ {NoPrice}

\* Money and energy agree, today and since the start: every unit of energy was
\* valued exactly once, at a price of its interval, or had no price; and the
\* benefit the one method adds up is the discharge value less the charging cost
\* the other one does.
MoneySound ==
  \A b \in Buckets :
    LET t == money[b]  e == energy[b]  u == unpriced[b]
    IN /\ \A f \in {"grid_to_battery", "pv_to_battery", "grid_export", "native_pv_to_home"} :
            Kwh(t, f) + u[f] = e[f]
       /\ t.battery_discharge_kwh + u["battery_to_home"] + u["battery_to_grid"]
            = e["battery_to_home"] + e["battery_to_grid"]
       /\ \E p, q \in ImportCosts :
            /\ p * t.grid_charge_kwh <= t.grid_charge_cost
            /\ t.grid_charge_cost <= q * t.grid_charge_kwh
       /\ t.battery_benefit = t.battery_discharge_value - t.grid_charge_cost
                                - t.pv_opportunity_cost
=============================================================================
