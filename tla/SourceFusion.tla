---------------------------- MODULE SourceFusion ----------------------------
(***************************************************************************)
(* One property of a device that several transports report: the normalizer  *)
(* of each transport keeps the last value with its age (normalizer.py),     *)
(* the fusion remembers whether it was a retained message                   *)
(* (native_source_fusion.py), and the arbiter selects the value that        *)
(* everybody sees (native_read_source.py).                                 *)
(*                                                                         *)
(* A report carries the present value of the device, an implausible raw     *)
(* value, or, when it was retained by the broker, any value it once had.    *)
(* Cloud "state" messages are partial reports whose retain flag is not      *)
(* recorded; that the broker retains no such message is assumed.           *)
(* The Cloud normalizer takes the online state of the discovery and keeps   *)
(* it; the others start with none.                                         *)
(***************************************************************************)
EXTENDS Integers, FiniteSets, FiniteSetsExt

CONSTANTS Preferred,      \* the transport preferred for the device
          Readings,       \* values of the property
          Tolerance,      \* _SAFETY_TOLERANCES of the property
          StaleAfter,     \* stale_after_seconds, in ticks
          MaxDisturbances \* bound on new values, bad reports and silences

ASSUME ReadingsAssumption == Readings \subseteq Nat /\ Tolerance \in Nat
ASSUME StaleAssumption == StaleAfter \in Nat
ASSUME DisturbancesAssumption == MaxDisturbances \in Nat

Cloud == "cloud_mqtt"
Polled == "zensdk"
Sources == {Polled, "local_mqtt", Cloud}

ASSUME PreferredAssumption == Preferred \in Sources
Invalid == -1
NoReading == -2

VARIABLES critical,   \* the property is one of _SAFETY_PROPERTIES
          offline,    \* transports whose normalizer was told: not online
          talking,    \* transports that deliver reports
          actual,     \* the value in the device
          since,      \* reading -> ticks since the device had it
          observed,   \* transport -> what its normalizer keeps
          retained,   \* transport -> _retained_main
          disturbances

fusionVars == <<critical, offline, talking, actual, since, observed, retained, disturbances>>

TooOld == StaleAfter + 1

FusionInit ==
  /\ critical \in BOOLEAN
  /\ offline \in SUBSET {Cloud}
  /\ talking = {}
  /\ actual \in Readings
  /\ since = [v \in Readings |-> IF v = actual THEN 0 ELSE TooOld]
  /\ observed = [t \in Sources |-> [value |-> NoReading, age |-> 0]]
  /\ retained = [t \in Sources |-> FALSE]
  /\ disturbances = 0

(***************************************************************************)
(* What a normalizer says of its value (_value)                            *)
(***************************************************************************)
Validity(t) ==
  LET o == observed[t]
  IN IF t \in offline THEN "offline"
     ELSE IF o.value = NoReading THEN "never_received"
     ELSE IF o.value = Invalid THEN "invalid"
     ELSE IF o.age > StaleAfter THEN "stale" ELSE "valid"

\* _VALIDITY_RANK
ValidityRank ==
  [valid |-> 0, stale |-> 1, offline |-> 2, invalid |-> 3, never_received |-> 6]

(***************************************************************************)
(* NativeReadSourceArbiter.select                                          *)
(***************************************************************************)
\* defect: a stale value of one transport still takes part
UsableWhenever == {t \in Sources : Validity(t) \in {"valid", "stale"}}

Usable == {t \in Sources : Validity(t) = "valid"}

\* defect: retained values count like fresh ones
FreshOrRetained == Usable

Fresh == {t \in Usable : ~retained[t]}

Pool == IF Fresh # {} THEN Fresh ELSE Usable

Spread == LET values == {observed[t].value : t \in Pool} IN Max(values) - Min(values)

\* The key of ranked: the validity, then fresh before retained, then the
\* priority, with the preferred transport first.
Priority(t) ==
  IF t = Preferred THEN 0 ELSE IF t = Polled THEN 1 ELSE IF t = Cloud THEN 3 ELSE 2

SortKey(t) ==
  8 * ValidityRank[Validity(t)] + (IF retained[t] THEN 4 ELSE 0) + Priority(t)

First(ts) == CHOOSE t \in ts : \A u \in ts : SortKey(t) <= SortKey(u)

Selected ==
  IF Usable = {} THEN [validity |-> Validity(First(Sources)), value |-> NoReading]
  ELSE IF critical /\ Spread > Tolerance THEN [validity |-> "invalid", value |-> NoReading]
  ELSE [validity |-> IF Fresh = {} THEN "stale" ELSE "valid",
        value |-> observed[First(Pool)].value]

(***************************************************************************)
(* Reports                                                                 *)
(***************************************************************************)
Remember(t, value, isRetained) ==
  /\ observed' = [observed EXCEPT ![t] = [value |-> value, age |-> 0]]
  /\ retained' = [retained EXCEPT ![t] = isRetained]
  /\ UNCHANGED <<critical, offline, actual, since>>

Disturb == disturbances < MaxDisturbances /\ disturbances' = disturbances + 1

PropertiesReport(t) ==
  /\ t \in talking
  /\ Remember(t, actual, FALSE)
  /\ UNCHANGED <<talking, disturbances>>

\* a raw value of another type, not finite or out of range
ImplausibleReport(t) ==
  /\ t \in talking /\ Disturb
  /\ Remember(t, Invalid, FALSE)
  /\ UNCHANGED talking

\* the retain flag stays what the last properties report left
StateReport ==
  /\ Cloud \in talking
  /\ Remember(Cloud, actual, retained[Cloud])
  /\ UNCHANGED <<talking, disturbances>>

(***************************************************************************)
(* The environment: a transport that delivers does so within every tick     *)
(***************************************************************************)
Subscribe(t) ==
  /\ t \notin talking
  /\ talking' = talking \cup {t}
  /\ \/ UNCHANGED <<critical, offline, actual, since, observed, retained>>
     \/ t # Polled /\ \E v \in Readings : Remember(t, v, TRUE)
  /\ UNCHANGED disturbances

Silence(t) ==
  /\ t \in talking /\ talking' = talking \ {t} /\ Disturb
  /\ UNCHANGED <<critical, offline, actual, since, observed, retained>>

ValueChanges ==
  /\ Disturb
  /\ actual' \in Readings \ {actual}
  /\ since' = [since EXCEPT ![actual'] = 0]
  /\ UNCHANGED <<critical, offline, talking, observed, retained>>

FusionTick ==
  /\ \A t \in talking : observed[t].age = 0 /\ observed[t].value # NoReading
  /\ observed' = [t \in Sources |-> [observed[t] EXCEPT !.age = Min({@ + 1, TooOld})]]
  /\ since' = [v \in Readings |-> IF v = actual THEN 0 ELSE Min({since[v] + 1, TooOld})]
  /\ UNCHANGED <<critical, offline, talking, actual, retained, disturbances>>

FusionNext ==
  \/ \E t \in Sources :
       PropertiesReport(t) \/ ImplausibleReport(t) \/ Subscribe(t) \/ Silence(t)
  \/ StateReport \/ ValueChanges \/ FusionTick

\* Who delivers reports its properties again and again, and time passes.
FusionFair ==
  /\ \A t \in Sources : WF_fusionVars(PropertiesReport(t))
  /\ WF_fusionVars(FusionTick)

FusionSpec == FusionInit /\ [][FusionNext]_fusionVars /\ FusionFair

(***************************************************************************)
(* Properties                                                              *)
(***************************************************************************)
FusionTypeOK ==
  /\ critical \in BOOLEAN /\ offline \subseteq {Cloud} /\ talking \subseteq Sources
  /\ actual \in Readings /\ since \in [Readings -> 0..TooOld]
  /\ observed \in [Sources -> [value : Readings \cup {Invalid, NoReading},
                                  age : 0..TooOld]]
  /\ retained \in [Sources -> BOOLEAN]
  /\ disturbances \in 0..MaxDisturbances

\* "retained_value_not_fresh" (native_read_source.py): a value shown as valid
\* was in the device within the freshness window, although transports come and
\* go, replay retained values with a new time stamp, and disagree.
ShownWasTrue ==
  FusionTypeOK /\
  (Selected.validity = "valid" => since[Selected.value] <= StaleAfter)

\* Once a transport that is not offline keeps delivering, the property becomes
\* valid and follows the device for good, whatever other transports that fell
\* silent, replay or flap have kept.
ShownRecovers ==
  \A t \in Sources :
    <>[](t \in talking /\ t \notin offline)
      => <>[](Selected.validity = "valid" /\ Selected.value = actual)
=============================================================================
