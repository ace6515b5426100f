--------------------------- MODULE SeasonDetection ---------------------------
(***************************************************************************)
(* Whether the coordinator takes the days for summer or winter              *)
(* (coordinator.py, _season_detection): a bounded tendency, moved by PV and *)
(* export, with a dead band around zero.  The thresholds of the signals,    *)
(* derived from the installed PV, appear as the signals themselves.         *)
(***************************************************************************)
EXTENDS Integers, FiniteSetsExt

CONSTANTS
  Turn,       \* 30: beyond it the season changes
  Limit,      \* 100: the tendency goes no further
  DayStart, DayEnd, DayHours   \* hours of the winter evaluation, of a day

ASSUME SeasonAssumption ==
  /\ {Turn, Limit, DayStart, DayEnd, DayHours} \subseteq Nat /\ Turn < Limit
  /\ 0 < DayStart /\ DayStart < DayEnd /\ DayEnd < DayHours

VARIABLES
  season,     \* season_mode
  tendency,   \* season_counter
  hour,       \* local time
  against     \* evaluated cycles since the tendency last confirmed the season

seasonVars == <<season, tendency, hour, against>>

SeasonIdle == season = "winter" /\ tendency = 0 /\ against = 0

SeasonInit == SeasonIdle /\ hour = 0

Clamped(n) == Max({-Limit, Min({n, Limit})})

Evaluated == DayStart <= hour /\ hour < DayEnd

(* defect: darkness counts as winter.                                       *)
MovedAtNight(signal) ==
  CASE signal = "summer" -> tendency + 1
    [] signal = "winter" -> tendency - 1
    [] signal = "none" /\ Evaluated ->
         tendency + IF tendency > 0 THEN -1 ELSE IF tendency < 0 THEN 1 ELSE 0
    [] signal = "none" /\ ~Evaluated -> tendency

(* The tendency moves towards the signal; winter, and the decay towards     *)
(* neutral, count only while the day is evaluated.                          *)
Moved(signal) ==
  CASE signal = "summer" -> tendency + 1
    [] signal = "winter" /\ Evaluated -> tendency - 1
    [] signal = "none" /\ Evaluated ->
         tendency + IF tendency > 0 THEN -1 ELSE IF tendency < 0 THEN 1 ELSE 0
    [] signal # "summer" /\ ~Evaluated -> tendency

SeasonOf(n) ==
  IF n > Turn THEN "summer" ELSE IF n < -Turn THEN "winter" ELSE season

(* One cycle; there is no summer signal in the night.                       *)
SeasonCycle ==
  \E signal \in {"summer", "winter", "none"} :
    /\ signal = "summer" => hour > 0
    /\ LET n == Clamped(Moved(signal))
       IN  /\ tendency' = n /\ season' = SeasonOf(n)
           /\ against' = IF n > Turn \/ n < -Turn THEN 0
                         ELSE IF Evaluated THEN Min({against + 1, 2 * Turn + 1})
                         ELSE against
    /\ hour' \in {hour, (hour + 1) % DayHours}

SeasonNext == SeasonCycle

-----------------------------------------------------------------------------
SeasonTypeOK ==
  /\ season \in {"summer", "winter"} /\ tendency \in (-Limit)..Limit
  /\ hour \in 0..(DayHours - 1)

(* A summer is not undone by darkness (the comment at coordinator.py:5553): *)
(* it ends only after so many cycles of evaluated daytime that the tendency *)
(* can have crossed the whole dead band, and never in the night.            *)
SummerOutlastsNights ==
  [][season = "summer" /\ season' = "winter" =>
       Evaluated /\ against >= 2 * Turn]_seasonVars
=============================================================================
