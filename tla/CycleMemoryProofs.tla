------------------------- MODULE CycleMemoryProofs -------------------------
(***************************************************************************)
(* What a cycle of the coordinator keeps for later ones is sound, whatever  *)
(* the prices, powers, limits and times: proofs about EnergyAccounting,     *)
(* ChargeLedger, ChargeSplit, PvChargeLatch, HousePassthrough,              *)
(* SeasonDetection, CommandEffectiveness and PricePlan, and their           *)
(* composition in CycleMemory.  Each part has an inductive invariant of its own; the       *)
(* theorems at the end put them together.                                   *)
(***************************************************************************)
EXTENDS CycleMemory, FiniteSums, TLAPS

-----------------------------------------------------------------------------
(* Least and greatest of a few numbers                                      *)

\* The least of two numbers.
LEMMA PairMin ==
  ASSUME NEW a \in Int, NEW b \in Int
  PROVE  Min({a, b}) = IF a <= b THEN a ELSE b
<1> DEFINE m == IF a <= b THEN a ELSE b
<1>1. m \in {a, b} /\ \A y \in {a, b} : m <= y
  OBVIOUS
<1>2. \A x \in {a, b} : (\A y \in {a, b} : x <= y) => x = m
  BY <1>1
<1> QED BY <1>1, <1>2 DEF Min

\* The greatest of two numbers.
LEMMA PairMax ==
  ASSUME NEW a \in Int, NEW b \in Int
  PROVE  Max({a, b}) = IF a >= b THEN a ELSE b
<1> DEFINE m == IF a >= b THEN a ELSE b
<1>1. m \in {a, b} /\ \A y \in {a, b} : m >= y
  OBVIOUS
<1>2. \A x \in {a, b} : (\A y \in {a, b} : x >= y) => x = m
  BY <1>1
<1> QED BY <1>1, <1>2 DEF Max

\* The least of three numbers is one of them.
LEMMA TripleMin ==
  ASSUME NEW a \in Int, NEW b \in Int, NEW c \in Int
  PROVE  Min({a, b, c}) \in {a, b, c}
<1> DEFINE S == {a, b, c}
           m == IF a <= b THEN IF a <= c THEN a ELSE c
                ELSE IF b <= c THEN b ELSE c
<1>1. m \in S /\ \A y \in S : m <= y
  OBVIOUS
<1>2. Min(S) \in S
  BY <1>1 DEF Min
<1> QED BY <1>2

\* The greatest of three numbers is none of the smaller ones.
LEMMA TripleMax ==
  ASSUME NEW a \in Int, NEW b \in Int, NEW c \in Int
  PROVE  /\ Max({a, b, c}) \in Int
         /\ Max({a, b, c}) >= a /\ Max({a, b, c}) >= b /\ Max({a, b, c}) >= c
<1> DEFINE S == {a, b, c}
           m == IF a >= b THEN IF a >= c THEN a ELSE c
                ELSE IF b >= c THEN b ELSE c
<1>1. m \in S /\ \A y \in S : m >= y
  OBVIOUS
<1>2. Max(S) \in S /\ \A y \in S : Max(S) >= y
  BY <1>1 DEF Max
<1> QED BY <1>2

-----------------------------------------------------------------------------
(* The season (SeasonDetection).  The tendency needs as many evaluated      *)
(* cycles to cross the dead band as the band is wide: `against` counts them *)
(* while the summer lasts.                                                  *)

SeasonInv ==
  /\ SeasonTypeOK
  /\ against \in 0..(2 * Turn + 1)
  /\ season = "summer" =>
       /\ tendency >= -Turn
       /\ against <= 2 * Turn => tendency + against >= Turn + 1

\* The season that a fresh coordinator assumes satisfies the invariant.
LEMMA SeasonInitInv == SeasonInit => SeasonInv
BY SeasonAssumption DEF SeasonInit, SeasonIdle, SeasonInv, SeasonTypeOK

\* A cycle keeps the invariant, and ends a summer only by daylight and after
\* as many evaluated cycles as the dead band is wide.
LEMMA SeasonStepInv ==
  SeasonInv /\ [SeasonNext]_seasonVars =>
    /\ SeasonInv'
    /\ season = "summer" /\ season' = "winter" => Evaluated /\ against >= 2 * Turn
<1> SUFFICES ASSUME SeasonInv, [SeasonNext]_seasonVars
             PROVE  /\ SeasonInv'
                    /\ season = "summer" /\ season' = "winter" => Evaluated /\ against >= 2 * Turn
  OBVIOUS
<1>0. Turn \in Nat /\ Limit \in Nat /\ Turn < Limit
  BY SeasonAssumption
<1>1. CASE UNCHANGED seasonVars
  BY <1>1 DEF seasonVars, SeasonInv, SeasonTypeOK
<1>2. CASE SeasonCycle
  <2> DEFINE N(signal) == Clamped(Moved(signal))
  <2>1. PICK signal \in {"summer", "winter", "none"} :
          /\ tendency' = N(signal) /\ season' = SeasonOf(N(signal))
          /\ against' = IF N(signal) > Turn \/ N(signal) < -Turn THEN 0
                        ELSE IF Evaluated THEN Min({against + 1, 2 * Turn + 1})
                        ELSE against
    BY <1>2 DEF SeasonCycle
  <2>2. /\ Moved(signal) \in {tendency, tendency + 1, tendency - 1}
        /\ Moved(signal) = tendency - 1 => Evaluated
    BY DEF Moved, SeasonInv, SeasonTypeOK
  <2>3. Moved(signal) \in Int
    BY <2>2 DEF SeasonInv, SeasonTypeOK
  <2>4. N(signal) = IF Moved(signal) > Limit THEN Limit
                    ELSE IF Moved(signal) < -Limit THEN -Limit ELSE Moved(signal)
    <3>1. Min({Moved(signal), Limit}) = IF Moved(signal) <= Limit THEN Moved(signal) ELSE Limit
      BY <1>0, <2>3, PairMin
    <3>2. Min({Moved(signal), Limit}) \in Int /\ -Limit \in Int
      BY <1>0, <2>3, <3>1
    <3>3. N(signal) = IF -Limit >= Min({Moved(signal), Limit}) THEN -Limit
                      ELSE Min({Moved(signal), Limit})
      BY <3>2, PairMax DEF Clamped
    <3> QED BY <1>0, <2>3, <3>1, <3>3
  <2>5. Min({against + 1, 2 * Turn + 1}) = IF against <= 2 * Turn THEN against + 1 ELSE 2 * Turn + 1
    BY <1>0, PairMin DEF SeasonInv
  <2>6. hour' \in 0..(DayHours - 1)
    <3>1. DayHours \in Nat /\ DayHours > 0
      BY SeasonAssumption
    <3>2. hour \in 0..(DayHours - 1)
      BY DEF SeasonInv, SeasonTypeOK
    <3>3. (hour + 1) % DayHours \in 0..(DayHours - 1)
      BY <3>1, <3>2
    <3> QED BY <1>2, <3>2, <3>3 DEF SeasonCycle
  <2> HIDE DEF N
  <2>7. N(signal) \in (-Limit)..Limit
    BY <1>0, <2>3, <2>4
  <2>8. season = "summer" => N(signal) >= tendency - 1 /\ (N(signal) < tendency => Evaluated)
    BY <1>0, <2>2, <2>4 DEF SeasonInv, SeasonTypeOK
  <2> QED
    BY <1>0, <2>1, <2>5, <2>6, <2>7, <2>8 DEF SeasonOf, SeasonInv, SeasonTypeOK
<1> QED BY <1>1, <1>2 DEF SeasonNext

-----------------------------------------------------------------------------
(* Commands without effect (CommandEffectiveness).  The counters agree with *)
(* what was observed and repeated.                                          *)

EffectKept ==
  /\ misses = lost /\ tries = repeats
  /\ pause \in 0..Cooldown
  /\ IF retried = NoRetry THEN repeats = 0 /\ pause = Cooldown
     ELSE repeats > 0 /\ pause = retried

EffectInv == EffectSound /\ EffectKept

\* No command is watched at first.
LEMMA EffectInitInv == EffectInit => EffectInv
BY EffectAssumption DEF EffectInit, EffectIdle, EffectInv, EffectSound, EffectTypeOK, EffectKept

\* What a cycle finds of a command keeps the invariant.
LEMMA EffectStepInv == EffectInv /\ [EffectNext]_effectVars => EffectInv'
<1> SUFFICES ASSUME EffectInv, [EffectNext]_effectVars PROVE EffectInv'
  OBVIOUS
<1> USE EffectAssumption
<1>1. CASE UNCHANGED effectVars
  BY <1>1 DEF effectVars, EffectInv, EffectSound, EffectTypeOK, EffectKept
<1>2. CASE EffectNext
  <2>1. PICK f \in Findings, gap \in {1, Jump}, accepted \in BOOLEAN :
          EffectCycle(f, gap, accepted)
    BY <1>2 DEF EffectNext
  <2>2. gap \in Nat /\ gap > 0
    OBVIOUS
  <2> DEFINE old  == IF retried = NoRetry THEN NoRetry ELSE Min({retried + gap, Cooldown})
             v    == Verdict(f, old)
             anew == v \in {"inactive", "monitoring", "effective"}
             sent == v = "retry_due" /\ accepted
  <2>3. /\ heading' = f.want /\ verdict' = v
        /\ misses' = IF Missing(f) /\ ~sent THEN MissesNow ELSE 0
        /\ tries' = IF anew THEN 0 ELSE IF sent THEN tries + 1 ELSE tries
        /\ retried' = IF anew THEN NoRetry ELSE IF sent THEN 0 ELSE old
        /\ lost' = IF Missing(f) /\ ~sent THEN Min({lost + 1, ConfirmCycles}) ELSE 0
        /\ repeats' = IF anew THEN 0 ELSE IF sent THEN repeats + 1 ELSE repeats
        /\ pause' = IF anew THEN Cooldown
                    ELSE IF sent THEN 0 ELSE Min({pause + gap, Cooldown})
        /\ hasty' = (\/ hasty
                     \/ sent /\ lost < ConfirmCycles - 1
                     \/ sent /\ repeats > 0 /\ pause + gap < Cooldown)
    BY <2>1 DEF EffectCycle
  <2>4. /\ misses \in 0..ConfirmCycles /\ lost = misses /\ tries \in 0..MaxRetries
        /\ repeats = tries /\ pause \in 0..Cooldown
        /\ retried \in (0..Cooldown) \cup {NoRetry}
    BY DEF EffectInv, EffectSound, EffectTypeOK, EffectKept
  <2>5. /\ MissesNow = IF misses + 1 <= ConfirmCycles THEN misses + 1 ELSE ConfirmCycles
        /\ Min({lost + 1, ConfirmCycles}) = MissesNow
    BY <2>4, PairMin DEF MissesNow
  <2>6. Min({pause + gap, Cooldown}) = IF pause + gap <= Cooldown THEN pause + gap ELSE Cooldown
    BY <2>2, <2>4, PairMin
  <2>7. retried # NoRetry => old = Min({pause + gap, Cooldown})
    BY <2>4 DEF EffectInv, EffectKept
  <2>8. /\ v = "retry_due" =>
             /\ Missing(f) /\ MissesNow >= ConfirmCycles
             /\ ~(tries >= MaxRetries) /\ ~CoolsDown(old)
        /\ v = "exhausted" => Missing(f) /\ MissesNow >= ConfirmCycles /\ tries >= MaxRetries
        /\ v = "cooldown" => Missing(f) /\ MissesNow >= ConfirmCycles /\ CoolsDown(old)
    BY DEF Verdict
  <2>9. f.want \in {"none", "input", "output"}
    BY DEF Findings
  <2> HIDE DEF v
  <2>10. EffectKept'
    <3>1. misses' = lost' /\ tries' = repeats'
      BY <2>3, <2>4, <2>5
    <3>2. pause' \in 0..Cooldown
      BY <2>3, <2>4, <2>6, <2>2
    <3>3. CASE anew
      BY <3>1, <3>2, <3>3, <2>3 DEF EffectKept
    <3>4. CASE ~anew /\ sent
      BY <3>1, <3>2, <3>4, <2>3, <2>4 DEF EffectKept
    <3>5. CASE ~anew /\ ~sent
      <4>1. retried' = old /\ repeats' = repeats /\ pause' = Min({pause + gap, Cooldown})
        BY <3>5, <2>3
      <4>2. CASE retried = NoRetry
        BY <4>1, <4>2, <3>1, <3>2, <2>2, <2>4, <2>6 DEF EffectInv, EffectKept
      <4>3. CASE retried # NoRetry
        <5>1. old # NoRetry
          BY <4>3, <2>2, <2>4, <2>6, <2>7
        <5> QED BY <4>1, <4>3, <5>1, <3>1, <3>2, <2>7 DEF EffectInv, EffectKept
      <4> QED BY <4>2, <4>3
    <3> QED BY <3>3, <3>4, <3>5
  <2>11. ~hasty'
    <3>1. sent => ~(lost < ConfirmCycles - 1)
      BY <2>4, <2>5, <2>8
    <3>2. sent /\ repeats > 0 => ~(pause + gap < Cooldown)
      <4> SUFFICES ASSUME sent, repeats > 0 PROVE ~(pause + gap < Cooldown)
        OBVIOUS
      <4>1. retried # NoRetry
        BY <2>4 DEF EffectInv, EffectKept
      <4>2. old = Min({pause + gap, Cooldown}) /\ ~CoolsDown(old)
        BY <4>1, <2>7, <2>8
      <4>3. old \in Nat
        BY <4>2, <2>2, <2>4, <2>6
      <4> QED BY <4>2, <4>3, <2>2, <2>4, <2>6 DEF CoolsDown
    <3> QED BY <3>1, <3>2, <2>3 DEF EffectInv, EffectSound
  <2>12. EffectTypeOK'
    <3>1. heading' \in {"none", "input", "output"}
      BY <2>3, <2>9
    <3>2. misses' \in 0..ConfirmCycles
      BY <2>3, <2>4, <2>5
    <3>3. tries' \in 0..MaxRetries
      BY <2>3, <2>4, <2>8
    <3>4. retried' \in (0..Cooldown) \cup {NoRetry}
      BY <2>2, <2>3, <2>4, <2>6, <2>7
    <3> QED BY <3>1, <3>2, <3>3, <3>4 DEF EffectTypeOK
  <2>13. repeats' <= MaxRetries
    BY <2>12, <2>10 DEF EffectTypeOK, EffectKept
  <2>14. v = "exhausted" => repeats' = MaxRetries /\ lost' >= ConfirmCycles
    BY <2>3, <2>4, <2>5, <2>8
  <2>15. v = "cooldown" => pause' < Cooldown /\ lost' >= ConfirmCycles
    <3> SUFFICES ASSUME v = "cooldown" PROVE pause' < Cooldown /\ lost' >= ConfirmCycles
      OBVIOUS
    <3>1. old # NoRetry /\ old < Cooldown
      BY <2>8 DEF CoolsDown
    <3>2. pause' = old
      BY <3>1, <2>3, <2>7
    <3> QED BY <3>1, <3>2, <2>3, <2>4, <2>5, <2>8
  <2> QED BY <2>3, <2>10, <2>11, <2>12, <2>13, <2>14, <2>15 DEF EffectInv, EffectSound
<1> QED BY <1>1, <1>2

-----------------------------------------------------------------------------
(* The latch of PV charge (PvChargeLatch).  A cycle that may close the latch*)
(* saw a surplus now or in the cycle before, or the fall of an output that  *)
(* was commanded; the counts of a stop bound those of conflict and darkness.*)

LatchKept ==
  /\ stops >= 2 * conflict /\ stops >= 4 * dark
  /\ starts # 0 => ago <= 1 \/ falls >= 1
  /\ balance - out - others >= StartExport => ago = 0

LatchCounts == conflict \in Nat /\ dark \in Nat

LatchInv == LatchTypeOK /\ LatchCounts /\ LatchKept /\ grounded

\* The inductive invariant implies what the run checks.
LEMMA LatchInvSound == LatchInv => LatchSound
BY DEF LatchInv, LatchTypeOK, LatchCounts, LatchKept, LatchSound

\* The latch is open at first.
LEMMA LatchInitInv == LatchInit => LatchInv
<1> SUFFICES ASSUME LatchInit PROVE LatchInv
  OBVIOUS
<1>1. StartExport > 0 /\ 0 \in Outputs /\ 0 \in Extras
  BY LatchAssumption
<1>2. LatchTypeOK
  <2>1. latched \in BOOLEAN /\ clips \in BOOLEAN /\ (starts = 0 \/ ~latched) /\ sun \in Suns
    BY DEF LatchInit, LatchIdle
  <2>2. /\ starts \in 0..1 /\ stops \in 0..7 /\ ago \in 0..3 /\ falls \in 0..2
        /\ balance \in Int
    BY DEF LatchInit, LatchIdle
  <2>3. others \in Extras /\ {out, asked, set} \subseteq Outputs
    BY <1>1 DEF LatchInit, LatchIdle
  <2> QED BY <2>1, <2>2, <2>3 DEF LatchTypeOK
<1>3. LatchKept /\ LatchCounts /\ grounded
  BY <1>1, LatchAssumption DEF LatchInit, LatchIdle, LatchKept, LatchCounts
<1> QED BY <1>2, <1>3 DEF LatchInv

\* A cycle that counts towards closing the latch saw a surplus of its own, now
\* or in the cycle before, or saw the output it had commanded fall.
LEMMA StartsOnSurplus ==
  ASSUME LatchTypeOK, LatchKept,
         NEW pv \in Suns, NEW load1 \in Homes, NEW extra \in Extras,
         NEW o \in {set, asked, out}, NEW i \in Inputs, NEW d \in {o, out},
         NEW m \in {<<pv + o + extra - load1 - (IF o = 0 THEN i ELSE 0), extra>>,
                    <<balance, others>>},
         Reading(m, d).own >= StartExport
  PROVE  pv - load1 >= StartExport \/ ago = 0 \/ o < out
<1> DEFINE top == Max({d, asked, set})
<1>1. /\ pv \in Nat /\ load1 \in Nat /\ extra \in Nat /\ i \in Nat /\ StartExport \in Nat
      /\ StartExport > 0
  BY LatchAssumption
<1>2. out \in Nat /\ asked \in Nat /\ set \in Nat /\ others \in Nat /\ balance \in Int
  BY LatchAssumption DEF LatchTypeOK
<1>3. o \in Nat /\ d \in Nat
  BY <1>2
<1>4. top \in Int /\ top >= d /\ top >= asked /\ top >= set
  <2>1. d \in Int /\ asked \in Int /\ set \in Int
    BY <1>2, <1>3
  <2> QED BY <2>1, TripleMax
<1>5. m[1] \in Int /\ m[2] \in Nat
  BY <1>1, <1>2, <1>3
<1>6. m[1] - top - m[2] >= StartExport
  <2>1. Positive(m[1]) = IF m[1] >= 0 THEN m[1] ELSE 0
    BY <1>5, PairMax DEF Positive
  <2>2. Positive(m[1]) \in Int
    BY <2>1, <1>5
  <2> DEFINE x == Positive(m[1]) - top - m[2]
  <2>3. x \in Int
    BY <2>2, <1>4, <1>5
  <2>4. Reading(m, d).own = Positive(x)
    BY DEF Reading, Attributable
  <2> HIDE DEF x
  <2>5. Positive(x) = IF x >= 0 THEN x ELSE 0
    BY <2>3, PairMax DEF Positive
  <2>6. x >= StartExport
    BY <2>3, <2>4, <2>5, <1>1
  <2>7. top >= 0
    BY <1>2, <1>4
  <2>8. x = Positive(m[1]) - top - m[2]
    BY DEF x
  <2> QED BY <2>1, <2>6, <2>7, <2>8, <1>1, <1>4, <1>5
<1> HIDE DEF top
<1>7. CASE m = <<pv + o + extra - load1 - (IF o = 0 THEN i ELSE 0), extra>>
  <2>1. o <= top
    BY <1>2, <1>3, <1>4
  <2>2. m[1] = pv + o + extra - load1 - (IF o = 0 THEN i ELSE 0) /\ m[2] = extra
    BY <1>7
  <2> QED BY <2>1, <2>2, <1>1, <1>3, <1>4, <1>6
<1>8. CASE m = <<balance, others>>
  <2>1. m[1] = balance /\ m[2] = others
    BY <1>8
  <2>2. CASE out <= top
    BY <2>1, <2>2, <1>1, <1>2, <1>4, <1>6 DEF LatchKept
  <2>3. CASE out > top
    BY <2>3, <1>2, <1>3, <1>4
  <2> QED BY <2>2, <2>3, <1>2, <1>4
<1> QED BY <1>7, <1>8

\* A cycle keeps the invariant of the latch.
LEMMA LatchStepInv == LatchInv /\ [LatchNext]_latchVars => LatchInv'
<1> SUFFICES ASSUME LatchInv, [LatchNext]_latchVars PROVE LatchInv'
  OBVIOUS
<1>1. CASE UNCHANGED latchVars
  BY <1>1 DEF latchVars, LatchInv, LatchTypeOK, LatchCounts, LatchKept
<1>2. CASE LatchNext
  <2>1. PICK pv \in Suns, load1 \in Homes, extra \in Extras,
             o \in {set, asked, out}, i \in Inputs :
          LET truth == pv + o + extra - load1 - (IF o = 0 THEN i ELSE 0)
          IN  /\ sun' = pv /\ out' = o /\ others' = extra
              /\ balance' = truth
              /\ falls' = IF o < out THEN Min({falls + 1, 2}) ELSE 0
              /\ ago' = IF pv - load1 >= StartExport THEN 0 ELSE Min({ago + 1, 3})
              /\ \E r \in {Reading(m, d) : m \in {<<truth, extra>>, <<balance, others>>},
                                           d \in {o, out}} :
                   Advance(pv, r.own, r.import, r.conflicting, r.extra)
              /\ asked' \in Outputs
              /\ set' \in {asked', set} \/ (asked' = 0 /\ set' \in Outputs)
              /\ UNCHANGED clips
    BY <1>2 DEF LatchNext, LatchCycle
  <2> DEFINE truth == pv + o + extra - load1 - (IF o = 0 THEN i ELSE 0)
  <2>2. PICK m \in {<<truth, extra>>, <<balance, others>>}, d \in {o, out} :
          Advance(pv, Reading(m, d).own, Reading(m, d).import,
                  Reading(m, d).conflicting, Reading(m, d).extra)
    BY <2>1
  <2> DEFINE own         == Reading(m, d).own
             import      == Reading(m, d).import
             conflicting == Reading(m, d).conflicting
             x           == Reading(m, d).extra
             held  == latched /\ x < ExtraActive
             n     == NextStops(pv, own, import, conflicting)
             k     == 1 + IF x < ExtraActive THEN starts ELSE 0
             opens == held /\ n >= 8
             shuts == ~held /\ Starts(pv, own) /\ k >= 2
  <2>3. /\ latched'  = ((held /\ ~opens) \/ shuts)
        /\ stops'    = IF held /\ ~opens THEN n ELSE 0
        /\ starts'   = IF ~held /\ Starts(pv, own) /\ ~shuts THEN k ELSE 0
        /\ conflict' = IF held /\ ~opens /\ conflicting THEN conflict + 1 ELSE 0
        /\ dark'     = IF held /\ ~opens /\ ~conflicting
                           /\ ~Plausible(pv, own) /\ import >= HardImport
                       THEN dark + 1 ELSE 0
        /\ grounded' = IF shuts THEN ago' < 3 \/ falls' = 2 ELSE grounded
    BY <2>2 DEF Advance
  <2>4. /\ stops \in 0..7 /\ starts \in 0..1 /\ conflict \in Nat /\ dark \in Nat
        /\ falls \in 0..2 /\ ago \in 0..3
        /\ stops >= 2 * conflict /\ stops >= 4 * dark
    BY DEF LatchInv, LatchTypeOK, LatchCounts, LatchKept
  <2>5. /\ n \in Nat
        /\ conflicting => n = stops + 2
        /\ ~conflicting /\ ~Plausible(pv, own) /\ import >= HardImport => n = stops + 4
    <3>1. CASE conflicting
      BY <3>1, <2>4 DEF NextStops
    <3>2. CASE ~conflicting /\ ~Plausible(pv, own)
      <4>1. n = stops + IF Weak(pv, own, import) THEN 4 ELSE 1
        BY <3>2 DEF NextStops
      <4>2. import >= HardImport => Weak(pv, own, import)
        BY <3>2 DEF Weak
      <4> QED BY <3>2, <4>1, <4>2, <2>4
    <3>3. CASE ~conflicting /\ Plausible(pv, own)
      <4>1. n = IF ~Weak(pv, own, import) /\ Rests(pv, own, import) THEN 0 ELSE stops + 1
        BY <3>3 DEF NextStops
      <4> QED BY <3>3, <4>1, <2>4
    <3> QED BY <3>1, <3>2, <3>3
  <2>6. Starts(pv, own) => pv - load1 >= StartExport \/ ago = 0 \/ o < out
    BY StartsOnSurplus DEF LatchInv, Starts
  <2>7. /\ falls' = IF o < out THEN IF falls + 1 <= 2 THEN falls + 1 ELSE 2 ELSE 0
        /\ ago' = IF pv - load1 >= StartExport THEN 0
                  ELSE IF ago + 1 <= 3 THEN ago + 1 ELSE 3
    <3>1. Min({falls + 1, 2}) = IF falls + 1 <= 2 THEN falls + 1 ELSE 2
      BY <2>4, PairMin
    <3>2. Min({ago + 1, 3}) = IF ago + 1 <= 3 THEN ago + 1 ELSE 3
      BY <2>4, PairMin
    <3> QED BY <2>1, <3>1, <3>2
  <2> HIDE DEF own, import, conflicting, x, n
  <2>8. k = 1 \/ (k = 2 /\ starts # 0)
    BY <2>4
  <2>9. starts' \in 0..1 /\ stops' \in 0..7
    BY <2>3, <2>4, <2>5, <2>8
  <2>10. conflict' \in Nat /\ dark' \in Nat /\ stops' >= 2 * conflict' /\ stops' >= 4 * dark'
    <3>1. conflict' \in Nat /\ dark' \in Nat
      BY <2>3, <2>4
    <3>2. stops' >= 2 * conflict'
      BY <2>3, <2>4, <2>5
    <3>3. stops' >= 4 * dark'
      BY <2>3, <2>4, <2>5
    <3> QED BY <3>1, <3>2, <3>3
  <2>11. falls' \in 0..2 /\ ago' \in 0..3
    BY <2>4, <2>7
  <2>12. starts' # 0 => ago' <= 1 \/ falls' >= 1
    BY <2>3, <2>4, <2>6, <2>7
  <2>13. shuts => ago' < 3 \/ falls' = 2
    <3> SUFFICES ASSUME shuts PROVE ago' < 3 \/ falls' = 2
      OBVIOUS
    <3>1. starts # 0 /\ Starts(pv, own)
      BY <2>8
    <3>2. ago <= 1 \/ falls >= 1
      BY <3>1 DEF LatchInv, LatchKept
    <3> QED BY <3>1, <3>2, <2>4, <2>6, <2>7
  <2>14. grounded'
    BY <2>3, <2>13 DEF LatchInv
  <2>15. balance' - out' - others' >= StartExport => ago' = 0
    <3>1. /\ pv \in Nat /\ load1 \in Nat /\ extra \in Nat /\ i \in Nat /\ StartExport \in Nat
          /\ o \in Nat
      BY LatchAssumption DEF LatchInv, LatchTypeOK
    <3>2. balance' = truth /\ out' = o /\ others' = extra
      BY <2>1
    <3> QED BY <3>1, <3>2, <2>7
  <2>16. starts' = 0 \/ ~latched'
    BY <2>3
  <2>17. latched' \in BOOLEAN /\ clips' \in BOOLEAN
    <3>1. latched' \in BOOLEAN
      BY <2>3
    <3>2. clips' \in BOOLEAN
      BY <2>1 DEF LatchInv, LatchTypeOK
    <3> QED BY <3>1, <3>2
  <2>18. sun' \in Suns /\ others' \in Extras /\ {out', asked', set'} \subseteq Outputs
    <3>1. out \in Outputs /\ asked \in Outputs /\ set \in Outputs
      BY DEF LatchInv, LatchTypeOK
    <3> QED BY <2>1, <3>1
  <2>19. balance' \in Int
    BY <2>1, LatchAssumption DEF LatchInv, LatchTypeOK
  <2>20. LatchTypeOK'
    BY <2>9, <2>11, <2>16, <2>17, <2>18, <2>19 DEF LatchTypeOK
  <2> QED BY <2>10, <2>12, <2>14, <2>15, <2>20 DEF LatchInv, LatchCounts, LatchKept
<1> QED BY <1>1, <1>2

-----------------------------------------------------------------------------
(* The passthrough of a full battery (HousePassthrough).  While it is       *)
(* active, neither the pale cycles nor those of giving exceed the time since*)
(* its begin.                                                               *)

PassKept ==
  /\ pale \in Nat /\ giving \in Nat
  /\ giving <= exports
  /\ active => pale <= begun /\ (giving <= begun \/ begun = HoldTime)
  /\ ~active => pale = 0 /\ giving = 0

PassInv == PassthroughSound /\ PassKept

\* No passthrough is active at first.
LEMMA PassInitInv == PassInit => PassInv
<1> SUFFICES ASSUME PassInit PROVE PassInv
  OBVIOUS
<1>1. /\ HoldTime \in Nat \ {0} /\ ExportCycles \in Nat \ {0} /\ SocLow \in Nat
      /\ SocFull \in Nat /\ SocLow < SocFull - 2
  BY PassthroughAssumption
<1>2. Max({ExportCycles, HoldTime}) > 0
  BY <1>1, PairMax
<1>3. active = FALSE /\ forced = FALSE /\ begun = Never /\ clipped \in BOOLEAN
  BY DEF PassInit, PassIdle
<1>4. exports = 0 /\ power = 0 /\ pale = 0 /\ giving = 0 /\ level = SocFull - 2
  BY DEF PassInit, PassIdle
<1>5. PassTypeOK
  <2>1. exports \in Nat /\ power \in Nat /\ power = 0 /\ level \in SocLow..SocFull
    BY <1>1, <1>4
  <2> QED BY <1>3, <2>1 DEF PassTypeOK
<1>6. pale < HoldTime /\ giving < Max({ExportCycles, HoldTime})
  BY <1>1, <1>2, <1>4
<1>7. PassthroughSound
  BY <1>3, <1>4, <1>5, <1>6 DEF PassthroughSound
<1>8. PassKept
  BY <1>3, <1>4 DEF PassKept
<1> QED BY <1>7, <1>8 DEF PassInv

\* A limited step of the power is a power within the limit, or the minimum output.
LEMMA LimitedSound ==
  ASSUME NEW goal \in Int, NEW limit \in Limits, power \in Nat,
         NEW w \in Limited(goal, limit)
  PROVE  w \in Nat /\ (w = MinOutput \/ w <= limit)
<1>1. PICK v \in Max({0, power - StepDown})..(power + StepUp) :
        w = IF goal > 0 THEN Max({Min({limit, v}), MinOutput}) ELSE Min({limit, v})
  BY DEF Limited
<1>2. limit \in Nat /\ StepDown \in Nat /\ StepUp \in Nat /\ MinOutput \in Nat
  BY PassthroughAssumption
<1>3. Max({0, power - StepDown}) \in Nat
  BY <1>2, PairMax
<1>4. v \in Nat
  BY <1>2, <1>3
<1> DEFINE u == Min({limit, v})
<1>5. u \in Nat /\ u <= limit
  BY <1>2, <1>4, PairMin
<1> HIDE DEF u
<1>6. Max({u, MinOutput}) = IF u >= MinOutput THEN u ELSE MinOutput
  BY <1>2, <1>5, PairMax
<1>7. w = IF goal > 0 THEN Max({u, MinOutput}) ELSE u
  BY <1>1 DEF u
<1> QED BY <1>2, <1>5, <1>6, <1>7

\* A cycle keeps the invariant of the passthrough.
LEMMA PassStepInv == PassInv /\ [PassNext]_passVars => PassInv'
<1> SUFFICES ASSUME PassInv, [PassNext]_passVars PROVE PassInv'
  OBVIOUS
<1>0. /\ HoldTime \in Nat /\ HoldTime > 0 /\ ExportCycles \in Nat /\ ExportCycles > 0
      /\ SocLow \in Nat /\ SocFull \in Nat /\ SocLow < SocFull - 2 /\ Never \notin Nat
  BY PassthroughAssumption
<1>1. /\ Max({ExportCycles, HoldTime}) >= ExportCycles
      /\ Max({ExportCycles, HoldTime}) >= HoldTime
      /\ Max({ExportCycles, HoldTime}) \in Nat
  BY <1>0, PairMax
<1>2. CASE UNCHANGED passVars
  BY <1>2 DEF passVars, PassInv, PassthroughSound, PassTypeOK, PassKept
<1>3. ASSUME active' = FALSE, forced' = FALSE, begun' = Never, exports' = 0,
             pale' = 0, giving' = 0, clipped' = clipped, level' \in SocLow..SocFull,
             power' \in Nat, power' \in {0, MinOutput} \/ \E limit \in Limits : power' <= limit
      PROVE  PassInv'
  <2>1. PassTypeOK'
    <3>1. active' \in BOOLEAN /\ forced' \in BOOLEAN /\ clipped' \in BOOLEAN
      BY <1>3 DEF PassInv, PassthroughSound, PassTypeOK
    <3>2. exports' \in Nat
      BY <1>3
    <3> QED BY <1>3, <3>1, <3>2 DEF PassTypeOK
  <2>2. pale' < HoldTime /\ giving' < Max({ExportCycles, HoldTime})
    BY <1>0, <1>1, <1>3
  <2> QED BY <1>3, <2>1, <2>2 DEF PassInv, PassthroughSound, PassKept
<1>4. ASSUME NEW c \in Situations, NEW gap \in {1, HoldTime}, NEW goal \in Int,
             NEW counted \in Nat, NEW step \in Nat,
             IF active THEN begun \in 0..HoldTime /\ step = Min({begun + gap, HoldTime})
             ELSE step = 0,
             forced' \in BOOLEAN, On(c, step, goal, counted),
             forced' => counted = 0 /\ level >= SocFull - 2,
             ~forced' => counted = Counted(c),
             ~forced' /\ c.pv < MinPv => active /\ InHold(step),
             ~forced' /\ c.export /\ active => InHold(step) \/ counted < ExportCycles,
             level' \in {level - 1, level, level + 1} \cap (SocLow..SocFull),
             clipped' = clipped
      PROVE  PassInv'
  <2>0. /\ pale \in Nat /\ giving \in Nat /\ exports \in Nat /\ giving <= exports
        /\ power \in Nat /\ level \in Nat
    BY <1>0 DEF PassInv, PassthroughSound, PassTypeOK, PassKept
  <2>00. /\ active => begun \in 0..HoldTime /\ pale <= begun
                      /\ (giving <= begun \/ begun = HoldTime)
         /\ ~active => pale = 0 /\ giving = 0
    BY <1>4 DEF PassInv, PassKept
  <2>1. gap \in Nat /\ gap > 0
    BY <1>0
  <2>2. /\ active' = TRUE /\ begun' = (IF active THEN step ELSE 0)
        /\ exports' = counted /\ power' \in Limited(goal, c.limit)
        /\ pale' = (IF ~forced' /\ c.pv < MinPv THEN pale + 1 ELSE 0)
        /\ giving' = (IF ~forced' /\ c.export /\ active THEN giving + 1 ELSE 0)
    BY <1>4 DEF On
  <2>3. active => step = IF begun + gap <= HoldTime THEN begun + gap ELSE HoldTime
    BY <1>0, <1>4, <2>1, PairMin
  <2>4. begun' \in 0..HoldTime
    BY <1>0, <2>00, <2>1, <2>2, <2>3
  <2>5. InHold(step) <=> step < HoldTime
    BY DEF InHold
  <2>6. pale' \in Nat /\ pale' <= begun' /\ pale' < HoldTime
    <3>1. CASE ~forced' /\ c.pv < MinPv
      BY <3>1, <1>0, <1>4, <2>0, <2>00, <2>1, <2>2, <2>3, <2>5
    <3>2. CASE ~(~forced' /\ c.pv < MinPv)
      BY <3>2, <1>0, <2>2, <2>4
    <3> QED BY <3>1, <3>2
  <2>7. giving' \in Nat /\ giving' <= exports'
    <3>1. CASE ~forced' /\ c.export /\ active
      BY <3>1, <1>4, <2>0, <2>2 DEF Counted
    <3>2. CASE ~(~forced' /\ c.export /\ active)
      BY <3>2, <2>2
    <3> QED BY <3>1, <3>2
  <2>8. giving' <= begun' \/ begun' = HoldTime
    <3>1. CASE ~forced' /\ c.export /\ active
      BY <3>1, <1>0, <2>0, <2>00, <2>1, <2>2, <2>3
    <3>2. CASE ~(~forced' /\ c.export /\ active)
      BY <3>2, <2>2, <2>4
    <3> QED BY <3>1, <3>2
  <2>9. giving' < Max({ExportCycles, HoldTime})
    <3>1. CASE ~forced' /\ c.export /\ active
      <4>1. CASE InHold(step)
        BY <3>1, <4>1, <1>0, <1>1, <2>2, <2>4, <2>5, <2>7, <2>8
      <4>2. CASE counted < ExportCycles
        BY <4>2, <1>0, <1>1, <2>2, <2>7
      <4> QED BY <3>1, <4>1, <4>2, <1>4
    <3>2. CASE ~(~forced' /\ c.export /\ active)
      BY <3>2, <1>0, <1>1, <2>2
    <3> QED BY <3>1, <3>2
  <2>10. level' \in SocLow..SocFull /\ (forced' => level' >= SocFull - 3)
    BY <1>0, <1>4, <2>0
  <2>11. power' \in Nat /\ (power' \in {0, MinOutput} \/ \E limit \in Limits : power' <= limit)
    <3>1. c.limit \in Limits
      BY DEF Situations
    <3>2. power' \in Nat /\ (power' = MinOutput \/ power' <= c.limit)
      BY <3>1, <2>0, <2>2, LimitedSound
    <3> QED BY <3>1, <3>2
  <2>12. PassTypeOK'
    <3>1. active' \in BOOLEAN /\ forced' \in BOOLEAN /\ clipped' \in BOOLEAN
      BY <1>4, <2>2 DEF PassInv, PassthroughSound, PassTypeOK
    <3>2. begun' \in (0..HoldTime) \cup {Never} /\ exports' \in Nat
      BY <2>2, <2>4
    <3> QED BY <3>1, <3>2, <2>10, <2>11 DEF PassTypeOK
  <2>13. begun' # Never
    BY <1>0, <2>4
  <2> QED
    BY <2>2, <2>6, <2>7, <2>8, <2>9, <2>10, <2>12, <2>13
       DEF PassInv, PassthroughSound, PassKept
<1>5. CASE Manual
  <2>1. power' \in Nat /\ (power' \in {0, MinOutput} \/ \E limit \in Limits : power' <= limit)
        /\ level' \in SocLow..SocFull
    BY <1>5 DEF Manual, PassInv, PassthroughSound, PassTypeOK
  <2> QED BY <1>3, <1>5, <2>1 DEF Manual
<1>6. CASE PassCycle
  <2>0. level' \in {level - 1, level, level + 1} \cap (SocLow..SocFull) /\ clipped' = clipped
    BY <1>6 DEF PassCycle
  <2>1. ASSUME Off, forced' = FALSE PROVE PassInv'
    BY <1>3, <2>0, <2>1 DEF Off
  <2>2. CASE StoppedCycle
    BY <2>1, <2>2 DEF StoppedCycle
  <2>3. ASSUME NEW c \in Situations, NEW gap \in {1, HoldTime},
               LET old == IF begun = Never THEN 0 ELSE Min({begun + gap, HoldTime})
               IN  /\ Possible(c) /\ level > SocLow
                   /\ \/ ForcedCycle(c, old)
                      \/ RunningCycle(c, old)
                      \/ StartingCycle(c)
        PROVE  PassInv'
    <3> DEFINE step == IF begun = Never THEN 0 ELSE Min({begun + gap, HoldTime})
    <3>1. /\ active \in BOOLEAN
          /\ active <=> begun # Never
          /\ begun \in (0..HoldTime) \cup {Never}
      BY DEF PassInv, PassthroughSound, PassTypeOK
    <3>2. step \in Nat
      <4>1. gap \in Nat
        BY <1>0
      <4>2. begun # Never => Min({begun + gap, HoldTime}) \in Nat
        BY <1>0, <3>1, <4>1, PairMin
      <4> QED BY <4>2
    <3>3. IF active THEN begun \in 0..HoldTime /\ step = Min({begun + gap, HoldTime})
          ELSE step = 0
      BY <3>1
    <3>4. /\ c.pv \in Nat /\ c.load \in Nat /\ c.limit \in Nat
          /\ c.export \in BOOLEAN
      BY PassthroughAssumption DEF Situations
    <3>5. Counted(c) \in Nat
      BY DEF Counted, PassInv, PassthroughSound, PassTypeOK
    <3>9. Raw(c) \in Int
      <4>1. c.pv \in Int /\ c.load \in Int /\ c.limit \in Int
        BY <3>4
      <4>2. Min({c.pv, c.load, c.limit}) \in {c.pv, c.load, c.limit}
        BY <4>1, TripleMin
      <4> QED BY <4>1, <4>2 DEF Raw
    <3> HIDE DEF step
    <3>6. CASE ForcedCycle(c, step)
      <4> DEFINE goal == Min({c.load, c.limit, Max({c.pv + 1, MinOutput})})
      <4>1. goal \in Int
        <5>1. MinOutput \in Nat
          BY PassthroughAssumption
        <5>2. Max({c.pv + 1, MinOutput}) \in Int
          BY <3>4, <5>1, PairMax
        <5> DEFINE top == Max({c.pv + 1, MinOutput})
        <5> HIDE DEF top
        <5>3. top \in Int
          BY <5>2 DEF top
        <5>4. Min({c.load, c.limit, top}) \in {c.load, c.limit, top}
          BY <3>4, <5>3, TripleMin
        <5> QED BY <3>4, <5>3, <5>4 DEF top
      <4>2. forced' = TRUE /\ On(c, step, goal, 0)
        BY <3>6 DEF ForcedCycle
      <4>3. level >= SocFull - 2
        BY <1>0, <3>6 DEF ForcedCycle, Forces, PassInv, PassthroughSound, PassTypeOK
      <4> HIDE DEF goal
      <4> QED BY <1>4, <2>0, <3>2, <3>3, <4>1, <4>2, <4>3
    <3>7. CASE RunningCycle(c, step)
      <4>1. CASE Goes(c, step)
        <5>1. active /\ forced' = FALSE /\ On(c, step, Raw(c), Counted(c))
          BY <3>7, <4>1 DEF RunningCycle
        <5>2. Raw(c) \in Int
          BY <3>9
        <5>3. InHold(step) \/ (Enough(c) /\ Counted(c) < ExportCycles)
          BY <4>1 DEF Goes
        <5>4. Enough(c) => ~(c.pv < MinPv)
          BY <3>4, PassthroughAssumption DEF Enough
        <5> QED BY <1>4, <2>0, <3>2, <3>3, <3>5, <5>1, <5>2, <5>3, <5>4
      <4>2. CASE ~Goes(c, step)
        BY <2>1, <3>7, <4>2 DEF RunningCycle
      <4> QED BY <4>1, <4>2
    <3>8. CASE StartingCycle(c)
      <4>1. CASE ~ForecastBlocks(c) /\ MayStart(c)
        <5>1. ~active /\ forced' = FALSE /\ On(c, 0, Raw(c), 0)
          BY <3>8, <4>1 DEF StartingCycle
        <5>2. Raw(c) \in Int
          BY <3>9
        <5>3. Enough(c) /\ ~c.export
          BY <4>1 DEF MayStart
        <5>4. Enough(c) => ~(c.pv < MinPv)
          BY <3>4, PassthroughAssumption DEF Enough
        <5>5. Counted(c) = 0 /\ step = 0
          BY <3>3, <5>1, <5>3 DEF Counted
        <5> QED BY <1>4, <2>0, <3>2, <3>3, <5>1, <5>2, <5>3, <5>4, <5>5
      <4>2. CASE ~(~ForecastBlocks(c) /\ MayStart(c))
        BY <2>1, <3>8, <4>2 DEF StartingCycle
      <4> QED BY <4>1, <4>2
    <3> QED BY <2>3, <3>6, <3>7, <3>8 DEF step
  <2> QED BY <1>6, <2>2, <2>3 DEF PassCycle
<1> QED BY <1>2, <1>5, <1>6 DEF PassNext

-----------------------------------------------------------------------------
(* The split of a charge (ChargeSplit)                                      *)

\* The smaller of two powers.
LEMMA LeastIs ==
  ASSUME NEW a \in Nat, NEW b \in Nat
  PROVE  /\ Least(a, b) \in Nat /\ Least(a, b) <= a /\ Least(a, b) <= b
         /\ Least(a, b) = IF a <= b THEN a ELSE b
         /\ a <= b => Least(a, b) = a
         /\ a > b => Least(a, b) = b
<1>1. Least(a, b) = IF a <= b THEN a ELSE b
  BY PairMin DEF Least
<1> QED BY <1>1

\* What a power leaves of another one is not negative.
LEMMA RestIs ==
  ASSUME NEW a \in Nat, NEW b \in Nat
  PROVE  /\ Rest(a, b) \in Nat
         /\ Rest(a, b) = IF a >= b THEN a - b ELSE 0
         /\ a >= b => Rest(a, b) = a - b
         /\ a < b => Rest(a, b) = 0
<1>1. Max({0, a - b}) = IF 0 >= a - b THEN 0 ELSE a - b
  BY PairMax
<1>2. Rest(a, b) = IF a >= b THEN a - b ELSE 0
  BY <1>1 DEF Rest
<1> QED BY <1>2

\* The limits of the battery and of its AC input are powers.
LEMMA LimitsAreNat ==
  /\ TotalLimit \in Nat
  /\ \A native \in Nat : InputLimit(native) \in Nat
<1>1. BatteryMax # NoLimit => BatteryMax \in Nat
  BY SplitAssumption
<1>2. TotalLimit \in Nat
  BY <1>1, SplitAssumption DEF TotalLimit
<1>3. ASSUME NEW native \in Nat PROVE InputLimit(native) \in Nat
  <2>1. CASE BatteryMax = NoLimit
    BY <2>1, SplitAssumption DEF InputLimit
  <2>2. CASE BatteryMax # NoLimit
    <3>1. Rest(BatteryMax, native) \in Nat
      BY <1>1, <2>2, RestIs
    <3>2. Least(InputMax, Rest(BatteryMax, native)) \in Nat
      BY <3>1, SplitAssumption, LeastIs
    <3> QED BY <2>2, <3>2 DEF InputLimit
  <2> QED BY <2>1, <2>2
<1> QED BY <1>2, <1>3

SplitInv ==
  /\ {house, acPv, nativePv, target, input} \subseteq Nat
  /\ blend \in BOOLEAN

\* The parts an allocation has, and what bounds each of them.
LEMMA AllocationParts ==
  ASSUME SplitInv
  PROVE  LET s == Allocate(target, nativePv, acPv, house, blend)
         IN  \E total, surplus, most \in Nat :
               /\ {s.native, s.pv, s.grid, s.limit, s.input} \subseteq Nat
               /\ total <= TotalLimit
               /\ s.native = IF total <= nativePv THEN total ELSE nativePv
               /\ s.limit <= InputLimit(nativePv) /\ s.limit + s.native <= TotalLimit
               /\ s.input <= s.limit
               /\ blend =>
                    /\ surplus = IF acPv >= house THEN acPv - house ELSE 0
                    /\ s.pv = IF total - s.native <= surplus THEN total - s.native
                              ELSE surplus
                    /\ s.grid = IF total - s.native - s.pv <= s.limit
                                THEN total - s.native - s.pv ELSE s.limit
                    /\ most = IF s.pv + s.grid >= surplus THEN s.pv + s.grid ELSE surplus
                    /\ s.input = IF s.limit <= most THEN s.limit ELSE most
<1> DEFINE total     == Least(target, TotalLimit)
           own       == Least(total, nativePv)
           limit     == Least(InputLimit(nativePv), Rest(TotalLimit, own))
           surplus   == IF blend THEN Rest(acPv, house) ELSE 0
           fromPv    == Least(Rest(total, own), surplus)
           requested == IF blend THEN Least(Rest(Rest(total, own), fromPv), limit)
                        ELSE Least(total, limit)
           most      == Max({fromPv + requested, surplus})
           s         == Allocate(target, nativePv, acPv, house, blend)
<1>0. /\ target \in Nat /\ nativePv \in Nat /\ acPv \in Nat /\ house \in Nat
      /\ blend \in BOOLEAN
  BY DEF SplitInv
<1>1. /\ s.native = own /\ s.pv = fromPv /\ s.grid = requested /\ s.limit = limit
      /\ s.input = IF blend THEN Least(limit, most) ELSE requested
  BY DEF Allocate
<1> HIDE DEF s
<1>2. TotalLimit \in Nat /\ InputLimit(nativePv) \in Nat
  BY <1>0, LimitsAreNat
<1>3. total \in Nat /\ total <= TotalLimit
  BY <1>0, <1>2, LeastIs
<1> HIDE DEF total
<1>4. /\ own \in Nat /\ own <= total
      /\ own = IF total <= nativePv THEN total ELSE nativePv
  BY <1>0, <1>3, LeastIs
<1> HIDE DEF own
<1>5. Rest(TotalLimit, own) \in Nat /\ Rest(TotalLimit, own) = TotalLimit - own
  <2>1. own \in Nat /\ TotalLimit \in Nat /\ TotalLimit >= own
    BY <1>2, <1>3, <1>4
  <2> QED BY <2>1, RestIs
<1>6. limit \in Nat /\ limit <= InputLimit(nativePv) /\ limit + own <= TotalLimit
  <2>1. /\ limit \in Nat /\ limit <= InputLimit(nativePv)
        /\ limit <= Rest(TotalLimit, own)
    BY <1>2, <1>5, LeastIs
  <2> HIDE DEF limit
  <2> QED BY <2>1, <1>2, <1>4, <1>5
<1> HIDE DEF limit
<1>7. surplus \in Nat /\ (blend => surplus = IF acPv >= house THEN acPv - house ELSE 0)
  BY <1>0, RestIs
<1> HIDE DEF surplus
<1>8. Rest(total, own) \in Nat /\ Rest(total, own) = total - own
  <2>1. own \in Nat /\ total \in Nat /\ total >= own
    BY <1>3, <1>4
  <2> QED BY <2>1, RestIs
<1>9. /\ fromPv \in Nat /\ fromPv <= total - own
      /\ fromPv = IF total - own <= surplus THEN total - own ELSE surplus
  <2>1. total - own \in Nat /\ fromPv = Least(total - own, surplus)
    BY <1>8
  <2> HIDE DEF fromPv
  <2> QED BY <2>1, <1>7, LeastIs
<1> HIDE DEF fromPv
<1>10. Rest(total - own, fromPv) \in Nat /\ Rest(total - own, fromPv) = total - own - fromPv
  <2>1. total - own \in Nat /\ total - own >= fromPv
    BY <1>8, <1>9
  <2> QED BY <2>1, <1>9, RestIs
<1>11. /\ requested \in Nat /\ requested <= limit
       /\ blend => requested = IF total - own - fromPv <= limit
                               THEN total - own - fromPv ELSE limit
  <2>1. CASE blend
    <3>1. requested = Least(total - own - fromPv, limit)
      BY <2>1, <1>8, <1>10
    <3>2. total - own - fromPv \in Nat
      BY <1>10
    <3> QED BY <3>1, <3>2, <1>6, LeastIs
  <2>2. CASE ~blend
    <3>1. requested = Least(total, limit)
      BY <2>2
    <3> QED BY <2>2, <3>1, <1>3, <1>6, LeastIs
  <2> QED BY <2>1, <2>2
<1> HIDE DEF requested
<1>12. most \in Nat /\ most = IF fromPv + requested >= surplus THEN fromPv + requested
                              ELSE surplus
  BY <1>7, <1>9, <1>11, PairMax
<1> HIDE DEF most
<1>13. Least(limit, most) \in Nat
       /\ Least(limit, most) = IF limit <= most THEN limit ELSE most
  BY <1>6, <1>12, LeastIs
<1>14. s.input \in Nat /\ s.input <= limit
       /\ (blend => s.input = IF limit <= most THEN limit ELSE most)
  BY <1>1, <1>6, <1>11, <1>12, <1>13
<1>15. {s.native, s.pv, s.grid, s.limit, s.input} \subseteq Nat
  BY <1>1, <1>4, <1>6, <1>9, <1>11, <1>14
<1> QED
  BY <1>1, <1>3, <1>4, <1>6, <1>7, <1>9, <1>11, <1>12, <1>14, <1>15, ZenonT(60) DEF s

\* The first command of the AC input is none.
LEMMA SplitInitInv == SplitInit => SplitInv
BY SplitAssumption DEF SplitInit, SplitInv

\* Powers stay powers.
LEMMA SplitStepInv == SplitInv /\ [SplitNext]_splitVars => SplitInv'
<1> SUFFICES ASSUME SplitInv, [SplitNext]_splitVars PROVE SplitInv'
  OBVIOUS
<1>1. CASE UNCHANGED splitVars
  BY <1>1 DEF splitVars, SplitInv
<1>2. CASE PlantChanges
  BY <1>2, SplitAssumption DEF PlantChanges, SplitInv
<1>3. CASE SplitCycle
  <2>1. split'.input \in Nat
    BY <1>3, AllocationParts DEF SplitCycle
  <2> QED BY <1>3, <2>1 DEF SplitCycle, SplitInv
<1> QED BY <1>1, <1>2, <1>3 DEF SplitNext

\* A cycle splits a charge as SplitSound states it.
LEMMA SplitStepSound ==
  ASSUME SplitInv, SplitCycle
  PROVE  /\ input' <= InputLimit(nativePv) /\ input' + split'.native <= TotalLimit
         /\ blend =>
              LET priced == Classify(BatteryCharge', Import', Export', nativePv)
              IN /\ Export' > 0 => input' = split'.limit
                 /\ priced.grid <= split'.grid
                 /\ priced.grid < split'.grid => input' = split'.limit
<1> DEFINE s == Allocate(target, nativePv, acPv, house, blend)
<1>1. /\ target \in Nat /\ nativePv \in Nat /\ acPv \in Nat /\ house \in Nat
      /\ blend \in BOOLEAN
  BY DEF SplitInv
<1>2. PICK total, surplus, most \in Nat :
        /\ {s.native, s.pv, s.grid, s.limit, s.input} \subseteq Nat
        /\ total <= TotalLimit
        /\ s.native = IF total <= nativePv THEN total ELSE nativePv
        /\ s.limit <= InputLimit(nativePv) /\ s.limit + s.native <= TotalLimit
        /\ s.input <= s.limit
        /\ blend =>
             /\ surplus = IF acPv >= house THEN acPv - house ELSE 0
             /\ s.pv = IF total - s.native <= surplus THEN total - s.native
                       ELSE surplus
             /\ s.grid = IF total - s.native - s.pv <= s.limit
                         THEN total - s.native - s.pv ELSE s.limit
             /\ most = IF s.pv + s.grid >= surplus THEN s.pv + s.grid ELSE surplus
             /\ s.input = IF s.limit <= most THEN s.limit ELSE most
  BY AllocationParts
<1>3. split' = s /\ input' = s.input /\ UNCHANGED <<house, acPv, nativePv, target, blend>>
  BY DEF SplitCycle
<1> HIDE DEF s
<1>4. TotalLimit \in Nat /\ InputLimit(nativePv) \in Nat
  BY <1>1, LimitsAreNat
<1>5. input' <= InputLimit(nativePv) /\ input' + split'.native <= TotalLimit
  BY <1>2, <1>3, <1>4
<1>6. ASSUME blend
      PROVE  LET priced == Classify(BatteryCharge', Import', Export', nativePv)
             IN /\ Export' > 0 => input' = split'.limit
                /\ priced.grid <= split'.grid
                /\ priced.grid < split'.grid => input' = split'.limit
  <2>1. PICK own \in Nat, fromPv \in Nat, grid \in Nat, limit \in Nat, in \in Nat,
             top \in Nat :
          /\ own = s.native /\ fromPv = s.pv /\ grid = s.grid /\ limit = s.limit
          /\ in = s.input /\ top = TotalLimit
    BY <1>2, <1>4
  <2>2. /\ total <= top /\ limit + own <= top /\ in <= limit
        /\ total <= nativePv => own = total
        /\ total > nativePv => own = nativePv
        /\ acPv >= house => surplus = acPv - house
        /\ acPv < house => surplus = 0
        /\ total - own <= surplus => fromPv = total - own
        /\ total - own > surplus => fromPv = surplus
        /\ total - own - fromPv <= limit => grid = total - own - fromPv
        /\ total - own - fromPv > limit => grid = limit
        /\ fromPv + grid >= surplus => most = fromPv + grid
        /\ fromPv + grid < surplus => most = surplus
        /\ limit <= most => in = limit
        /\ limit > most => in = most
    BY <1>1, <1>2, <1>6, <2>1
  <2>3. house + in \in Nat
    BY <1>1
  <2>4. PICK import \in Nat :
          /\ import = Rest(house + in, acPv)
          /\ house + in >= acPv => import = house + in - acPv
          /\ house + in < acPv => import = 0
    <3>1. /\ Rest(house + in, acPv) \in Nat
          /\ house + in >= acPv => Rest(house + in, acPv) = house + in - acPv
          /\ house + in < acPv => Rest(house + in, acPv) = 0
      BY <1>1, <2>3, RestIs
    <3> QED BY <3>1
  <2>5. PICK export \in Nat :
          /\ export = Rest(acPv, house + in)
          /\ acPv >= house + in => export = acPv - (house + in)
          /\ acPv < house + in => export = 0
    <3>1. /\ Rest(acPv, house + in) \in Nat
          /\ acPv >= house + in => Rest(acPv, house + in) = acPv - (house + in)
          /\ acPv < house + in => Rest(acPv, house + in) = 0
      BY <1>1, <2>3, RestIs
    <3> QED BY <3>1
  <2>6. PICK room \in Nat :
          /\ room = Rest(top, in)
          /\ top >= in => room = top - in
          /\ top < in => room = 0
    <3>1. /\ Rest(top, in) \in Nat
          /\ top >= in => Rest(top, in) = top - in
          /\ top < in => Rest(top, in) = 0
      BY RestIs
    <3> QED BY <3>1
  <2>7. PICK kept \in Nat :
          /\ kept = Least(nativePv, room)
          /\ nativePv <= room => kept = nativePv
          /\ nativePv > room => kept = room
    <3>1. /\ Least(nativePv, room) \in Nat
          /\ nativePv <= room => Least(nativePv, room) = nativePv
          /\ nativePv > room => Least(nativePv, room) = room
      BY <1>1, LeastIs
    <3> QED BY <3>1
  <2>8. PICK charge1 \in Nat : charge1 = in + kept
    OBVIOUS
  <2>9. PICK rest \in Nat :
          /\ rest = Rest(charge1, nativePv)
          /\ charge1 >= nativePv => rest = charge1 - nativePv
          /\ charge1 < nativePv => rest = 0
    <3>1. /\ Rest(charge1, nativePv) \in Nat
          /\ charge1 >= nativePv => Rest(charge1, nativePv) = charge1 - nativePv
          /\ charge1 < nativePv => Rest(charge1, nativePv) = 0
      BY <1>1, RestIs
    <3> QED BY <3>1
  <2>10. PICK least \in Nat :
           /\ least = Least(import, rest)
           /\ import <= rest => least = import
           /\ import > rest => least = rest
    <3>1. /\ Least(import, rest) \in Nat
          /\ import <= rest => Least(import, rest) = import
          /\ import > rest => Least(import, rest) = rest
      BY LeastIs
    <3> QED BY <3>1
  <2>11. PICK bought \in Nat :
           /\ bought = Classify(charge1, import, export, nativePv).grid
           /\ charge1 = 0 \/ export > 0 \/ import = 0 => bought = 0
           /\ charge1 > 0 /\ export = 0 /\ import > 0 => bought = least
    <3>1. Classify(charge1, import, export, nativePv).grid =
            IF charge1 = 0 \/ export > 0 \/ import = 0 THEN 0 ELSE least
      BY <2>9, <2>10 DEF Classify
    <3> QED BY <3>1
  <2>12. /\ export > 0 => in = limit
         /\ bought <= grid
         /\ bought < grid => in = limit
    <3>1. nativePv \in Nat /\ acPv \in Nat /\ house \in Nat
      BY <1>1
    <3> QED BY <3>1, <2>2, <2>4, <2>5, <2>6, <2>7, <2>8, <2>9, <2>10, <2>11
  <2>13. Import' = import /\ Export' = export /\ BatteryCharge' = charge1
    BY <1>3, <2>1, <2>4, <2>5, <2>6, <2>7, <2>8 DEF Import, Export, BatteryCharge
  <2> QED BY <1>3, <2>1, <2>11, <2>12, <2>13
<1> QED BY <1>5, <1>6

-----------------------------------------------------------------------------
(* Energy and its value (EnergyAccounting).  Money is booked flow by flow:  *)
(* what is booked is the counted energy that could be priced, at its prices.*)

Fields == {"grid_charge_kwh", "grid_charge_cost", "pv_charge_kwh", "pv_opportunity_cost",
           "export_kwh", "export_revenue", "battery_discharge_kwh",
           "battery_discharge_value", "battery_benefit", "native_kwh", "native_value"}

\* Money starts with nothing booked in any field.
LEMMA NoTotalsFields ==
  /\ DOMAIN NoTotals = Fields
  /\ NoTotals \in [Fields -> Int]
  /\ \A f \in Fields : NoTotals[f] = 0
BY DEF NoTotals, Fields

\* What the two record methods of EconomicsState add to totals t for flows g.
LEMMA RecordAdds ==
  ASSUME NEW t \in [Fields -> Int], NEW g \in [Flows -> Nat], NEW imp, NEW exp,
         NEW vg \in Nat, vg = Value(g, "grid_to_battery", imp, exp),
         NEW vp \in Nat, vp = Value(g, "pv_to_battery", imp, exp),
         NEW vh \in Nat, vh = Value(g, "battery_to_home", imp, exp),
         NEW vb \in Nat, vb = Value(g, "battery_to_grid", imp, exp),
         NEW ve \in Nat, ve = Value(g, "grid_export", imp, exp),
         NEW vn \in Nat, vn = Value(g, "native_pv_to_home", imp, exp)
  PROVE  LET s == RecordBattery(RecordGrid(t, g, imp, exp), g, imp, exp)
         IN /\ s \in [Fields -> Int]
            /\ s["grid_charge_kwh"] = t["grid_charge_kwh"] + g["grid_to_battery"]
            /\ s["grid_charge_cost"] = t["grid_charge_cost"] + vg
            /\ s["pv_charge_kwh"] = t["pv_charge_kwh"] + g["pv_to_battery"]
            /\ s["pv_opportunity_cost"] = t["pv_opportunity_cost"] + vp
            /\ s["export_kwh"] = t["export_kwh"] + g["grid_export"]
            /\ s["native_kwh"] = t["native_kwh"] + g["native_pv_to_home"]
            /\ s["battery_discharge_kwh"] = t["battery_discharge_kwh"]
                 + g["battery_to_home"] + g["battery_to_grid"]
            /\ s["battery_discharge_value"] = t["battery_discharge_value"] + vh + vb
            /\ s["battery_benefit"] = t["battery_benefit"] + vh - vg - vp + vb
<1> DEFINE r == RecordGrid(t, g, imp, exp)
           s == RecordBattery(r, g, imp, exp)
<1>0. \A f \in Flows : g[f] \in Nat
  OBVIOUS
<1>1. r = [t EXCEPT !["grid_charge_kwh"] = t["grid_charge_kwh"] + g["grid_to_battery"],
                    !["grid_charge_cost"] = t["grid_charge_cost"] + vg,
                    !["export_kwh"] = t["export_kwh"] + g["grid_export"],
                    !["export_revenue"] = t["export_revenue"] + ve,
                    !["battery_discharge_kwh"] = t["battery_discharge_kwh"] + g["battery_to_home"],
                    !["battery_discharge_value"] = t["battery_discharge_value"] + vh,
                    !["native_kwh"] = t["native_kwh"] + g["native_pv_to_home"],
                    !["native_value"] = t["native_value"] + vn]
  BY DEF RecordGrid
<1> HIDE DEF r
<1>2. /\ r \in [Fields -> Int]
      /\ r["grid_charge_kwh"] = t["grid_charge_kwh"] + g["grid_to_battery"]
      /\ r["grid_charge_cost"] = t["grid_charge_cost"] + vg
      /\ r["pv_charge_kwh"] = t["pv_charge_kwh"]
      /\ r["pv_opportunity_cost"] = t["pv_opportunity_cost"]
      /\ r["export_kwh"] = t["export_kwh"] + g["grid_export"]
      /\ r["native_kwh"] = t["native_kwh"] + g["native_pv_to_home"]
      /\ r["battery_discharge_kwh"] = t["battery_discharge_kwh"] + g["battery_to_home"]
      /\ r["battery_discharge_value"] = t["battery_discharge_value"] + vh
      /\ r["battery_benefit"] = t["battery_benefit"]
  BY <1>0, <1>1 DEF Fields, Flows, Imported, Exported
<1>3. s = [r EXCEPT !["pv_charge_kwh"] = r["pv_charge_kwh"] + g["pv_to_battery"],
                    !["pv_opportunity_cost"] = r["pv_opportunity_cost"] + vp,
                    !["battery_discharge_kwh"] = r["battery_discharge_kwh"] + g["battery_to_grid"],
                    !["battery_discharge_value"] = r["battery_discharge_value"] + vb,
                    !["battery_benefit"] = r["battery_benefit"] + vh - vg - vp + vb]
  BY DEF RecordBattery
<1> HIDE DEF s
<1>4. /\ s \in [Fields -> Int]
      /\ s["grid_charge_kwh"] = r["grid_charge_kwh"]
      /\ s["grid_charge_cost"] = r["grid_charge_cost"]
      /\ s["pv_charge_kwh"] = r["pv_charge_kwh"] + g["pv_to_battery"]
      /\ s["pv_opportunity_cost"] = r["pv_opportunity_cost"] + vp
      /\ s["export_kwh"] = r["export_kwh"]
      /\ s["native_kwh"] = r["native_kwh"]
      /\ s["battery_discharge_kwh"] = r["battery_discharge_kwh"] + g["battery_to_grid"]
      /\ s["battery_discharge_value"] = r["battery_discharge_value"] + vb
      /\ s["battery_benefit"] = r["battery_benefit"] + vh - vg - vp + vb
  BY <1>0, <1>2, <1>3 DEF Fields, Flows, Imported, Exported
<1>5. /\ t["battery_benefit"] \in Int /\ t["battery_discharge_value"] \in Int
      /\ t["battery_discharge_kwh"] \in Int
      /\ g["battery_to_home"] \in Nat /\ g["battery_to_grid"] \in Nat
  BY <1>0 DEF Fields, Flows, Imported, Exported
<1>6. /\ s["battery_discharge_kwh"] = t["battery_discharge_kwh"]
           + g["battery_to_home"] + g["battery_to_grid"]
      /\ s["battery_discharge_value"] = t["battery_discharge_value"] + vh + vb
      /\ s["battery_benefit"] = t["battery_benefit"] + vh - vg - vp + vb
  BY <1>2, <1>4, <1>5
<1>7. /\ s["grid_charge_kwh"] = t["grid_charge_kwh"] + g["grid_to_battery"]
      /\ s["grid_charge_cost"] = t["grid_charge_cost"] + vg
      /\ s["pv_charge_kwh"] = t["pv_charge_kwh"] + g["pv_to_battery"]
      /\ s["pv_opportunity_cost"] = t["pv_opportunity_cost"] + vp
      /\ s["export_kwh"] = t["export_kwh"] + g["grid_export"]
      /\ s["native_kwh"] = t["native_kwh"] + g["native_pv_to_home"]
  BY <1>2, <1>4
<1> QED BY <1>4, <1>6, <1>7 DEF r, s

\* A value is monotone in the energy that is valued.
LEMMA TimesMonotone ==
  ASSUME NEW p \in Nat, NEW r \in Nat, NEW x \in Nat, p <= r
  PROVE  p * x <= x * r
<1>1. r - p \in Nat /\ r = p + (r - p)
  OBVIOUS
<1>2. x * r = p * x + (r - p) * x
  BY <1>1
<1>3. (r - p) * x >= 0
  BY <1>1
<1> QED BY <1>1, <1>2, <1>3

PriceRange(p, q) == \A r \in ImportCosts : p <= r /\ r <= q

\* The value of energy whose price is known is a natural number.
LEMMA CostsAreNat == ImportCosts \subseteq Nat
BY PriceAssumption DEF ImportCosts

\* Flows that can be priced have natural values; what a record charges at most and at
\* least is bounded by the prices.
LEMMA PriceableSound ==
  ASSUME NEW flows \in [Flows -> Nat], NEW imp \in ImportPrices, NEW exp \in ExportPrices
  PROVE  LET g == Priceable(flows, imp, exp)
         IN /\ g \in [Flows -> Nat]
            /\ \A f \in Flows : /\ g[f] <= flows[f]
                                /\ Value(g, f, imp, exp) \in Nat
            /\ \A p, q \in ImportCosts : PriceRange(p, q) =>
                 /\ p * g["grid_to_battery"] <= Value(g, "grid_to_battery", imp, exp)
                 /\ Value(g, "grid_to_battery", imp, exp) <= q * g["grid_to_battery"]
<1> DEFINE g == Priceable(flows, imp, exp)
<1>0. /\ imp \in Nat \cup {NoPrice} /\ exp \in Nat \cup {NoPrice} /\ NoPrice \notin Nat
      /\ imp # NoPrice => imp \in ImportCosts
  BY PriceAssumption DEF ImportCosts
<1>1. /\ g \in [Flows -> Nat]
      /\ \A f \in Flows : g[f] = IF Priced(f, imp, exp) THEN flows[f] ELSE 0
  BY DEF Priceable
<1> HIDE DEF g
<1>2. \A f \in Flows : g[f] \in Nat /\ g[f] <= flows[f]
  BY <1>1
<1>3. ASSUME NEW f \in Flows PROVE Value(g, f, imp, exp) \in Nat
  <2>1. CASE g[f] = 0
    BY <2>1 DEF Value
  <2>2. CASE g[f] # 0
    <3> DEFINE price == IF f \in Imported THEN imp ELSE exp
    <3>1. Priced(f, imp, exp)
      BY <2>2, <1>1
    <3>2. price \in Nat
      BY <3>1, <1>0 DEF Priced
    <3>3. Value(g, f, imp, exp) = g[f] * price
      BY <2>2 DEF Value
    <3> HIDE DEF price
    <3> QED BY <3>2, <3>3, <1>2
  <2> QED BY <2>1, <2>2
<1>4. ASSUME NEW p \in ImportCosts, NEW q \in ImportCosts, PriceRange(p, q)
      PROVE  /\ p * g["grid_to_battery"] <= Value(g, "grid_to_battery", imp, exp)
             /\ Value(g, "grid_to_battery", imp, exp) <= q * g["grid_to_battery"]
  <2> DEFINE x == g["grid_to_battery"]
  <2>0. "grid_to_battery" \in Flows /\ "grid_to_battery" \in Imported
    BY DEF Flows, Imported
  <2>1. p \in Nat /\ q \in Nat /\ x \in Nat
    BY <2>0, <1>2, CostsAreNat
  <2>2. CASE x = 0
    BY <2>1, <2>2 DEF Value
  <2>3. CASE x # 0
    <3>1. imp # NoPrice
      BY <2>0, <2>3, <1>1 DEF Priced
    <3>2. imp \in Nat /\ p <= imp /\ imp <= q
      BY <3>1, <1>0, <1>4, CostsAreNat DEF PriceRange
    <3>3. Value(g, "grid_to_battery", imp, exp) = x * imp
      BY <2>0, <2>3 DEF Value
    <3> HIDE DEF x
    <3>4. p * x <= x * imp
      BY <2>1, <3>2, TimesMonotone
    <3>5. imp * x <= x * q
      BY <2>1, <3>2, TimesMonotone
    <3>6. imp * x = x * imp /\ q * x = x * q
      BY <2>1, <3>2
    <3> QED BY <3>3, <3>4, <3>5, <3>6 DEF x
  <2> QED BY <2>2, <2>3
<1> QED BY <1>1, <1>2, <1>3, <1>4 DEF g

\* the totals t, the energy e and the energy u without a price belong together
Booked(t, e, u) ==
  /\ t \in [Fields -> Int] /\ e \in [Flows -> Nat] /\ u \in [Flows -> Nat]
  /\ t["grid_charge_kwh"] + u["grid_to_battery"] = e["grid_to_battery"]
  /\ t["pv_charge_kwh"] + u["pv_to_battery"] = e["pv_to_battery"]
  /\ t["export_kwh"] + u["grid_export"] = e["grid_export"]
  /\ t["native_kwh"] + u["native_pv_to_home"] = e["native_pv_to_home"]
  /\ t["battery_discharge_kwh"] + u["battery_to_home"] + u["battery_to_grid"]
       = e["battery_to_home"] + e["battery_to_grid"]
  /\ t["battery_benefit"] = t["battery_discharge_value"] - t["grid_charge_cost"]
                              - t["pv_opportunity_cost"]
  /\ \A p, q \in ImportCosts : PriceRange(p, q) =>
       /\ p * t["grid_charge_kwh"] <= t["grid_charge_cost"]
       /\ t["grid_charge_cost"] <= q * t["grid_charge_kwh"]

Unpriced(flows, imp, exp) ==
  [f \in Flows |-> flows[f] - Priceable(flows, imp, exp)[f]]

\* Money of nothing is booked for no energy.
LEMMA NothingBooked ==
  ASSUME NEW e \in [Flows -> Nat]
  PROVE  Booked(NoTotals, e, e)
<1>1. /\ NoTotals["grid_charge_kwh"] = 0 /\ NoTotals["pv_charge_kwh"] = 0
      /\ NoTotals["export_kwh"] = 0 /\ NoTotals["native_kwh"] = 0
      /\ NoTotals["battery_discharge_kwh"] = 0 /\ NoTotals["battery_benefit"] = 0
      /\ NoTotals["battery_discharge_value"] = 0 /\ NoTotals["grid_charge_cost"] = 0
      /\ NoTotals["pv_opportunity_cost"] = 0
  BY NoTotalsFields DEF Fields
<1>2. \A f \in Flows : e[f] \in Nat
  OBVIOUS
<1>3. \A p \in ImportCosts : p \in Nat
  BY CostsAreNat
<1> QED BY <1>1, <1>2, <1>3, NoTotalsFields DEF Booked, Flows, Imported, Exported

\* Booking flows that can be priced keeps money and energy in step.
LEMMA RecordBooks ==
  ASSUME NEW t, NEW e, NEW u, Booked(t, e, u),
         NEW flows \in [Flows -> Nat], NEW imp \in ImportPrices, NEW exp \in ExportPrices
  PROVE  Booked(Record(t, flows, imp, exp), Plus(e, flows),
                Plus(u, Unpriced(flows, imp, exp)))
<1> DEFINE g  == Priceable(flows, imp, exp)
           s  == Record(t, flows, imp, exp)
           e1 == Plus(e, flows)
           u1 == Plus(u, Unpriced(flows, imp, exp))
<1>1. /\ g \in [Flows -> Nat]
      /\ \A f \in Flows : g[f] \in Nat /\ g[f] <= flows[f] /\ Value(g, f, imp, exp) \in Nat
  BY PriceableSound
<1>2. ASSUME NEW p \in ImportCosts, NEW q \in ImportCosts, PriceRange(p, q)
      PROVE  /\ p * g["grid_to_battery"] <= Value(g, "grid_to_battery", imp, exp)
             /\ Value(g, "grid_to_battery", imp, exp) <= q * g["grid_to_battery"]
  BY <1>2, PriceableSound
<1>3. /\ e1 \in [Flows -> Nat] /\ u1 \in [Flows -> Nat]
      /\ \A f \in Flows : /\ e1[f] = e[f] + flows[f]
                          /\ u1[f] = u[f] + (flows[f] - g[f])
  <2>1. DOMAIN e = Flows /\ DOMAIN u = Flows
    BY DEF Booked
  <2>2. \A f \in Flows : e[f] \in Nat /\ u[f] \in Nat /\ flows[f] \in Nat
    BY DEF Booked
  <2>3. e1 = [f \in Flows |-> e[f] + flows[f]]
    BY <2>1 DEF Plus
  <2>4. u1 = [f \in Flows |-> u[f] + (flows[f] - g[f])]
    BY <2>1 DEF Plus, Unpriced
  <2> HIDE DEF e1, u1, g
  <2>5. \A f \in Flows : e[f] + flows[f] \in Nat /\ u[f] + (flows[f] - g[f]) \in Nat
    BY <1>1, <2>2
  <2> QED BY <2>3, <2>4, <2>5
<1>4. s = RecordBattery(RecordGrid(t, g, imp, exp), g, imp, exp)
  BY DEF Record
<1> DEFINE vg == Value(g, "grid_to_battery", imp, exp)
           vp == Value(g, "pv_to_battery", imp, exp)
           vh == Value(g, "battery_to_home", imp, exp)
           vb == Value(g, "battery_to_grid", imp, exp)
           ve == Value(g, "grid_export", imp, exp)
           vn == Value(g, "native_pv_to_home", imp, exp)
<1> HIDE DEF s, e1, u1, g
<1>5. vg \in Nat /\ vp \in Nat /\ vh \in Nat /\ vb \in Nat /\ ve \in Nat /\ vn \in Nat
  BY <1>1 DEF Flows, Imported, Exported
<1>6. t \in [Fields -> Int]
  BY DEF Booked
<1>7. /\ s \in [Fields -> Int]
      /\ s["grid_charge_kwh"] = t["grid_charge_kwh"] + g["grid_to_battery"]
      /\ s["grid_charge_cost"] = t["grid_charge_cost"] + vg
      /\ s["pv_charge_kwh"] = t["pv_charge_kwh"] + g["pv_to_battery"]
      /\ s["pv_opportunity_cost"] = t["pv_opportunity_cost"] + vp
      /\ s["export_kwh"] = t["export_kwh"] + g["grid_export"]
      /\ s["native_kwh"] = t["native_kwh"] + g["native_pv_to_home"]
      /\ s["battery_discharge_kwh"] = t["battery_discharge_kwh"]
           + g["battery_to_home"] + g["battery_to_grid"]
      /\ s["battery_discharge_value"] = t["battery_discharge_value"] + vh + vb
      /\ s["battery_benefit"] = t["battery_benefit"] + vh - vg - vp + vb
  BY <1>1, <1>4, <1>5, <1>6, RecordAdds
<1> HIDE DEF vg, vp, vh, vb
<1>8. \A x \in Flows : /\ e[x] \in Nat /\ u[x] \in Nat /\ flows[x] \in Nat /\ g[x] \in Nat
                       /\ e1[x] = e[x] + flows[x]
                       /\ u1[x] = u[x] + (flows[x] - g[x])
  BY <1>1, <1>3 DEF Booked
<1>9. \A x \in Fields : t[x] \in Int
  BY <1>6
<1>10. s["grid_charge_kwh"] + u1["grid_to_battery"] = e1["grid_to_battery"]
  BY <1>7, <1>8, <1>9 DEF Booked, Flows, Imported, Exported, Fields
<1>11. s["pv_charge_kwh"] + u1["pv_to_battery"] = e1["pv_to_battery"]
  BY <1>7, <1>8, <1>9 DEF Booked, Flows, Imported, Exported, Fields
<1>12. s["export_kwh"] + u1["grid_export"] = e1["grid_export"]
  BY <1>7, <1>8, <1>9 DEF Booked, Flows, Imported, Exported, Fields
<1>13. s["native_kwh"] + u1["native_pv_to_home"] = e1["native_pv_to_home"]
  BY <1>7, <1>8, <1>9 DEF Booked, Flows, Imported, Exported, Fields
<1>14. s["battery_discharge_kwh"] + u1["battery_to_home"] + u1["battery_to_grid"]
         = e1["battery_to_home"] + e1["battery_to_grid"]
  BY <1>7, <1>8, <1>9 DEF Booked, Flows, Imported, Exported, Fields
<1>15. s["battery_benefit"] = s["battery_discharge_value"] - s["grid_charge_cost"]
                                - s["pv_opportunity_cost"]
  BY <1>5, <1>7, <1>9 DEF Booked, Fields
<1>16. ASSUME NEW p \in ImportCosts, NEW q \in ImportCosts, PriceRange(p, q)
       PROVE  /\ p * s["grid_charge_kwh"] <= s["grid_charge_cost"]
              /\ s["grid_charge_cost"] <= q * s["grid_charge_kwh"]
  <2> DEFINE x == t["grid_charge_kwh"]
             c == t["grid_charge_cost"]
             y == g["grid_to_battery"]
  <2>1. p \in Nat /\ q \in Nat /\ x \in Int /\ c \in Int /\ y \in Nat /\ vg \in Nat
    BY <1>5, <1>8, <1>9, CostsAreNat DEF Flows, Imported, Fields
  <2>2. p * x <= c /\ c <= q * x
    BY <1>16 DEF Booked
  <2>3. p * y <= vg /\ vg <= q * y
    BY <1>2, <1>16 DEF vg
  <2>4. s["grid_charge_kwh"] = x + y /\ s["grid_charge_cost"] = c + vg
    BY <1>7
  <2> HIDE DEF x, y, c
  <2>5. p * (x + y) = p * x + p * y /\ q * (x + y) = q * x + q * y
    BY <2>1
  <2>6. p * (x + y) <= c + vg /\ c + vg <= q * (x + y)
    BY <2>1, <2>2, <2>3, <2>5
  <2> QED BY <2>4, <2>6
<1> QED
  BY <1>3, <1>7, <1>10, <1>11, <1>12, <1>13, <1>14, <1>15, <1>16 DEF Booked, s, e1, u1

-----------------------------------------------------------------------------
(* ... and the times at which it flows: a sample is booked into the day it  *)
(* ends in, with no more than the part after midnight                       *)

\* Midnight is the start of the day a time belongs to.
LEMMA DayIs ==
  ASSUME NEW t \in Nat
  PROVE  /\ DayOf(t) \in Nat /\ Midnight(t) \in Nat
         /\ Midnight(t) <= t /\ t < Midnight(t) + DayLength
<1>1. DayLength \in Nat /\ DayLength > 0
  BY TimeAssumption
<1>2. t \div DayLength \in Nat
  BY <1>1
<1>3. (t \div DayLength) * DayLength <= t
  BY <1>1
<1>4. t < (t \div DayLength) * DayLength + DayLength
  BY <1>1
<1>5. (t \div DayLength) * DayLength \in Nat
  BY <1>1, <1>2
<1> QED BY <1>2, <1>3, <1>4, <1>5 DEF DayOf, Midnight

\* Days follow each other as times do.
LEMMA DaysFollow ==
  ASSUME NEW s \in Nat, NEW t \in Nat, s <= t
  PROVE  /\ DayOf(s) <= DayOf(t)
         /\ DayOf(s) # DayOf(t) => s < Midnight(t)
         /\ DayOf(s) = DayOf(t) => Midnight(s) = Midnight(t)
<1>1. DayLength \in Nat /\ DayLength > 0
  BY TimeAssumption
<1>2. /\ DayOf(s) \in Nat /\ DayOf(t) \in Nat
      /\ Midnight(s) \in Nat /\ Midnight(t) \in Nat
      /\ Midnight(s) <= s /\ s < Midnight(s) + DayLength
      /\ Midnight(t) <= t /\ t < Midnight(t) + DayLength
  BY DayIs
<1>3. ASSUME NEW a \in Nat, NEW b \in Nat, a < b
      PROVE  a * DayLength + DayLength <= b * DayLength
  <2>1. a + 1 <= b /\ a + 1 \in Nat
    BY <1>3
  <2>2. (a + 1) * DayLength <= DayLength * b
    BY <2>1, <1>1, TimesMonotone
  <2>3. (a + 1) * DayLength = a * DayLength + DayLength /\ DayLength * b = b * DayLength
    BY <1>1
  <2> QED BY <2>2, <2>3
<1>4. ~(DayOf(t) < DayOf(s))
  <2> SUFFICES ASSUME DayOf(t) < DayOf(s) PROVE FALSE
    OBVIOUS
  <2>1. DayOf(t) * DayLength + DayLength <= DayOf(s) * DayLength
    BY <1>2, <1>3
  <2>2. Midnight(t) + DayLength <= Midnight(s)
    BY <2>1 DEF Midnight
  <2> QED BY <2>2, <1>1, <1>2
<1>5. ASSUME DayOf(s) # DayOf(t) PROVE s < Midnight(t)
  <2>1. DayOf(s) < DayOf(t)
    BY <1>2, <1>4, <1>5
  <2>2. DayOf(s) * DayLength + DayLength <= DayOf(t) * DayLength
    BY <2>1, <1>2, <1>3
  <2>3. Midnight(s) + DayLength <= Midnight(t)
    BY <2>2 DEF Midnight
  <2> QED BY <2>3, <1>1, <1>2
<1> QED BY <1>2, <1>4, <1>5 DEF Midnight

EnergyTimes ==
  /\ now \in 0..MaxTime /\ last \in {NoTime, now} /\ seen = last
  /\ moneyDay = day /\ day \in Nat \cup {NoTime}
  /\ day # NoTime => day <= DayOf(now)
  /\ last # NoTime => day = DayOf(now)
  /\ awake \in Nat

EnergyBooks == \A b \in Buckets : Booked(money[b], energy[b], unpriced[b])

EnergyBounds ==
  /\ DOMAIN energy = Buckets /\ energy = [b \in Buckets |-> energy[b]]
  /\ \A f \in Flows : energy["daily"][f] <= energy["total"][f]
                      /\ energy["total"][f] <= awake
  /\ ~cut /\ day = DayOf(now) =>
       \A f \in Flows : energy["daily"][f] <= now - Midnight(now)

EnergyInv == EnergyTimes /\ EnergyBooks /\ EnergyBounds

\* The inductive invariant implies what the run checks.
LEMMA EnergyInvSound == EnergyInv => EnergySound /\ MoneySound
<1> SUFFICES ASSUME EnergyInv PROVE EnergySound /\ MoneySound
  OBVIOUS
<1>1. /\ \A b \in Buckets : /\ money[b] \in [Fields -> Int]
                            /\ energy[b] \in [Flows -> Nat]
  BY DEF EnergyInv, EnergyBooks, Booked
<1>2. energy \in [Buckets -> [Flows -> Nat]]
  BY <1>1 DEF EnergyInv, EnergyBounds
<1>3. EnergyTypeOK
  <2>1. \A b \in Buckets : DOMAIN money[b] = DOMAIN NoTotals
    BY <1>1, NoTotalsFields
  <2>2. now \in 0..MaxTime /\ last \in 0..MaxTime \cup {NoTime}
    BY DEF EnergyInv, EnergyTimes
  <2> QED BY <1>2, <2>1, <2>2 DEF EnergyTypeOK
<1>4. \A f \in Flows :
        /\ energy.daily[f] <= energy.total[f] /\ energy.total[f] <= awake
        /\ last # NoTime /\ ~cut => energy.daily[f] <= last - Midnight(last)
  BY DEF EnergyInv, EnergyTimes, EnergyBounds
<1>5. EnergySound
  BY <1>3, <1>4 DEF EnergySound
<1>6. MoneySound
  <2> SUFFICES ASSUME NEW b \in Buckets
               PROVE  LET t == money[b]  e == energy[b]  u == unpriced[b]
                      IN /\ \A f \in {"grid_to_battery", "pv_to_battery", "grid_export", "native_pv_to_home"} :
                              Kwh(t, f) + u[f] = e[f]
                         /\ t.battery_discharge_kwh + u["battery_to_home"] + u["battery_to_grid"]
                              = e["battery_to_home"] + e["battery_to_grid"]
                         /\ \E p, q \in ImportCosts :
                              /\ p * t.grid_charge_kwh <= t.grid_charge_cost
                              /\ t.grid_charge_cost <= q * t.grid_charge_kwh
                         /\ t.battery_benefit = t.battery_discharge_value - t.grid_charge_cost
                                                  - t.pv_opportunity_cost
    BY DEF MoneySound
  <2>1. Booked(money[b], energy[b], unpriced[b])
    BY DEF EnergyInv, EnergyBooks
  <2>2. \E p, q \in ImportCosts : PriceRange(p, q)
    BY PriceAssumption DEF PriceRange, ImportCosts
  <2>3. \E p, q \in ImportCosts :
          /\ p * money[b].grid_charge_kwh <= money[b].grid_charge_cost
          /\ money[b].grid_charge_cost <= q * money[b].grid_charge_kwh
    BY <2>1, <2>2 DEF Booked
  <2> QED BY <2>1, <2>3 DEF Booked, Kwh
<1> QED BY <1>5, <1>6

\* Nothing is counted at first.
LEMMA EnergyInitInv == EnergyInit => EnergyInv
<1> SUFFICES ASSUME EnergyInit PROVE EnergyInv
  OBVIOUS
<1>1. NoEnergy \in [Flows -> Nat] /\ \A f \in Flows : NoEnergy[f] = 0
  BY DEF NoEnergy
<1>2. MaxTime \in Nat /\ NoTime \notin Nat /\ 0 \in Nat
  BY TimeAssumption
<1>3. DayOf(0) \in Nat
  BY <1>2, DayIs
<1>4. EnergyTimes
  BY <1>2, <1>3 DEF EnergyInit, EnergyTimes
<1>5. EnergyBooks
  BY <1>1, NothingBooked DEF EnergyInit, EnergyBooks
<1>6. energy["daily"] = NoEnergy /\ energy["total"] = NoEnergy
  BY DEF EnergyInit, Buckets
<1>7. EnergyBounds
  BY <1>1, <1>2, <1>3, <1>6 DEF EnergyInit, EnergyBounds
<1> QED BY <1>4, <1>5, <1>7 DEF EnergyInv

\* What the counting of one sample adds to energy and money.
LEMMA AccountBooks ==
  ASSUME EnergyInv, NEW d, NEW flow, NEW imp \in ImportPrices, NEW exp \in ExportPrices,
         NEW part1 \in Nat, NEW whole \in Nat, part1 <= whole,
         Account(d, flow, part1, whole, imp, exp)
  PROVE  /\ EnergyBooks' /\ moneyDay' = d /\ day' = d
         /\ DOMAIN energy' = Buckets /\ energy' = [b \in Buckets |-> energy'[b]]
         /\ \A f \in Flows :
              /\ energy'["total"][f] \in Nat /\ energy'["daily"][f] \in Nat
              /\ energy'["daily"][f] <= energy'["total"][f]
              /\ energy'["total"][f] <= energy["total"][f] + whole
              /\ energy'["daily"][f] <= part1 + IF day = d THEN energy["daily"][f] ELSE 0
<1> DEFINE daily == ToEnergy(flow, part1)
           total == ToEnergy(flow, whole)
           flows == [daily |-> daily, total |-> total]
           zero  == NoEnergy
<1>1. /\ daily \in [Flows -> Nat] /\ total \in [Flows -> Nat] /\ zero \in [Flows -> Nat]
      /\ \A f \in Flows : daily[f] <= part1 /\ total[f] <= whole /\ daily[f] <= total[f]
      /\ \A f \in Flows : zero[f] = 0
  BY DEF ToEnergy, NoEnergy
<1>2. /\ day' = d /\ moneyDay' = d
      /\ energy' = [daily |-> Plus(DailyOf(energy.daily, d, zero), flows.daily),
                    total |-> Plus(energy.total, flows.total)]
      /\ money' = [daily |-> Record(MoneyDaily(d), flows.daily, imp, exp),
                   total |-> Record(money.total, flows.total, imp, exp)]
      /\ unpriced' = [daily |-> Plus(DailyOf(unpriced.daily, d, zero),
                                     Unpriced(flows["daily"], imp, exp)),
                      total |-> Plus(unpriced.total, Unpriced(flows["total"], imp, exp))]
  BY DEF Account, Unpriced
<1>3. flows.daily = daily /\ flows.total = total /\ flows["daily"] = daily
      /\ flows["total"] = total
  OBVIOUS
<1> HIDE DEF daily, total, flows, zero
<1>4. /\ Booked(money["daily"], energy["daily"], unpriced["daily"])
      /\ Booked(money["total"], energy["total"], unpriced["total"])
      /\ moneyDay = day
  BY DEF EnergyInv, EnergyBooks, EnergyTimes, Buckets
<1> DEFINE m0 == MoneyDaily(d)
           e0 == DailyOf(energy["daily"], d, zero)
           u0 == DailyOf(unpriced["daily"], d, zero)
<1>5. /\ Booked(m0, e0, u0) /\ e0 \in [Flows -> Nat]
      /\ \A f \in Flows : /\ e0[f] <= energy["daily"][f]
                          /\ e0[f] = IF day = d THEN energy["daily"][f] ELSE 0
  <2>1. CASE day = d
    <3>1. m0 = money["daily"] /\ e0 = energy["daily"] /\ u0 = unpriced["daily"]
      BY <2>1, <1>4 DEF MoneyDaily, DailyOf
    <3>2. \A f \in Flows : energy["daily"][f] \in Nat
      BY <1>4 DEF Booked
    <3> QED BY <2>1, <3>1, <3>2, <1>4 DEF Booked
  <2>2. CASE day # d
    <3>1. m0 = NoTotals /\ e0 = zero /\ u0 = zero
      BY <2>2, <1>4 DEF MoneyDaily, DailyOf
    <3>2. Booked(NoTotals, zero, zero)
      BY <1>1, NothingBooked
    <3>3. \A f \in Flows : energy["daily"][f] \in Nat
      BY <1>4 DEF Booked
    <3> QED BY <2>2, <3>1, <3>2, <3>3, <1>1
  <2> QED BY <2>1, <2>2
<1>6. /\ energy'["daily"] = Plus(e0, daily) /\ energy'["total"] = Plus(energy["total"], total)
      /\ money'["daily"] = Record(m0, daily, imp, exp)
      /\ money'["total"] = Record(money["total"], total, imp, exp)
      /\ unpriced'["daily"] = Plus(u0, Unpriced(daily, imp, exp))
      /\ unpriced'["total"] = Plus(unpriced["total"], Unpriced(total, imp, exp))
  BY <1>2, <1>3
<1> HIDE DEF m0, e0, u0
<1>7. /\ Booked(money'["daily"], energy'["daily"], unpriced'["daily"])
      /\ Booked(money'["total"], energy'["total"], unpriced'["total"])
  BY <1>1, <1>4, <1>5, <1>6, RecordBooks
<1>8. EnergyBooks'
  BY <1>7 DEF EnergyBooks, Buckets
<1>9. /\ DOMAIN energy["total"] = Flows /\ DOMAIN e0 = Flows
      /\ \A f \in Flows : energy["total"][f] \in Nat /\ e0[f] \in Nat
                          /\ daily[f] \in Nat /\ total[f] \in Nat
  BY <1>1, <1>4, <1>5 DEF Booked
<1>10. /\ energy'["daily"] = [f \in Flows |-> e0[f] + daily[f]]
       /\ energy'["total"] = [f \in Flows |-> energy["total"][f] + total[f]]
  BY <1>6, <1>9 DEF Plus
<1>11. ASSUME NEW f \in Flows
       PROVE  /\ energy'["total"][f] \in Nat /\ energy'["daily"][f] \in Nat
              /\ energy'["daily"][f] <= energy'["total"][f]
              /\ energy'["total"][f] <= energy["total"][f] + whole
              /\ energy'["daily"][f] <= part1 + IF day = d THEN energy["daily"][f] ELSE 0
  <2>1. energy["daily"][f] <= energy["total"][f] /\ energy["daily"][f] \in Nat
    BY <1>4 DEF EnergyInv, EnergyBounds, Booked
  <2>2. e0[f] <= energy["daily"][f] /\ e0[f] = IF day = d THEN energy["daily"][f] ELSE 0
    BY <1>5
  <2>3. daily[f] <= part1 /\ total[f] <= whole /\ daily[f] <= total[f]
    BY <1>1
  <2>4. /\ e0[f] \in Nat /\ daily[f] \in Nat /\ total[f] \in Nat /\ energy["total"][f] \in Nat
        /\ energy'["daily"][f] = e0[f] + daily[f]
        /\ energy'["total"][f] = energy["total"][f] + total[f]
    BY <1>9, <1>10
  <2>5. /\ energy'["total"][f] \in Nat /\ energy'["daily"][f] \in Nat
        /\ energy'["daily"][f] <= energy'["total"][f]
        /\ energy'["total"][f] <= energy["total"][f] + whole
    BY <2>1, <2>2, <2>3, <2>4
  <2>6. energy'["daily"][f] <= part1 + e0[f]
    BY <2>3, <2>4
  <2> QED BY <2>2, <2>5, <2>6
<1>12. DOMAIN energy' = Buckets /\ energy' = [b \in Buckets |-> energy'[b]]
  BY <1>2 DEF Buckets
<1> QED BY <1>2, <1>8, <1>11, <1>12

\* A sample, a pause or a restart keeps the invariant.
LEMMA EnergyStepInv == EnergyInv /\ [EnergyNext]_energyVars => EnergyInv'
<1> SUFFICES ASSUME EnergyInv, [EnergyNext]_energyVars PROVE EnergyInv'
  OBVIOUS
<1>1. CASE UNCHANGED energyVars
  BY <1>1 DEF energyVars, EnergyInv, EnergyTimes, EnergyBooks, EnergyBounds, DayOf, Midnight
<1>2. /\ now \in Nat /\ MaxTime \in Nat /\ MaxInterval \in Nat /\ MaxInterval > 0
      /\ Intervals \subseteq Nat /\ NoTime \notin Nat
      /\ last \in {NoTime, now} /\ seen = last /\ moneyDay = day
      /\ day \in Nat \cup {NoTime} /\ awake \in Nat
  BY TimeAssumption DEF EnergyInv, EnergyTimes
<1>3. \A f \in Flows : /\ energy["daily"][f] \in Nat /\ energy["total"][f] \in Nat
                       /\ energy["daily"][f] <= energy["total"][f]
                       /\ energy["total"][f] <= awake
  BY DEF EnergyInv, EnergyBooks, EnergyBounds, Booked, Buckets
<1>4. ASSUME NEW dt \in Intervals, NEW flow \in Samples,
             NEW imp \in ImportPrices, NEW exp \in ExportPrices,
             Sample(dt, flow, imp, exp)
      PROVE  EnergyInv'
  <2> DEFINE t == now + dt
  <2>1. now' = t /\ t \in 0..MaxTime /\ t \in Nat /\ now <= t
    BY <1>2, <1>4 DEF Sample
  <2>2. /\ DayOf(now) \in Nat /\ DayOf(t) \in Nat /\ DayOf(now) <= DayOf(t)
        /\ Midnight(t) \in Nat /\ Midnight(t) <= t
        /\ DayOf(now) # DayOf(t) => now < Midnight(t)
        /\ DayOf(now) = DayOf(t) => Midnight(now) = Midnight(t)
        /\ Midnight(now) \in Nat /\ Midnight(now) <= now
    BY <1>2, <2>1, DayIs, DaysFollow
  <2>3. day # NoTime => day <= DayOf(now)
    BY DEF EnergyInv, EnergyTimes
  <2>4. ASSUME ~cut, day = DayOf(t), NEW f \in Flows
        PROVE  energy["daily"][f] <= now - Midnight(t)
    <3>1. day = DayOf(now)
      BY <2>4, <2>2, <2>3, <1>2
    <3> QED BY <3>1, <2>4, <2>2 DEF EnergyInv, EnergyBounds
  <2> HIDE DEF t
  <2>5. CASE Baseline(t, imp, exp)
    <3> DEFINE none == 0
    <3>0. none = 0 /\ none \in Nat /\ none <= none
      OBVIOUS
    <3>1. /\ Account(DayOf(t), {}, none, none, imp, exp) /\ last' = t /\ seen' = t
          /\ cut' = (cut /\ day = DayOf(t)) /\ awake' = awake
      BY <2>5 DEF Baseline
    <3> HIDE DEF none
    <3>2. /\ EnergyBooks' /\ moneyDay' = DayOf(t) /\ day' = DayOf(t)
          /\ DOMAIN energy' = Buckets /\ energy' = [b \in Buckets |-> energy'[b]]
          /\ \A f \in Flows :
               /\ energy'["total"][f] \in Nat /\ energy'["daily"][f] \in Nat
               /\ energy'["daily"][f] <= energy'["total"][f]
               /\ energy'["total"][f] <= energy["total"][f] + none
               /\ energy'["daily"][f] <= none + IF day = DayOf(t) THEN energy["daily"][f] ELSE 0
      BY <1>4, <3>0, <3>1, AccountBooks
    <3>3. EnergyTimes'
      BY <1>2, <2>1, <2>2, <3>1, <3>2 DEF EnergyTimes, DayOf
    <3>4. \A f \in Flows : energy'["daily"][f] <= energy'["total"][f]
                           /\ energy'["total"][f] <= awake'
      BY <1>2, <1>3, <3>0, <3>1, <3>2
    <3>5. ASSUME ~cut', NEW f \in Flows PROVE energy'["daily"][f] <= t - Midnight(t)
      <4>0. day = DayOf(t) => ~cut
        BY <3>1, <3>5
      <4>1. CASE day = DayOf(t)
        BY <4>0, <4>1, <3>0, <3>2, <2>1, <2>2, <2>4, <1>2, <1>3
      <4>2. CASE day # DayOf(t)
        BY <4>2, <3>0, <3>2, <2>1, <2>2
      <4> QED BY <4>1, <4>2
    <3>6. EnergyBounds'
      BY <2>1, <3>2, <3>4, <3>5 DEF EnergyBounds, Midnight, DayOf
    <3> QED BY <3>2, <3>3, <3>6 DEF EnergyInv
  <2>6. CASE Duplicate(t, imp, exp)
    <3> DEFINE none == 0
    <3>0. none = 0 /\ none \in Nat /\ none <= none
      OBVIOUS
    <3>1. /\ Account(day, {}, none, none, imp, exp) /\ last' = last /\ seen' = seen
          /\ cut' = cut /\ awake' = awake /\ last # NoTime /\ t <= last
      BY <2>6 DEF Duplicate
    <3> HIDE DEF none
    <3>2. /\ EnergyBooks' /\ moneyDay' = day /\ day' = day
          /\ DOMAIN energy' = Buckets /\ energy' = [b \in Buckets |-> energy'[b]]
          /\ \A f \in Flows :
               /\ energy'["total"][f] \in Nat /\ energy'["daily"][f] \in Nat
               /\ energy'["daily"][f] <= energy'["total"][f]
               /\ energy'["total"][f] <= energy["total"][f] + none
               /\ energy'["daily"][f] <= none + IF day = day THEN energy["daily"][f] ELSE 0
      BY <1>4, <3>0, <3>1, AccountBooks
    <3>3. t = now
      BY <1>2, <2>1, <3>1
    <3>4. EnergyTimes'
      BY <1>2, <2>1, <3>1, <3>2, <3>3 DEF EnergyInv, EnergyTimes
    <3>5. \A f \in Flows : energy'["daily"][f] <= energy'["total"][f]
                           /\ energy'["total"][f] <= awake'
      BY <1>2, <1>3, <3>0, <3>1, <3>2
    <3>6. ASSUME ~cut', day' = DayOf(t), NEW f \in Flows
          PROVE  energy'["daily"][f] <= t - Midnight(t)
      BY <3>6, <3>0, <3>1, <3>2, <3>3, <2>1, <2>2, <2>4, <1>2, <1>3
    <3>7. EnergyBounds'
      BY <2>1, <3>2, <3>5, <3>6 DEF EnergyBounds, Midnight, DayOf
    <3> QED BY <3>2, <3>4, <3>7 DEF EnergyInv
  <2>7. CASE Interval(t, flow, imp, exp)
    <3>1. last = now /\ last # NoTime /\ t > now /\ day = DayOf(now)
      BY <1>2, <2>7 DEF Interval, EnergyInv, EnergyTimes
    <3> DEFINE whole == Accounted(t - last)
               part1 == Today(t)
    <3>2. whole \in Nat /\ whole <= t - now
      BY <1>2, <2>1, <3>1 DEF Accounted
    <3>3. /\ part1 \in Nat /\ part1 <= whole
          /\ DayOf(now) # DayOf(t) /\ whole = t - now => part1 = t - Midnight(t)
          /\ ~(DayOf(now) # DayOf(t) /\ whole = t - now) => part1 = whole
      BY <1>2, <2>1, <2>2, <3>1, <3>2 DEF Today
    <3>4. /\ Account(DayOf(t), flow, part1, whole, imp, exp)
          /\ last' = t /\ seen' = t /\ awake' = awake + t - now
          /\ cut' = ((cut /\ day = DayOf(t)) \/ whole < t - now)
      BY <1>2, <2>7, <3>1 DEF Interval
    <3> HIDE DEF whole, part1
    <3>5. /\ EnergyBooks' /\ moneyDay' = DayOf(t) /\ day' = DayOf(t)
          /\ DOMAIN energy' = Buckets /\ energy' = [b \in Buckets |-> energy'[b]]
          /\ \A f \in Flows :
               /\ energy'["total"][f] \in Nat /\ energy'["daily"][f] \in Nat
               /\ energy'["daily"][f] <= energy'["total"][f]
               /\ energy'["total"][f] <= energy["total"][f] + whole
               /\ energy'["daily"][f] <= part1 + IF day = DayOf(t) THEN energy["daily"][f] ELSE 0
      BY <1>4, <3>2, <3>3, <3>4, AccountBooks
    <3>6. EnergyTimes'
      <4>1. awake' \in Nat
        BY <1>2, <2>1, <3>4
      <4> QED BY <4>1, <1>2, <2>1, <2>2, <3>4, <3>5 DEF EnergyTimes, DayOf
    <3>7. ASSUME NEW f \in Flows PROVE energy'["total"][f] <= awake'
      BY <1>2, <1>3, <2>1, <3>2, <3>4, <3>5
    <3>8. ASSUME ~cut', NEW f \in Flows PROVE energy'["daily"][f] <= t - Midnight(t)
      <4>1. whole = t - now /\ (~cut \/ day # DayOf(t))
        <5>1. ~(cut /\ day = DayOf(t)) /\ ~(whole < t - now)
          BY <3>4, <3>8
        <5> QED BY <5>1, <1>2, <2>1, <3>2
      <4>2. CASE day = DayOf(t)
        <5>1. part1 = t - now
          BY <4>1, <4>2, <3>1, <3>3
        <5>2. energy["daily"][f] <= now - Midnight(t)
          BY <4>1, <4>2, <2>4
        <5>3. energy'["daily"][f] <= part1 + energy["daily"][f]
          BY <4>2, <3>5
        <5> QED BY <5>1, <5>2, <5>3, <1>2, <1>3, <2>1, <2>2, <3>5
      <4>3. CASE day # DayOf(t)
        <5>1. part1 = t - Midnight(t)
          BY <4>1, <4>3, <3>1, <3>3
        <5>2. energy'["daily"][f] <= part1 + 0
          BY <4>3, <3>5
        <5> QED BY <5>1, <5>2, <2>1, <2>2, <3>5
      <4> QED BY <4>2, <4>3
    <3>9. EnergyBounds'
      BY <2>1, <3>5, <3>7, <3>8 DEF EnergyBounds, Midnight, DayOf
    <3> QED BY <3>5, <3>6, <3>9 DEF EnergyInv
  <2> QED BY <1>4, <2>1, <2>5, <2>6, <2>7 DEF Sample
<1>5. ASSUME NEW dt \in Intervals, NEW same \in BOOLEAN, Restart(dt, same)
      PROVE  EnergyInv'
  <2> DEFINE t == now + dt
  <2>1. now' = t /\ t \in 0..MaxTime /\ t \in Nat /\ now <= t
    BY <1>2, <1>5 DEF Restart
  <2>2. /\ last' = NoTime /\ seen' = NoTime /\ day' = day /\ moneyDay' = moneyDay
        /\ energy' = energy /\ awake' = awake /\ cut' = cut
    BY <1>5 DEF Restart
  <2> HIDE DEF t
  <2>3. /\ DayOf(now) \in Nat /\ DayOf(t) \in Nat /\ DayOf(now) <= DayOf(t)
        /\ DayOf(now) = DayOf(t) => Midnight(now) = Midnight(t)
        /\ Midnight(now) \in Nat /\ Midnight(t) \in Nat
    BY <1>2, <2>1, DayIs, DaysFollow
  <2>4. day # NoTime => day <= DayOf(now)
    BY DEF EnergyInv, EnergyTimes
  <2>5. EnergyTimes'
    BY <1>2, <2>1, <2>2, <2>3, <2>4 DEF EnergyTimes, DayOf
  <2>6. EnergyBooks'
    <3>1. CASE same
      BY <3>1, <1>5 DEF Restart, EnergyInv, EnergyBooks
    <3>2. CASE ~same
      <4>1. money' = [b \in Buckets |-> NoTotals] /\ unpriced' = energy
        BY <3>2, <1>5 DEF Restart
      <4>2. \A b \in Buckets : energy[b] \in [Flows -> Nat]
        BY DEF EnergyInv, EnergyBooks, Booked
      <4> QED BY <2>2, <4>1, <4>2, NothingBooked DEF EnergyBooks
    <3> QED BY <3>1, <3>2
  <2>7. ASSUME ~cut, day = DayOf(t), NEW f \in Flows
        PROVE  energy["daily"][f] <= t - Midnight(t)
    <3>1. day = DayOf(now)
      BY <2>7, <2>3, <2>4, <1>2
    <3>2. energy["daily"][f] <= now - Midnight(now)
      BY <3>1, <2>7 DEF EnergyInv, EnergyBounds
    <3> QED BY <3>1, <3>2, <2>7, <1>2, <1>3, <2>1, <2>3
  <2>8. EnergyBounds'
    BY <2>1, <2>2, <2>7 DEF EnergyInv, EnergyBounds, Midnight, DayOf
  <2> QED BY <2>5, <2>6, <2>8 DEF EnergyInv
<1> QED BY <1>1, <1>4, <1>5 DEF EnergyNext

-----------------------------------------------------------------------------
(* The charge ledger (ChargeLedger).  Evidence holds prices charged since a *)
(* change of the state of charge was last booked; a reading that stays is   *)
(* believed or counted; the level believed in is no farther from the true   *)
(* one than the age of the reading allows, unless it came from an           *)
(* interruption or an outlier.                                              *)

LedgerTypes ==
  /\ soc \in Levels /\ previous \in Levels \cup {None}
  /\ pending.soc \in Levels \cup {None} /\ pending.count \in 0..Confirm
  /\ low \in 0..Confirm /\ lows \in 0..Confirm
  /\ steady.soc \in Levels \cup {None} /\ steady.count \in 0..Confirm
  /\ IF previous = None THEN age = None ELSE age \in Nat

LedgerFlags ==
  /\ checked \in BOOLEAN /\ below \in BOOLEAN /\ charged \in BOOLEAN

\* prices
Evidence == [prices : SUBSET Prices, age : 0..EvidenceAge]

LedgerPrices ==
  /\ average \subseteq Prices /\ recent \subseteq paid
  /\ charged => average # {} /\ average \subseteq paid
  /\ evidence # None =>
       /\ evidence \in Evidence
       /\ evidence.prices \subseteq recent /\ evidence.prices # {}

\* readings that stay
LedgerSteady ==
  \/ steady.soc = None /\ steady.count = 0
  \/ previous = steady.soc
  \/ pending.soc = steady.soc /\ pending.count >= steady.count /\ pending.count < Confirm

\* the level the ledger believes in, and its count of low ones
LedgerTrue ==
  /\ checked => previous # None /\ (age > Continuous \/ Distance(soc, previous) <= age)
  /\ previous # None /\ previous > Minimum => checked
  /\ checked /\ ~below => low <= lows
  /\ below => ~charged

LedgerInv ==
  LedgerTypes /\ LedgerFlags /\ LedgerPrices /\ LedgerSteady /\ LedgerTrue /\ ClearedWhenLow

\* The inductive invariant implies what the run checks.
LEMMA LedgerInvSound == LedgerInv => LedgerSound
<1> SUFFICES ASSUME LedgerInv PROVE LedgerSound
  OBVIOUS
<1>1. LedgerTypeOK
  BY LedgerAssumption DEF LedgerInv, LedgerTypes, LedgerPrices, Evidence, LedgerTypeOK
<1>2. PricesPaid
  BY DEF LedgerInv, LedgerPrices, PricesPaid
<1>3. SteadyBelieved
  BY LedgerAssumption DEF LedgerInv, LedgerTypes, LedgerSteady, SteadyBelieved
<1> QED BY <1>1, <1>2, <1>3 DEF LedgerInv, LedgerSound

\* The ledger is empty at first.
LEMMA LedgerInitInv == LedgerInit => LedgerInv
<1> SUFFICES ASSUME LedgerInit PROVE LedgerInv
  OBVIOUS
<1>1. LedgerTypes
  BY LedgerAssumption DEF LedgerInit, LedgerTypes, NoPending
<1>2. LedgerFlags /\ LedgerPrices /\ LedgerSteady /\ LedgerTrue /\ ClearedWhenLow
  BY DEF LedgerInit, LedgerFlags, LedgerPrices, LedgerSteady, LedgerTrue, ClearedWhenLow
<1> QED BY <1>1, <1>2 DEF LedgerInv

\* A capped counter.
LEMMA CappedIs ==
  ASSUME NEW n \in Nat, NEW m \in Nat
  PROVE  /\ Capped(n, m) \in 0..m
         /\ n <= m => Capped(n, m) = n
         /\ n > m => Capped(n, m) = m
BY DEF Capped

\* Levels of the state of charge are natural numbers.
LEMMA LevelsAreNat == Levels \subseteq Nat /\ None \notin Levels
BY LedgerAssumption DEF Levels

\* Booking a cycle leaves only prices that were paid, and tells what it does to
\* the count of low readings.
LEMMA BookPrices ==
  ASSUME LedgerFlags, LedgerPrices, below => ~charged,
         NEW d, NEW dt \in Nat, NEW raw, NEW mode, NEW source,
         NEW price \in GridPrices \cup {None},
         source \in {"pv", "grid", "mixed"},
         Book(d, dt, raw, mode, source, price)
  PROVE  /\ LedgerPrices' /\ charged' \in BOOLEAN /\ below' \in BOOLEAN
         /\ below' => ~charged'
         /\ low' = LowCount(d.soc)
         /\ below' = (Confirmed(d.soc) \/ (below /\ raw <= Minimum))
         /\ cleared' = (Confirmed(d.soc) /\ charged)
<1> DEFINE reset  == Confirmed(d.soc)
           prices1 == Pricing(mode, source, price)
           some   == charged /\ ~reset
           avg    == IF reset THEN {0} ELSE average
           kept   == Recent(IF reset THEN None ELSE evidence, dt)
           e      == WithSample(kept, prices1)
           delta  == IF d.accepted /\ previous # None THEN d.soc - previous ELSE 0
           base   == IF reset THEN {} ELSE recent
<1>1. /\ low' = LowCount(d.soc)
      /\ below' = (reset \/ (below /\ raw <= Minimum))
      /\ \/ delta > 0 /\ Raised(avg, e, prices1, below', some, mode, source)
         \/ delta < 0 /\ Lowered(avg, e, some, mode)
         \/ delta = 0 /\ Level(avg, e, prices1, some, mode, source)
      /\ cleared' = (reset /\ charged)
      /\ paid' = (IF reset THEN {} ELSE paid) \cup prices1
      /\ recent' = IF delta # 0 THEN {} ELSE base \cup prices1
  BY DEF Book
<1>2. prices1 \subseteq Prices
  <2>1. prices1 = {} \/ prices1 = {FeedIn} \/ (price # None /\ prices1 = {price})
          \/ (price # None /\ prices1 = {price, FeedIn})
    BY DEF Pricing
  <2>2. price # None => price \in Prices
    BY DEF Prices
  <2>3. FeedIn \in Prices
    BY DEF Prices
  <2> QED BY <2>1, <2>2, <2>3
<1>3. /\ some => ~reset /\ charged
      /\ avg \subseteq Prices
      /\ some => avg # {} /\ avg \subseteq paid /\ avg = average
      /\ base \subseteq paid /\ (reset => base = {})
  BY DEF LedgerPrices, Prices
<1>4. kept # None =>
        kept \in Evidence /\ kept.prices \subseteq base /\ kept.prices # {}
  <2> SUFFICES ASSUME kept # None
               PROVE  kept \in Evidence /\ kept.prices \subseteq base /\ kept.prices # {}
    OBVIOUS
  <2>1. /\ ~reset /\ evidence # None /\ ~(evidence.age + dt > EvidenceAge)
        /\ kept = [evidence EXCEPT !.age = @ + dt]
    BY DEF Recent
  <2>2. evidence \in Evidence /\ evidence.prices \subseteq recent /\ evidence.prices # {}
    BY <2>1 DEF LedgerPrices
  <2>3. evidence.age + dt \in 0..EvidenceAge
    BY <2>1, <2>2, LedgerAssumption DEF Evidence
  <2>4. kept \in Evidence /\ kept.prices = evidence.prices
    BY <2>1, <2>2, <2>3 DEF Evidence
  <2> QED BY <2>1, <2>2, <2>4
<1> HIDE DEF kept, prices1
<1>5. /\ e # None =>
           /\ e \in Evidence /\ e.prices # {} /\ e.prices \subseteq base \cup prices1
  <2>1. CASE prices1 = {}
    BY <2>1, <1>4 DEF WithSample
  <2>2. CASE prices1 # {}
    <3> DEFINE all == (IF kept = None THEN {} ELSE kept.prices) \cup prices1
    <3>1. e = [prices |-> all, age |-> 0]
      BY <2>2 DEF WithSample
    <3>2. /\ all \subseteq Prices /\ all # {} /\ all \subseteq base \cup prices1
      BY <2>2, <1>2, <1>4 DEF Evidence
    <3> HIDE DEF all
    <3>3. e.prices = all /\ e \in Evidence
      BY <3>1, <3>2, LedgerAssumption DEF Evidence
    <3> QED BY <3>2, <3>3
  <2> QED BY <2>1, <2>2
<1> HIDE DEF e, delta, base, avg, some, reset
<1>6. paid' = (IF reset THEN {} ELSE paid) \cup prices1 /\ base \cup prices1 \subseteq paid'
  BY <1>1, <1>3
<1>7. some => avg \subseteq paid'
  BY <1>1, <1>3
<1>8. recent' \subseteq paid'
  BY <1>1, <1>6
<1>9. below' => ~some
  BY <1>1, <1>3
<1>10. ASSUME average' \subseteq Prices, charged' => average' # {} /\ average' \subseteq paid',
              charged' => some \/ ~below',
              evidence' = None \/ (evidence' = e /\ recent' = base \cup prices1)
       PROVE  LedgerPrices' /\ (below' => ~charged')
  <2>1. evidence' # None =>
          evidence' \in Evidence /\ evidence'.prices \subseteq recent' /\ evidence'.prices # {}
    BY <1>5, <1>10
  <2>2. LedgerPrices'
    BY <1>8, <1>10, <2>1 DEF LedgerPrices, Prices, Evidence
  <2> QED BY <1>9, <1>10, <2>2
<1>11. ASSUME Raised(avg, e, prices1, below', some, mode, source)
       PROVE  LedgerPrices' /\ charged' \in BOOLEAN /\ (below' => ~charged')
  <2> DEFINE applied == Applied(e, prices1)
             counts  == applied # {} /\ ~below'
  <2>1. /\ charged' = (counts \/ some)
        /\ average' = IF counts THEN Mixed(avg, some, applied)
                      ELSE IF Bootstrap(avg, some, applied, mode, source) THEN applied
                      ELSE avg
        /\ evidence' = None
    BY <1>11 DEF Raised
  <2>2. applied \subseteq Prices /\ applied \subseteq paid'
    BY <1>2, <1>5, <1>6 DEF Applied, Evidence
  <2>3. Bootstrap(avg, some, applied, mode, source) => ~some
    BY DEF Bootstrap
  <2>4. Mixed(avg, some, applied) = (IF some THEN avg ELSE {}) \cup applied
    BY DEF Mixed
  <2> HIDE DEF applied
  <2>5. average' \subseteq Prices
    BY <1>3, <2>1, <2>2, <2>4
  <2>6. charged' => average' # {} /\ average' \subseteq paid'
    BY <1>3, <1>7, <2>1, <2>2, <2>3, <2>4
  <2>7. charged' => some \/ ~below'
    BY <2>1
  <2>8. charged' \in BOOLEAN
    BY <2>1
  <2>9. LedgerPrices' /\ (below' => ~charged')
    BY <1>10, <2>1, <2>5, <2>6, <2>7
  <2> QED BY <2>8, <2>9
<1>12. ASSUME Lowered(avg, e, some, mode)
       PROVE  LedgerPrices' /\ charged' \in BOOLEAN /\ (below' => ~charged')
  <2>1. PICK left \in BOOLEAN : (left => some) /\ charged' = left
    BY <1>12 DEF Lowered
  <2>2. average' = avg /\ evidence' = None
    BY <1>12 DEF Lowered, EvidenceAfterDischarge
  <2>3. charged' => some
    BY <2>1
  <2>4. charged' \in BOOLEAN
    BY <2>1
  <2>5. average' \subseteq Prices /\ (charged' => average' # {} /\ average' \subseteq paid')
    BY <1>3, <1>7, <2>2, <2>3
  <2>6. LedgerPrices' /\ (below' => ~charged')
    BY <1>10, <2>2, <2>3, <2>5
  <2> QED BY <2>4, <2>6
<1>13. ASSUME delta = 0, Level(avg, e, prices1, some, mode, source)
       PROVE  LedgerPrices' /\ charged' \in BOOLEAN /\ (below' => ~charged')
  <2>1. /\ charged' = some /\ evidence' = e
        /\ average' = IF Bootstrap(avg, some, prices1, mode, source) THEN prices1 ELSE avg
    BY <1>13 DEF Level
  <2>2. Bootstrap(avg, some, prices1, mode, source) => ~some
    BY DEF Bootstrap
  <2>3. recent' = base \cup prices1
    BY <1>1, <1>13
  <2>4. charged' \in BOOLEAN
    BY <2>1 DEF some, LedgerFlags
  <2>5. average' \subseteq Prices
    BY <1>2, <1>3, <2>1
  <2>6. charged' => average' # {} /\ average' \subseteq paid'
    BY <1>3, <1>7, <2>1, <2>2
  <2>7. charged' => some \/ ~below'
    BY <2>1
  <2>8. LedgerPrices' /\ (below' => ~charged')
    BY <1>10, <2>1, <2>3, <2>5, <2>6, <2>7
  <2> QED BY <2>4, <2>8
<1>14. LedgerPrices' /\ charged' \in BOOLEAN /\ (below' => ~charged')
  BY <1>1, <1>11, <1>12, <1>13
<1>15. below' \in BOOLEAN
  BY <1>1
<1> QED BY <1>1, <1>14, <1>15 DEF reset

\* A cycle that ends before it books keeps what the prices of the ledger stand on.
LEMMA UnbookedPrices ==
  ASSUME LedgerFlags, LedgerPrices, below => ~charged,
         NEW d, NEW dt \in Nat, NEW raw,
         Unbooked(d, dt, raw)
  PROVE  /\ LedgerPrices' /\ charged' \in BOOLEAN /\ below' \in BOOLEAN
         /\ below' => ~charged'
         /\ low' = LowCount(d.soc)
         /\ below' = (Confirmed(d.soc) \/ (below /\ raw <= Minimum))
         /\ cleared' = (Confirmed(d.soc) /\ charged)
<1> DEFINE reset == Confirmed(d.soc)
           left  == IF reset THEN None ELSE evidence
<1>1. /\ low' = LowCount(d.soc)
      /\ below' = (reset \/ (below /\ raw <= Minimum))
      /\ charged' = (charged /\ ~reset)
      /\ average' = (IF reset THEN {0} ELSE average)
      /\ evidence' = Recent(left, dt)
      /\ cleared' = (reset /\ charged)
      /\ paid' = (IF reset THEN {} ELSE paid)
      /\ recent' = (IF reset THEN {} ELSE recent)
  BY DEF Unbooked
<1>2. reset \in BOOLEAN /\ charged \in BOOLEAN
  BY DEF Confirmed, LedgerFlags
<1>3. evidence' # None =>
        /\ evidence' \in Evidence /\ evidence'.prices \subseteq recent'
        /\ evidence'.prices # {}
  <2> SUFFICES ASSUME evidence' # None
               PROVE  /\ evidence' \in Evidence /\ evidence'.prices \subseteq recent'
                      /\ evidence'.prices # {}
    OBVIOUS
  <2>1. /\ ~reset /\ evidence # None /\ ~(evidence.age + dt > EvidenceAge)
        /\ evidence' = [evidence EXCEPT !.age = @ + dt]
    BY <1>1 DEF Recent
  <2>2. evidence \in Evidence /\ evidence.prices \subseteq recent /\ evidence.prices # {}
    BY <2>1 DEF LedgerPrices
  <2>3. evidence.age + dt \in 0..EvidenceAge
    BY <2>1, <2>2, LedgerAssumption DEF Evidence
  <2>4. evidence' \in Evidence /\ evidence'.prices = evidence.prices
    BY <2>1, <2>2, <2>3 DEF Evidence
  <2> QED BY <1>1, <2>1, <2>2, <2>4
<1> HIDE DEF reset, left
<1>4. average' \subseteq Prices /\ recent' \subseteq paid'
  BY <1>1 DEF LedgerPrices, Prices
<1>5. charged' => average' # {} /\ average' \subseteq paid'
  BY <1>1 DEF LedgerPrices
<1>6. LedgerPrices'
  BY <1>3, <1>4, <1>5 DEF LedgerPrices, Prices, Evidence
<1>7. charged' \in BOOLEAN /\ below' \in BOOLEAN /\ (below' => ~charged')
  BY <1>1, <1>2
<1> QED BY <1>1, <1>6, <1>7 DEF reset

\* So does every cycle, whether it books the change of the state of charge or not.
LEMMA AccountsPrices ==
  ASSUME LedgerFlags, LedgerPrices, below => ~charged,
         NEW d, NEW dt \in Nat, NEW raw, NEW mode, NEW source,
         NEW price \in GridPrices \cup {None},
         source \in {"pv", "grid", "mixed"},
         Accounts(d, dt, raw, mode, source, price)
  PROVE  /\ LedgerPrices' /\ charged' \in BOOLEAN /\ below' \in BOOLEAN
         /\ below' => ~charged'
         /\ low' = LowCount(d.soc)
         /\ below' = (Confirmed(d.soc) \/ (below /\ raw <= Minimum))
         /\ cleared' = (Confirmed(d.soc) /\ charged)
<1>1. CASE Book(d, dt, raw, mode, source, price)
  BY <1>1, BookPrices
<1>2. CASE Unbooked(d, dt, raw)
  BY <1>2, UnbookedPrices
<1> QED BY <1>1, <1>2 DEF Accounts

\* When the reset of the ledger is confirmed.
LEMMA ConfirmedIs ==
  ASSUME LedgerTypes, NEW a \in Levels
  PROVE  /\ LowCount(a) \in 0..Confirm
         /\ a > Minimum => LowCount(a) = 0 /\ ~Confirmed(a)
         /\ a <= Minimum => LowCount(a) = IF below THEN Confirm ELSE Capped(low + 1, Confirm)
         /\ Confirmed(a) => a <= Minimum /\ LowCount(a) >= Confirm
         /\ a <= Minimum /\ below => Confirmed(a)
<1>1. a \in Nat /\ Minimum \in Nat /\ Confirm \in Nat /\ Confirm > 0
  BY LevelsAreNat, LedgerAssumption DEF Levels
<1>2. low + 1 \in Nat /\ Capped(low + 1, Confirm) \in 0..Confirm
  <2>1. low + 1 \in Nat
    BY <1>1 DEF LedgerTypes
  <2> QED BY <1>1, <2>1, CappedIs
<1>3. /\ a > Minimum => LowCount(a) = 0
      /\ a <= Minimum => LowCount(a) = IF below THEN Confirm ELSE Capped(low + 1, Confirm)
  BY <1>1 DEF LowCount
<1>4. LowCount(a) \in 0..Confirm
  BY <1>1, <1>2, <1>3
<1>5. Confirmed(a) => a <= Minimum /\ LowCount(a) >= Confirm
  <2>1. Confirmed(a) => a <= Minimum /\ (below \/ LowCount(a) >= Confirm)
    BY DEF Confirmed
  <2>2. a <= Minimum /\ below => LowCount(a) >= Confirm
    BY <1>1, <1>3
  <2> QED BY <2>1, <2>2
<1>6. a > Minimum => ~Confirmed(a)
  BY <1>1 DEF Confirmed
<1>7. a <= Minimum /\ below => Confirmed(a)
  BY DEF Confirmed
<1> QED BY <1>3, <1>4, <1>5, <1>6, <1>7

\* Distance is symmetric and a natural number.
LEMMA DistanceIs ==
  ASSUME NEW a \in Nat, NEW b \in Nat
  PROVE  /\ Distance(a, b) \in Nat
         /\ a > b => Distance(a, b) = a - b
         /\ a <= b => Distance(a, b) = b - a
         /\ Distance(a, b) = Distance(b, a)
BY DEF Distance

\* The triangle inequality of levels.
LEMMA Steps ==
  ASSUME NEW a \in Nat, NEW b \in Nat, NEW c \in Nat, NEW n \in Nat, NEW k \in Nat,
         Distance(a, c) <= n, Distance(a, b) <= k
  PROVE  Distance(b, c) <= n + k
BY DEF Distance

\* Levels one step apart.
LEMMA Neighbours ==
  ASSUME NEW a \in Nat, NEW b \in Nat, b = a - 1 \/ b = a \/ b = a + 1
  PROVE  Distance(a, b) <= 1
BY DEF Distance

\* Booking a cycle clears the ledger only as ClearedWhenLow states it.
LEMMA BookCounts ==
  ASSUME LedgerInv, NEW a \in Levels, NEW raw \in Nat,
         low' = LowCount(a), cleared' = (Confirmed(a) /\ charged),
         below' = (Confirmed(a) \/ (below /\ raw <= Minimum)),
         lows' \in Nat, checked' /\ ~below => low' <= lows'
  PROVE  /\ checked' /\ ~below' => low' <= lows'
         /\ ClearedWhenLow'
<1>1. /\ a \in Nat /\ Minimum \in Nat /\ Confirm \in Nat
      /\ LowCount(a) \in 0..Confirm
      /\ a > Minimum => LowCount(a) = 0
      /\ Confirmed(a) => LowCount(a) >= Confirm
      /\ a <= Minimum /\ below => Confirmed(a)
  BY LevelsAreNat, LedgerAssumption, ConfirmedIs DEF LedgerInv
<1>2. ASSUME checked', ~below' PROVE low' <= lows'
  <2>1. CASE below
    <3>1. ~Confirmed(a)
      BY <1>2
    <3>2. a > Minimum
      BY <2>1, <3>1, <1>1
    <3>3. LowCount(a) = 0
      BY <3>2, <1>1
    <3> QED BY <3>3
  <2> QED BY <2>1, <1>2
<1>3. ASSUME cleared', checked' PROVE lows' >= Confirm
  <2>1. Confirmed(a) /\ charged
    BY <1>3
  <2>2. ~below
    BY <2>1 DEF LedgerInv, LedgerTrue
  <2>3. low' >= Confirm /\ low' <= lows'
    BY <2>1, <2>2, <1>1, <1>3
  <2> QED BY <2>3, <1>1
<1> QED BY <1>2, <1>3 DEF ClearedWhenLow

\* A cycle that reads `raw`, the true level or a transient zero
LEMMA ReadKeeps ==
  ASSUME LedgerInv, NEW raw \in Levels, NEW mode, NEW source \in {"pv", "grid", "mixed"},
         NEW price \in GridPrices \cup {None},
         Read(1, raw, mode, source, price),
         soc' \in Levels,
         \/ raw = soc' /\ Distance(soc, soc') <= 1
         \/ raw = 0 /\ soc' = soc /\ soc >= Far
  PROVE  LedgerInv'
<1> DEFINE at == IF age = None THEN None ELSE age + 1
           d  == Evaluate(raw, at)
           a  == d.soc
           far == Distance(raw, previous)
           count == PendingCount(raw)
<1>0. /\ raw \in Nat /\ soc \in Nat /\ soc' \in Nat /\ Minimum \in Nat /\ Confirm \in Nat
      /\ Confirm > 0 /\ Far \in Nat /\ Far > 2 /\ Continuous \in Nat /\ None \notin Nat
  BY LevelsAreNat, LedgerAssumption DEF Levels, LedgerInv, LedgerTypes
<1>00. /\ previous \in Levels \cup {None} /\ low \in 0..Confirm /\ lows \in 0..Confirm
       /\ pending.soc \in Levels \cup {None} /\ pending.count \in 0..Confirm
       /\ steady.soc \in Levels \cup {None} /\ steady.count \in 0..Confirm
       /\ IF previous = None THEN age = None ELSE age \in Nat
  BY DEF LedgerInv, LedgerTypes
<1>1. /\ Accounts(d, 1, raw, mode, source, price)
      /\ pending' = d.pending
      /\ checked' = (IF ~d.accepted THEN checked
                     ELSE raw > Minimum \/ (checked /\ at = 1 /\ far <= 1 + at))
      /\ previous' = (IF d.accepted THEN d.soc ELSE previous)
      /\ age' = (IF d.accepted THEN 0 ELSE Capped(at, Continuous + 1))
      /\ steady' = [soc |-> raw,
                    count |-> IF steady.soc = raw THEN Capped(steady.count + 1, Confirm)
                              ELSE 1]
      /\ lows' = (IF raw > Minimum THEN 0 ELSE Capped(lows + 1, Confirm))
  BY DEF Read
<1>2. /\ count \in 0..Confirm /\ count > 0
      /\ pending.soc = raw /\ pending.count < Confirm => count = pending.count + 1
  <2>1. pending.count + 1 \in Nat
    BY <1>00
  <2>2. /\ Capped(pending.count + 1, Confirm) \in 0..Confirm
        /\ pending.count + 1 <= Confirm => Capped(pending.count + 1, Confirm) = pending.count + 1
        /\ pending.count + 1 > Confirm => Capped(pending.count + 1, Confirm) = Confirm
    BY <2>1, <1>0, CappedIs
  <2> QED BY <2>2, <1>0, <1>00 DEF PendingCount
<1>3. previous # None =>
        /\ previous \in Nat /\ age \in Nat /\ at = age + 1 /\ far \in Nat
        /\ far = Distance(previous, raw)
        /\ Distance(soc, previous) = Distance(previous, soc)
  BY <1>0, <1>00, LevelsAreNat, DistanceIs
<1> HIDE DEF at, far, count
<1>4. \/ d = Accepts(raw)
         /\ (previous = None \/ at > Continuous \/ far <= 1 + at \/ count >= Confirm)
      \/ d = [soc |-> previous, accepted |-> FALSE, pending |-> [soc |-> raw, count |-> count]]
         /\ previous # None /\ ~(at > Continuous) /\ ~(far <= 1 + at) /\ ~(count >= Confirm)
  BY DEF Evaluate, far, count
<1>5. lows + 1 \in Nat /\ low + 1 \in Nat /\ steady.count + 1 \in Nat
  BY <1>00
<1>6. /\ lows' \in 0..Confirm /\ steady'.soc = raw /\ steady'.count \in 0..Confirm
      /\ steady'.count = IF steady.soc = raw THEN Capped(steady.count + 1, Confirm) ELSE 1
      /\ raw <= Minimum => lows' = Capped(lows + 1, Confirm)
  <2>1. Capped(lows + 1, Confirm) \in 0..Confirm /\ Capped(steady.count + 1, Confirm) \in 0..Confirm
    BY <1>0, <1>5, CappedIs
  <2> QED BY <1>0, <1>1, <2>1
<1>7. Capped(low + 1, Confirm) <= Capped(lows + 1, Confirm) \/ ~(low <= lows)
  <2>1. /\ low + 1 <= Confirm => Capped(low + 1, Confirm) = low + 1
        /\ low + 1 > Confirm => Capped(low + 1, Confirm) = Confirm
        /\ lows + 1 <= Confirm => Capped(lows + 1, Confirm) = lows + 1
        /\ lows + 1 > Confirm => Capped(lows + 1, Confirm) = Confirm
    BY <1>0, <1>5, CappedIs
  <2> QED BY <2>1, <1>0, <1>00
<1> HIDE DEF d
<1>8. ASSUME NEW b \in Levels, a = b, checked' /\ ~below => LowCount(b) <= lows',
             previous' \in Levels, age' \in Nat,
             pending'.soc \in Levels \cup {None}, pending'.count \in 0..Confirm,
             LedgerSteady', checked' \in BOOLEAN,
             checked' => age' > Continuous \/ Distance(soc', previous') <= age',
             previous' > Minimum => checked'
      PROVE  LedgerInv'
  <2>1. /\ LedgerPrices' /\ charged' \in BOOLEAN /\ below' \in BOOLEAN
        /\ below' => ~charged'
        /\ low' = LowCount(b)
        /\ below' = (Confirmed(b) \/ (below /\ raw <= Minimum))
        /\ cleared' = (Confirmed(b) /\ charged)
    <3>1. LedgerFlags /\ LedgerPrices /\ (below => ~charged)
      BY DEF LedgerInv, LedgerTrue
    <3> QED BY <1>1, <1>8, <3>1, AccountsPrices
  <2>2. LowCount(b) \in 0..Confirm
    BY ConfirmedIs DEF LedgerInv
  <2>3. (checked' /\ ~below' => low' <= lows') /\ ClearedWhenLow'
    <3>1. lows' \in Nat /\ raw \in Nat
      BY <1>0, <1>6
    <3> QED BY <3>1, <1>8, <2>1, BookCounts
  <2>4. previous' # None
    BY <1>8, LevelsAreNat
  <2>5. LedgerTypes'
    BY <1>6, <1>8, <2>1, <2>2, <2>4 DEF LedgerTypes, Levels
  <2>6. LedgerTrue'
    BY <1>8, <2>1, <2>3, <2>4 DEF LedgerTrue, Distance
  <2> QED BY <1>8, <2>1, <2>3, <2>5, <2>6 DEF LedgerInv, LedgerFlags
<1>9. CASE d = Accepts(raw)
  <2>1. d.accepted /\ d.soc = raw /\ d.pending = NoPending
    BY <1>9 DEF Accepts
  <2>2. /\ previous' = raw /\ age' = 0 /\ pending' = NoPending
        /\ checked' = (raw > Minimum \/ (checked /\ at = 1 /\ far <= 1 + at))
    BY <1>1, <2>1
  <2>3. ASSUME checked', raw <= Minimum PROVE checked /\ raw = soc'
    <3>0. ~(raw > Minimum)
      BY <2>3, <1>0
    <3>1. checked /\ at = 1 /\ far <= 1 + at
      BY ONLY <2>2, <2>3, <3>0
    <3>2. previous # None /\ (age > Continuous \/ Distance(soc, previous) <= age)
      BY <3>1 DEF LedgerInv, LedgerTrue
    <3>3. age = 0 /\ Distance(soc, previous) <= 0
      BY <3>1, <3>2, <1>0, <1>3
    <3>4. soc = previous
      <4>1. soc \in Nat /\ previous \in Nat
        BY <3>2, <1>0, <1>3
      <4> QED BY ONLY <4>1, <3>3 DEF Distance
    <3>5. far = Distance(raw, soc)
      BY <3>4 DEF far
    <3>6. far <= 2
      BY ONLY <3>1
    <3>7. ~(raw = 0 /\ soc >= Far)
      BY ONLY <3>5, <3>6, <1>0 DEF Distance
    <3> QED BY <3>1, <3>7
  <2>4. raw > Minimum => raw = soc'
    BY <1>0
  <2>5. checked' => Distance(soc', previous') <= age'
    <3>1. checked' => raw = soc'
      BY <2>3, <2>4, <1>0
    <3>2. Distance(raw, raw) = 0
      BY <1>0, DistanceIs
    <3> QED BY <2>2, <3>1, <3>2
  <2>6. checked' /\ ~below => LowCount(raw) <= lows'
    <3>1. CASE raw > Minimum
      <4>1. LowCount(raw) = 0
        BY <3>1, ConfirmedIs DEF LedgerInv
      <4> QED BY <4>1, <1>6
    <3>2. CASE raw <= Minimum
      <4> SUFFICES ASSUME checked', ~below PROVE LowCount(raw) <= lows'
        OBVIOUS
      <4>1. low <= lows
        BY <3>2, <2>3 DEF LedgerInv, LedgerTrue
      <4>2. LowCount(raw) = Capped(low + 1, Confirm)
        BY <3>2, ConfirmedIs DEF LedgerInv
      <4> QED BY <3>2, <4>1, <4>2, <1>6, <1>7
    <3> QED BY <3>1, <3>2, <1>0
  <2>7. LedgerSteady'
    BY <2>2, <1>6 DEF LedgerSteady
  <2>8. pending'.soc \in Levels \cup {None} /\ pending'.count \in 0..Confirm
    BY <2>2, <1>0 DEF NoPending
  <2>9. checked' \in BOOLEAN
    BY <2>2
  <2>10. previous' > Minimum => checked'
    BY <2>2
  <2>11. age' \in Nat /\ previous' \in Levels /\ a = raw
    BY <2>1, <2>2
  <2> QED BY <1>8, <2>5, <2>6, <2>7, <2>8, <2>9, <2>10, <2>11
<1>10. CASE d = [soc |-> previous, accepted |-> FALSE,
                 pending |-> [soc |-> raw, count |-> count]]
            /\ previous # None /\ ~(at > Continuous) /\ ~(far <= 1 + at) /\ ~(count >= Confirm)
  <2>1. ~d.accepted /\ d.soc = previous /\ d.pending = [soc |-> raw, count |-> count]
    BY <1>10
  <2>2. /\ previous' = previous /\ age' = Capped(at, Continuous + 1)
        /\ pending' = [soc |-> raw, count |-> count] /\ checked' = checked
    BY <1>1, <2>1
  <2>3. previous \in Levels /\ previous \in Nat /\ age \in Nat /\ at = age + 1 /\ far \in Nat
    BY <1>3, <1>10, <1>00
  <2>4. age' = at
    BY <2>2, <2>3, <1>0, <1>10 DEF Capped
  <2>5. checked => Distance(soc', previous) <= at
    <3> SUFFICES ASSUME checked PROVE Distance(soc', previous) <= at
      OBVIOUS
    <3>1. age > Continuous \/ Distance(soc, previous) <= age
      BY DEF LedgerInv, LedgerTrue
    <3>2. Distance(soc, previous) <= age
      BY <3>1, <2>3, <1>0, <1>10
    <3>3. Distance(soc, soc') <= 1
      BY <1>0, DistanceIs
    <3>4. soc \in Nat /\ soc' \in Nat /\ previous \in Nat /\ age \in Nat
      BY <2>3, <1>0
    <3>5. Distance(soc', previous) <= age + 1
      BY <3>2, <3>3, <3>4, Steps
    <3> QED BY <3>5, <2>3
  <2>6. checked /\ ~below => LowCount(previous) <= lows'
    <3> SUFFICES ASSUME checked, ~below PROVE LowCount(previous) <= lows'
      OBVIOUS
    <3>1. CASE previous > Minimum
      <4>1. LowCount(previous) = 0
        BY <3>1, <2>3, ConfirmedIs DEF LedgerInv
      <4> QED BY <4>1, <1>6
    <3>2. CASE previous <= Minimum
      <4>1. low <= lows
        BY DEF LedgerInv, LedgerTrue
      <4>2. LowCount(previous) = Capped(low + 1, Confirm)
        BY <3>2, <2>3, ConfirmedIs DEF LedgerInv
      <4>3. raw <= Minimum
        <5> SUFFICES ASSUME raw > Minimum PROVE FALSE
          BY <1>0
        <5>1. raw = soc'
          BY <1>0
        <5>2. far <= at
          BY <5>1, <2>5 DEF far
        <5> QED BY <5>2, <2>3, <1>10
      <4> QED BY <4>1, <4>2, <4>3, <1>6, <1>7
    <3> QED BY <3>1, <3>2, <2>3, <1>0
  <2>7. pending'.soc = raw /\ pending'.count = count
    BY <2>2
  <2>8. LedgerSteady'
    <3>1. steady'.count <= count
      <4>1. CASE steady.soc = raw
        <5>1. previous # raw
          <6> SUFFICES ASSUME previous = raw PROVE FALSE
            OBVIOUS
          <6>1. far = 0
            BY <1>0, DistanceIs DEF far
          <6> QED BY <6>1, <2>3, <1>10
        <5>2. raw # None
          BY <1>0
        <5>3. pending.soc = raw /\ pending.count >= steady.count /\ pending.count < Confirm
          BY <4>1, <5>1, <5>2 DEF LedgerInv, LedgerSteady
        <5>4. count = pending.count + 1
          BY <5>3, <1>2
        <5>5. Capped(steady.count + 1, Confirm) = steady.count + 1
          <6>1. steady.count + 1 <= Confirm
            BY ONLY <5>3, <1>0, <1>00
          <6> QED BY <6>1, <1>0, <1>5, CappedIs
        <5> QED BY <4>1, <5>3, <5>4, <5>5, <1>00, <1>6
      <4>2. CASE steady.soc # raw
        BY <4>2, <1>2, <1>6
      <4> QED BY <4>1, <4>2
    <3> QED BY <3>1, <2>7, <1>0, <1>2, <1>6, <1>10 DEF LedgerSteady
  <2>9. pending'.soc \in Levels \cup {None} /\ pending'.count \in 0..Confirm
    BY <2>7, <1>2
  <2>10. checked' \in BOOLEAN
    BY <2>2 DEF LedgerInv, LedgerFlags
  <2>11. previous' > Minimum => checked'
    BY <2>2, <1>10 DEF LedgerInv, LedgerTrue
  <2>12. age' \in Nat /\ previous' \in Levels /\ a = previous
    BY <2>1, <2>2, <2>3, <2>4
  <2>13. checked' => Distance(soc', previous') <= age'
    BY <2>2, <2>4, <2>5
  <2>14. checked' /\ ~below => LowCount(previous) <= lows'
    BY <2>2, <2>6
  <2> QED BY <1>8, <2>3, <2>8, <2>9, <2>10, <2>11, <2>12, <2>13, <2>14
<1> QED BY <1>4, <1>9, <1>10

\* A cycle that reuses the last level, which is above the minimum
LEMMA ReuseKeeps ==
  ASSUME LedgerInv, NEW mode, NEW source \in {"pv", "grid", "mixed"},
         NEW price \in GridPrices \cup {None},
         Reuse(mode, source, price),
         soc' \in Levels, Distance(soc, soc') <= 1
  PROVE  LedgerInv'
<1>1. /\ age # None /\ MayReuse(age + 1)
      /\ Accounts(Held, 1, previous, mode, source, price)
      /\ age' = age + 1
      /\ UNCHANGED <<previous, pending, checked, steady, lows>>
  BY DEF Reuse
<1>2. previous # None /\ previous > Minimum
  BY <1>1 DEF MayReuse
<1>3. previous \in Levels /\ age \in Nat /\ previous \in Nat /\ Held.soc = previous
  BY <1>2, LevelsAreNat DEF LedgerInv, LedgerTypes, Held
<1>4. soc \in Nat /\ soc' \in Nat /\ lows \in Nat /\ Minimum \in Nat /\ Continuous \in Nat
  BY LevelsAreNat, LedgerAssumption DEF LedgerInv, LedgerTypes
<1>5. /\ LedgerPrices' /\ charged' \in BOOLEAN /\ below' \in BOOLEAN
      /\ below' => ~charged'
      /\ low' = LowCount(previous)
      /\ below' = (Confirmed(previous) \/ (below /\ previous <= Minimum))
      /\ cleared' = (Confirmed(previous) /\ charged)
  <2>1. LedgerFlags /\ LedgerPrices /\ (below => ~charged)
    BY DEF LedgerInv, LedgerTrue
  <2>2. 1 \in Nat
    OBVIOUS
  <2> QED BY <1>1, <1>3, <2>1, <2>2, AccountsPrices
<1>6. LowCount(previous) = 0 /\ LowCount(previous) \in 0..Confirm
  BY <1>2, <1>3, ConfirmedIs DEF LedgerInv
<1>7. lows' \in Nat /\ (checked' /\ ~below => low' <= lows')
  BY <1>1, <1>4, <1>5, <1>6
<1>8. (checked' /\ ~below' => low' <= lows') /\ ClearedWhenLow'
  BY <1>3, <1>5, <1>7, BookCounts
<1>9. LedgerTypes'
  <2>1. age' \in Nat /\ low' \in 0..Confirm
    BY <1>1, <1>3, <1>5, <1>6
  <2> QED BY <1>1, <1>2, <2>1 DEF LedgerInv, LedgerTypes, Levels
<1>10. checked' => previous' # None /\ (age' > Continuous \/ Distance(soc', previous') <= age')
  <2> SUFFICES ASSUME checked
               PROVE  age + 1 > Continuous \/ Distance(soc', previous) <= age + 1
    BY <1>1, <1>2 DEF Distance
  <2>1. age > Continuous \/ Distance(soc, previous) <= age
    BY DEF LedgerInv, LedgerTrue
  <2>2. CASE age > Continuous
    BY <2>2, <1>3, <1>4
  <2>3. CASE Distance(soc, previous) <= age
    BY <2>3, <1>3, <1>4, Steps
  <2> QED BY <2>1, <2>2, <2>3
<1>11. previous' # None /\ previous' > Minimum => checked'
  BY <1>1 DEF LedgerInv, LedgerTrue
<1>12. LedgerTrue'
  BY <1>5, <1>8, <1>10, <1>11 DEF LedgerTrue, Distance
<1>13. LedgerSteady'
  BY <1>1 DEF LedgerInv, LedgerSteady
<1> QED BY <1>1, <1>5, <1>8, <1>9, <1>12, <1>13 DEF LedgerInv, LedgerFlags

\* Cycles without a decision, for `dt` of them
LEMMA MissedKeeps ==
  ASSUME LedgerInv, NEW dt \in Nat, Missed(dt),
         soc' \in Levels, Distance(soc', soc) <= dt
  PROVE  LedgerInv'
<1>1. /\ age' = (IF age = None THEN None ELSE Capped(age + dt, Continuous + 1))
      /\ evidence' = Recent(evidence, dt)
      /\ cleared' = FALSE
      /\ UNCHANGED <<previous, pending, low, below, average, charged, paid, recent,
                     steady, lows, checked>>
  BY DEF Missed
<1>2. soc \in Nat /\ soc' \in Nat /\ Continuous \in Nat /\ None \notin Nat
  BY LevelsAreNat, LedgerAssumption DEF LedgerInv, LedgerTypes
<1>3. ASSUME previous # None
      PROVE  /\ previous \in Nat /\ age \in Nat /\ age' \in Nat
             /\ age + dt <= Continuous + 1 => age' = age + dt
             /\ age + dt > Continuous + 1 => age' = Continuous + 1
  <2>1. previous \in Nat /\ age \in Nat
    BY <1>3, LevelsAreNat DEF LedgerInv, LedgerTypes
  <2>2. age' = Capped(age + dt, Continuous + 1)
    BY <1>1, <1>2, <2>1
  <2>3. age + dt \in Nat /\ Continuous + 1 \in Nat
    BY <1>2, <2>1
  <2>4. /\ Capped(age + dt, Continuous + 1) \in 0..(Continuous + 1)
        /\ age + dt <= Continuous + 1 => Capped(age + dt, Continuous + 1) = age + dt
        /\ age + dt > Continuous + 1 => Capped(age + dt, Continuous + 1) = Continuous + 1
    BY <2>3, CappedIs
  <2> QED BY <2>1, <2>2, <2>3, <2>4
<1>4. previous = None => age' = None
  BY <1>1 DEF LedgerInv, LedgerTypes
<1>5. LedgerTypes'
  BY <1>1, <1>3, <1>4 DEF LedgerInv, LedgerTypes, Levels
<1>6. LedgerPrices'
  <2> SUFFICES ASSUME evidence' # None
               PROVE  /\ evidence' \in Evidence /\ evidence'.prices = evidence.prices
                      /\ evidence # None
    BY <1>1 DEF LedgerInv, LedgerPrices, Evidence, Prices
  <2>1. /\ evidence # None /\ ~(evidence.age + dt > EvidenceAge)
        /\ evidence' = [evidence EXCEPT !.age = @ + dt]
    BY <1>1 DEF Recent
  <2>2. evidence \in Evidence
    BY <2>1 DEF LedgerInv, LedgerPrices
  <2>3. evidence.age + dt \in 0..EvidenceAge
    BY <2>1, <2>2, LedgerAssumption DEF Evidence
  <2> QED BY <2>1, <2>2, <2>3 DEF Evidence
<1>7. checked' => previous' # None /\ (age' > Continuous \/ Distance(soc', previous') <= age')
  <2> SUFFICES ASSUME checked
               PROVE  previous # None /\ (age' > Continuous \/ Distance(soc', previous) <= age')
    BY <1>1 DEF Distance
  <2>1. previous # None /\ (age > Continuous \/ Distance(soc, previous) <= age)
    BY DEF LedgerInv, LedgerTrue
  <2>2. CASE age + dt > Continuous + 1 \/ age > Continuous
    BY <2>1, <2>2, <1>2, <1>3
  <2>3. CASE age + dt <= Continuous + 1 /\ ~(age > Continuous)
    <3>1. Distance(soc, previous) <= age /\ age' = age + dt
      BY <2>1, <2>3, <1>3
    <3>2. Distance(soc, soc') <= dt
      BY <1>2, DistanceIs
    <3>3. Distance(soc', previous) <= age + dt
      BY <3>1, <3>2, <2>1, <1>2, <1>3, Steps
    <3> QED BY <2>1, <3>1, <3>3
  <2>4. age + dt > Continuous + 1 \/ age + dt <= Continuous + 1
    BY <2>1, <1>2, <1>3
  <2> QED BY <2>2, <2>3, <2>4
<1>8. LedgerTrue'
  BY <1>1, <1>7 DEF LedgerInv, LedgerTrue, Distance
<1>9. LedgerFlags' /\ LedgerSteady' /\ ClearedWhenLow'
  BY <1>1 DEF LedgerInv, LedgerFlags, LedgerSteady, ClearedWhenLow
<1> QED BY <1>5, <1>6, <1>8, <1>9 DEF LedgerInv

\* Every step of the ledger keeps its invariant.
LEMMA LedgerStepInv == LedgerInv /\ [LedgerNext]_ledgerVars => LedgerInv'
<1> SUFFICES ASSUME LedgerInv, [LedgerNext]_ledgerVars PROVE LedgerInv'
  OBVIOUS
<1>1. CASE UNCHANGED ledgerVars
  BY <1>1 DEF ledgerVars, LedgerInv, LedgerTypes, LedgerFlags, LedgerPrices, LedgerSteady,
     LedgerTrue, ClearedWhenLow, Distance, Levels, Evidence, Prices
<1>2. ASSUME NEW mode \in {"charge", "discharge", "idle"}, soc' \in Moves(mode) \cap Levels
      PROVE  soc' \in Levels /\ Distance(soc, soc') <= 1
  <2>1. soc \in Nat /\ soc' \in Levels
    BY <1>2, LevelsAreNat DEF LedgerInv, LedgerTypes
  <2>2. soc' = soc - 1 \/ soc' = soc \/ soc' = soc + 1
    BY <1>2 DEF Moves
  <2>3. soc \in Nat /\ soc' \in Nat
    BY <2>1, LevelsAreNat
  <2>4. Distance(soc, soc') <= 1
    BY <2>2, <2>3, Neighbours
  <2> QED BY <2>1, <2>4
<1>3. ASSUME NEW mode \in {"charge", "discharge", "idle"},
             NEW source \in {"pv", "grid", "mixed"}, NEW price \in GridPrices \cup {None},
             Cycle(mode, source, price)
      PROVE  LedgerInv'
  <2>1. soc' \in Levels /\ Distance(soc, soc') <= 1 /\ Read(1, soc', mode, source, price)
    BY <1>2, <1>3 DEF Cycle
  <2> QED BY <2>1, ReadKeeps
<1>4. ASSUME NEW mode \in {"charge", "discharge", "idle"},
             NEW source \in {"pv", "grid", "mixed"}, NEW price \in GridPrices \cup {None},
             Transient(mode, source, price)
      PROVE  LedgerInv'
  <2>1. soc >= Far /\ soc' = soc /\ Read(1, 0, mode, source, price)
    BY <1>4 DEF Transient
  <2>2. soc' \in Levels /\ 0 \in Levels
    BY <2>1, LedgerAssumption DEF LedgerInv, LedgerTypes, Levels
  <2> QED BY <2>1, <2>2, ReadKeeps
<1>5. ASSUME NEW mode \in {"charge", "discharge", "idle"},
             NEW source \in {"pv", "grid", "mixed"}, NEW price \in GridPrices \cup {None},
             Gap(mode, source, price)
      PROVE  LedgerInv'
  <2>1. soc' \in Levels /\ Distance(soc, soc') <= 1 /\ Reuse(mode, source, price)
    BY <1>2, <1>5 DEF Gap
  <2> QED BY <2>1, ReuseKeeps
<1>6. ASSUME NEW dt \in Gaps, Outage(dt) PROVE LedgerInv'
  <2>1. dt \in Nat /\ Missed(dt) /\ soc' \in Levels /\ Distance(soc', soc) <= dt
    BY <1>6, LedgerAssumption DEF Outage
  <2> QED BY <2>1, MissedKeeps
<1> QED BY <1>1, <1>3, <1>4, <1>5, <1>6 DEF LedgerNext

-----------------------------------------------------------------------------
(* Plans on prices (PricePlan).  A cycle makes them anew from the time, the *)
(* energy and the prices, so that their invariant is established by every   *)
(* cycle; it adds to what the run checks where the window of a plan lies.   *)

\* What the day brings.
PlanDay ==
  /\ prices \in [0..(Slots - 1) -> SlotPrices] /\ load \in Nat
  /\ forecast \in {"unknown", "poor", "mixed", "good"}


\* A set of numbers with a bound has a greatest one.
LEMMA MaxBounded ==
  ASSUME NEW T, T \subseteq Nat, T # {}, NEW b \in Nat, \A x \in T : x <= b
  PROVE  Max(T) \in T /\ \A y \in T : Max(T) >= y
<1> DEFINE U == {b - x : x \in T}
<1>1. U \subseteq Nat /\ U # {}
  <2>1. \A x \in T : b - x \in Nat
    OBVIOUS
  <2>2. PICK x \in T : TRUE
    OBVIOUS
  <2> QED BY <2>1, <2>2
<1>2. PICK u \in U : \A v \in U : u <= v
  BY <1>1, LeastNumber
<1>3. PICK x \in T : u = b - x
  BY <1>2
<1>4. \A y \in T : x >= y
  <2> TAKE y \in T
  <2>1. u <= b - y
    BY <1>2
  <2>2. x \in Nat /\ y \in Nat
    OBVIOUS
  <2> QED BY <1>3, <2>1, <2>2
<1> QED BY <1>4 DEF Max

-----------------------------------------------------------------------------
(* The slots that remain, and their thresholds.                             *)

\* A tick lies within its slot; the slots that start later are those after it.
LEMMA SlotIs ==
  ASSUME NEW t \in Nat
  PROVE  /\ Slot(t) \in Nat /\ Start(Slot(t)) <= t /\ t < End(Slot(t))
         /\ \A s \in Nat : (Start(s) > t <=> s > Slot(t))
BY DEF Slot, Start, End

\* The slot that runs is one of those that remain.
LEMMA RemainingIs ==
  ASSUME NEW t \in 0..(2 * Slots - 1)
  PROVE  /\ Remaining(t) \subseteq 0..(Slots - 1) /\ IsFiniteSet(Remaining(t))
         /\ Slot(t) \in Remaining(t)
         /\ Cardinality(Remaining(t)) \in Nat \ {0}
         /\ Cardinality(Remaining(t)) = 1 => Remaining(t) = {Slot(t)}
<1>1. Remaining(t) \subseteq 0..(Slots - 1)
  BY DEF Remaining
<1>2. IsFiniteSet(Remaining(t))
  <2>1. 0 \in Int /\ Slots - 1 \in Int
    BY PricePlanAssumption
  <2>2. IsFiniteSet(0..(Slots - 1))
    BY <2>1, FS_Interval
  <2> QED BY <1>1, <2>2, FS_Subset
<1>3. Slot(t) \in Remaining(t)
  <2>1. t \in Nat /\ t < 2 * Slots /\ Slots \in Nat
    BY PricePlanAssumption
  <2>2. Slot(t) \in Nat /\ 2 * Slot(t) <= t /\ t < End(Slot(t))
    BY <2>1, SlotIs DEF Start
  <2>3. Slot(t) \in 0..(Slots - 1)
    BY <2>1, <2>2
  <2> QED BY <2>2, <2>3 DEF Remaining
<1>4. /\ Cardinality(Remaining(t)) \in Nat
      /\ Cardinality(Remaining(t) \ {Slot(t)}) = Cardinality(Remaining(t)) - 1
      /\ IsFiniteSet(Remaining(t) \ {Slot(t)})
  BY <1>2, <1>3, FS_CardinalityType, FS_RemoveElement
<1>5. Cardinality(Remaining(t) \ {Slot(t)}) \in Nat
  BY <1>4, FS_CardinalityType
<1>6. Cardinality(Remaining(t)) # 0
  BY <1>4, <1>5
<1>7. ASSUME Cardinality(Remaining(t)) = 1 PROVE Remaining(t) = {Slot(t)}
  <2>1. Cardinality(Remaining(t) \ {Slot(t)}) = 0
    BY <1>4, <1>7
  <2>2. Remaining(t) \ {Slot(t)} = {}
    BY <1>4, <2>1, FS_EmptySet
  <2> QED BY <1>3, <2>2
<1> QED BY <1>1, <1>2, <1>3, <1>4, <1>6, <1>7

\* The sum of the prices that remain is no less than any of them.
LEMMA TotalIs ==
  ASSUME PlanDay, NEW t \in 0..(2 * Slots - 1)
  PROVE  /\ Total(Remaining(t)) \in Nat
         /\ \A s \in Remaining(t) : prices[s] \in Nat /\ prices[s] <= Total(Remaining(t))
         /\ Remaining(t) = {Slot(t)} => Total(Remaining(t)) = prices[Slot(t)]
<1>1. \A s \in Remaining(t) : prices[s] \in Nat
  BY RemainingIs, PricePlanAssumption DEF PlanDay
<1>2. IsFiniteSet(Remaining(t)) /\ Slot(t) \in Remaining(t)
  BY RemainingIs
<1>3. /\ SumFunctionOnSet(prices, Remaining(t)) \in Nat
      /\ \A s \in Remaining(t) : prices[s] <= SumFunctionOnSet(prices, Remaining(t))
  BY <1>1, <1>2, SumOfNat
<1>4. SumFunctionOnSet(prices, {Slot(t)}) = prices[Slot(t)]
  <2>1. prices[Slot(t)] \in Int
    BY <1>1, <1>2
  <2> QED BY <2>1, SumOfOne
<1> QED BY <1>1, <1>3, <1>4 DEF Total

\* A product of natural numbers is one.
LEMMA TimesNat ==
  ASSUME NEW a \in Nat, NEW b \in Nat
  PROVE  a * b \in Nat
OBVIOUS

\* A quotient times its divisor is no more than a divisor below the dividend.
LEMMA QuotientIs ==
  ASSUME NEW a \in Int, NEW b \in Nat \ {0}
  PROVE  a \div b \in Int /\ (a \div b) * b <= a /\ a < (a \div b) * b + b
OBVIOUS

\* A quotient that is rounded up is the least factor that suffices.
LEMMA CeilIs ==
  ASSUME NEW a \in Int, NEW b \in Nat \ {0}, NEW k \in Int
  PROVE  CeilDiv(a, b) \in Int /\ (CeilDiv(a, b) <= k <=> a <= k * b)
<1>1. PICK q \in Int : q = CeilDiv(a, b) /\ q * b <= a + b - 1 /\ a + b - 1 < q * b + b
  <2>1. PICK c \in Int : c = a + b - 1
    OBVIOUS
  <2>2. c \div b \in Int /\ (c \div b) * b <= c /\ c < (c \div b) * b + b
    BY QuotientIs
  <2> QED BY <2>1, <2>2 DEF CeilDiv
<1>2. ASSUME q <= k PROVE a <= k * b
  <2>1. (k - q) * b \in Nat
    BY <1>2, TimesNat
  <2>2. (k - q) * b = k * b - q * b /\ k * b \in Int /\ q * b \in Int
    OBVIOUS
  <2> QED BY <1>1, <2>1, <2>2
<1>3. ASSUME a <= k * b, ~(q <= k) PROVE FALSE
  <2>1. (q - k - 1) * b \in Nat
    BY <1>3, TimesNat
  <2>2. (q - k - 1) * b = q * b - k * b - b /\ k * b \in Int /\ q * b \in Int
    OBVIOUS
  <2> QED BY <1>1, <1>3, <2>1, <2>2
<1> QED BY <1>1, <1>2, <1>3

\* Multiplication keeps the order.
LEMMA TimesMore ==
  ASSUME NEW a \in Nat, NEW b \in Nat, NEW c \in Nat, a <= b
  PROVE  a * c <= b * c
<1>1. (b - a) * c \in Nat
  BY TimesNat
<1>2. (b - a) * c = b * c - a * c
  OBVIOUS
<1> QED BY <1>1, <1>2

\* The spread of the prices that remain is a number.
LEMMA SpanIs ==
  ASSUME PlanDay, NEW t \in 0..(2 * Slots - 1)
  PROVE  Span(Remaining(t)) \in Int
<1> DEFINE T == {prices[s] : s \in Remaining(t)}
<1>1. T \subseteq Nat /\ T # {} /\ \A x \in T : x <= Total(Remaining(t))
  BY TotalIs, RemainingIs
<1>2. Total(Remaining(t)) \in Nat
  BY TotalIs
<1> HIDE DEF T
<1>3. Max(T) \in T
  BY <1>1, <1>2, MaxBounded
<1>4. Min(T) \in T
  BY <1>1, MinOfNat
<1>5. Max(T) \in Nat /\ Min(T) \in Nat
  BY <1>1, <1>3, <1>4
<1>6. Max(T) - Min(T) \in Int
  BY <1>5
<1> QED BY <1>6 DEF Span, T

\* No threshold of a peak is below the average.
LEMMA PeakThresholdIs ==
  ASSUME PlanDay, NEW t \in 0..(2 * Slots - 1)
  PROVE  /\ PeakThreshold(Remaining(t)) \in Int
         /\ PeakThreshold(Remaining(t)) >= 100 * Total(Remaining(t))
<1> DEFINE T == Total(Remaining(t))
           m == (PeakPct - 100) * T
           k == 10 * Cardinality(Remaining(t)) * Span(Remaining(t))
<1>1. T \in Nat
  BY TotalIs
<1>2. m \in Nat
  BY <1>1, PricePlanAssumption, TimesNat
<1>3. k \in Int
  <2>1. 10 * Cardinality(Remaining(t)) \in Int /\ Span(Remaining(t)) \in Int
    BY RemainingIs, SpanIs
  <2> QED BY <2>1
<1>4. PeakThreshold(Remaining(t)) = 100 * T + MaxOf(m, k)
  BY DEF PeakThreshold
<1> HIDE DEF T, m, k
<1>5. MaxOf(m, k) \in Int /\ MaxOf(m, k) >= 0
  BY <1>2, <1>3 DEF MaxOf
<1>6. PeakThreshold(Remaining(t)) \in Int /\ PeakThreshold(Remaining(t)) >= 100 * T
  BY <1>1, <1>4, <1>5
<1> QED BY <1>6 DEF T

\* The threshold of a discharge is a number.
LEMMA DischargeThresholdIs ==
  ASSUME PlanDay, NEW t \in 0..(2 * Slots - 1)
  PROVE  DischargeThreshold(Remaining(t)) \in Int
<1> DEFINE peak == PeakThreshold(Remaining(t))
           valley == 100 * ValleyThreshold(Remaining(t))
           anchor == MaxOf(valley, 82 * peak)
           middle == valley + (55 * (anchor - valley)) \div 100
<1>1. peak \in Int
  BY PeakThresholdIs
<1>2. valley \in Int
  <2>1. ValleyPct \in Int /\ Total(Remaining(t)) \in Int
    BY PricePlanAssumption, TotalIs
  <2> QED BY <2>1 DEF ValleyThreshold
<1>3. DischargeThreshold(Remaining(t)) = MinOf(MaxOf(valley, middle), 90 * peak)
  BY DEF DischargeThreshold
<1> HIDE DEF peak, valley
<1>4. anchor \in Int
  BY <1>1, <1>2 DEF MaxOf
<1> HIDE DEF anchor
<1>5. middle \in Int
  BY <1>2, <1>4
<1> HIDE DEF middle
<1>6. MinOf(MaxOf(valley, middle), 90 * peak) \in Int
  BY <1>1, <1>2, <1>5 DEF MinOf, MaxOf
<1> QED BY <1>3, <1>6

-----------------------------------------------------------------------------
(* The learned plan.                                                        *)

\* A peak ends at a slot that is no peak, at the latest with the day.
LEMMA PeakEndIs ==
  ASSUME NEW P, P \subseteq 0..(Slots - 1), NEW s \in 0..Slots
  PROVE  PeakEnd(s, P) \in s..Slots /\ PeakEnd(s, P) \notin P
<1> DEFINE U == {o \in s..Slots : o \notin P}
<1>1. Slots \in Nat
  BY PricePlanAssumption
<1>2. Slots \in U /\ U \subseteq Nat
  BY <1>1
<1>3. Min(U) \in U
  BY <1>2, MinOfNat
<1> QED BY <1>3 DEF PeakEnd

\* The next morning lies ahead.
LEMMA NextMorningIs ==
  ASSUME NEW t \in 0..(2 * Slots - 1)
  PROVE  NextMorning(t) \in Nat /\ NextMorning(t) > t
<1> DEFINE U == {d \in {Morning, Morning + Day} : d > t}
<1>1. Morning \in Nat /\ Day \in Nat /\ t < Day /\ t \in Nat
  BY PricePlanAssumption
<1>2. Morning + Day \in U /\ U \subseteq Nat
  BY <1>1
<1>3. Min(U) \in U
  BY <1>2, MinOfNat
<1> QED BY <1>2, <1>3 DEF NextMorning

\* The deadline lies ahead; one before a peak lies behind the end of the
\* peak that is running.
LEMMA DeadlineIs ==
  ASSUME NEW t \in 0..(2 * Slots - 1), NEW P, P \subseteq 0..(Slots - 1)
  PROVE  /\ Deadline(t, P).at \in Nat /\ Deadline(t, P).at > t
         /\ Deadline(t, P).why = "peak" =>
              \E m \in P : /\ Deadline(t, P).at = Start(m)
                          /\ \E o \in Slot(t)..(m - 1) : o \notin P
<1> DEFINE next == NextPeaks(t, P)
<1>1. t \in Nat /\ Slot(t) \in Nat /\ Slot(t) \in 0..Slots
  <2>1. t \in Nat /\ Slots \in Nat
    BY PricePlanAssumption
  <2>2. Slot(t) \in 0..(Slots - 1)
    BY RemainingIs
  <2> QED BY <2>1, <2>2
<1>2. PICK o \in Slot(t)..Slots : o = PeakEnd(Slot(t), P) /\ o \notin P
  BY <1>1, PeakEndIs
<1>3. CASE next # {}
  <2>1. next \subseteq Nat /\ next \subseteq P
    <3>1. next \subseteq P /\ 0..(Slots - 1) \subseteq Nat
      BY DEF NextPeaks
    <3> QED BY <3>1
  <2>2. PICK m \in next : m = Min(next)
    BY <1>3, <2>1, MinOfNat
  <2>3. m \in P /\ m >= o /\ m # o /\ m \in Nat /\ o \in Nat
    BY <1>1, <1>2, <2>1 DEF NextPeaks
  <2>4. Deadline(t, P) = [at |-> Start(m), why |-> "peak"]
    BY <1>3, <2>2 DEF Deadline
  <2>5. o \in Slot(t)..(m - 1) /\ m > Slot(t)
    BY <1>1, <1>2, <2>3
  <2>6. Start(m) \in Nat /\ Start(m) > t
    BY <1>1, <2>3, <2>5, SlotIs DEF Start
  <2> QED BY <1>2, <2>3, <2>4, <2>5, <2>6
<1>4. CASE next = {} /\ forecast = "poor"
  <2>1. Deadline(t, P) = [at |-> t + PoorHorizon, why |-> "poor"]
    BY <1>4 DEF Deadline
  <2>2. PoorHorizon \in Nat /\ PoorHorizon > 0
    BY PricePlanAssumption
  <2> QED BY <1>1, <2>1, <2>2
<1>5. CASE next = {} /\ forecast # "poor"
  <2>1. Deadline(t, P) = [at |-> NextMorning(t), why |-> "morning"]
    BY <1>5 DEF Deadline
  <2> QED BY <2>1, NextMorningIs
<1> QED BY <1>3, <1>4, <1>5

\* What is stored for a peak has to last until that peak ends.
LEMMA CoverageIs ==
  ASSUME NEW t \in 0..(2 * Slots - 1), NEW P, P \subseteq 0..(Slots - 1)
  PROVE  /\ CoverageEnd(Deadline(t, P), P) \in Nat
         /\ Deadline(t, P).why = "peak" =>
              CoverageEnd(Deadline(t, P), P) > Deadline(t, P).at
<1> DEFINE d == Deadline(t, P)
<1>1. CASE d.why = "peak"
  <2>1. PICK m \in P : d.at = Start(m)
    BY <1>1, DeadlineIs
  <2>2. m \in Nat /\ m \in 0..Slots /\ Slot(d.at) = m /\ Slots \in Nat
    BY <2>1, PricePlanAssumption DEF Slot, Start
  <2>3. PICK o : o = PeakEnd(m, P) /\ o \in m..Slots /\ o # m
    <3>1. PeakEnd(m, P) \in m..Slots /\ PeakEnd(m, P) \notin P
      BY <2>2, PeakEndIs
    <3> QED BY <2>1, <3>1
  <2>4. CoverageEnd(d, P) = Start(o)
    BY <1>1, <2>2, <2>3 DEF CoverageEnd
  <2>5. Start(o) \in Nat /\ Start(o) > Start(m)
    BY <2>2, <2>3 DEF Start
  <2> QED BY <2>1, <2>4, <2>5
<1>2. CASE d.why # "peak"
  BY <1>2, DeadlineIs DEF CoverageEnd
<1> QED BY <1>1, <1>2

\* A share of an amount is a number.
LEMMA ShareIs ==
  ASSUME NEW pct \in Int, NEW amount \in Int
  PROVE  Share(pct, amount) \in Int
<1>1. PICK x \in Int : x = pct * amount
  OBVIOUS
<1>2. Share(pct, amount) = (x + 100 - 1) \div 100
  BY <1>1 DEF Share, CeilDiv
<1> QED BY <1>2

\* What the time until a deadline asks for.
Wanted(t, at, until) ==
  LET expected == Consumption(t, until)
  IN  expected + Reserve(expected) + Adjustment(expected) - Credit(at - t)

\* No plan asks for less than nothing.
LEMMA RequiredIs ==
  ASSUME PlanDay, NEW t \in Int, NEW e \in 0..Capacity, NEW d, d.at \in Int, NEW until \in Int
  PROVE  /\ Required(t, e, d, until) \in Nat
         /\ Required(t, e, d, until) = Actionable(Wanted(t, d.at, until) - e, e)
<1>1. PICK x \in Int : x = Consumption(t, until)
  <2>1. load \in Int /\ until - t \in Int
    BY DEF PlanDay
  <2> QED BY <2>1 DEF Consumption
<1>2. Reserve(x) \in Int
  <2>1. Margin \in Int /\ Share(15, x) \in Int
    BY ShareIs, PricePlanAssumption
  <2> QED BY <2>1 DEF Reserve, MaxOf
<1>3. Adjustment(x) \in Int
  <2>1. MaxAdjustment \in Int /\ Share(15, x) \in Int /\ Share(5, x) \in Int
    <3>1. 15 \in Int /\ 5 \in Int
      OBVIOUS
    <3>2. Share(15, x) \in Int /\ Share(5, x) \in Int
      BY <3>1, ShareIs
    <3> QED BY <3>2, PricePlanAssumption
  <2>2. MinOf(MaxAdjustment, Share(15, x)) \in Int /\ MinOf(MaxAdjustment, Share(5, x)) \in Int
    BY <2>1 DEF MinOf
  <2> QED BY <2>2 DEF Adjustment
<1>4. Credit(d.at - t) \in Int
  <2>1. PICK c \in Int : c = d.at - t
    OBVIOUS
  <2>2. (90 * c) \div 100 \in Int /\ (50 * c) \div 100 \in Int
    BY <2>1
  <2> QED BY <2>1, <2>2 DEF Credit
<1>5. PICK raw \in Int : raw = x + Reserve(x) + Adjustment(x) - Credit(d.at - t) - e
  BY <1>2, <1>3, <1>4
<1>6. Required(t, e, d, until) = Actionable(raw, e)
  BY <1>1, <1>5 DEF Required
<1>7. MinOf(MaxOf(raw, 0), Capacity - e) \in Nat
  BY PricePlanAssumption DEF MinOf, MaxOf
<1>8. Actionable(raw, e) \in Nat
  BY <1>7 DEF Actionable
<1>9. raw = Wanted(t, d.at, until) - e
  <2>1. PICK y \in Int : y = Reserve(x)
    BY <1>2
  <2>2. PICK a \in Int : a = Adjustment(x)
    BY <1>3
  <2>3. PICK c \in Int : c = Credit(d.at - t)
    BY <1>4
  <2>4. Wanted(t, d.at, until) = x + y + a - c
    BY <1>1, <2>1, <2>2, <2>3 DEF Wanted
  <2>5. raw = x + y + a - c - e
    BY <1>5, <2>1, <2>2, <2>3
  <2> QED BY <2>4, <2>5
<1> QED BY <1>6, <1>8, <1>9

\* A window has at least one slot.
LEMMA CoreSlotsIs ==
  ASSUME NEW required \in Nat
  PROVE  CoreSlots(required) \in Nat \ {0} /\ WindowSlots(required) \in Int
<1>1. PICK r \in Nat : r = 2 * Rate /\ r > 0
  BY PricePlanAssumption
<1>2. PICK c \in Int : c = CeilDiv(required, r)
  BY <1>1 DEF CeilDiv
<1>3. CoreSlots(required) = MaxOf(1, c)
  BY <1>1, <1>2 DEF CoreSlots
<1>4. PICK safety \in {1, 2} : WindowSlots(required) = MinOf(MaxOf(2, c + safety), SlotCap)
  BY <1>1, <1>2 DEF WindowSlots
<1>5. SlotCap \in Int
  BY PricePlanAssumption
<1>6. MaxOf(1, c) \in Nat \ {0} /\ MaxOf(2, c + safety) \in Int
  BY <1>2 DEF MaxOf
<1> QED BY <1>3, <1>4, <1>5, <1>6 DEF MinOf

\* The cost of a window within the day is a number.
LEMMA ScoreIs ==
  ASSUME PlanDay, NEW n \in Nat \ {0}, NEW s \in 0..(Slots - 1), s + n - 1 \in 0..(Slots - 1)
  PROVE  Score(s, n) \in Nat
<1> DEFINE D == 0..(n - 1)
           f == [i \in D |-> prices[s + i] * MinOf(i + 1, n - i)]
<1>1. \A i \in D : f[i] \in Nat
  <2> TAKE i \in D
  <2>1. s + i \in 0..(Slots - 1)
    BY PricePlanAssumption
  <2>2. prices[s + i] \in Nat
    BY <2>1, PricePlanAssumption DEF PlanDay
  <2>3. MinOf(i + 1, n - i) \in Nat
    BY DEF MinOf
  <2> QED BY <2>2, <2>3, TimesNat
<1>2. IsFiniteSet(D) /\ DOMAIN f = D
  BY FS_Interval
<1>3. Score(s, n) = SumFunctionOnSet(f, D)
  BY <1>2 DEF Score, SumFunction
<1> HIDE DEF f, D
<1> QED BY <1>1, <1>2, <1>3, SumOfNat

\* Windows of least cost are numbers of slots of the day.
LEMMA CheapestIs ==
  ASSUME PlanDay, NEW t \in 0..(2 * Slots - 1), NEW d, NEW n \in Nat \ {0},
         NEW W, W = Windows(t, d, n), W # {}
  PROVE  /\ W \subseteq 0..(Slots - 1) /\ \A s \in W : Score(s, n) \in Nat
         /\ Cheapest(W, n) \subseteq W /\ Cheapest(W, n) # {}
         /\ \A s \in W : s \in Cheapest(W, n) <=> \A o \in W : Score(s, n) <= Score(o, n)
<1>1. \A s \in W : s \in 0..(Slots - 1) /\ s + n - 1 \in 0..(Slots - 1)
  BY RemainingIs DEF Windows
<1>2. \A s \in W : Score(s, n) \in Nat
  BY <1>1, ScoreIs
<1> DEFINE L == {Score(s, n) : s \in W}
<1>3. L \subseteq Nat /\ L # {}
  BY <1>2
<1>4. PICK best : best = Min(L) /\ best \in L /\ \A x \in L : best <= x
  BY <1>3, MinOfNat
<1>5. Cheapest(W, n) = {s \in W : Score(s, n) = best}
  BY <1>4 DEF Cheapest
<1>6. ASSUME NEW s \in W
      PROVE  Score(s, n) = best <=> \A o \in W : Score(s, n) <= Score(o, n)
  <2>1. best \in Nat /\ Score(s, n) \in Nat /\ best <= Score(s, n)
    BY <1>2, <1>3, <1>4
  <2>2. PICK o \in W : best = Score(o, n)
    BY <1>4
  <2>3. \A x \in W : best <= Score(x, n)
    BY <1>4
  <2> QED BY <2>1, <2>2, <2>3
<1>7. Cheapest(W, n) \subseteq W /\ Cheapest(W, n) # {}
  BY <1>4, <1>5
<1>8. \A s \in W : s \in Cheapest(W, n) <=> \A o \in W : Score(s, n) <= Score(o, n)
  BY <1>5, <1>6
<1> HIDE DEF L
<1> QED BY <1>1, <1>2, <1>7, <1>8

\* Nearer(s, o, p): s is nearer to p than o, or as near and no later.
Away(s, p) == MaxOf(s - p, p - s)
Nearer(s, o, p) == Away(s, p) < Away(o, p) \/ (Away(s, p) = Away(o, p) /\ s <= o)
Preferred(T) == MaxOf(Min(T), Max(T) - Hour)

\* Of some slots one is the nearest.
LEMMA NearestIs ==
  ASSUME NEW T, T \subseteq Nat, T # {}, NEW p \in Int
  PROVE  \E s \in T : \A o \in T : Nearer(s, o, p)
<1>1. \A s \in T : Away(s, p) \in Nat
  BY DEF Away, MaxOf
<1> DEFINE L == {Away(s, p) : s \in T}
<1>2. L \subseteq Nat /\ L # {}
  BY <1>1
<1>3. PICK l \in L : \A k \in L : l <= k
  BY <1>2, LeastNumber
<1> DEFINE U == {s \in T : Away(s, p) = l}
<1>4. U \subseteq Nat /\ U # {}
  OBVIOUS
<1>5. PICK s \in U : \A o \in U : s <= o
  BY <1>4, LeastNumber
<1>6. ASSUME NEW o \in T PROVE Nearer(s, o, p)
  <2>1. l <= Away(o, p) /\ Away(s, p) = l /\ l \in Nat /\ Away(o, p) \in Nat
    BY <1>1, <1>2, <1>3
  <2>2. Away(o, p) = l => s <= o
    BY <1>5
  <2> QED BY <2>1, <2>2 DEF Nearer
<1> QED BY <1>6

\* The window that is chosen is the nearest of the cheapest ones.
LEMMA BestIs ==
  ASSUME PlanDay, NEW t \in 0..(2 * Slots - 1), NEW d, NEW n \in Nat \ {0},
         NEW W, W = Windows(t, d, n), W # {}, NEW T, T = Cheapest(W, n)
  PROVE  /\ Best(W, n) \in T /\ Best(W, n) \in Nat
         /\ T \subseteq Nat /\ Min(T) \in T /\ Max(T) \in T /\ Preferred(T) \in Int
         /\ \A s \in T : Min(T) <= s /\ s <= Max(T)
         /\ \A o \in T : Nearer(Best(W, n), o, Preferred(T))
         /\ Best(W, n) = CHOOSE s \in T : \A o \in T : Nearer(s, o, Preferred(T))
<1>1. Slots \in Nat /\ Hour \in Nat
  BY PricePlanAssumption
<1>2. T \subseteq 0..(Slots - 1) /\ T # {}
  BY CheapestIs
<1>3. T \subseteq Nat /\ \A s \in T : s <= Slots
  BY <1>1, <1>2
<1>4. Min(T) \in T /\ \A s \in T : Min(T) <= s
  BY <1>2, <1>3, MinOfNat
<1>5. Max(T) \in T /\ \A s \in T : Max(T) >= s
  BY <1>1, <1>2, <1>3, MaxBounded
<1>6. PICK first \in Nat, end \in Nat : first = Min(T) /\ end = Max(T)
  BY <1>3, <1>4, <1>5
<1>7. PICK p \in Int : p = Preferred(T)
  BY <1>1, <1>6 DEF Preferred, MaxOf
<1>8. Best(W, n) = CHOOSE s \in T : \A o \in T : Nearer(s, o, p)
  BY <1>7 DEF Best, Nearer, Away, Preferred
<1>9. \E s \in T : \A o \in T : Nearer(s, o, p)
  BY <1>2, <1>3, NearestIs
<1>10. Best(W, n) \in T /\ \A o \in T : Nearer(Best(W, n), o, p)
  BY Zenon, <1>8, <1>9
<1>11. \A s \in T : Min(T) <= s /\ s <= Max(T)
  BY <1>3, <1>4, <1>5
<1> QED BY <1>3, <1>4, <1>5, <1>7, <1>8, <1>10, <1>11

\* The power of a window is something, and at most full power.
LEMMA PowerIs ==
  ASSUME NEW required \in Int, NEW from \in Int, NEW until \in Int
  PROVE  Power(required, from, until) \in 1..Rate
<1>1. Rate \in Nat /\ Rate > 0
  BY PricePlanAssumption
<1>2. CASE until <= from
  BY <1>1, <1>2 DEF Power
<1>3. CASE ~(until <= from)
  <2>1. PICK b \in Nat : b = until - from /\ b > 0
    BY <1>3
  <2>2. PICK c \in Int : c = CeilDiv(required, b)
    BY <2>1 DEF CeilDiv
  <2>3. Power(required, from, until) = MinOf(Rate, MaxOf(1, c))
    BY <1>3, <2>1, <2>2 DEF Power
  <2> QED BY <1>1, <2>3 DEF MinOf, MaxOf
<1> QED BY <1>2, <1>3

\* As long as the start of the chosen window lies ahead it stays chosen.
LEMMA WindowKept ==
  ASSUME PlanDay, NEW t \in 0..(2 * Slots - 1), NEW u \in 0..(2 * Slots - 1),
         t <= u, u <= t + 1, NEW d, NEW n \in Nat \ {0},
         NEW V, V = Windows(t, d, n), V # {}, t < Start(Best(V, n)),
         NEW W, W = Windows(u, d, n)
  PROVE  W # {} /\ Best(W, n) = Best(V, n)
<1>1. PICK b \in V : b = Best(V, n) /\ b \in Cheapest(V, n) /\ b \in 0..(Slots - 1)
  BY BestIs, CheapestIs
<1>2. /\ b \in Nat /\ t \in Nat /\ u \in Nat /\ u <= 2 * b
  BY <1>1 DEF Start
<1>3. W \subseteq V /\ \A s \in V \ W : s < b
  <2>1. ASSUME NEW s \in W PROVE s \in V
    <3>1. s \in 0..(Slots - 1) /\ End(s) > u /\ s + n - 1 \in 0..(Slots - 1)
          /\ End(s + n - 1) > u /\ End(s + n - 1) <= d.at
      BY <2>1 DEF Windows, Remaining
    <3>2. End(s) > t /\ End(s + n - 1) > t
      BY <1>2, <3>1 DEF End
    <3> QED BY <3>1, <3>2 DEF Windows, Remaining
  <2>2. ASSUME NEW s \in V, ~(s < b) PROVE s \in W
    <3>1. s \in 0..(Slots - 1) /\ s + n - 1 \in 0..(Slots - 1) /\ End(s + n - 1) <= d.at
      BY <2>2 DEF Windows, Remaining
    <3>2. End(s) > u /\ End(s + n - 1) > u
      BY <1>2, <2>2, <3>1 DEF End
    <3> QED BY <3>1, <3>2 DEF Windows, Remaining
  <2> QED BY <2>1, <2>2
<1>4. b \in W
  BY <1>2, <1>3
<1> DEFINE T == Cheapest(V, n)
           R == Cheapest(W, n)
<1>5. R = T \cap W
  <2>1. \A s \in V : s \in T <=> \A o \in V : Score(s, n) <= Score(o, n)
    BY CheapestIs
  <2>2. \A s \in W : s \in R <=> \A o \in W : Score(s, n) <= Score(o, n)
    BY <1>4, CheapestIs
  <2>3. R \subseteq W /\ T \subseteq V /\ \A s \in V : Score(s, n) \in Nat
    BY <1>4, CheapestIs
  <2>4. \A o \in V : Score(b, n) <= Score(o, n)
    BY <1>1, <2>1
  <2>5. ASSUME NEW s \in R PROVE s \in T
    <3>1. Score(s, n) <= Score(b, n) /\ s \in V
      BY <1>3, <1>4, <2>2, <2>3, <2>5
    <3>2. \A o \in V : Score(s, n) <= Score(o, n)
      BY <1>1, <2>3, <2>4, <3>1
    <3> QED BY <2>1, <3>1, <3>2
  <2>6. ASSUME NEW s \in T, s \in W PROVE s \in R
    BY <1>3, <2>1, <2>2, <2>3, <2>6
  <2> QED BY <2>3, <2>5, <2>6
<1>6. b \in R /\ R \subseteq T /\ \A s \in T \ R : s < b
  <2>1. T \subseteq V
    BY CheapestIs
  <2> QED BY <1>1, <1>3, <1>4, <1>5, <2>1
<1>7. /\ T \subseteq Nat /\ Min(T) \in T /\ Max(T) \in T /\ Preferred(T) \in Int
      /\ \A s \in T : Min(T) <= s /\ s <= Max(T)
      /\ \A o \in T : Nearer(b, o, Preferred(T))
  <2> HIDE DEF T
  <2>1. T = Cheapest(V, n)
    BY DEF T
  <2> QED BY <1>1, <2>1, BestIs
<1>8. /\ Min(R) \in R /\ Max(R) \in R /\ Preferred(R) \in Int
      /\ \A s \in R : Min(R) <= s /\ s <= Max(R)
      /\ Best(W, n) = CHOOSE s \in R : \A o \in R : Nearer(s, o, Preferred(R))
  <2> HIDE DEF R
  <2>1. R = Cheapest(W, n) /\ W # {}
    BY <1>4 DEF R
  <2> QED BY <2>1, BestIs
<1> HIDE DEF T, R
<1>9. PICK p \in Int, q \in Int : p = Preferred(T) /\ q = Preferred(R)
  BY <1>7, <1>8
<1>10. \A o \in R : Nearer(b, o, q)
  <2>1. PICK first \in Nat : first = Min(T)
    BY <1>7
  <2>2. PICK later \in Nat : later = Min(R) /\ later \in R /\ later \in T
    BY <1>6, <1>7, <1>8
  <2>3. PICK end \in Nat : end = Max(T) /\ end = Max(R)
    <3>1. Max(T) \in Nat /\ Max(R) \in Nat /\ Max(R) <= Max(T)
      BY <1>6, <1>7, <1>8
    <3>2. b <= Max(T)
      BY <1>6, <1>7
    <3>3. Max(T) \in R
      BY <1>2, <1>6, <1>7, <3>1, <3>2
    <3>4. Max(T) <= Max(R)
      BY <1>8, <3>3
    <3> QED BY <3>1, <3>4
  <2>4. Hour \in Nat /\ first \in T /\ later <= b /\ first <= later
    BY <1>6, <1>7, <1>8, <2>1, <2>2, PricePlanAssumption
  <2>5. p = MaxOf(first, end - Hour) /\ q = MaxOf(later, end - Hour)
    BY <1>9, <2>1, <2>2, <2>3 DEF Preferred
  <2>6. CASE later <= end - Hour
    <3>1. p = q
      BY <2>1, <2>2, <2>3, <2>4, <2>5, <2>6 DEF MaxOf
    <3> QED BY <1>6, <1>7, <1>9, <3>1
  <2>7. CASE ~(later <= end - Hour)
    <3>1. q = later
      BY <2>2, <2>3, <2>4, <2>5, <2>7 DEF MaxOf
    <3>2. Nearer(b, later, p) /\ Nearer(b, first, p)
      BY <1>7, <1>9, <2>2, <2>4
    <3>3. b = later
      <4>1. CASE first <= end - Hour
        <5>1. p = end - Hour \/ p = first
          BY <2>1, <2>3, <2>4, <2>5 DEF MaxOf
        <5>2. p < later
          BY <2>1, <2>2, <2>3, <2>4, <2>7, <4>1, <5>1
        <5> QED BY <1>2, <2>2, <2>4, <3>2, <5>2 DEF Nearer, Away, MaxOf
      <4>2. CASE ~(first <= end - Hour)
        <5>1. p = first
          BY <2>1, <2>3, <2>4, <2>5, <4>2 DEF MaxOf
        <5>2. b = first
          BY <1>2, <2>1, <3>2, <5>1 DEF Nearer, Away, MaxOf
        <5> QED BY <1>2, <2>1, <2>2, <2>4, <5>2
      <4> QED BY <4>1, <4>2
    <3>4. ASSUME NEW o \in R PROVE Nearer(b, o, q)
      <4>1. o \in Nat
        BY <1>6, <1>7
      <4> QED BY <1>2, <3>1, <3>3, <4>1 DEF Nearer, Away, MaxOf
    <3> QED BY <3>4
  <2> QED BY <2>6, <2>7
<1>11. ASSUME NEW s \in R, \A o \in R : Nearer(s, o, q) PROVE s = b
  <2>1. Nearer(s, b, q) /\ Nearer(b, s, q)
    BY <1>6, <1>10, <1>11
  <2>2. s \in Nat
    BY <1>6, <1>7
  <2> QED BY <1>2, <1>9, <2>1, <2>2 DEF Nearer, Away, MaxOf
<1>12. Best(W, n) = b
  <2>1. Best(W, n) = CHOOSE s \in R : \A o \in R : Nearer(s, o, q)
    BY <1>8, <1>9
  <2>2. Best(W, n) \in R /\ \A o \in R : Nearer(Best(W, n), o, q)
    BY Zenon, <1>6, <1>10, <2>1
  <2> QED BY <1>11, <2>2
<1> QED BY <1>1, <1>4, <1>12

\* What is asked for less is needed less.
LEMMA ActionableFalls ==
  ASSUME NEW raw \in Int, NEW e \in 0..Capacity, NEW next \in Int, NEW f \in 0..Capacity,
         NEW gain \in Nat, next <= raw - gain,
         NEW r, r = Actionable(raw, e), r # 0, r = Capacity - e => f >= e
  PROVE  /\ Actionable(next, f) \in Nat /\ Actionable(next, f) <= r /\ r \in Nat
         /\ f = e + gain => Actionable(next, f) = 0 \/ Actionable(next, f) <= r - gain
BY PricePlanAssumption DEF Actionable, MinOf, MaxOf

\* Shares grow with the amount.
LEMMA ShareGrows ==
  ASSUME NEW a \in Int, NEW b \in Int, a <= b
  PROVE  /\ Share(15, a) \in Int /\ Share(15, b) \in Int /\ Share(15, a) <= Share(15, b)
         /\ Share(5, a) \in Int /\ Share(5, b) \in Int /\ Share(5, a) <= Share(5, b)
BY DEF Share, CeilDiv

\* A tick later the house needs a tick less until the deadline, and so do reserve
\* and surcharge; the credit for PV falls by what is no longer forecast.
LEMMA WantedFalls ==
  ASSUME PlanDay, NEW t \in Int, NEW at \in Int, NEW until \in Int
  PROVE  /\ Wanted(t, at, until) \in Int /\ Wanted(t + 1, at, until) \in Int
         /\ Credit(at - t) \in Int /\ Credit(at - (t + 1)) \in Int
         /\ Wanted(t + 1, at, until) - Wanted(t, at, until)
              <= Credit(at - t) - Credit(at - (t + 1)) - load
<1>1. PICK x \in Int : x = Consumption(t, until)
  <2>1. load \in Int /\ until - t \in Int
    BY DEF PlanDay
  <2> QED BY <2>1 DEF Consumption
<1>2. PICK y \in Int : y = Consumption(t + 1, until) /\ y = x - load /\ y <= x
  <2>1. PICK k \in Int : k = until - t
    OBVIOUS
  <2>2. load \in Nat /\ until - (t + 1) = k - 1
    BY <2>1 DEF PlanDay
  <2>3. load * (k - 1) = load * k - load /\ load * k \in Int
    BY <2>2
  <2>4. Consumption(t + 1, until) = x - load
    BY <1>1, <2>1, <2>2, <2>3 DEF Consumption
  <2> QED BY <2>2, <2>4
<1>3. Reserve(x) \in Int /\ Reserve(y) \in Int /\ Reserve(y) <= Reserve(x)
  <2>1. Margin \in Int
    BY PricePlanAssumption
  <2> QED BY <1>2, <2>1, ShareGrows DEF Reserve, MaxOf
<1>4. Adjustment(x) \in Int /\ Adjustment(y) \in Int /\ Adjustment(y) <= Adjustment(x)
  <2>1. MaxAdjustment \in Int
    BY PricePlanAssumption
  <2>2. /\ MinOf(MaxAdjustment, Share(15, x)) \in Int /\ MinOf(MaxAdjustment, Share(5, x)) \in Int
        /\ MinOf(MaxAdjustment, Share(15, y)) \in Int /\ MinOf(MaxAdjustment, Share(5, y)) \in Int
        /\ MinOf(MaxAdjustment, Share(15, y)) <= MinOf(MaxAdjustment, Share(15, x))
        /\ MinOf(MaxAdjustment, Share(5, y)) <= MinOf(MaxAdjustment, Share(5, x))
    BY <1>2, <2>1, ShareGrows DEF MinOf
  <2> QED BY <2>2 DEF Adjustment
<1>5. ASSUME NEW c \in Int PROVE Credit(c) \in Int
  <2>1. (90 * c) \div 100 \in Int /\ (50 * c) \div 100 \in Int
    OBVIOUS
  <2> QED BY <2>1 DEF Credit
<1>6. PICK c \in Int : c = Credit(at - t)
  BY <1>5
<1>7. PICK d \in Int : d = Credit(at - (t + 1))
  BY <1>5
<1>8. PICK l \in Nat : l = load
  BY DEF PlanDay
<1>9. Wanted(t, at, until) = x + Reserve(x) + Adjustment(x) - c
  BY <1>1, <1>6 DEF Wanted
<1>10. Wanted(t + 1, at, until) = y + Reserve(y) + Adjustment(y) - d
  BY <1>2, <1>7 DEF Wanted
<1> QED BY <1>2, <1>3, <1>4, <1>6, <1>7, <1>8, <1>9, <1>10

\* A plan that is charged as it says still fits after a tick.
LEMMA ChargedFits ==
  ASSUME NEW t \in Nat, NEW at \in Nat, NEW r \in Nat, r > 0, t + CeilDiv(r, Rate) <= at,
         NEW from \in Int, NEW until \in Int, t <= from, until <= at,
         NEW g, g = Power(r, from, until),
         NEW s \in Nat, s = 0 \/ s <= r - g
  PROVE  t + 1 + CeilDiv(s, Rate) <= at
<1>1. Rate \in Nat \ {0}
  BY PricePlanAssumption
<1>2. PICK k \in Int : k = at - t
  OBVIOUS
<1>3. PICK m \in Int : m = k * Rate
  BY <1>1
<1>4. CeilDiv(r, Rate) \in Int /\ CeilDiv(s, Rate) \in Int /\ r \in Int /\ s \in Int /\ k - 1 \in Int
  BY <1>1, CeilIs
<1>5. r <= m
  <2>1. CeilDiv(r, Rate) <= k
    BY <1>2, <1>4
  <2> QED BY <1>1, <1>3, <1>4, <2>1, CeilIs
<1>6. k >= 1
  <2> SUFFICES ASSUME ~(k >= 1) PROVE FALSE
    OBVIOUS
  <2>1. -k \in Nat
    OBVIOUS
  <2>2. (-k) * Rate \in Nat
    BY <1>1, <2>1, TimesNat
  <2>3. (-k) * Rate = -m
    BY <1>1, <1>3
  <2> QED BY <1>3, <1>5, <2>2, <2>3
<1>7. (k - 1) * Rate = m - Rate
  BY <1>1, <1>3
<1>8. s <= m - Rate
  <2>1. CASE s = 0
    <3>1. (k - 1) * Rate \in Nat
      BY <1>1, <1>6, TimesNat
    <3> QED BY <1>7, <2>1, <3>1
  <2>2. CASE s # 0 /\ g = Rate
    BY <1>1, <1>3, <1>5, <2>2
  <2>3. CASE s # 0 /\ g # Rate
    <3>1. ~(until <= from)
      BY <2>3 DEF Power
    <3>2. PICK b \in Nat \ {0} : b = until - from
      BY <3>1
    <3>3. PICK c \in Int : c = CeilDiv(r, b)
      BY <1>4, CeilIs
    <3>4. g = MinOf(Rate, MaxOf(1, c))
      BY <3>1, <3>2, <3>3 DEF Power
    <3>5. g \in Nat /\ g <= Rate /\ c <= g
      BY <1>1, <2>3, <3>4 DEF MinOf, MaxOf
    <3>6. PICK x \in Int : x = g * b
      BY <3>5
    <3>7. r <= x
      <4>1. g \in Int
        BY <3>5
      <4> QED BY <1>4, <3>3, <3>5, <3>6, <4>1, CeilIs
    <3>8. b <= k
      BY <1>2, <3>2
    <3>9. (Rate - g) * (b - 1) \in Nat /\ Rate * (k - b) \in Nat
      <4>1. Rate - g \in Nat /\ b - 1 \in Nat /\ k - b \in Nat
        BY <1>1, <3>5, <3>8
      <4> QED BY <1>1, <4>1, TimesNat
    <3>10. PICK y \in Int : y = Rate * b
      BY <1>1
    <3>11. (Rate - g) * (b - 1) = y - Rate - x + g
      BY <1>1, <3>5, <3>6, <3>10
    <3>12. Rate * (k - b) = m - y
      BY <1>1, <1>3, <3>10
    <3>13. x - g <= m - Rate
      BY <1>1, <1>3, <3>5, <3>6, <3>9, <3>10, <3>11, <3>12
    <3>14. s <= r - g
      BY <2>3
    <3> QED BY <1>1, <1>3, <3>5, <3>6, <3>7, <3>13, <3>14
  <2> QED BY <2>1, <2>2, <2>3
<1>9. CeilDiv(s, Rate) <= k - 1
  BY <1>1, <1>4, <1>7, <1>8, CeilIs
<1> QED BY <1>2, <1>4, <1>9

\* A plan that nothing forces has the length of its window left.
LEMMA SlackFits ==
  ASSUME NEW t \in Nat, NEW at \in Nat, NEW r \in Nat, r <= 2 * Rate * SlotCap,
         t < at - 2 * WindowSlots(r), NEW s \in Nat, s <= r
  PROVE  t + 1 + CeilDiv(s, Rate) <= at
<1>1. PICK n \in Nat \ {0} : n = Rate
  BY PricePlanAssumption
<1>2. PICK b \in Nat \ {0} : b = 2 * n
  BY <1>1
<1>3. PICK c \in Int : c = CeilDiv(r, b) /\ r <= c * b
  <2>1. PICK c \in Int : c = CeilDiv(r, b)
    BY CeilIs
  <2>2. r \in Int /\ c <= c
    OBVIOUS
  <2> QED BY <2>1, <2>2, CeilIs
<1>4. PICK cap \in Int : cap = SlotCap
  BY PricePlanAssumption
<1>5. PICK safety \in {1, 2} : WindowSlots(r) = MinOf(MaxOf(2, c + safety), cap)
  BY <1>1, <1>2, <1>3, <1>4 DEF WindowSlots
<1>6. PICK w \in Int : w = WindowSlots(r) /\ (w >= c \/ w = cap)
  BY <1>3, <1>4, <1>5 DEF MinOf, MaxOf
<1>7. r <= w * b
  <2>1. CASE w = cap
    <3>1. r <= (2 * n) * cap
      BY <1>1, <1>4
    <3> QED BY <1>2, <2>1, <3>1
  <2>2. CASE w >= c
    <3>1. (w - c) * b \in Nat
      BY <2>2, TimesNat
    <3>2. (w - c) * b = w * b - c * b /\ w * b \in Int /\ c * b \in Int
      OBVIOUS
    <3> QED BY <1>3, <3>1, <3>2
  <2> QED BY <1>6, <2>1, <2>2
<1>8. w * b = (2 * w) * n /\ (2 * w) * n \in Int
  BY <1>2
<1>9. s <= (2 * w) * n
  BY <1>7, <1>8
<1>10. s \in Int /\ 2 * w \in Int /\ CeilDiv(s, n) \in Int
  BY CeilIs
<1>11. CeilDiv(s, n) <= 2 * w
  BY <1>9, <1>10, CeilIs
<1> QED BY <1>1, <1>6, <1>10, <1>11

\* A plan asks for what is wanted until its deadline; one that is forced stores
\* it in the time that is left, any other one has the length of a window left.
Sized(t, e, p) ==
  /\ p.deadline \in Nat /\ p.coverage \in Int
  /\ p.required = Actionable(Wanted(t, p.deadline, p.coverage) - e, e)
  /\ p.required # 0 /\ ~Forced(p) => t < p.deadline - 2 * WindowSlots(p.required)
  /\ p.required # 0 /\ Forced(p) =>
       /\ p.mode = "charge"
       /\ \E from \in Int, until \in Int :
             t <= from /\ until <= p.deadline /\ p.power = Power(p.required, from, until)

\* A forced charge is not left to another rule.
ForcedRuns(e, p, c) == UsableNeed(p, e) /\ Forced(p) => c.power = p.power

\* The windows before the deadline of a plan, as long as what it requires.
Offered(t, p) == Windows(t, [at |-> p.deadline], CoreSlots(p.required))

\* The window of a plan is the best of those, and lies ahead while it waits.
Placed(t, p) ==
  /\ p.required \in Nat
  /\ p.required # 0 =>
       p.start = IF Offered(t, p) # {} THEN Start(Best(Offered(t, p), CoreSlots(p.required)))
                 ELSE t
  /\ p.mode = "wait" => p.required # 0 /\ Offered(t, p) # {} /\ t < p.start

PlanInv ==
  /\ PlanDay /\ tick < 2 * Slots /\ PlansSound /\ Placed(tick, plan)
  /\ plan # NoPlan => Sized(tick, stored, plan) /\ ForcedRuns(stored, plan, charge)

\* What a plan holds when it has been built.
LEMMA PlanIs ==
  ASSUME PlanDay, NEW t \in 0..(2 * Slots - 1), NEW e \in 0..Capacity,
         NEW P, P \subseteq 0..(Slots - 1), NEW p, p = BuildPlan(t, e, P)
  PROVE  /\ p.mode \in {"ready", "wait", "charge"} /\ p.power \in 0..Rate
         /\ p.mode = "wait" => p.required > 0
         /\ p.reason = Deadline(t, P).why /\ p.deadline = Deadline(t, P).at
         /\ p.coverage = CoverageEnd(Deadline(t, P), P)
         /\ Placed(t, p) /\ Sized(t, e, p)
<1> DEFINE d == Deadline(t, P)
           coverage == CoverageEnd(d, P)
<1>11. t \in Int /\ d.at \in Int /\ coverage \in Int
  <2>1. Deadline(t, P).at \in Nat
    BY DeadlineIs
  <2>2. CoverageEnd(Deadline(t, P), P) \in Nat
    BY CoverageIs
  <2>3. t \in Int
    OBVIOUS
  <2> QED BY <2>1, <2>2, <2>3
<1>1. PICK required \in Nat : /\ required = Required(t, e, d, coverage)
                             /\ required = Actionable(Wanted(t, d.at, coverage) - e, e)
  <2> HIDE DEF d, coverage
  <2> QED BY <1>11, RequiredIs
<1>2. PICK n \in Nat \ {0} : n = CoreSlots(required)
  BY CoreSlotsIs
<1> DEFINE windows == Windows(t, d, n)
           found == windows # {}
<1>3. PICK start \in Int : start = IF found THEN Start(Best(windows, n)) ELSE t
  <2>1. CASE found
    <3>1. Best(windows, n) \in Nat
      <4> HIDE DEF d
      <4> QED BY <2>1, BestIs
    <3>2. Start(Best(windows, n)) \in Int
      BY <3>1 DEF Start
    <3> QED BY <2>1, <3>2
  <2>2. CASE ~found
    <3>1. t \in Int
      OBVIOUS
    <3> QED BY <2>2, <3>1
  <2> QED BY <2>1, <2>2
<1>4. PICK end \in Int : end = start + 2 * n
  OBVIOUS
<1>5. PICK latest \in Int : latest = d.at - 2 * WindowSlots(required)
  <2>1. WindowSlots(required) \in Int
    BY CoreSlotsIs
  <2> QED BY <1>11, <2>1
<1> DEFINE mode == IF ~found \/ t >= latest \/ t >= start THEN "charge" ELSE "wait"
           why == CASE ~found -> "too_close" [] found /\ t >= latest -> "latest_start"
                    [] found /\ t < latest /\ t >= start -> "active" [] OTHER -> "wait"
           given == Power(required, MaxOf(t, start), MinOf(end, d.at))
<1>6. given \in 0..Rate
  <2> HIDE DEF d
  <2>1. PICK from \in Int : from = MaxOf(t, start)
    BY <1>11 DEF MaxOf
  <2>2. PICK until \in Int : until = MinOf(end, d.at)
    BY <1>11 DEF MinOf
  <2>3. required \in Int
    OBVIOUS
  <2>4. Power(required, from, until) \in 1..Rate
    BY <2>3, PowerIs
  <2> QED BY <2>1, <2>2, <2>4
<1>13. \E from \in Int, until \in Int :
         t <= from /\ until <= d.at /\ given = Power(required, from, until)
  <2> HIDE DEF d
  <2>1. PICK from \in Int : from = MaxOf(t, start) /\ t <= from
    BY <1>11 DEF MaxOf
  <2>2. PICK until \in Int : until = MinOf(end, d.at) /\ until <= d.at
    BY <1>11 DEF MinOf
  <2> QED BY <2>1, <2>2
<1>7. p = IF required = 0
          THEN [NoPlan EXCEPT !.mode = "ready", !.deadline = d.at, !.reason = d.why,
                              !.coverage = coverage]
          ELSE [mode |-> mode, why |-> why, deadline |-> d.at, reason |-> d.why,
                coverage |-> coverage, required |-> required, start |-> start,
                end |-> end, latest |-> latest, power |-> given]
  BY <1>1, <1>2, <1>3, <1>4, <1>5 DEF BuildPlan
<1>8. mode \in {"charge", "wait"} /\ (mode = "wait" => windows # {} /\ t < start)
  BY <1>11
<1>12. windows = Windows(t, [at |-> d.at], n)
  BY DEF Windows
<1>14. /\ why \in {"latest_start", "too_close"} => mode = "charge"
       /\ why \notin {"latest_start", "too_close"} => t < latest
  BY <1>11
<1>15. d.at \in Nat /\ coverage \in Int
  BY <1>11, DeadlineIs
<1> HIDE DEF d, coverage, mode, why, given
<1>9. CASE required = 0
  <2>1. Rate \in Nat
    BY PricePlanAssumption
  <2>2. /\ p.mode = "ready" /\ p.power = 0 /\ p.reason = d.why /\ p.deadline = d.at
        /\ p.coverage = coverage /\ p.required = 0
    BY <1>7, <1>9 DEF NoPlan
  <2>3. Placed(t, p)
    BY <2>2 DEF Placed
  <2>4. Sized(t, e, p)
    BY <1>1, <1>9, <1>15, <2>2 DEF Sized
  <2> QED BY <2>1, <2>2, <2>3, <2>4 DEF d, coverage
<1>10. CASE required # 0
  <2>1. /\ p.mode = mode /\ p.power = given /\ p.reason = d.why /\ p.deadline = d.at
        /\ p.coverage = coverage /\ p.required = required /\ p.start = start
        /\ p.why = why
    BY <1>7, <1>10
  <2>2. required > 0
    BY <1>10
  <2>3. Offered(t, p) = windows /\ CoreSlots(p.required) = n
    BY <1>2, <1>12, <2>1 DEF Offered
  <2> HIDE DEF windows
  <2>4. Placed(t, p)
    BY <1>3, <1>8, <1>10, <2>1, <2>3 DEF Placed
  <2>5. Sized(t, e, p)
    <3>1. p.required = Actionable(Wanted(t, p.deadline, p.coverage) - e, e)
      BY <1>1, <2>1
    <3>2. ~Forced(p) => t < p.deadline - 2 * WindowSlots(p.required)
      BY <1>5, <1>14, <2>1 DEF Forced
    <3>3. Forced(p) => p.mode = "charge"
      BY <1>14, <2>1 DEF Forced
    <3>4. \E from \in Int, until \in Int :
             t <= from /\ until <= p.deadline /\ p.power = Power(p.required, from, until)
      BY <1>13, <2>1
    <3> QED BY <1>15, <2>1, <3>1, <3>2, <3>3, <3>4 DEF Sized
  <2> QED BY <1>6, <1>8, <2>1, <2>2, <2>4, <2>5 DEF d, coverage
<1> QED BY <1>9, <1>10

-----------------------------------------------------------------------------
(* The decision of a cycle.                                                 *)

\* The rules that may charge, each under its own condition.
LEMMA CandidateIs ==
  ASSUME NEW t, NEW e, NEW p, NEW classic, NEW reserve,
         NEW c \in Candidates(t, e, p, classic, reserve)
  PROVE  /\ \/ /\ c.rule = "learned" /\ c.power = p.power /\ UsableNeed(p, e)
               /\ p.mode = "charge"
            \/ /\ c.rule = "classic" /\ c.power = Rate /\ classic
               /\ ~(UsableNeed(p, e) /\ p.mode = "wait")
            \/ /\ c.rule = "reserve" /\ c.power = Rate /\ reserve
               /\ ~(UsableNeed(p, e) /\ p.mode = "wait")
            \/ /\ c.rule = "valley" /\ c.power = ValleyPower /\ ValleyRule(t, e)
               /\ ~(UsableNeed(p, e) /\ p.mode = "wait")
            \/ c.rule = "discharge" /\ c.power = 0
         /\ c.priority \in 0..1000 /\ c.order \in 1..5
         /\ c.rule # "learned" => c.priority <= 650 /\ c.order > 1
<1> DEFINE Offer(rule, given, priority, order) ==
             [rule |-> rule, power |-> given, priority |-> priority, order |-> order]
<1>1. \/ /\ c = Offer("learned", p.power, LearnedPriority(p), 1)
         /\ UsableNeed(p, e) /\ p.mode = "charge"
      \/ /\ c = Offer("classic", Rate, ClassicPriority, 2)
         /\ classic /\ ~(UsableNeed(p, e) /\ p.mode = "wait")
      \/ /\ c = Offer("reserve", Rate, 610, 3)
         /\ reserve /\ ~(UsableNeed(p, e) /\ p.mode = "wait")
      \/ /\ c = Offer("valley", ValleyPower, 620, 4)
         /\ ValleyRule(t, e) /\ ~(UsableNeed(p, e) /\ p.mode = "wait")
      \/ c = Offer("discharge", 0, 430, 5)
  BY DEF Candidates
<1>2. LearnedPriority(p) \in {640, 650} /\ ClassicPriority \in {630, 650}
  BY DEF LearnedPriority, ClassicPriority
<1>3. /\ c.priority \in {LearnedPriority(p), ClassicPriority, 610, 620, 430}
      /\ c.order \in {1, 2, 3, 4, 5}
  BY <1>1
<1>4. c.priority \in 0..1000 /\ c.order \in 1..5
  BY <1>2, <1>3
<1>5. c.rule # "learned" =>
        c.priority \in {ClassicPriority, 610, 620, 430} /\ c.order \in {2, 3, 4, 5}
  BY <1>1
<1>6. c.rule # "learned" => c.priority <= 650 /\ c.order > 1
  BY <1>2, <1>5
<1> QED BY <1>1, <1>4, <1>6

\* Whoever decides is one of the candidates: there is a first of them.
LEMMA DecideIs ==
  ASSUME NEW C, C # {}, \A c \in C : c.priority \in 0..1000 /\ c.order \in 1..5
  PROVE  \E c \in C : /\ Decide(C) = [rule |-> c.rule, power |-> c.power]
                      /\ \A o \in C : \/ c.priority > o.priority
                                      \/ c.priority = o.priority /\ c.order <= o.order
<1> DEFINE Rank(c) == 10 * (1000 - c.priority) + c.order
           First(c) == \A o \in C : \/ c.priority > o.priority
                                    \/ c.priority = o.priority /\ c.order <= o.order
           N == {Rank(c) : c \in C}
<1>1. N \subseteq Nat /\ N # {}
  <2>1. ASSUME NEW c \in C PROVE Rank(c) \in Nat
    <3>1. PICK q \in 0..1000 : q = c.priority
      OBVIOUS
    <3>2. PICK o \in 1..5 : o = c.order
      OBVIOUS
    <3>3. 10 * (1000 - q) + o \in Nat
      OBVIOUS
    <3> QED BY <3>1, <3>2, <3>3
  <2>2. PICK c \in C : TRUE
    OBVIOUS
  <2> QED BY <2>1, <2>2
<1>2. PICK k \in N : \A m \in N : k <= m
  BY <1>1, LeastNumber
<1>3. PICK c \in C : Rank(c) = k
  OBVIOUS
<1>4. ASSUME NEW o \in C
      PROVE  c.priority > o.priority \/ (c.priority = o.priority /\ c.order <= o.order)
  <2>1. Rank(c) <= Rank(o)
    BY <1>2, <1>3
  <2>2. PICK cp \in 0..1000 : cp = c.priority
    OBVIOUS
  <2>6. PICK op \in 0..1000 : op = o.priority
    OBVIOUS
  <2>3. PICK co \in 1..5 : co = c.order
    OBVIOUS
  <2>7. PICK oo \in 1..5 : oo = o.order
    OBVIOUS
  <2>4. 10 * (1000 - cp) + co <= 10 * (1000 - op) + oo
    BY <2>1, <2>2, <2>3, <2>6, <2>7
  <2>5. cp > op \/ (cp = op /\ co <= oo)
    BY <2>4
  <2> QED BY <2>2, <2>3, <2>5, <2>6, <2>7
<1>5. PICK f \in C : f = (CHOOSE x \in C : First(x)) /\ First(f)
  BY <1>4
<1>6. Decide(C) = [rule |-> f.rule, power |-> f.power]
  BY <1>5 DEF Decide
<1> QED BY <1>5, <1>6

\* The charge that is decided comes from a rule that allows it.
LEMMA ChargeIs ==
  ASSUME NEW t, NEW e, NEW p, NEW classic, NEW reserve, p.power \in 0..Rate,
         NEW d, d = Decide(Candidates(t, e, p, classic, reserve))
  PROVE  /\ d \in [rule : {"none", "learned", "classic", "reserve", "valley", "discharge"},
                   power : 0..Rate]
         /\ UsableNeed(p, e) /\ p.mode = "wait" => d.power = 0
         /\ d.rule = "classic" => classic
         /\ d.rule = "reserve" => reserve
         /\ d.rule = "valley" => ValleyRule(t, e)
         /\ p.mode = "charge" => ForcedRuns(e, p, d)
<1> DEFINE C == Candidates(t, e, p, classic, reserve)
           Rules == {"none", "learned", "classic", "reserve", "valley", "discharge"}
<1>1. Rate \in Nat
  BY PricePlanAssumption
<1>2. CASE C = {}
  <2>1. d = [rule |-> "none", power |-> 0]
    BY <1>2 DEF Decide, NoCharge
  <2>2. 0 \in 0..Rate
    BY <1>1
  <2>3. ASSUME UsableNeed(p, e), p.mode = "charge", Forced(p)
        PROVE  FALSE
    <3>1. [rule |-> "learned", power |-> p.power, priority |-> LearnedPriority(p), order |-> 1] \in C
      BY <2>3 DEF Candidates
    <3> QED BY <1>2, <3>1
  <2> QED BY <2>1, <2>2, <2>3 DEF ForcedRuns
<1>3. CASE C # {}
  <2>1. \A c \in C : c.priority \in 0..1000 /\ c.order \in 1..5
    BY CandidateIs
  <2> HIDE DEF C
  <2>2. PICK c \in C : /\ Decide(C) = [rule |-> c.rule, power |-> c.power]
                       /\ \A o \in C : \/ c.priority > o.priority
                                       \/ c.priority = o.priority /\ c.order <= o.order
    BY <1>3, <2>1, DecideIs
  <2>3. d.rule = c.rule /\ d.power = c.power /\ d = [rule |-> c.rule, power |-> c.power]
    BY <2>2 DEF C
  <2>4. ValleyPower \in 0..Rate /\ 0 \in 0..Rate /\ Rate \in 0..Rate
    BY <1>1 DEF ValleyPower
  <2>5. c.rule \in Rules /\ c.power \in {p.power, Rate, ValleyPower, 0}
    BY CandidateIs DEF C
  <2>6. c.power \in 0..Rate
    BY <2>4, <2>5
  <2>7. d \in [rule : Rules, power : 0..Rate]
    BY <2>3, <2>5, <2>6
  <2>8. UsableNeed(p, e) /\ p.mode = "wait" => c.power = 0
    BY CandidateIs DEF C
  <2>9. (c.rule = "classic" => classic) /\ (c.rule = "reserve" => reserve)
    BY CandidateIs DEF C
  <2>10. c.rule = "valley" => ValleyRule(t, e)
    BY CandidateIs DEF C
  <2>11. ASSUME p.mode = "charge", UsableNeed(p, e), Forced(p) PROVE c.power = p.power
    <3> DEFINE l == [rule |-> "learned", power |-> p.power, priority |-> 650, order |-> 1]
    <3>1. l \in C
      BY <2>11 DEF C, Candidates, LearnedPriority
    <3>2. c.priority > 650 \/ (c.priority = 650 /\ c.order <= 1)
      <4>1. l.priority = 650 /\ l.order = 1
        OBVIOUS
      <4> HIDE DEF l
      <4> QED BY <2>2, <3>1, <4>1
    <3>3. /\ c.priority \in 0..1000 /\ c.order \in 1..5
          /\ c.rule # "learned" => c.priority <= 650 /\ c.order > 1
      BY CandidateIs DEF C
    <3>4. c.rule = "learned"
      <4>1. PICK cp \in 0..1000 : cp = c.priority
        BY <3>3
      <4>2. PICK co \in 1..5 : co = c.order
        BY <3>3
      <4>3. ~(cp <= 650 /\ co > 1)
        BY <3>2, <4>1, <4>2
      <4> QED BY <3>3, <4>1, <4>2, <4>3
    <3> QED BY <3>4, CandidateIs DEF C
  <2> QED BY <2>3, <2>7, <2>8, <2>9, <2>10, <2>11 DEF ForcedRuns
<1> QED BY <1>2, <1>3

-----------------------------------------------------------------------------
(* Charges that nothing forces.                                             *)

\* The price of the slot that runs, scaled by the number of slots.
LEMMA ScaledIs ==
  ASSUME PlanDay, NEW t \in 0..(2 * Slots - 1)
  PROVE  /\ Cardinality(Remaining(t)) * prices[Slot(t)] \in Nat
         /\ Scaled(prices[Slot(t)], Remaining(t))
              = 100 * (Cardinality(Remaining(t)) * prices[Slot(t)])
<1>1. PICK n \in Nat : n = Cardinality(Remaining(t))
  BY RemainingIs
<1>2. PICK x \in Nat : x = prices[Slot(t)]
  BY RemainingIs, TotalIs
<1>3. n * x \in Nat /\ 100 * n * x = 100 * (n * x)
  BY TimesNat
<1> QED BY <1>1, <1>2, <1>3 DEF Scaled

\* A slot that is a valley on a discount and costs something is no peak, and
\* does not pay for a discharge.
LEMMA ValleyIsCheap ==
  ASSUME PlanDay, NEW t \in 0..(2 * Slots - 1), ValleyPct < 100, prices[Slot(t)] > 0,
         Scaled(prices[Slot(t)], Remaining(t)) <= ValleyThreshold(Remaining(t))
  PROVE  Slot(t) \notin Peaks(t) /\ ~DischargePrice(t)
<1> DEFINE S == Remaining(t)
<1>1. PICK T \in Nat : T = Total(S)
  BY TotalIs
<1>2. PICK n \in Nat \ {0} : n = Cardinality(S)
  BY RemainingIs
<1>3. PICK price \in Nat : price = prices[Slot(t)] /\ price > 0 /\ price <= T
  BY <1>1, RemainingIs, TotalIs
<1>4. PICK x \in Nat : x = n * price
  BY TimesNat
<1>5. Scaled(prices[Slot(t)], S) = 100 * x
  BY <1>2, <1>3, <1>4, ScaledIs
<1>6. 100 * x <= 99 * T
  <2>1. ValleyPct \in Nat /\ ValleyPct <= 99
    BY PricePlanAssumption
  <2>2. ValleyPct * T <= 99 * T /\ ValleyPct * T \in Nat
    BY <2>1, TimesMore, TimesNat
  <2>3. 100 * x <= ValleyPct * T
    BY <1>1, <1>5 DEF ValleyThreshold
  <2> QED BY <2>2, <2>3
<1>7. PICK peak \in Int : peak = PeakThreshold(S) /\ peak >= 100 * T
  BY <1>1, PeakThresholdIs
<1>8. x < T
  BY <1>3, <1>6
<1>9. Slot(t) \notin Peaks(t)
  <2>1. ~(100 * x >= peak)
    BY <1>7, <1>8
  <2>2. ~(Scaled(prices[Slot(t)], S) >= PeakThreshold(S))
    BY <1>5, <1>7, <2>1
  <2> QED BY <2>2 DEF Peaks
<1>10. n > 1
  <2> SUFFICES ASSUME n = 1 PROVE FALSE
    BY <1>2
  <2>1. S = {Slot(t)}
    BY <1>2, RemainingIs
  <2>2. T = price
    BY <1>1, <1>3, <2>1, TotalIs
  <2>3. x = price
    BY <1>4
  <2> QED BY <1>8, <2>2, <2>3
<1>11. ~DischargePrice(t)
  <2>1. ~(n * price > T)
    BY <1>4, <1>8
  <2>2. Cardinality(S) > 1 /\ ~(Cardinality(S) * prices[Slot(t)] > Total(S))
    BY <1>1, <1>2, <1>3, <1>10, <2>1
  <2> QED BY <2>2 DEF DischargePrice
<1> QED BY <1>9, <1>11

\* A reserve charge does not buy in a peak or at a price for a discharge.
LEMMA ReserveIsCheap ==
  ASSUME PlanDay, NEW t \in 0..(2 * Slots - 1), NEW e, NEW why,
         ReserveRule(t, e, why, Peaks(t))
  PROVE  Slot(t) \notin Peaks(t) /\ ~DischargePrice(t)
<1>1. /\ prices[Slot(t)] < VeryExpensive /\ Slot(t) \notin Peaks(t)
      /\ 100 * Scaled(prices[Slot(t)], Remaining(t)) < DischargeThreshold(Remaining(t))
  BY DEF ReserveRule, ReserveWindow
<1>2. PICK scaled \in Int : scaled = 100 * Scaled(prices[Slot(t)], Remaining(t))
  BY ScaledIs
<1>3. PICK limit \in Int : limit = DischargeThreshold(Remaining(t))
  BY DischargeThresholdIs
<1>4. PICK price \in Int : price = prices[Slot(t)]
  BY RemainingIs, TotalIs
<1>5. ~(scaled >= limit)
  BY <1>1, <1>2, <1>3
<1>6. ~(price >= VeryExpensive)
  BY <1>1, <1>4, PricePlanAssumption
<1> QED BY <1>1, <1>2, <1>3, <1>4, <1>5, <1>6 DEF DischargePrice

\* Fewer slots hold no more energy.
LEMMA SumsOfUsable ==
  ASSUME NEW t \in 0..(2 * Slots - 1), NEW E, E \subseteq Remaining(t), NEW D, D \subseteq E
  PROVE  Sum(D, t) \in Int /\ Sum(E, t) \in Int /\ Sum(D, t) <= Sum(E, t)
<1>1. ASSUME NEW s \in Remaining(t) PROVE Usable(s, t) \in Nat
  <2>1. s \in Nat /\ t \in Nat /\ End(s) > t
    BY <1>1 DEF Remaining
  <2>2. End(s) - MaxOf(t, Start(s)) \in Nat
    BY <2>1 DEF End, Start, MaxOf
  <2>3. Rate \in Nat
    BY PricePlanAssumption
  <2> QED BY <2>2, <2>3, TimesNat DEF Usable
<1>2. IsFiniteSet(E) /\ IsFiniteSet(D)
  BY RemainingIs, FS_Subset
<1> DEFINE f == [s \in E |-> Usable(s, t)]
           h == [s \in D |-> Usable(s, t)]
<1>3. f \in [E -> Int] /\ h \in [D -> Int]
  BY <1>1
<1>4. (\A s \in D : h[s] <= f[s]) /\ (\A s \in E \ D : 0 <= f[s])
  BY <1>1
<1>5. Sum(E, t) = SumFunction(f) /\ Sum(D, t) = SumFunction(h)
  BY DEF Sum
<1> HIDE DEF f, h
<1>6. SumFunction(h) <= SumFunction(f)
  BY <1>2, <1>3, <1>4, SumMonotone
<1>7. SumFunction(h) \in Int /\ SumFunction(f) \in Int
  BY <1>2, <1>3, SumType
<1> QED BY <1>5, <1>6, <1>7

\* No slots hold no energy.
LEMMA SumOfNothing == ASSUME NEW t PROVE Sum({}, t) = 0
<1> DEFINE f == [s \in {} |-> Usable(s, t)]
<1>1. IsFiniteSet({}) /\ f \in [{} -> Int] /\ \A x \in {} : f[x] = 0
  BY FS_EmptySet
<1>2. Sum({}, t) = SumFunction(f)
  BY DEF Sum
<1> HIDE DEF f
<1>3. SumFunction(f) = 0
  BY <1>1, SumZero
<1> QED BY <1>2, <1>3

\* The slots needed to cover a gap include the cheapest one, and whoever is
\* dearer than all slots before it is not among them.
LEMMA ComfortWaits ==
  ASSUME PlanDay, NEW t \in 0..(2 * Slots - 1), NEW C, C \subseteq Remaining(t),
         NEW gap \in Int, gap > 0, Comfortable(C, t, gap)
  PROVE  Sum({s \in C : prices[s] < prices[Slot(t)]}, t) < gap
<1> DEFINE Sooner(s) == {o \in C : \/ prices[o] < prices[s]
                                   \/ prices[o] = prices[s] /\ o < s}
           K == Covering(C, t, gap)
           cheaper == {s \in C : prices[s] < prices[Slot(t)]}
<1>1. \A s \in C : s \in Nat /\ prices[s] \in Nat /\ prices[s] <= Total(Remaining(t))
  BY RemainingIs, TotalIs
<1>2. Sum(C, t) >= gap /\ prices[Slot(t)] <= Max({prices[s] : s \in K})
  BY DEF Comfortable
<1>3. C # {}
  BY <1>2, SumOfNothing
<1>4. K # {}
  <2>1. {prices[s] : s \in C} \subseteq Nat /\ {prices[s] : s \in C} # {}
    BY <1>1, <1>3
  <2>2. PICK x \in {prices[s] : s \in C} : \A y \in {prices[s] : s \in C} : x <= y
    BY <2>1, LeastNumber
  <2> DEFINE L == {s \in C : prices[s] = x}
  <2>3. L \subseteq Nat /\ L # {}
    BY <1>1
  <2>4. PICK f \in L : \A o \in L : f <= o
    BY <2>3, LeastNumber
  <2>5. ASSUME NEW o \in C PROVE o \notin Sooner(f)
    <3>1. PICK po \in Nat : po = prices[o] /\ x <= po /\ x \in Nat /\ o \in Nat /\ f \in Nat
      BY <1>1, <2>2, <2>4
    <3>2. po = x => f <= o
      BY <2>4, <3>1
    <3>3. prices[f] = x
      BY <2>4
    <3>4. ~(po < x) /\ ~(po = x /\ o < f)
      BY <3>1, <3>2
    <3> QED BY <3>1, <3>3, <3>4
  <2>6. Sooner(f) = {}
    BY <2>5
  <2>7. Sum(Sooner(f), t) < gap
    BY <2>6, SumOfNothing
  <2> QED BY <2>4, <2>7 DEF Covering
<1>5. K \subseteq C /\ \A s \in K : Sum(Sooner(s), t) < gap
  BY DEF Covering
<1>6. Max({prices[s] : s \in K}) \in {prices[s] : s \in K}
  <2> DEFINE U == {prices[s] : s \in K}
  <2>1. U \subseteq Nat /\ U # {} /\ \A x \in U : x <= Total(Remaining(t))
    BY <1>1, <1>4, <1>5
  <2>2. Total(Remaining(t)) \in Nat
    BY TotalIs
  <2> HIDE DEF U
  <2>3. Max(U) \in U
    BY <2>1, <2>2, MaxBounded
  <2> QED BY <2>3 DEF U
<1>7. PICK s \in K : prices[Slot(t)] <= prices[s]
  BY <1>2, <1>6
<1>8. cheaper \subseteq Sooner(s)
  <2>1. \A o \in C : prices[o] \in Nat
    BY <1>1
  <2>2. prices[s] \in Nat /\ prices[Slot(t)] \in Nat
    BY <1>1, <1>5, RemainingIs, TotalIs
  <2> QED BY <1>7, <2>1, <2>2
<1>9. Sooner(s) \subseteq Remaining(t)
  OBVIOUS
<1> HIDE DEF Sooner, cheaper
<1>10. /\ Sum(cheaper, t) <= Sum(Sooner(s), t)
       /\ Sum(cheaper, t) \in Int /\ Sum(Sooner(s), t) \in Int
  BY <1>8, <1>9, SumsOfUsable
<1>11. Sum(cheaper, t) < gap
  BY <1>5, <1>10
<1> QED BY <1>11 DEF cheaper

\* A reserve charge buys only what cheaper slots cannot hold, or in a hurry.
LEMMA ReserveWaits ==
  ASSUME PlanDay, NEW t \in 0..(2 * Slots - 1), NEW e \in 0..Capacity, NEW why, NEW P,
         ReserveRule(t, e, why, P), NEW Q, Q = ReservePeaks(t, P),
         NEW gap, gap = ReserveTarget(why) - e
  PROVE  \/ Urgent(t, gap, Min(Ahead(t, Q)), Expected(Q))
         \/ Sum({s \in Before(t, Q) : prices[s] < prices[Slot(t)]}, t) < gap
<1>1. gap \in Int
  <2>1. Capacity \in Int /\ (65 * Capacity) \div 100 \in Int
    BY PricePlanAssumption
  <2>2. ReserveTarget(why) \in Int
    BY <2>1 DEF ReserveTarget
  <2> QED BY <2>1, <2>2
<1>2. ReserveWindow(t, gap, P, Q)
  BY DEF ReserveRule
<1>3. Before(t, Q) \subseteq Remaining(t)
  BY DEF Before
<1> DEFINE C == Before(t, Q)
<1>4. gap > 0 /\ (Comfortable(C, t, gap) \/ Urgent(t, gap, Min(Ahead(t, Q)), Expected(Q)))
  BY <1>2 DEF ReserveWindow
<1> HIDE DEF C
<1>5. CASE Comfortable(C, t, gap)
  <2>1. C \subseteq Remaining(t)
    BY <1>3 DEF C
  <2>2. Sum({s \in C : prices[s] < prices[Slot(t)]}, t) < gap
    BY <1>1, <1>4, <1>5, <2>1, ComfortWaits
  <2> QED BY <2>2 DEF C
<1> QED BY <1>4, <1>5

-----------------------------------------------------------------------------
(* A cycle decides on the prices of the day, which stay as they are.        *)

\* Peaks and prices for a discharge depend on the prices alone.
LEMMA DayStays ==
  ASSUME prices' = prices, NEW t
  PROVE  /\ Peaks(t)' = Peaks(t)
         /\ DischargePrice(t)' <=> DischargePrice(t)
<1>1. ASSUME NEW S
      PROVE  /\ Total(S)' = Total(S) /\ Span(S)' = Span(S)
             /\ PeakThreshold(S)' = PeakThreshold(S)
             /\ DischargeThreshold(S)' = DischargeThreshold(S)
  <2>1. Total(S)' = Total(S)
    BY DEF Total
  <2>2. Span(S)' = Span(S)
    BY DEF Span
  <2>3. PeakThreshold(S)' = PeakThreshold(S)
    BY <2>1, <2>2 DEF PeakThreshold
  <2>4. ValleyThreshold(S)' = ValleyThreshold(S)
    BY <2>1 DEF ValleyThreshold
  <2>5. DischargeThreshold(S)' = DischargeThreshold(S)
    BY <2>3, <2>4 DEF DischargeThreshold
  <2> QED BY <2>1, <2>2, <2>3, <2>5
<1>2. Peaks(t)' = Peaks(t)
  BY <1>1 DEF Peaks, Scaled
<1>3. DischargePrice(t)' <=> DischargePrice(t)
  BY <1>1 DEF DischargePrice, Scaled
<1> QED BY <1>2, <1>3

\* So do the outlook on a peak and the hurry before it.
LEMMA OutlookStays ==
  ASSUME prices' = prices, NEW t, NEW Q, NEW gap, NEW next, NEW P, NEW x
  PROVE  /\ Expected(Q)' = Expected(Q) /\ ReservePeaks(t, P)' = ReservePeaks(t, P)
         /\ Urgent(t, gap, next, x)' <=> Urgent(t, gap, next, x)
<1>1. Expected(Q)' = Expected(Q)
  BY DEF Expected
<1>2. ReservePeaks(t, P)' = ReservePeaks(t, P)
  BY DEF ReservePeaks
<1>3. Urgent(t, gap, next, x)' <=> Urgent(t, gap, next, x)
  BY DEF Urgent
<1> QED BY <1>1, <1>2, <1>3

\* And so does the place of a window.
LEMMA PlacedStays ==
  ASSUME prices' = prices, NEW t, NEW p
  PROVE  Placed(t, p)' <=> Placed(t, p)
<1>1. ASSUME NEW s, NEW n PROVE Score(s, n)' = Score(s, n)
  BY DEF Score
<1>2. ASSUME NEW W, NEW n PROVE Best(W, n)' = Best(W, n)
  <2>1. Cheapest(W, n)' = Cheapest(W, n)
    BY <1>1 DEF Cheapest
  <2> QED BY <2>1 DEF Best
<1>3. Offered(t, p)' = Offered(t, p)
  BY DEF Offered, Windows
<1> QED BY <1>2, <1>3 DEF Placed

\* The need does not change as long as the load and the outlook are the same.
LEMMA SizedStays ==
  ASSUME load' = load, forecast' = forecast, ready' = ready, NEW t, NEW e, NEW p, NEW c
  PROVE  /\ Sized(t, e, p)' <=> Sized(t, e, p)
         /\ ForcedRuns(e, p, c)' <=> ForcedRuns(e, p, c)
<1>1. ASSUME NEW at, NEW until PROVE Wanted(t, at, until)' = Wanted(t, at, until)
  <2>1. ASSUME NEW x PROVE Adjustment(x)' = Adjustment(x)
    BY DEF Adjustment
  <2>2. ASSUME NEW x PROVE Credit(x)' = Credit(x)
    BY DEF Credit
  <2>3. Consumption(t, until)' = Consumption(t, until)
    BY DEF Consumption
  <2> QED BY <2>1, <2>2, <2>3 DEF Wanted
<1>2. Sized(t, e, p)' <=> Sized(t, e, p)
  BY <1>1 DEF Sized
<1>3. ForcedRuns(e, p, c)' <=> ForcedRuns(e, p, c)
  BY DEF ForcedRuns, UsableNeed
<1> QED BY <1>2, <1>3

\* Whatever the time and the energy, a cycle leaves sound plans.
LEMMA CycleSound ==
  ASSUME PlanDay, NEW t \in 0..(2 * Slots - 1), NEW e \in 0..Capacity,
         tick' = t, stored' = e, PlanCycle(t, e), UNCHANGED dayVars
  PROVE  /\ PlansSound' /\ Placed(tick, plan)'
         /\ Sized(tick, stored, plan)' /\ ForcedRuns(stored, plan, charge)'
<1> DEFINE why == ReservePermission(e)
           P == Peaks(t)
           p == BuildPlan(t, e, P)
<1>1. prices' = prices /\ forecast' = forecast /\ ready' = ready /\ tick' = t /\ stored' = e
  BY DEF dayVars
<1>2. /\ allowed' = (why # "none") /\ plan' = p
      /\ charge' = Decide(Candidates(t, e, p, ClassicRule(t, e, P), ReserveRule(t, e, why, P)))
  BY DEF PlanCycle
<1>3. P \subseteq 0..(Slots - 1)
  BY RemainingIs DEF Peaks
<1>4. /\ plan'.mode \in {"ready", "wait", "charge"} /\ plan'.power \in 0..Rate
      /\ plan'.mode = "wait" => plan'.required > 0
      /\ plan'.reason = Deadline(t, P).why /\ plan'.deadline = Deadline(t, P).at
      /\ plan'.coverage = CoverageEnd(Deadline(t, P), P)
      /\ Placed(t, p) /\ Sized(t, e, p)
  <2> HIDE DEF P
  <2> QED BY <1>2, <1>3, PlanIs
<1>5. /\ charge' \in [rule : {"none", "learned", "classic", "reserve", "valley", "discharge"},
                      power : 0..Rate]
      /\ UsableNeed(p, e) /\ p.mode = "wait" => charge'.power = 0
      /\ charge'.rule = "classic" => ClassicRule(t, e, P)
      /\ charge'.rule = "reserve" => ReserveRule(t, e, why, P)
      /\ charge'.rule = "valley" => ValleyRule(t, e)
      /\ p.mode = "charge" => ForcedRuns(e, p, charge')
  <2> HIDE DEF P, p, why
  <2>1. p.power \in 0..Rate
    BY <1>2, <1>4
  <2> QED BY <1>2, <2>1, ChargeIs
<1>6. Peaks(t)' = P /\ (DischargePrice(t)' <=> DischargePrice(t))
  BY <1>1, DayStays
<1> HIDE DEF P, p, why
<1>7. PlanTypeOK'
  <2>1. prices' \in [0..(Slots - 1) -> SlotPrices] /\ tick' \in 0..(2 * Slots)
    <3>1. Slots \in Nat
      BY PricePlanAssumption
    <3>2. t \in 0..(2 * Slots)
      BY <3>1
    <3> QED BY <1>1, <3>2 DEF PlanDay
  <2>2. stored' \in 0..Capacity /\ allowed' \in BOOLEAN
    BY <1>1, <1>2
  <2> QED BY <1>4, <1>5, <2>1, <2>2 DEF PlanTypeOK
<1>8. DeadlineBehindActivePeak'
  <2> SUFFICES ASSUME plan'.reason = "peak"
               PROVE  /\ plan'.deadline > t /\ plan'.coverage > plan'.deadline
                      /\ Slot(plan'.deadline) \in P
                      /\ \E s \in Slot(t)..(Slot(plan'.deadline) - 1) : s \notin P
    BY <1>1, <1>6 DEF DeadlineBehindActivePeak
  <2>1. Deadline(t, P).why = "peak"
    BY <1>4
  <2>2. PICK m \in P : /\ Deadline(t, P).at = Start(m)
                       /\ \E o \in Slot(t)..(m - 1) : o \notin P
    BY <1>3, <2>1, DeadlineIs
  <2>3. plan'.deadline > t /\ plan'.deadline = Start(m)
    BY <1>3, <1>4, <2>2, DeadlineIs
  <2>4. plan'.coverage > plan'.deadline
    BY <1>3, <1>4, <2>1, CoverageIs
  <2>5. Slot(Start(m)) = m
    BY <1>3, <2>2 DEF Slot, Start
  <2> QED BY <2>2, <2>3, <2>4, <2>5
<1>9. ReservePatient'
  <2> DEFINE Q == ReservePeaks(t, P)
             gap == ReserveTarget(why) - e
  <2> SUFFICES ASSUME charge'.rule = "reserve" PROVE ReservePatient'
    BY DEF ReservePatient
  <2>1. ReserveRule(t, e, why, P) /\ why # "none"
    BY <1>5 DEF ReserveRule
  <2>2. ReservePermission(e)' = why
    <3>1. allowed' = TRUE
      BY <1>2, <2>1
    <3>2. WeakPvReserve(e) => WeakPvReserve(e)'
      <4>1. ReserveWeight(e) \in Int
        BY PricePlanAssumption DEF ReserveWeight
      <4> QED BY <3>1, <4>1 DEF WeakPvReserve
    <3> QED BY <1>1, <2>1, <3>2 DEF ReservePermission, why
  <2>3. \/ Urgent(t, gap, Min(Ahead(t, Q)), Expected(Q))
        \/ Sum({s \in Before(t, Q) : prices[s] < prices[Slot(t)]}, t) < gap
    BY <2>1, ReserveWaits
  <2>4. ReservePeaks(t, P)' = Q
    BY <1>1, <1>6 DEF ReservePeaks, P
  <2> QED BY <1>1, <1>6, <2>2, <2>3, <2>4, OutlookStays DEF ReservePatient
<1>10. WaitHolds'
  <2>1. ASSUME ready', plan'.mode = "wait", stored' < Capacity - NearMax
        PROVE  charge'.power = 0
    <3>1. UsableNeed(p, e) /\ p.mode = "wait"
      BY <1>1, <1>2, <1>4, <2>1 DEF UsableNeed
    <3> QED BY <1>5, <3>1
  <2>2. ASSUME \/ charge'.rule = "reserve"
               \/ charge'.rule \in Optional /\ ValleyPct < 100 /\ prices'[Slot(tick')] > 0
        PROVE  Slot(t) \notin P /\ ~DischargePrice(t)
    <3>1. CASE charge'.rule = "reserve"
      BY <1>5, <3>1, ReserveIsCheap DEF P
    <3>2. CASE charge'.rule \in {"classic", "valley"}
      <4>1. ValleyPct < 100 /\ prices[Slot(t)] > 0
        BY <1>1, <2>2, <3>2
      <4>2. Scaled(prices[Slot(t)], Remaining(t)) <= ValleyThreshold(Remaining(t))
        BY <1>5, <3>2 DEF ClassicRule, ValleyRule
      <4> QED BY <4>1, <4>2, ValleyIsCheap DEF P
    <3> QED BY <2>2, <3>1, <3>2 DEF Optional
  <2> QED BY <1>1, <1>6, <2>1, <2>2 DEF WaitHolds
<1>11. Placed(tick, plan)'
  <2>1. PICK q : q = p
    OBVIOUS
  <2>2. Placed(t, q)'
    BY <1>1, <1>4, <2>1, PlacedStays
  <2> QED BY <1>1, <1>2, <2>1, <2>2
<1>12. Sized(tick, stored, plan)' /\ ForcedRuns(stored, plan, charge)'
  <2>1. PICK q : q = p
    OBVIOUS
  <2>2. PICK c : c = charge'
    OBVIOUS
  <2>3. Sized(t, e, q) /\ (q.mode = "charge" => ForcedRuns(e, q, c))
    BY <1>4, <1>5, <2>1, <2>2
  <2>4. ForcedRuns(e, q, c)
    BY <2>3 DEF ForcedRuns, UsableNeed, Sized
  <2>5. Sized(t, e, q)' /\ ForcedRuns(e, q, c)'
    BY <2>3, <2>4, SizedStays DEF dayVars
  <2> QED BY <1>1, <1>2, <2>1, <2>2, <2>5
<1> QED BY <1>7, <1>8, <1>9, <1>10, <1>11, <1>12 DEF PlansSound

\* Every step of the day keeps the invariant.
LEMMA PlanInvStep == PlanInv /\ [PlanNext]_planVars => PlanInv'
<1> SUFFICES ASSUME PlanInv, [PlanNext]_planVars PROVE PlanInv'
  OBVIOUS
<1>1. CASE UNCHANGED planVars
  <2>1. PlanDay' /\ tick' < 2 * Slots
    BY <1>1 DEF PlanInv, PlanDay, planVars
  <2>2. /\ prices' = prices /\ forecast' = forecast /\ ready' = ready /\ tick' = tick
        /\ stored' = stored /\ allowed' = allowed /\ plan' = plan /\ charge' = charge
    BY <1>1 DEF planVars
  <2>3. Peaks(tick)' = Peaks(tick) /\ (DischargePrice(tick)' <=> DischargePrice(tick))
    BY <2>2, DayStays
  <2>4. PlanTypeOK'
    BY <2>2 DEF PlanInv, PlansSound, PlanTypeOK
  <2>5. DeadlineBehindActivePeak'
    BY <2>2, <2>3 DEF PlanInv, PlansSound, DeadlineBehindActivePeak
  <2>6. ReservePatient'
    <3>1. ReservePermission(stored)' = ReservePermission(stored)
      BY <2>2 DEF ReservePermission, WeakPvReserve
    <3>2. ReservePeaks(tick, Peaks(tick))' = ReservePeaks(tick, Peaks(tick))
      BY <2>2, <2>3 DEF ReservePeaks
    <3> QED BY <2>2, <3>1, <3>2, OutlookStays DEF PlanInv, PlansSound, ReservePatient
  <2>7. WaitHolds'
    BY <2>2, <2>3 DEF PlanInv, PlansSound, WaitHolds
  <2>8. PlansSound'
    BY <2>4, <2>5, <2>6, <2>7 DEF PlansSound
  <2>9. Placed(tick, plan)'
    <3>1. PICK t : t = tick
      OBVIOUS
    <3>2. PICK p : p = plan
      OBVIOUS
    <3>3. Placed(t, p)
      BY <3>1, <3>2 DEF PlanInv
    <3>4. Placed(t, p)'
      BY <2>2, <3>3, PlacedStays
    <3> QED BY <2>2, <3>1, <3>2, <3>4
  <2>10. plan' # NoPlan => Sized(tick, stored, plan)' /\ ForcedRuns(stored, plan, charge)'
    <3> SUFFICES ASSUME plan # NoPlan
                 PROVE  Sized(tick, stored, plan)' /\ ForcedRuns(stored, plan, charge)'
      BY <2>2
    <3>1. PICK t : t = tick
      OBVIOUS
    <3>2. PICK e : e = stored
      OBVIOUS
    <3>3. PICK p : p = plan
      OBVIOUS
    <3>4. PICK c : c = charge
      OBVIOUS
    <3>5. Sized(t, e, p) /\ ForcedRuns(e, p, c)
      BY <3>1, <3>2, <3>3, <3>4 DEF PlanInv
    <3>6. load' = load
      BY <1>1 DEF planVars
    <3>7. Sized(t, e, p)' /\ ForcedRuns(e, p, c)'
      BY <2>2, <3>5, <3>6, SizedStays
    <3> QED BY <2>2, <3>1, <3>2, <3>3, <3>4, <3>7
  <2> QED BY <2>1, <2>8, <2>9, <2>10 DEF PlanInv
<1>2. CASE PlanNext
  <2>1. /\ tick \in 0..(2 * Slots - 1) /\ stored \in 0..Capacity /\ charge.power \in 0..Rate
        /\ PlanDay /\ Slots \in Nat /\ Capacity \in Nat /\ Rate \in Nat
    <3>1. tick \in 0..(2 * Slots) /\ tick < 2 * Slots
      BY DEF PlanInv, PlansSound, PlanTypeOK
    <3>2. Slots \in Nat /\ Capacity \in Nat /\ Rate \in Nat
      BY PricePlanAssumption
    <3>3. tick \in 0..(2 * Slots - 1)
      BY <3>1, <3>2
    <3>4. stored \in 0..Capacity /\ charge.power \in 0..Rate /\ PlanDay
      BY DEF PlanInv, PlansSound, PlanTypeOK
    <3> QED BY <3>2, <3>3, <3>4
  <2>2. tick' \in 0..(2 * Slots - 1)
    BY <1>2, <2>1 DEF PlanNext, Begin, Charge, DischargeOrIdle
  <2>3. stored' \in 0..Capacity
    <3>1. CASE Begin
      BY <2>1, <3>1 DEF Begin
    <3>2. CASE Charge
      <4>1. stored' = MinOf(Capacity, stored + charge.power)
        BY <3>2 DEF Charge
      <4>2. PICK given \in 0..Rate : given = charge.power
        BY <2>1
      <4> QED BY <2>1, <4>1, <4>2 DEF MinOf
    <3>3. CASE DischargeOrIdle
      <4>1. PICK covered \in BOOLEAN, pv \in {0, 1} :
              stored' = MinOf(Capacity, MaxOf(0, stored - (IF covered THEN load ELSE 0) + pv))
        BY <3>3 DEF DischargeOrIdle
      <4>2. PICK used \in Nat : used = IF covered THEN load ELSE 0
        BY <2>1 DEF PlanDay
      <4>3. stored' = MinOf(Capacity, MaxOf(0, stored - used + pv))
        BY <4>1, <4>2
      <4> QED BY <2>1, <4>3 DEF MinOf, MaxOf
    <3> QED BY <1>2, <3>1, <3>2, <3>3 DEF PlanNext
  <2>4. PlanCycle(tick', stored') /\ UNCHANGED dayVars
    BY <1>2 DEF PlanNext
  <2>5. PICK t \in 0..(2 * Slots - 1) : t = tick'
    BY <2>2
  <2>6. PICK e \in 0..Capacity : e = stored'
    BY <2>3
  <2>7. PlanCycle(t, e) /\ tick' = t /\ stored' = e
    BY <2>4, <2>5, <2>6
  <2>8. /\ PlansSound' /\ Placed(tick, plan)'
        /\ Sized(tick, stored, plan)' /\ ForcedRuns(stored, plan, charge)'
    BY <2>1, <2>4, <2>7, CycleSound
  <2>9. PlanDay' /\ tick' < 2 * Slots
    BY <2>1, <2>2, <2>4 DEF PlanDay, dayVars
  <2> QED BY <2>8, <2>9 DEF PlanInv
<1> QED BY <1>1, <1>2

\* While the day is not over the start of a window that waits stays.
LEMMA WindowStep ==
  PlanInv /\ [PlanNext]_planVars /\ PlanInv' =>
    [plan.mode = "wait" /\ SamePeak /\ plan'.required = plan.required
       => plan'.start = plan.start]_planVars
<1> SUFFICES ASSUME PlanInv, PlanNext, PlanInv', plan.mode = "wait", SamePeak,
                    plan'.required = plan.required
             PROVE  plan'.start = plan.start
  OBVIOUS
<1>1. plan # NoPlan
  BY DEF NoPlan
<1>2. /\ tick \in 0..(2 * Slots - 1) /\ PlanDay /\ Placed(tick, plan)
      /\ prices' = prices
  <2>1. tick \in 0..(2 * Slots) /\ tick < 2 * Slots /\ Slots \in Nat
    BY PricePlanAssumption DEF PlanInv, PlansSound, PlanTypeOK
  <2>2. tick \in 0..(2 * Slots - 1)
    BY <2>1
  <2> QED BY <2>2 DEF PlanInv, PlanNext, dayVars
<1>3. tick' = tick + 1 /\ tick + 1 < 2 * Slots
  BY <1>1 DEF PlanNext, Begin, Charge, DischargeOrIdle
<1>4. PICK t \in 0..(2 * Slots - 1) : t = tick
  BY <1>2
<1>5. PICK u \in 0..(2 * Slots - 1) : u = tick' /\ u = t + 1
  <2>1. t + 1 \in 0..(2 * Slots - 1)
    BY <1>3, <1>4, PricePlanAssumption
  <2> QED BY <1>3, <1>4, <2>1
<1>6. PICK p : p = plan
  OBVIOUS
<1>7. PICK q : q = plan'
  OBVIOUS
<1>8. Placed(t, p) /\ p.mode = "wait" /\ q.deadline = p.deadline /\ q.required = p.required
  BY <1>2, <1>4, <1>6, <1>7 DEF SamePeak
<1>9. Placed(u, q)
  <2>1. Placed(u, q)'
    BY <1>5, <1>7 DEF PlanInv
  <2> QED BY <1>2, <2>1, PlacedStays
<1>10. PICK n \in Nat \ {0} : n = CoreSlots(p.required)
  BY <1>8, CoreSlotsIs DEF Placed
<1>11. PICK d : d = [at |-> p.deadline]
  OBVIOUS
<1>12. PICK V : V = Windows(t, d, n)
  OBVIOUS
<1>13. PICK W : W = Windows(u, d, n)
  OBVIOUS
<1>14. Offered(t, p) = V /\ Offered(u, q) = W
  BY <1>8, <1>10, <1>11, <1>12, <1>13 DEF Offered
<1>15. V # {} /\ p.start = Start(Best(V, n)) /\ t < p.start /\ p.required # 0
  BY <1>8, <1>10, <1>14 DEF Placed
<1>16. W # {} /\ Best(W, n) = Best(V, n)
  <2>1. t <= u /\ u <= t + 1 /\ t < Start(Best(V, n))
    BY <1>5, <1>15
  <2> QED BY <1>2, <1>12, <1>13, <1>15, <2>1, WindowKept
<1>17. q.start = Start(Best(W, n))
  BY <1>8, <1>9, <1>10, <1>14, <1>15, <1>16 DEF Placed
<1> QED BY <1>6, <1>7, <1>15, <1>16, <1>17

\* As long as the day runs as learned, a plan that fits before its deadline
\* still fits a tick later: a forced one has charged for the tick, any other one
\* has the length of its window left.
LEMMA ReachStep ==
  PlanInv /\ [PlanNext]_planVars /\ PlanInv' =>
    [UsableNeed(plan, stored) /\ plan.required <= 2 * Rate * SlotCap
       /\ Fits(tick, plan) /\ SamePeak /\ AsExpected
       => Fits(tick', plan') \/ stored' >= Capacity - NearMax]_planVars
<1> SUFFICES ASSUME PlanInv, PlanNext, PlanInv', UsableNeed(plan, stored),
                    plan.required <= 2 * Rate * SlotCap, Fits(tick, plan), SamePeak, AsExpected,
                    ~(stored' >= Capacity - NearMax)
             PROVE  Fits(tick', plan')
  OBVIOUS
<1>1. plan # NoPlan
  BY DEF NoPlan, UsableNeed
<1>2. PICK t \in Nat : t = tick
  BY PricePlanAssumption DEF PlanInv, PlansSound, PlanTypeOK
<1>3. PICK e \in 0..Capacity : e = stored
  BY DEF PlanInv, PlansSound, PlanTypeOK
<1>4. PICK f \in 0..Capacity : f = stored'
  BY DEF PlanInv, PlansSound, PlanTypeOK
<1>5. PICK g \in 0..Rate : g = charge.power
  BY DEF PlanInv, PlansSound, PlanTypeOK
<1>6. PICK p : p = plan
  OBVIOUS
<1>7. PICK q : q = plan'
  OBVIOUS
<1>8. PICK u \in Nat : u = t + 1 /\ u = tick'
  BY <1>1, <1>2 DEF PlanNext, Begin, Charge, DischargeOrIdle
<1>9. PlanDay /\ load' = load /\ forecast' = forecast /\ ready' = ready
  BY DEF PlanInv, PlanNext, dayVars
<1>10. Sized(t, e, p) /\ ForcedRuns(e, p, charge)
  BY <1>1, <1>2, <1>3, <1>6 DEF PlanInv
<1>11. PICK at \in Nat : at = p.deadline
  BY <1>10 DEF Sized
<1>12. PICK until \in Int : until = p.coverage
  BY <1>10 DEF Sized
<1>13. PICK r \in Nat : r = p.required /\ r > 0 /\ r <= 2 * Rate * SlotCap
  BY <1>6 DEF PlanInv, Placed, UsableNeed
<1>14. PICK s \in Nat : s = q.required
  BY <1>7 DEF PlanInv, Placed
<1>15. Rate \in Nat \ {0} /\ Capacity \in Nat /\ NearMax \in Nat
  BY PricePlanAssumption
<1>16. t + CeilDiv(r, Rate) <= at
  BY <1>2, <1>6, <1>11, <1>13 DEF Fits
<1>17. q.deadline = at /\ q.coverage = until
  BY <1>6, <1>7, <1>11, <1>12 DEF SamePeak
<1>18. Sized(u, f, q)
  <2>1. at > 0
    <3>1. CeilDiv(r, Rate) \in Int /\ ~(CeilDiv(r, Rate) <= 0)
      <4>1. 0 * Rate = 0 /\ r \in Int /\ 0 \in Int
        BY <1>15
      <4>2. CeilDiv(r, Rate) \in Int /\ (CeilDiv(r, Rate) <= 0 <=> r <= 0 * Rate)
        BY <1>15, <4>1, CeilIs
      <4> QED BY <1>13, <4>1, <4>2
    <3> QED BY <1>16, <3>1
  <2>2. plan' # NoPlan
    BY <1>7, <1>17, <2>1 DEF NoPlan
  <2>3. Sized(u, f, q)'
    BY <1>4, <1>7, <1>8, <2>2 DEF PlanInv
  <2> QED BY <1>9, <2>3, SizedStays
<1>19. PICK raw \in Int, next \in Int :
         /\ raw = Wanted(t, at, until) - e /\ next = Wanted(u, at, until) - f
         /\ next <= raw - g
  <2>0. /\ Wanted(t, at, until) \in Int /\ Wanted(t + 1, at, until) \in Int
        /\ Credit(at - t) \in Int /\ Credit(at - (t + 1)) \in Int
        /\ Wanted(t + 1, at, until) - Wanted(t, at, until)
             <= Credit(at - t) - Credit(at - (t + 1)) - load
    <3>1. t \in Int /\ at \in Int
      OBVIOUS
    <3> QED BY <1>9, <3>1, WantedFalls
  <2>1. PICK x \in Int : x = Wanted(t, at, until)
    BY <2>0
  <2>2. PICK y \in Int : y = Wanted(t + 1, at, until)
    BY <2>0
  <2>3. PICK c \in Int : c = Credit(at - t)
    BY <2>0
  <2>4. PICK d \in Int : d = Credit(at - (t + 1))
    BY <2>0
  <2>5. PICK l \in Nat : l = load
    BY <1>9 DEF PlanDay
  <2>6. y - x <= c - d - l
    BY <2>1, <2>2, <2>3, <2>4, <2>5, <2>0
  <2>7. f - e >= g + c - d - l
    <3>1. stored' - stored >= charge.power + Credit(plan.deadline - tick)
                               - Credit(plan.deadline - tick') - load
      BY DEF AsExpected
    <3>2. Credit(plan.deadline - tick) = c /\ Credit(plan.deadline - tick') = d
      BY <1>2, <1>6, <1>8, <1>11, <2>3, <2>4
    <3> QED BY <1>3, <1>4, <1>5, <2>5, <3>1, <3>2
  <2>8. y - f <= x - e - g
    BY <2>6, <2>7, <1>15
  <2> QED BY <1>8, <1>15, <2>1, <2>2, <2>8
<1>20. r = Actionable(raw, e) /\ s = Actionable(next, f)
  BY <1>10, <1>11, <1>12, <1>13, <1>14, <1>17, <1>18, <1>19 DEF Sized
<1>21. s <= r /\ (f = e + g => s = 0 \/ s <= r - g)
  <2>1. r = Capacity - e => f >= e
    BY <1>3, <1>4, <1>6, <1>13 DEF AsExpected
  <2>2. g \in Nat /\ r # 0
    BY <1>13, <1>15
  <2> QED BY <1>19, <1>20, <2>1, <2>2, ActionableFalls
<1>22. t + 1 + CeilDiv(s, Rate) <= at
  <2>1. CASE Forced(p)
    <3>1. g = p.power
      BY <1>3, <1>5, <1>6, <1>10, <2>1 DEF ForcedRuns
    <3>2. PICK from \in Int, end \in Int :
            t <= from /\ end <= at /\ g = Power(r, from, end)
      BY <1>10, <1>11, <1>13, <2>1, <3>1 DEF Sized
    <3>3. g > 0
      <4>1. r \in Int
        OBVIOUS
      <4>2. g \in 1..Rate
        BY <3>2, <4>1, PowerIs
      <4> QED BY <1>15, <4>2
    <3>4. f = e + g
      <4>1. Charge
        BY <1>1, <1>5, <3>3 DEF PlanNext, Begin, DischargeOrIdle
      <4>2. f = MinOf(Capacity, e + g)
        BY <1>3, <1>4, <1>5, <4>1 DEF Charge
      <4>3. ~(f >= Capacity - NearMax)
        BY <1>4
      <4> QED BY <1>15, <4>2, <4>3 DEF MinOf
    <3> QED BY <1>13, <1>16, <1>21, <3>2, <3>4, ChargedFits
  <2>2. CASE ~Forced(p)
    <3>1. t < at - 2 * WindowSlots(r)
      BY <1>10, <1>11, <1>13, <2>2 DEF Sized
    <3> QED BY <1>13, <1>21, <3>1, SlackFits
  <2> QED BY <2>1, <2>2
<1> QED BY <1>7, <1>8, <1>14, <1>17, <1>22 DEF Fits

\* No plan is made before the first cycle.
LEMMA PlanStart ==
  ASSUME prices \in [0..(Slots - 1) -> SlotPrices], load \in Nat,
         forecast \in {"unknown", "poor", "mixed", "good"}, tick = 0, stored \in 0..Capacity,
         allowed = FALSE, plan = NoPlan, charge = NoCharge
  PROVE  PlanInv
<1>1. Slots \in Nat /\ Slots > 0 /\ Rate \in Nat
  BY PricePlanAssumption
<1>2. PlanDay /\ tick < 2 * Slots
  BY <1>1 DEF PlanDay
<1>3. PlanTypeOK
  <2>1. tick \in 0..(2 * Slots) /\ 0 \in 0..Rate
    BY <1>1
  <2> QED BY <2>1 DEF PlanTypeOK, NoPlan, NoCharge
<1>4. DeadlineBehindActivePeak /\ ReservePatient
  BY DEF DeadlineBehindActivePeak, ReservePatient, NoPlan, NoCharge
<1>5. WaitHolds
  BY DEF WaitHolds, Optional, NoPlan, NoCharge
<1>6. Placed(tick, plan)
  BY DEF Placed, NoPlan
<1> QED BY <1>2, <1>3, <1>4, <1>5, <1>6 DEF PlanInv, PlansSound

\* The day starts in the invariant.
LEMMA PlanInitInv == PlanInit => PlanInv
<1> SUFFICES ASSUME PlanInit PROVE PlanInv
  OBVIOUS
<1>1. load \in Nat /\ forecast \in {"unknown", "poor", "mixed", "good"} /\ stored \in 0..Capacity
  BY PricePlanAssumption DEF PlanInit
<1> QED BY <1>1, PlanStart DEF PlanInit

-----------------------------------------------------------------------------
(* The composition: a part that is not followed rests in one of its initial *)
(* states, so that every part starts in its invariant and every step is a   *)
(* step of the part or leaves it alone.                                     *)

\* A part that rests holds its invariant too.
LEMMA PartsStart ==
  Init => /\ EnergyInv /\ LedgerInv /\ SplitInv /\ LatchInv /\ PassInv /\ SeasonInv
          /\ EffectInv /\ PlanInv
<1> SUFFICES ASSUME Init
             PROVE  /\ EnergyInv /\ LedgerInv /\ SplitInv /\ LatchInv /\ PassInv
                    /\ SeasonInv /\ EffectInv /\ PlanInv
  OBVIOUS
<1>1. EnergyInv /\ SeasonInv /\ EffectInv
  BY EnergyInitInv, SeasonInitInv, EffectInitInv DEF Init
<1>2. LedgerInv
  <2>1. LedgerInit
    BY DEF Init, LedgerResting
  <2> QED BY <2>1, LedgerInitInv
<1>3. SplitInv
  <2>1. CASE SplitInit
    BY <2>1, SplitInitInv
  <2>2. CASE SplitResting
    BY <2>2 DEF SplitResting, SplitInit, SplitInv
  <2> QED BY <2>1, <2>2 DEF Init
<1>4. LatchInv
  <2>1. LatchInit
    BY LatchAssumption DEF Init, LatchResting, LatchInit
  <2> QED BY <2>1, LatchInitInv
<1>5. PassInv
  <2>1. PassInit
    BY DEF Init, PassResting, PassInit
  <2> QED BY <2>1, PassInitInv
<1>6. PlanInv
  <2>1. CASE PlanInit
    BY <2>1, PlanInitInv
  <2>2. CASE PlanResting
    <3>1. prices \in [0..(Slots - 1) -> SlotPrices]
      BY <2>2, PricePlanAssumption DEF PlanResting
    <3>2. stored \in 0..Capacity
      BY <2>2, PricePlanAssumption DEF PlanResting
    <3> QED BY <2>2, <3>1, <3>2, PlanStart DEF PlanResting
  <2> QED BY <2>1, <2>2 DEF Init
<1> QED BY <1>1, <1>2, <1>3, <1>4, <1>5, <1>6

\* A step of the composition is, to each part, a step of its own or none.
LEMMA PartsStep ==
  ASSUME [Next]_vars
  PROVE  /\ [EnergyNext]_energyVars /\ [LedgerNext]_ledgerVars /\ [SplitNext]_splitVars
         /\ [LatchNext]_latchVars /\ [PassNext]_passVars /\ [SeasonNext]_seasonVars
         /\ [EffectNext]_effectVars /\ [PlanNext]_planVars
<1>1. CASE UNCHANGED vars
  BY <1>1 DEF vars
<1>2. CASE Next
  <2>1. /\ part # "energy" => UNCHANGED energyVars
        /\ part # "ledger" => UNCHANGED ledgerVars
        /\ part # "split" => UNCHANGED splitVars
        /\ part # "latch" => UNCHANGED latchVars
        /\ part # "passthrough" => UNCHANGED passVars
        /\ part # "season" => UNCHANGED seasonVars
        /\ part # "effect" => UNCHANGED effectVars
        /\ part # "plan" => UNCHANGED planVars
    BY <1>2 DEF Next, Resting
  <2>2. /\ part = "energy" => EnergyNext
        /\ part = "ledger" => LedgerNext
        /\ part = "split" => SplitNext
        /\ part = "latch" => LatchNext
        /\ part = "passthrough" => PassNext
        /\ part = "season" => SeasonNext
        /\ part = "effect" => EffectNext
        /\ part = "plan" => PlanNext
    BY <1>2 DEF Next
  <2> QED BY <2>1, <2>2
<1> QED BY <1>1, <1>2

\* The energy counted is that of awake time, a day's is that of the day, and the
\* money booked is the value of the counted energy that could be priced
\* (coordinator.py, economics.py).
THEOREM AccountsAreSound == Spec => []AccountsSound
<1>1. Init => EnergyInv
  BY PartsStart
<1>2. EnergyInv /\ [Next]_vars => EnergyInv'
  BY PartsStep, EnergyStepInv
<1>3. EnergyInv => AccountsSound
  BY EnergyInvSound DEF AccountsSound
<1> QED BY <1>1, <1>2, <1>3, PTL DEF Spec

\* The average charge price is made of prices paid since the ledger was cleared,
\* evidence of prices charged since a change was last booked, although cycles may
\* end early and book none; a reading that stays is believed, and the ledger is
\* cleared only on confirmed low readings (charge_economics.py,
\* soc_plausibility.py, coordinator.py).
THEOREM LedgerIsSound == Spec => []LedgerSound
<1>1. Init => LedgerInv
  BY PartsStart
<1>2. LedgerInv /\ [Next]_vars => LedgerInv'
  BY PartsStep, LedgerStepInv
<1>3. LedgerInv => LedgerSound
  BY LedgerInvSound
<1> QED BY <1>1, <1>2, <1>3, PTL DEF Spec

\* The latch of PV charge closes on a surplus or a fallen output, and stops when
\* its counts say so; the passthrough holds for as long as it may, within the
\* largest limit or at its minimum output (decision_engine.py, coordinator.py).
THEOREM LatchesAreSound == Spec => []LatchesSound
<1>1. Init => LatchInv /\ PassInv
  BY PartsStart
<1>2. LatchInv /\ PassInv /\ [Next]_vars => (LatchInv /\ PassInv)'
  BY PartsStep, LatchStepInv, PassStepInv
<1>3. LatchInv /\ PassInv => LatchesSound
  BY LatchInvSound DEF PassInv, LatchesSound
<1> QED BY <1>1, <1>2, <1>3, PTL DEF Spec

\* A command is repeated only after confirmed cycles without effect, at most so
\* often, and with pauses in between (command_effectiveness.py).
THEOREM EffectIsSound == Spec => []EffectSound
<1>1. Init => EffectInv
  BY PartsStart
<1>2. EffectInv /\ [Next]_vars => EffectInv'
  BY PartsStep, EffectStepInv
<1>3. EffectInv => EffectSound
  BY DEF EffectInv
<1> QED BY <1>1, <1>2, <1>3, PTL DEF Spec

\* Every split keeps the limits, exports no surplus that the AC input could take
\* and is priced as it was requested (charge_source_allocator.py,
\* charge_economics.py).
THEOREM SplitsAreSound == Spec => SplitSound
<1>1. Init => SplitInv
  BY PartsStart
<1>2. SplitInv /\ [Next]_vars => SplitInv'
  BY PartsStep, SplitStepInv
<1> DEFINE Kept == /\ input' <= InputLimit(nativePv) /\ input' + split'.native <= TotalLimit
                   /\ blend =>
                        LET priced == Classify(BatteryCharge', Import', Export', nativePv)
                        IN /\ Export' > 0 => input' = split'.limit
                           /\ priced.grid <= split'.grid
                           /\ priced.grid < split'.grid => input' = split'.limit
<1>3. SplitInv /\ [Next]_vars => [SplitCycle => Kept]_splitVars
  BY SplitStepSound
<1>4. Spec => [][SplitCycle => Kept]_splitVars
  BY <1>1, <1>2, <1>3, PTL DEF Spec
<1> QED BY <1>4 DEF SplitSound

\* Summer outlasts every night: it ends by daylight only, after so many evaluated
\* cycles that the tendency can have crossed the dead band (coordinator.py).
THEOREM SummersOutlastNights == Spec => SummerOutlastsNights
<1>1. Init => SeasonInv
  BY PartsStart
<1>2. SeasonInv /\ [Next]_vars => SeasonInv'
  BY PartsStep, SeasonStepInv
<1> DEFINE Ends == season = "summer" /\ season' = "winter" => Evaluated /\ against >= 2 * Turn
<1>3. SeasonInv /\ [Next]_vars => [Ends]_seasonVars
  BY PartsStep, SeasonStepInv
<1>4. Spec => [][Ends]_seasonVars
  BY <1>1, <1>2, <1>3, PTL DEF Spec
<1> QED BY <1>4 DEF SummerOutlastsNights

\* A deadline before a peak lies behind the peak that runs, a reserve charge
\* leaves to cheaper slots what they can hold, no charge runs while a learned
\* plan waits, and none that nothing forces buys at a price at which the battery
\* discharges (learned_planning.py, automatic_strategy.py, decision_engine.py).
THEOREM PlansAreSound == Spec => []PlansSound
<1>1. Init => PlanInv
  BY PartsStart
<1>2. PlanInv /\ [Next]_vars => PlanInv'
  BY PartsStep, PlanInvStep
<1>3. PlanInv => PlansSound
  BY DEF PlanInv
<1> QED BY <1>1, <1>2, <1>3, PTL DEF Spec

\* A learned plan that is used and can be kept is never put off until it cannot,
\* and a window that a waiting plan has announced does not run away: its start
\* stays while the need and the deadline stand (learned_planning.py).
THEOREM PlansAreKept == Spec => PlansKept
<1>1. Init => PlanInv
  BY PartsStart
<1>2. PlanInv /\ [Next]_vars => PlanInv'
  BY PartsStep, PlanInvStep
<1> DEFINE Reach == UsableNeed(plan, stored) /\ plan.required <= 2 * Rate * SlotCap
                      /\ Fits(tick, plan) /\ SamePeak /\ AsExpected
                      => Fits(tick', plan') \/ stored' >= Capacity - NearMax
           Stays == plan.mode = "wait" /\ SamePeak /\ plan'.required = plan.required
                      => plan'.start = plan.start
<1>3. PlanInv /\ [Next]_vars => [Reach]_planVars
  BY <1>2, PartsStep, ReachStep
<1>4. PlanInv /\ [Next]_vars => [Stays]_planVars
  BY <1>2, PartsStep, WindowStep
<1>5. Spec => [][Reach]_planVars
  BY <1>1, <1>2, <1>3, PTL DEF Spec
<1>6. Spec => [][Stays]_planVars
  BY <1>1, <1>2, <1>4, PTL DEF Spec
<1> QED BY <1>5, <1>6 DEF PlansKept, LearnedKeepsReach, WindowStands
=============================================================================
