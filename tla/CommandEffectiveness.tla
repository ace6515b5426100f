------------------------ MODULE CommandEffectiveness ------------------------
(***************************************************************************)
(* Noticing that an accepted command has no physical effect, and repeating  *)
(* it a bounded number of times (command_effectiveness.py, its state in     *)
(* coordinator.py, and observe_command_effectiveness of the native          *)
(* runtime).  The measured power decides, not what an entity still shows.   *)
(***************************************************************************)
EXTENDS Integers, FiniteSetsExt

CONSTANTS
  ConfirmCycles,   \* mismatch_confirm_cycles
  Cooldown,        \* retry_cooldown_s, in cycles
  MaxRetries,
  Jump,             \* how far a restart moves the clock
  NoRetry          \* no last_retry_at

ASSUME EffectAssumption ==
  /\ ConfirmCycles \in Nat \ {0} /\ Cooldown \in Nat /\ MaxRetries \in Nat
  /\ Jump \in Nat \ {0} /\ NoRetry \notin Nat

VARIABLES
  heading,   \* direction
  misses,    \* mismatch_cycles
  tries,     \* retry_count
  retried,   \* age of last_retry_at, or NoRetry
  verdict,   \* status of the last cycle
  mute,      \* in this cycle the command was seen to have no effect
  lost,      \* such cycles in a row, since the last repetition
  repeats,   \* repetitions since power flowed or the command changed
  pause,     \* cycles since the last of them
  hasty      \* one came too early: unconfirmed, or too close to the last

effectVars == <<heading, misses, tries, retried, verdict, mute, lost, repeats,
                pause, hasty>>

EffectIdle ==
  /\ heading = "none" /\ misses = 0 /\ tries = 0 /\ retried = NoRetry
  /\ verdict = "inactive" /\ mute = FALSE
  /\ lost = 0 /\ repeats = 0 /\ pause = Cooldown
  /\ hasty = FALSE

EffectInit == EffectIdle

(* What a cycle finds: the direction that is commanded with enough power,   *)
(* whether the battery power is known, the device is in that mode, power    *)
(* flows, an output is needed, and a write is pending anyway.               *)
Findings ==
  [want : {"none", "input", "output"}, known : BOOLEAN, mode : BOOLEAN,
   flows : BOOLEAN, needed : BOOLEAN, pending : BOOLEAN]

Missing(f) ==
  /\ f.want # "none" /\ f.want = heading
  /\ f.known /\ f.mode /\ ~f.flows /\ ~f.pending
  /\ f.want = "output" => f.needed

Flowing(f) == f.want = heading /\ f.known /\ f.mode /\ f.flows

(* defect: the counter starts as if it had been confirmed already.          *)
MissesAtOnce == ConfirmCycles

MissesNow == Min({misses + 1, ConfirmCycles})

(* defect: a cooldown that began once never ends.                           *)
CoolsDownForGood(age) == age # NoRetry

CoolsDown(age) == age # NoRetry /\ age < Cooldown

(* evaluate_command_effectiveness.                                          *)
Verdict(f, age) ==
  CASE f.want = "none" -> "inactive"
    [] f.want # "none" /\ f.want # heading -> "monitoring"
    [] Flowing(f) /\ f.want # "none" -> "effective"
    [] Missing(f) /\ MissesNow < ConfirmCycles -> "confirming"
    [] Missing(f) /\ MissesNow >= ConfirmCycles ->
         IF tries >= MaxRetries THEN "exhausted"
         ELSE IF CoolsDown(age) THEN "cooldown" ELSE "retry_due"
    [] OTHER -> "waiting"

(* One cycle of the coordinator: judge, and repeat the command if it is due *)
(* and the write is accepted; only an accepted write is recorded.           *)
EffectCycle(f, gap, accepted) ==
  LET age == IF retried = NoRetry THEN NoRetry ELSE Min({retried + gap, Cooldown})
      v   == Verdict(f, age)
      anew == v \in {"inactive", "monitoring", "effective"}
      sent == v = "retry_due" /\ accepted
  IN  /\ heading' = f.want /\ verdict' = v /\ mute' = Missing(f)
      /\ misses' = IF Missing(f) /\ ~sent THEN MissesNow ELSE 0
      /\ tries' = IF anew THEN 0 ELSE IF sent THEN tries + 1 ELSE tries
      /\ retried' = IF anew THEN NoRetry ELSE IF sent THEN 0 ELSE age
      /\ lost' = IF Missing(f) /\ ~sent
                 THEN Min({lost + 1, ConfirmCycles}) ELSE 0
      /\ repeats' = IF anew THEN 0 ELSE IF sent THEN repeats + 1 ELSE repeats
      /\ pause' = IF anew THEN Cooldown
                  ELSE IF sent THEN 0 ELSE Min({pause + gap, Cooldown})
      /\ hasty' = (\/ hasty
                   \/ sent /\ lost < ConfirmCycles - 1
                   \/ sent /\ repeats > 0 /\ pause + gap < Cooldown)

EffectNext ==
  \E f \in Findings, gap \in {1, Jump}, accepted \in BOOLEAN :
    EffectCycle(f, gap, accepted)

(* A cycle that finds the command without effect and gets a due write       *)
(* accepted.                                                                *)
Repeated == \E f \in Findings : Missing(f) /\ EffectCycle(f, 1, TRUE)

-----------------------------------------------------------------------------
EffectTypeOK ==
  /\ heading \in {"none", "input", "output"}
  /\ misses \in 0..ConfirmCycles /\ tries \in 0..MaxRetries
  /\ retried \in (0..Cooldown) \cup {NoRetry}

(* A command is not repeated without bound (command_effectiveness.py:77):   *)
(* as long as it stays and no power flows it is repeated at most            *)
(* MaxRetries times, each time after a confirmation of its own and at a     *)
(* distance from the last, across restarts too                              *)
(* (docs/architecture/clock-v4.7.0.md:36); and it is given up only after    *)
(* all of them, when it was seen without effect once more.                  *)
EffectSound ==
  /\ EffectTypeOK
  /\ repeats <= MaxRetries /\ ~hasty
  /\ verdict = "exhausted" => repeats = MaxRetries /\ lost >= ConfirmCycles
  /\ verdict = "cooldown" => pause < Cooldown /\ lost >= ConfirmCycles

(* A command that stays without effect is given up in the end.              *)
EffectDecided == <>[]mute => <>(verdict = "exhausted")
=============================================================================
