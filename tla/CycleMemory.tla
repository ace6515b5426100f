----------------------------- MODULE CycleMemory -----------------------------
(***************************************************************************)
(* What a cycle of the coordinator keeps for later ones (coordinator.py,    *)
(* _async_update_data): energy and its value, the charge ledger, the split  *)
(* of a charge, the plans that prices lead to, the latches of PV charge and *)
(* passthrough, the season and the repetition of commands without effect.   *)
(* They are fed by the same samples and saved together, but none reads what *)
(* another one keeps: a behaviour follows one of them, with every input it  *)
(* may get.                                                                 *)
(***************************************************************************)
EXTENDS EnergyAccounting, ChargeLedger, ChargeSplit, PricePlan,
        PvChargeLatch, HousePassthrough, SeasonDetection, CommandEffectiveness

VARIABLE part   \* the one this behaviour follows

Parts == {"energy", "ledger", "split", "plan",
          "latch", "passthrough", "season", "effect"}

vars == <<part, energyVars, ledgerVars, splitVars, planVars,
          latchVars, passVars, seasonVars, effectVars>>

(* What a part that is not followed holds.                                  *)
LedgerResting == LedgerInit /\ soc = 0
SplitResting ==
  SplitInit /\ house = 0 /\ acPv = 0 /\ nativePv = 0 /\ target = 0 /\ blend = FALSE
PlanResting ==
  /\ prices = [s \in 0..(Slots - 1) |-> CHOOSE p \in SlotPrices : TRUE]
  /\ load = 0 /\ forecast = "unknown" /\ ready = FALSE
  /\ tick = 0 /\ stored = 0 /\ allowed = FALSE
  /\ plan = NoPlan /\ charge = NoCharge
LatchResting == LatchIdle /\ sun = 0 /\ clips = FALSE
PassResting == PassIdle /\ level = SocFull - 2 /\ clipped = FALSE

Init ==
  /\ part \in Parts
  /\ EnergyInit /\ SeasonInit /\ EffectInit
  /\ IF part = "ledger" THEN LedgerInit ELSE LedgerResting
  /\ IF part = "split" THEN SplitInit ELSE SplitResting
  /\ IF part = "plan" THEN PlanInit ELSE PlanResting
  /\ IF part = "latch" THEN LatchInit ELSE LatchResting
  /\ IF part = "passthrough" THEN PassInit ELSE PassResting

Resting(p, kept) == IF part = p THEN TRUE ELSE UNCHANGED kept

Next ==
  /\ UNCHANGED part
  /\ Resting("energy", energyVars) /\ Resting("ledger", ledgerVars)
  /\ Resting("split", splitVars) /\ Resting("plan", planVars)
  /\ Resting("latch", latchVars) /\ Resting("passthrough", passVars)
  /\ Resting("season", seasonVars) /\ Resting("effect", effectVars)
  /\ \/ part = "energy" /\ EnergyNext
     \/ part = "ledger" /\ LedgerNext
     \/ part = "split" /\ SplitNext
     \/ part = "plan" /\ PlanNext
     \/ part = "latch" /\ LatchNext
     \/ part = "passthrough" /\ PassNext
     \/ part = "season" /\ SeasonNext
     \/ part = "effect" /\ EffectNext

(* Cycles go on, and a command that stays without effect is not refused     *)
(* every time it is repeated.                                               *)
Fairness ==
  /\ WF_latchVars(part = "latch" /\ LatchNext)
  /\ SF_effectVars(part = "effect" /\ Repeated)

Spec == Init /\ [][Next]_vars /\ Fairness

-----------------------------------------------------------------------------
(* Energy and its value agree: whatever is counted was awake time, the day  *)
(* holds no more than the day, and the money is that of the counted energy  *)
(* (energy_accounting, economics).                                          *)
AccountsSound == EnergySound /\ MoneySound

(* A learned plan keeps its reach, and a window once announced stays        *)
(* (learned_planning.py).                                                   *)
PlansKept == LearnedKeepsReach /\ WindowStands

(* The latches of PV charge and passthrough hold for no longer and for no   *)
(* other reason than they were closed for (decision_engine.py,              *)
(* coordinator.py).                                                         *)
LatchesSound == LatchSound /\ PassthroughSound

(* In the end a latch without PV is open, and a command without effect is   *)
(* given up.                                                                *)
MemorySettles == LatchOpens /\ EffectDecided
=============================================================================
