--------------------------- MODULE CellProtection ---------------------------
(***************************************************************************)
(* The latches of battery_protection.py and of the coordinator methods     *)
(* that keep their arguments in the persisted document: the emergency      *)
(* charge of one device, the discharge block with its hysteresis and the   *)
(* discharge lock that an emergency charge leaves behind.  A voltage is a  *)
(* level; NoVoltage stands for a device without a fresh cell voltage.      *)
(***************************************************************************)
EXTENDS Integers, FiniteSetsExt

CONSTANTS
    NoVoltage,          \* no fresh reading of the lowest cell
    Cutoff,             \* SETTING_CELL_VOLTAGE_CUTOFF
    Warning,            \* SETTING_CELL_VOLTAGE_WARNING
    ResumeVoltage,      \* SETTING_CELL_VOLTAGE_RESUME
    ResumeSoc,          \* minimum SoC plus the resume margin
    MinimumCharge       \* ticks an emergency charge lasts at least

ASSUME CellAssumption ==
    /\ Cutoff \in Int /\ Warning \in Int /\ ResumeVoltage \in Int
    /\ ResumeSoc \in Nat /\ MinimumCharge \in Nat

\* One entry of cell_voltage_emergency_devices: the flag and the ticks since
\* started_at, counted no further than the minimum.
Latches == [on : BOOLEAN, age : 0..MinimumCharge]
NoLatch == [on |-> FALSE, age |-> 0]

Aged(latch) ==
    IF latch.on THEN [latch EXCEPT !.age = Min({@ + 1, MinimumCharge})] ELSE latch

\* The smallest distance MIN_CELL_VOLTAGE_HYSTERESIS_V is one level.
EffectiveResume == Max({ResumeVoltage, Warning + 1})

EmergencyContinues(latch, v) ==
    \/ v <= Warning
    \/ latch.on /\ (latch.age < MinimumCharge \/ v < EffectiveResume)

\* A device without a reading keeps its latch, one with a reading loses it
\* when the protection is switched off.
NextLatch(latch, v, enabled) ==
    IF v = NoVoltage THEN latch
    ELSE IF enabled /\ EmergencyContinues(latch, v)
         THEN [on |-> TRUE, age |-> IF latch.on THEN latch.age ELSE 0]
         ELSE NoLatch

NextBlock(blocked, v, enabled) ==
    /\ enabled
    /\ v = NoVoltage \/ v <= Cutoff \/ (blocked /\ v < ResumeVoltage)

\* The lock after a cell emergency: .seen is cell_voltage_normal_charge_observed.
Recovered(v, soc) == v # NoVoltage /\ v >= ResumeVoltage /\ soc >= ResumeSoc

\* defect: only an ordinary charge releases the lock
ReleasesWhenSeen(lock, full) == lock.seen
Releases(lock, full) == lock.seen \/ full

NextLock(lock, emergency, regularCharge, v, soc, full, enabled) ==
    IF ~enabled THEN [locked |-> FALSE, seen |-> FALSE]
    ELSE IF emergency THEN [locked |-> TRUE, seen |-> FALSE]
    ELSE IF ~lock.locked \/ (Releases(lock, full) /\ Recovered(v, soc))
         THEN [locked |-> FALSE, seen |-> FALSE]
    ELSE [locked |-> TRUE, seen |-> lock.seen \/ regularCharge]
=============================================================================
