---------------------------- MODULE BatteryCare -----------------------------
(***************************************************************************)
(* How one coordinator cycle looks after the batteries of several native   *)
(* devices (coordinator.py, _async_update_data): cell emergencies and      *)
(* their charge commands to devices that are not selected, full-charge     *)
(* maintenance with its own commands, the marks by which a later cycle     *)
(* finds the devices it has to release, and the locks that decide whether  *)
(* the selected device may discharge.                                      *)
(*                                                                         *)
(* Bounds: Voltages are the levels a reading may have, Top the highest SoC *)
(* level (Full is 100 % with the current still flowing, above it the       *)
(* current has tapered off), MaxEvents the number of settings, selections, *)
(* readiness changes and commands that fail in one behaviour.              *)
(***************************************************************************)
EXTENDS CellProtection, FullChargeMaintenance

CONSTANTS Devices, First, Voltages, Windows, Full, Top, MaxEvents

ASSUME CareAssumption ==
    /\ Full \in Nat /\ Top \in Nat /\ Full < Top /\ MaxEvents \in Nat
    /\ First \in Devices /\ ResumeSoc <= Full
    /\ Voltages \subseteq Int /\ NoVoltage \notin Voltages /\ ResumeVoltage \in Voltages
    /\ "none" \in Windows

VARIABLES
    volt, soc,          \* what the devices report
    weak,               \* the device whose cell voltages vary
    ready,              \* devices that nothing blocks for maintenance
    window,             \* favourable charge window of the plant
    selected,           \* the device the strategy controls
    settings,           \* [control, manual, protect, maintain]
    latch, block, lock, \* cell protection
    record, days,       \* full-charge maintenance
    marks,              \* [cell, care]: devices whose charge is ours to end
    setpoint,           \* what each device was last told to do
    dropped,            \* history: devices whose mark went without a release
    owed,               \* history: the selected device had an emergency and
                        \*   has not been charged in the ordinary way since
    due, events

care == <<latch, block, lock, record, days, marks>>
plant == <<volt, soc, weak, ready, window>>
vars == <<plant, selected, settings, care, setpoint, dropped, owed, due, events>>

Peers == Devices \ {selected}
Switches == [control : BOOLEAN, manual : BOOLEAN, protect : BOOLEAN, maintain : BOOLEAN]
Setpoints == {"idle", "charge", "emergency", "discharge"}
Charging(d) == setpoint[d] \in {"charge", "emergency"}

\* Type invariant.
CareTypeOK ==
    /\ volt \in [Devices -> Voltages \cup {NoVoltage}]
    /\ soc \in [Devices -> 0..Top]
    /\ weak \in Devices
    /\ ready \subseteq Devices
    /\ window \in Windows
    /\ selected \in Devices
    /\ settings \in Switches
    /\ latch \in [Devices -> Latches]
    /\ block \in BOOLEAN
    /\ lock \in [locked : BOOLEAN, seen : BOOLEAN] /\ (lock.seen => lock.locked)
    /\ record \in [Devices -> Records]
    /\ days \in [Devices -> Days]
    /\ marks \in [cell : SUBSET Devices, care : SUBSET Devices]
    /\ setpoint \in [Devices -> Setpoints]
    /\ dropped \subseteq Devices
    /\ owed \in BOOLEAN /\ due \in BOOLEAN /\ events \in 0..MaxEvents

CareInit ==
    /\ volt = [d \in Devices |-> ResumeVoltage]
    /\ soc = [d \in Devices |-> ResumeSoc]
    /\ weak \in Devices
    /\ ready \in {{d} : d \in Devices} /\ window = "none"
    /\ selected = First
    /\ settings = [control |-> TRUE, manual |-> FALSE, protect |-> TRUE, maintain |-> TRUE]
    /\ latch = [d \in Devices |-> NoLatch]
    /\ block = FALSE /\ lock = [locked |-> FALSE, seen |-> FALSE]
    /\ record = [d \in Devices |-> NewRecord]
    /\ days = [d \in Devices |-> Never]
    /\ marks = [cell |-> {}, care |-> {}]
    /\ setpoint = [d \in Devices |-> "idle"]
    /\ dropped = {} /\ owed = FALSE /\ due = TRUE /\ events = 0

-----------------------------------------------------------------------------
(* One cycle.  reached: devices whose commands are applied in this cycle,  *)
(* export: there is PV power to share, bound: a charge binding is active,  *)
(* wish: what the strategy wants of the selected device.                   *)

NextLatches ==
    [d \in Devices |-> NextLatch(latch[d], volt[d], settings.protect)]

Seen == {d \in Devices : volt[d] # NoVoltage}

\* defect: the command is sent only when the emergency begins
EmergencyTargetsOnce(latches) ==
    {d \in Peers \cap Seen :
        /\ latches[d].on /\ ~latch[d].on
        /\ settings.control /\ ~settings.manual /\ settings.protect}
\* Peers that are told to charge for their own cells.
EmergencyTargets(latches) ==
    {d \in Peers \cap Seen :
        latches[d].on /\ settings.control /\ ~settings.manual /\ settings.protect}

\* Marked peers whose emergency is over.
EmergencyOver(latches, marked) ==
    {d \in marked \cap Peers \cap Seen :
        settings.control /\ (settings.manual \/ ~settings.protect \/ ~latches[d].on)}

\* full_charge_maintenance_input and FullChargeMaintenanceRuntime.evaluate.
Answers(bound) ==
    [d \in Devices |->
        Evaluate(record[d], days[d],
            [enabled |-> settings.maintain,
             free |-> d \in ready /\ settings.control /\ ~settings.manual,
             full |-> soc[d] >= Full,
             settled |-> ~(Charging(d) /\ soc[d] < Top),
             window |-> Window(window = "pv", window = "price", bound /\ d = selected)])]

\* Peers whose maintenance charge is requested, and of those the ones that
\* get a command: a share of the PV export may be nothing at all.
Requested(latches, answers) ==
    {d \in Peers : answers[d].window # "none" /\ ~latches[d].on
                   /\ settings.maintain /\ ~settings.manual}
CareTargets(latches, answers, export) ==
    {d \in Requested(latches, answers) : answers[d].window = "pv" => export}

\* Marked devices that are no longer asked to charge: those in an emergency
\* only lose the mark, those without a voltage keep it.
Taken(latches, marked) == {d \in marked : latches[d].on}
CareOver(latches, answers, marked) ==
    {d \in (marked \cap Seen) \ Requested(latches, answers) : ~latches[d].on}

\* apply_maintenance_charge_request over the decision of the engine.
Decision(latches, answers, wish) ==
    IF latches[selected].on THEN "emergency"
    ELSE IF answers[selected].window # "none" /\ settings.maintain /\ ~settings.manual
         THEN "charge"
         ELSE wish

MeasuredCharge == Charging(selected) /\ soc[selected] < Top

\* An INPUT at the upper limit and a blocked OUTPUT become idle.
Filtered(decision, blocked) ==
    CASE decision \in {"charge", "emergency"} /\ soc[selected] >= Full -> "idle"
      [] decision = "discharge" /\ (blocked \/ soc[selected] = 0) -> "idle"
      [] OTHER -> decision

\* defect: a mark goes although the release was not applied
UnmarkedAnyway(over, reached) == over
\* Devices lose their marks when the release was applied.
Unmarked(over, reached) == over \cap reached

\* The setpoints after the commands of the cycle, in the order they are sent.
Commanded(emergencies, released, charges, final, reached) ==
    [d \in Devices |->
        IF d \notin reached THEN setpoint[d]
        ELSE IF d = selected THEN IF settings.control THEN final ELSE setpoint[d]
        ELSE IF d \in charges THEN "charge"
        ELSE IF d \in released THEN "idle"
        ELSE IF d \in emergencies THEN "emergency"
        ELSE setpoint[d]]

Cycle(reached, export, bound, wish) ==
    LET latches == NextLatches
        emergencies == EmergencyTargets(latches)
        cellMarked == marks.cell \cup (emergencies \cap reached)
        cellOver == EmergencyOver(latches, cellMarked)
        answers == Answers(bound)
        charges == CareTargets(latches, answers, export)
        careMarked == marks.care \cup (charges \cap reached)
        taken == Taken(latches, careMarked)
        careOver == CareOver(latches, answers, careMarked)
        decision == Decision(latches, answers, wish)
        blocked == NextBlock(block, volt[selected], settings.protect)
        locked == NextLock(lock, latches[selected].on, decision # "emergency" /\ MeasuredCharge,
                           volt[selected], soc[selected], soc[selected] >= Full,
                           settings.protect)
        final == Filtered(decision, blocked \/ lock.locked \/ locked.locked)
        cellMarks == cellMarked \ Unmarked(cellOver, reached)
        careMarks == careMarked \ (taken \cup Unmarked(careOver, reached))
    IN  /\ latch' = latches
        /\ block' = blocked
        /\ lock' = locked
        /\ record' = [d \in Devices |-> answers[d].record]
        /\ days' = [d \in Devices |-> IF answers[d].completed THEN 0 ELSE days[d]]
        /\ marks' = [cell |-> cellMarks, care |-> careMarks]
        /\ setpoint' = Commanded(emergencies, cellOver \cup careOver, charges, final, reached)
        /\ dropped' = {d \in (dropped \cup taken) \ (cellMarks \cup careMarks) :
                          setpoint'[d] \in {"charge", "emergency"}}
        /\ owed' = (settings.protect /\ (latches[selected].on \/ owed))

Event == events < MaxEvents /\ events' = events + 1

\* A cycle in which not every device is reached is one of the events.
CareCycle ==
    /\ due
    /\ due' = FALSE
    /\ \E reached \in SUBSET Devices, export, bound \in BOOLEAN,
          wish \in {"idle", "charge", "discharge"} :
            /\ IF reached = Devices THEN UNCHANGED events ELSE Event
            /\ Cycle(reached, export, bound, wish)
    /\ UNCHANGED <<plant, selected, settings>>

Tick ==
    /\ ~due
    /\ due' = TRUE
    /\ latch' = [d \in Devices |-> Aged(latch[d])]
    /\ record' = [d \in Devices |-> Waited(record[d])]
    /\ UNCHANGED <<plant, selected, settings, block, lock, days, marks, setpoint,
                   dropped, owed, events>>

-----------------------------------------------------------------------------
(* The devices and the household.                                          *)

\* A charging device fills, a discharging one empties; an ordinary charge of
\* the selected device, or a full battery, settles what is owed.
Flow(d) ==
    /\ soc' = [soc EXCEPT ![d] =
                  IF Charging(d) THEN Min({@ + 1, Top})
                  ELSE IF setpoint[d] = "discharge" THEN Max({@ - 1, 0}) ELSE @]
    /\ soc' # soc
    /\ owed' = (owed /\ ~(d = selected /\ (setpoint[d] = "charge" \/ soc'[d] >= Full)))
    /\ UNCHANGED <<volt, weak, ready, window, selected, settings, care, setpoint, dropped,
                   due, events>>

ChangeVoltage ==
    /\ \E v \in (Voltages \cup {NoVoltage}) \ {volt[weak]} :
          volt' = [volt EXCEPT ![weak] = v]
    /\ UNCHANGED <<soc, weak, ready, window, selected, settings, care, setpoint, dropped, owed,
                   due, events>>

ChangeWindow ==
    /\ window' \in Windows \ {window}
    /\ UNCHANGED <<volt, soc, weak, ready, selected, settings, care, setpoint, dropped, owed,
                   due, events>>

DaysPass ==
    /\ days' = [d \in Devices |->
                  IF days[d] = Never THEN Never ELSE Min({days[d] + 1, Overdue})]
    /\ days' # days
    /\ UNCHANGED <<plant, selected, settings, latch, block, lock, record, marks, setpoint,
                   dropped, owed, due, events>>

ChangeReadiness(d) ==
    /\ Event
    /\ ready' = IF d \in ready THEN ready \ {d} ELSE ready \cup {d}
    /\ UNCHANGED <<volt, soc, weak, window, selected, settings, care, setpoint, dropped, owed, due>>

ChangeSetting(s) ==
    /\ Event
    /\ settings' = [settings EXCEPT ![s] = ~@]
    /\ UNCHANGED <<plant, selected, care, setpoint, dropped, owed, due>>

\* Another device is selected: the entry is loaded again from what was saved,
\* and the old device keeps its last command.
Reselect ==
    /\ Event
    /\ selected' \in Peers
    /\ dropped' = IF Charging(selected) /\ selected \notin marks.cell \cup marks.care
                  THEN dropped \cup {selected} ELSE dropped
    /\ owed' = FALSE
    /\ due' = TRUE
    /\ UNCHANGED <<plant, settings, care, setpoint>>

CareNext ==
    \/ CareCycle
    \/ Tick
    \/ \E d \in Devices : Flow(d)
    \/ ChangeVoltage
    \/ ChangeWindow
    \/ DaysPass
    \/ \E d \in Devices : ChangeReadiness(d)
    \/ \E s \in {"control", "manual", "protect", "maintain"} : ChangeSetting(s)
    \/ Reselect

\* The coordinator runs a cycle in every interval, time passes, and current
\* that flows changes the charge.
CareSpec ==
    /\ CareInit /\ [][CareNext]_vars
    /\ WF_due(due /\ due' = FALSE) /\ WF_due(~due /\ due' = TRUE)
    /\ \A d \in Devices : WF_vars(Flow(d))

-----------------------------------------------------------------------------
Recovering(d) == volt[d] # NoVoltage /\ volt[d] >= EffectiveResume

\* A peer that charges on our command is marked, so that a later cycle finds
\* and releases it.  Only a mark that an emergency took over without being
\* able to send its own command, or a change of the selected device, leaves a
\* charging peer behind (dropped).
MarkedWhileCharging ==
    \A d \in Peers \ dropped : Charging(d) => d \in marks.cell \cup marks.care

\* The same together with the types.
CareSafe == CareTypeOK /\ MarkedWhileCharging

\* Once its cells have recovered and no maintenance is due, a marked peer is
\* released, even when a release was lost or the voltage was missing meanwhile.
PeersReleased ==
    \A d \in Devices :
        <>[](/\ d \in Peers /\ Recovering(d) /\ settings.control
             /\ window = "none" /\ ~IsOverdue(days[d]))
            => <>[](d \notin marks.cell \cup marks.care)

\* While the emergency of a peer lasts and commands are allowed it charges:
\* the maintenance of the same cycle does not release it.
EmergencyCharges ==
    \A d \in Devices :
        <>[](/\ d \in Peers /\ latch[d].on /\ volt[d] # NoVoltage
             /\ settings.control /\ settings.protect /\ ~settings.manual)
            => <>[](setpoint[d] = "emergency")

\* Maintenance of a peer is not postponed for ever: without any favourable
\* window an overdue peer is charged, confirmed full and no longer overdue
\* (one that never left its last confirmed full charge has nothing to do).
OverdueCompletes ==
    \A d \in Devices :
        ~<>[](/\ d \in Peers /\ d \in ready /\ ~latch[d].on /\ window = "none"
              /\ settings.control /\ settings.maintain /\ ~settings.manual
              /\ IsOverdue(days[d]) /\ ~record[d].held)

\* A full and recovered battery regains its discharge: the lock does not wait
\* for an ordinary charge that can no longer happen.
FullUnlocks ==
    <>[](Recovering(selected) /\ soc[selected] >= Full /\ settings.protect)
        => <>[](~lock.locked)

\* What maintenance and emergencies began comes to its end: overdue batteries
\* are charged full, the lock falls, and peers are released.
CareCompletes == OverdueCompletes /\ FullUnlocks /\ PeersReleased

\* What the tests call "emergency charge cannot release discharge lock": after
\* a cell emergency the lock falls only when the battery was charged in the
\* ordinary way since, is full, or the protection is switched off.
EmergencyCannotUnlock ==
    [][lock.locked /\ ~lock'.locked
        => ~owed \/ soc[selected] >= Full \/ ~settings.protect]_vars
=============================================================================
