-------------------------- MODULE BatteryCareProofs --------------------------
(***************************************************************************)
(* The care of the batteries for any number of devices, levels of voltage   *)
(* and charge, windows and periods: whatever commands fail and settings     *)
(* change, a peer that charges on our command is marked.                    *)
(***************************************************************************)
EXTENDS BatteryCare, TLAPS

-----------------------------------------------------------------------------
(* Latches, lock and records                                               *)

Levels == Voltages \cup {NoVoltage}
Locks == [locked : BOOLEAN, seen : BOOLEAN]

LEMMA NoLatchType == NoLatch \in Latches
BY CellAssumption DEF NoLatch, Latches

LEMMA NextLatchType ==
  ASSUME NEW l \in Latches, NEW v \in Levels, NEW enabled \in BOOLEAN
  PROVE  NextLatch(l, v, enabled) \in Latches
<1> DEFINE kept == [on |-> TRUE, age |-> IF l.on THEN l.age ELSE 0]
<1>1. kept \in Latches
  BY CellAssumption DEF Latches
<1>2. NextLatch(l, v, enabled) \in {l, kept, NoLatch}
  BY DEF NextLatch
<1> QED BY <1>1, <1>2, NoLatchType

\* A counter grows by one and not beyond its bound.
LEMMA SmallerOfTwo ==
  ASSUME NEW bound \in Nat, NEW n \in 0..bound
  PROVE  Min({n + 1, bound}) \in 0..bound
BY DEF Min

LEMMA LargerOfTwo ==
  ASSUME NEW bound \in Nat, NEW n \in 0..bound
  PROVE  Max({n - 1, 0}) \in 0..bound
BY DEF Max

LEMMA AgedType == ASSUME NEW l \in Latches PROVE Aged(l) \in Latches
<1> DEFINE n == Min({l.age + 1, MinimumCharge})
<1>1. n \in 0..MinimumCharge
  BY CellAssumption, SmallerOfTwo DEF Latches
<1> HIDE DEF n
<1>2. Aged(l) = IF l.on THEN [l EXCEPT !.age = n] ELSE l
  BY DEF Aged, n
<1> QED BY <1>1, <1>2 DEF Latches

\* Nothing is noted of an ordinary charge while the discharge is not locked.
LEMMA NextLockType ==
  ASSUME NEW l \in Locks, l.seen => l.locked, NEW emergency \in BOOLEAN,
         NEW regular \in BOOLEAN, NEW v \in Levels, NEW s, NEW full \in BOOLEAN,
         NEW enabled \in BOOLEAN
  PROVE  LET n == NextLock(l, emergency, regular, v, s, full, enabled)
         IN  n \in Locks /\ (n.seen => n.locked)
<1> DEFINE n == NextLock(l, emergency, regular, v, s, full, enabled)
<1>1. \/ n = [locked |-> FALSE, seen |-> FALSE] \/ n = [locked |-> TRUE, seen |-> FALSE]
      \/ n = [locked |-> TRUE, seen |-> l.seen \/ regular]
  BY DEF NextLock
<1>2. l.seen \/ regular \in BOOLEAN
  BY DEF Locks
<1> HIDE DEF n
<1>3. ASSUME n = [locked |-> TRUE, seen |-> l.seen \/ regular]
      PROVE  n \in Locks /\ (n.seen => n.locked)
  BY <1>2, <1>3 DEF Locks
<1>4. ASSUME n = [locked |-> FALSE, seen |-> FALSE]
      PROVE  n \in Locks /\ (n.seen => n.locked)
  BY <1>4 DEF Locks
<1>5. ASSUME n = [locked |-> TRUE, seen |-> FALSE]
      PROVE  n \in Locks /\ (n.seen => n.locked)
  BY <1>5 DEF Locks
<1>6. n \in Locks /\ (n.seen => n.locked)
  BY <1>1, <1>3, <1>4, <1>5
<1> QED BY <1>6 DEF n

LEMMA WaitedType == ASSUME NEW r \in Records PROVE Waited(r) \in Records
<1> DEFINE n == Min({r.since + 1, Confirm})
<1>1. CASE r.since = NoTime
  BY <1>1 DEF Waited
<1>2. CASE r.since # NoTime
  <2>1. n \in 0..Confirm
    BY <1>2, MaintenanceAssumption, SmallerOfTwo DEF Records
  <2> HIDE DEF n
  <2>2. Waited(r) = [r EXCEPT !.since = n]
    BY <1>2 DEF Waited, n
  <2> QED BY <2>1, <2>2 DEF Records
<1> QED BY <1>1, <1>2

\* The planner answers with a record, and says whether it is complete.
LEMMA EvaluateType ==
  ASSUME NEW old \in Records, NEW n, NEW o, o.enabled \in BOOLEAN
  PROVE  /\ Evaluate(old, n, o).record \in Records
         /\ Evaluate(old, n, o).completed \in BOOLEAN
<1> DEFINE since == IF old.since = NoTime THEN 0 ELSE old.since
           kept == [old EXCEPT !.active = @ /\ o.enabled]
           counted == [kept EXCEPT !.since = IF @ = NoTime THEN 0 ELSE @, !.held = FALSE]
           below == [kept EXCEPT !.since = NoTime, !.held = FALSE]
           done == [counted EXCEPT !.active = FALSE, !.held = TRUE]
           begun == [below EXCEPT !.active = TRUE]
<1>1. (old.active /\ o.enabled) \in BOOLEAN
  BY DEF Records
<1>2. kept \in Records /\ kept.since = old.since
  BY <1>1 DEF Records
<1>3. since \in {NoTime} \cup 0..Confirm
  BY MaintenanceAssumption DEF Records
<1>4. counted = [kept EXCEPT !.since = since, !.held = FALSE]
  BY <1>2 DEF Records
<1> HIDE DEF kept, since
<1>5. counted \in Records
  BY <1>2, <1>3, <1>4 DEF Records
<1>6. below \in Records
  BY <1>2 DEF Records
<1> HIDE DEF counted, below
<1>7. done \in Records /\ begun \in Records
  BY <1>5, <1>6 DEF Records
<1> HIDE DEF done, begun
<1>8. \/ Evaluate(old, n, o) = Quiet(below)
      \/ Evaluate(old, n, o) = Quiet(kept)
      \/ Evaluate(old, n, o) = Answer(done, "none", TRUE)
      \/ \E w : Evaluate(old, n, o) = Answer(counted, w, FALSE)
      \/ \E w : Evaluate(old, n, o) = Answer(begun, w, FALSE)
  BY DEF Evaluate, kept, counted, below, done, begun
<1> DEFINE answer == Evaluate(old, n, o)
<1> HIDE DEF answer
<1>9. answer.record \in {kept, counted, below, done, begun}
  BY <1>8 DEF Quiet, Answer, answer
<1>10. answer.completed = TRUE \/ answer.completed = FALSE
  BY <1>8 DEF Quiet, Answer, answer
<1>11. answer.record \in Records
  BY <1>2, <1>5, <1>6, <1>7, <1>9
<1>12. answer.completed \in BOOLEAN
  BY <1>10
<1> QED BY <1>11, <1>12 DEF answer

-----------------------------------------------------------------------------
(* One cycle                                                               *)

LEMMA NextBlockType ==
  ASSUME NEW b \in BOOLEAN, NEW v \in Levels, NEW enabled \in BOOLEAN
  PROVE  NextBlock(b, v, enabled) \in BOOLEAN
BY DEF NextBlock

\* A reached peer that is neither told to charge nor released, and has no
\* command for an emergency, keeps what it was told; one that is not reached
\* keeps it as well.
LEMMA CommandedPeer ==
  ASSUME NEW emergencies, NEW released, NEW charges, NEW final, NEW reached,
         NEW d \in Peers
  PROVE  LET told == Commanded(emergencies, released, charges, final, reached)[d]
         IN  /\ d \notin reached => told = setpoint[d]
             /\ d \in reached /\ d \in charges => told = "charge"
             /\ d \in reached /\ d \notin charges /\ d \in released => told = "idle"
             /\ d \in reached /\ d \notin charges /\ d \notin released
                  /\ d \notin emergencies => told = setpoint[d]
BY DEF Commanded, Peers

LEMMA CommandedType ==
  ASSUME CareTypeOK, NEW emergencies, NEW released, NEW charges, NEW final \in Setpoints,
         NEW reached
  PROVE  Commanded(emergencies, released, charges, final, reached) \in [Devices -> Setpoints]
<1> DEFINE told(d) == IF d \notin reached THEN setpoint[d]
                      ELSE IF d = selected THEN IF settings.control THEN final ELSE setpoint[d]
                      ELSE IF d \in charges THEN "charge"
                      ELSE IF d \in released THEN "idle"
                      ELSE IF d \in emergencies THEN "emergency"
                      ELSE setpoint[d]
<1>1. ASSUME NEW d \in Devices PROVE told(d) \in Setpoints
  <2>1. setpoint[d] \in Setpoints
    BY DEF CareTypeOK
  <2>2. {"charge", "idle", "emergency"} \subseteq Setpoints
    BY DEF Setpoints
  <2> QED BY <2>1, <2>2
<1>2. Commanded(emergencies, released, charges, final, reached) = [d \in Devices |-> told(d)]
  BY DEF Commanded
<1> QED BY <1>1, <1>2

LEMMA CycleKeepsSafe ==
  ASSUME CareSafe, NEW reached \in SUBSET Devices, NEW export \in BOOLEAN,
         NEW bound \in BOOLEAN, NEW wish \in {"idle", "charge", "discharge"},
         Cycle(reached, export, bound, wish), UNCHANGED <<plant, selected, settings>>,
         due' \in BOOLEAN, events' \in 0..MaxEvents
  PROVE  CareSafe'
<1> DEFINE latches == NextLatches
           emergencies == EmergencyTargets(latches)
           cellMarked == marks.cell \cup (emergencies \cap reached)
           cellOver == EmergencyOver(latches, cellMarked)
           answers == Answers(bound)
           charges == CareTargets(latches, answers, export)
           careMarked == marks.care \cup (charges \cap reached)
           taken == Taken(latches, careMarked)
           careOver == CareOver(latches, answers, careMarked)
           decision == Decision(latches, answers, wish)
           blocked == NextBlock(block, volt[selected], settings.protect)
           regular == decision # "emergency" /\ MeasuredCharge
           full == soc[selected] >= Full
           locked == NextLock(lock, latches[selected].on, regular, volt[selected],
                              soc[selected], full, settings.protect)
           final == Filtered(decision, blocked \/ lock.locked \/ locked.locked)
           cellMarks == cellMarked \ Unmarked(cellOver, reached)
           careMarks == careMarked \ (taken \cup Unmarked(careOver, reached))
           told == Commanded(emergencies, cellOver \cup careOver, charges, final, reached)
<1>1. CareTypeOK /\ MarkedWhileCharging
  BY DEF CareSafe
<1>2. /\ latch' = latches /\ block' = blocked /\ lock' = locked
      /\ record' = [d \in Devices |-> answers[d].record]
      /\ days' = [d \in Devices |-> IF answers[d].completed THEN 0 ELSE days[d]]
      /\ marks' = [cell |-> cellMarks, care |-> careMarks]
      /\ setpoint' = told
      /\ dropped' = {d \in (dropped \cup taken) \ (cellMarks \cup careMarks) :
                        setpoint'[d] \in {"charge", "emergency"}}
      /\ owed' = (settings.protect /\ (latches[selected].on \/ owed))
  BY DEF Cycle
<1>3. settings.protect \in BOOLEAN /\ settings.maintain \in BOOLEAN
      /\ settings.control \in BOOLEAN
  BY <1>1 DEF CareTypeOK, Switches
<1>4. selected \in Devices /\ \A d \in Devices : volt[d] \in Levels
  BY <1>1 DEF CareTypeOK, Levels
<1>5. latches \in [Devices -> Latches]
  <2>1. \A d \in Devices : NextLatch(latch[d], volt[d], settings.protect) \in Latches
    BY <1>1, <1>3, <1>4, NextLatchType DEF CareTypeOK
  <2> QED BY <2>1 DEF NextLatches
<1>6. latches[selected].on \in BOOLEAN
  BY <1>4, <1>5 DEF Latches
<1>7. \A d \in Devices : answers[d].record \in Records /\ answers[d].completed \in BOOLEAN
  <2>1. TAKE d \in Devices
  <2> DEFINE o == [enabled |-> settings.maintain,
                   free |-> d \in ready /\ settings.control /\ ~settings.manual,
                   full |-> soc[d] >= Full,
                   settled |-> ~(Charging(d) /\ soc[d] < Top),
                   window |-> Window(window = "pv", window = "price", bound /\ d = selected)]
  <2>2. answers[d] = Evaluate(record[d], days[d], o)
    BY DEF Answers
  <2>3. o.enabled \in BOOLEAN
    BY <1>3
  <2>4. record[d] \in Records
    BY <1>1 DEF CareTypeOK
  <2> HIDE DEF o, answers
  <2> QED BY <2>2, <2>3, <2>4, EvaluateType
<1>8. emergencies \subseteq Devices /\ charges \subseteq Devices
  BY DEF EmergencyTargets, CareTargets, Requested, Peers
<1>9. marks.cell \subseteq Devices /\ marks.care \subseteq Devices
      /\ marks = [cell |-> marks.cell, care |-> marks.care]
  BY <1>1 DEF CareTypeOK
<1>10. decision \in {"emergency", "charge", "idle", "discharge"}
  BY DEF Decision
<1>11. final \in Setpoints
  BY <1>10 DEF Filtered, Setpoints
<1>12. lock \in Locks /\ (lock.seen => lock.locked)
  BY <1>1 DEF CareTypeOK, Locks
<1>13. regular \in BOOLEAN /\ full \in BOOLEAN
  OBVIOUS
<1>14. block \in BOOLEAN /\ owed \in BOOLEAN
  BY <1>1 DEF CareTypeOK
<1> HIDE DEF regular, full
<1>15. locked \in Locks /\ (locked.seen => locked.locked)
  BY <1>3, <1>4, <1>6, <1>12, <1>13, NextLockType
<1>16. blocked \in BOOLEAN
  BY <1>3, <1>4, <1>14, NextBlockType
<1>17. owed' \in BOOLEAN
  BY <1>2
<1>18. told \in [Devices -> Setpoints]
  BY <1>1, <1>11, CommandedType
<1>19. /\ cellOver \subseteq cellMarked
       /\ careOver \subseteq careMarked
       /\ careOver \cap charges = {}
       /\ taken \subseteq careMarked
  BY DEF EmergencyOver, CareOver, CareTargets, Taken
<1>20. emergencies \cap cellOver = {}
  BY DEF EmergencyTargets, EmergencyOver
<1> HIDE DEF latches, emergencies, cellOver, answers, charges, taken, careOver, decision,
             blocked, locked, final, told
<1>21. cellMarks \subseteq Devices /\ careMarks \subseteq Devices /\ taken \subseteq Devices
  BY <1>8, <1>9, <1>19
<1>22. record' \in [Devices -> Records]
  BY <1>2, <1>7
<1>23. days' \in [Devices -> Days]
  <2>1. days \in [Devices -> Days] /\ 0 \in Days
    BY <1>1, MaintenanceAssumption DEF CareTypeOK, Days
  <2> QED BY <1>2, <2>1
<1>24. marks' \in [cell : SUBSET Devices, care : SUBSET Devices]
  BY <1>2, <1>21
<1>25. dropped' \subseteq Devices
  <2>1. dropped \subseteq Devices
    BY <1>1 DEF CareTypeOK
  <2> QED BY <1>2, <1>21, <2>1
<1>26. CareTypeOK'
  <2>1. /\ volt' \in [Devices -> Voltages \cup {NoVoltage}] /\ soc' \in [Devices -> 0..Top]
        /\ weak' \in Devices /\ ready' \subseteq Devices /\ window' \in Windows
        /\ selected' \in Devices /\ settings' \in Switches
    BY <1>1 DEF CareTypeOK, plant
  <2>2. latch' \in [Devices -> Latches] /\ setpoint' \in [Devices -> Setpoints]
    BY <1>2, <1>5, <1>18
  <2>3. lock' \in [locked : BOOLEAN, seen : BOOLEAN] /\ (lock'.seen => lock'.locked)
    BY <1>2, <1>15 DEF Locks
  <2>4. block' \in BOOLEAN
    BY <1>2, <1>16
  <2> QED BY <1>17, <1>22, <1>23, <1>24, <1>25, <2>1, <2>2, <2>3, <2>4 DEF CareTypeOK
<1>27. MarkedWhileCharging'
  <2> SUFFICES ASSUME NEW d \in Peers, d \notin dropped', Charging(d)',
                      d \notin cellMarks \cup careMarks
               PROVE  FALSE
    <3>1. Peers' = Peers
      BY DEF Peers
    <3>2. marks'.cell = cellMarks /\ marks'.care = careMarks
      BY <1>2
    <3> QED BY <3>1, <3>2 DEF MarkedWhileCharging
  <2>1. told[d] \in {"charge", "emergency"}
    BY <1>2 DEF Charging
  <2>2. d \notin dropped /\ d \notin taken
    BY <1>2, <2>1
  <2>3. Charging(d) => d \in marks.cell \cup marks.care
    BY <1>1, <2>2 DEF MarkedWhileCharging
  <2>4. d \in marks.cell \cup marks.care => d \in reached /\ d \in cellOver \cup careOver
    BY <2>2 DEF Unmarked
  <2>5. told[d] = setpoint[d] => d \in reached /\ d \in cellOver \cup careOver
    BY <2>1, <2>3, <2>4 DEF Charging
  <2>6. d \in reached
    BY <2>5, CommandedPeer DEF told
  <2>7. d \notin charges
    BY <1>19, <2>2, <2>6 DEF Unmarked
  <2>8. d \notin cellOver \cup careOver
    BY <2>1, <2>6, <2>7, CommandedPeer DEF told
  <2>9. d \notin emergencies
    BY <2>6, <2>8 DEF Unmarked
  <2> QED BY <2>5, <2>6, <2>7, <2>8, <2>9, CommandedPeer DEF told
<1> QED BY <1>26, <1>27 DEF CareSafe

-----------------------------------------------------------------------------
(* Every step                                                              *)

LEMMA CareInitSafe == CareInit => CareSafe
<1> SUFFICES ASSUME CareInit PROVE CareSafe
  OBVIOUS
<1>1. NewRecord \in Records /\ Never \in Days
  BY DEF NewRecord, Records, Days
<1>2. ResumeSoc \in 0..Top
  BY CellAssumption, CareAssumption
<1>3. CareTypeOK
  <2>1. /\ volt \in [Devices -> Voltages \cup {NoVoltage}]
        /\ soc \in [Devices -> 0..Top]
        /\ weak \in Devices /\ selected \in Devices
        /\ ready \subseteq Devices /\ window \in Windows
    BY <1>2, CareAssumption DEF CareInit
  <2>2. settings \in Switches /\ lock = [locked |-> FALSE, seen |-> FALSE]
    BY DEF CareInit, Switches
  <2>3. lock \in [locked : BOOLEAN, seen : BOOLEAN] /\ (lock.seen => lock.locked)
    BY <2>2
  <2>4. latch \in [Devices -> Latches] /\ record \in [Devices -> Records]
        /\ days \in [Devices -> Days]
    BY <1>1, NoLatchType DEF CareInit
  <2>5. marks \in [cell : SUBSET Devices, care : SUBSET Devices]
    BY DEF CareInit
  <2>6. setpoint \in [Devices -> Setpoints]
    BY DEF CareInit, Setpoints
  <2>7. dropped \subseteq Devices /\ events \in 0..MaxEvents
    BY CareAssumption DEF CareInit
  <2>8. block \in BOOLEAN /\ owed \in BOOLEAN /\ due \in BOOLEAN
    BY DEF CareInit
  <2> QED BY <2>1, <2>2, <2>3, <2>4, <2>5, <2>6, <2>7, <2>8 DEF CareTypeOK
<1>4. MarkedWhileCharging
  BY DEF CareInit, MarkedWhileCharging, Charging, Peers
<1> QED BY <1>3, <1>4 DEF CareSafe

\* Events are counted up to their bound.
LEMMA EventType == ASSUME CareTypeOK, Event PROVE events' \in 0..MaxEvents
BY CareAssumption DEF CareTypeOK, Event

\* The invariant follows from the types where selection, marks and commands
\* stand.
LEMMA MarksStand ==
  ASSUME CareSafe, CareTypeOK', UNCHANGED <<selected, marks, setpoint, dropped>>
  PROVE  CareSafe'
BY DEF CareSafe, MarkedWhileCharging, Charging, Peers

LEMMA CareStep == ASSUME CareSafe, [CareNext]_vars PROVE CareSafe'
<1>0. CareTypeOK
  BY DEF CareSafe
<1>1. CASE CareCycle
  <2>1. PICK reached \in SUBSET Devices, export \in BOOLEAN, bound \in BOOLEAN,
             wish \in {"idle", "charge", "discharge"} :
          /\ IF reached = Devices THEN UNCHANGED events ELSE Event
          /\ Cycle(reached, export, bound, wish)
    BY <1>1 DEF CareCycle
  <2>2. events' \in 0..MaxEvents
    BY <1>0, <2>1, EventType DEF CareTypeOK
  <2>3. due' \in BOOLEAN /\ UNCHANGED <<plant, selected, settings>>
    BY <1>1 DEF CareCycle
  <2> QED BY <2>1, <2>2, <2>3, CycleKeepsSafe
<1>2. CASE Tick
  <2>1. /\ latch' = [d \in Devices |-> Aged(latch[d])]
        /\ record' = [d \in Devices |-> Waited(record[d])]
        /\ due' = TRUE
        /\ UNCHANGED <<plant, selected, settings, block, lock, days, marks, setpoint,
                       dropped, owed, events>>
    BY <1>2 DEF Tick
  <2>2. latch' \in [Devices -> Latches]
    BY <1>0, <2>1, AgedType DEF CareTypeOK
  <2>3. record' \in [Devices -> Records]
    BY <1>0, <2>1, WaitedType DEF CareTypeOK
  <2>4. CareTypeOK'
    BY <1>0, <2>1, <2>2, <2>3 DEF CareTypeOK, plant
  <2> QED BY <2>1, <2>4, MarksStand
<1>3. ASSUME NEW d \in Devices, Flow(d) PROVE CareSafe'
  <2> DEFINE next == IF Charging(d) THEN Min({soc[d] + 1, Top})
                     ELSE IF setpoint[d] = "discharge" THEN Max({soc[d] - 1, 0}) ELSE soc[d]
  <2>1. soc[d] \in 0..Top
    BY <1>0 DEF CareTypeOK
  <2>2. next \in 0..Top
    BY <2>1, CareAssumption, SmallerOfTwo, LargerOfTwo
  <2>3. soc' = [soc EXCEPT ![d] = next]
    BY <1>3 DEF Flow
  <2> HIDE DEF next
  <2>4. soc' \in [Devices -> 0..Top]
    BY <1>0, <2>2, <2>3 DEF CareTypeOK
  <2>5. owed' \in BOOLEAN
    BY <1>3 DEF Flow
  <2>6. UNCHANGED <<volt, weak, ready, window, selected, settings, care, setpoint, dropped,
                    due, events>>
    BY <1>3 DEF Flow
  <2>7. CareTypeOK'
    BY <1>0, <2>4, <2>5, <2>6 DEF CareTypeOK, care
  <2> QED BY <2>6, <2>7, MarksStand DEF care
<1>4. CASE ChangeVoltage
  <2>1. PICK v \in Voltages \cup {NoVoltage} : volt' = [volt EXCEPT ![weak] = v]
    BY <1>4 DEF ChangeVoltage
  <2>2. UNCHANGED <<soc, weak, ready, window, selected, settings, care, setpoint, dropped, owed,
                    due, events>>
    BY <1>4 DEF ChangeVoltage
  <2>3. volt' \in [Devices -> Voltages \cup {NoVoltage}]
    BY <1>0, <2>1 DEF CareTypeOK
  <2>4. CareTypeOK'
    BY <1>0, <2>2, <2>3 DEF CareTypeOK, care
  <2> QED BY <2>2, <2>4, MarksStand DEF care
<1>5. CASE ChangeWindow
  <2>1. CareTypeOK'
    BY <1>0, <1>5 DEF ChangeWindow, CareTypeOK, care
  <2> QED BY <1>5, <2>1, MarksStand DEF ChangeWindow, care
<1>6. CASE DaysPass
  <2> DEFINE older(d) == IF days[d] = Never THEN Never ELSE Min({days[d] + 1, Overdue})
  <2>1. \A d \in Devices : days[d] \in Days
    BY <1>0 DEF CareTypeOK
  <2>2. ASSUME NEW d \in Devices PROVE older(d) \in Days
    <3>1. CASE days[d] = Never
      BY <3>1 DEF Days
    <3>2. CASE days[d] # Never
      <4>1. days[d] \in 0..Overdue
        BY <2>1, <3>2 DEF Days
      <4>2. Min({days[d] + 1, Overdue}) \in 0..Overdue
        BY <4>1, MaintenanceAssumption, SmallerOfTwo
      <4> QED BY <3>2, <4>2 DEF Days
    <3> QED BY <3>1, <3>2
  <2>3. days' = [d \in Devices |-> older(d)]
    BY <1>6 DEF DaysPass
  <2> HIDE DEF older
  <2>4. days' \in [Devices -> Days]
    BY <2>2, <2>3
  <2>5. CareTypeOK'
    BY <1>0, <1>6, <2>4 DEF DaysPass, CareTypeOK, plant
  <2> QED BY <1>6, <2>5, MarksStand DEF DaysPass
<1>7. ASSUME NEW d \in Devices, ChangeReadiness(d) PROVE CareSafe'
  <2>1. events' \in 0..MaxEvents
    BY <1>0, <1>7, EventType DEF ChangeReadiness
  <2>2. ready' \subseteq Devices
    BY <1>0, <1>7 DEF ChangeReadiness, CareTypeOK
  <2>3. UNCHANGED <<volt, soc, weak, window, selected, settings, care, setpoint, dropped, owed,
                    due>>
    BY <1>7 DEF ChangeReadiness
  <2>4. CareTypeOK'
    BY <1>0, <2>1, <2>2, <2>3 DEF CareTypeOK, care
  <2> QED BY <2>3, <2>4, MarksStand DEF care
<1>8. ASSUME NEW s \in {"control", "manual", "protect", "maintain"}, ChangeSetting(s)
      PROVE  CareSafe'
  <2>1. events' \in 0..MaxEvents
    BY <1>0, <1>8, EventType DEF ChangeSetting
  <2>2. settings' \in Switches
    BY <1>0, <1>8 DEF ChangeSetting, CareTypeOK, Switches
  <2>3. UNCHANGED <<plant, selected, care, setpoint, dropped, owed, due>>
    BY <1>8 DEF ChangeSetting
  <2>4. CareTypeOK'
    BY <1>0, <2>1, <2>2, <2>3 DEF CareTypeOK, care, plant
  <2> QED BY <2>3, <2>4, MarksStand DEF care
<1>9. CASE Reselect
  <2>1. events' \in 0..MaxEvents
    BY <1>0, <1>9, EventType DEF Reselect
  <2>2. /\ selected' \in Peers /\ owed' = FALSE /\ due' = TRUE
        /\ dropped' = IF Charging(selected) /\ selected \notin marks.cell \cup marks.care
                      THEN dropped \cup {selected} ELSE dropped
        /\ UNCHANGED <<plant, settings, care, setpoint>>
    BY <1>9 DEF Reselect
  <2>3. CareTypeOK'
    BY <1>0, <2>1, <2>2 DEF CareTypeOK, care, plant, Peers
  <2>4. MarkedWhileCharging'
    <3> SUFFICES ASSUME NEW d \in Devices, d \notin dropped', Charging(d)
                 PROVE  d \in marks.cell \cup marks.care
      BY <2>2 DEF MarkedWhileCharging, Charging, Peers, care
    <3>1. CASE d = selected
      BY <2>2, <3>1
    <3>2. CASE d # selected
      BY <2>2, <3>2 DEF CareSafe, MarkedWhileCharging, Peers
    <3> QED BY <3>1, <3>2
  <2> QED BY <2>3, <2>4 DEF CareSafe
<1>10. CASE UNCHANGED vars
  BY <1>0, <1>10, MarksStand DEF CareTypeOK, vars, care, plant
<1> QED BY <1>1, <1>2, <1>3, <1>4, <1>5, <1>6, <1>7, <1>8, <1>9, <1>10 DEF CareNext

\* A peer that the coordinator told to charge, for its cells or for its
\* maintenance, stands in the persisted marks from then on until a release
\* has reached it (per_system_cell_protection_command_active and
\* per_system_maintenance_command_active in coordinator.py), for any number
\* of devices and any failures of their commands; the exceptions are those
\* counted in dropped.
THEOREM ChargingPeersAreMarked == CareSpec => []CareSafe
<1>1. CareInit => CareSafe
  BY CareInitSafe
<1>2. CareSafe /\ [CareNext]_vars => CareSafe'
  BY CareStep
<1> QED BY <1>1, <1>2, PTL DEF CareSpec
=============================================================================
