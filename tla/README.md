# Formal model of Battery SmartFlow AI

This directory keeps TLA+ specifications of Battery SmartFlow AI: what a regulation cycle decides and
what it keeps for later ones, how it looks after the batteries, what the native runtime reads from the
devices, and whether a command may be written, what became of it, and who may write. TLC checks them on
small instances; theorems about the native runtime, the cycle's decisions, its care and what it keeps are
proved with TLAPS for every value of the constants.

`PROJECT.json` lists the components, the runs, the source lines behind every definition, the
hazards the properties are aimed at, the findings and the theorems. Paths below are relative to
`src/custom_components/battery_smartflow_ai/`.

## 1. The system

Battery SmartFlow AI is a Home Assistant integration. A *coordinator* runs a regulation cycle
every few seconds: it collects sensor values, lets strategy and regulation decide a setpoint,
builds a neutral device command and hands it to a backend. With the native backend the command
goes through `NativeZendureRuntime` to a Zendure device over one of three transports: ZenSDK (HTTP
on the event loop), Cloud MQTT or Local MQTT (Paho sessions with their own threads). Reports come
back over the same transports, are normalized and fused into the state that the next cycle and the
command verification use.

```
 one cycle of the coordinator
   protection, maintenance ─> commands to other devices                    BatteryCare
   rules ─> filters, holds ─> charge binding ─> intent                     StrategyCycle
   intent ─> arbiter ─> power controller ─> command builder                RegulationCycle
   energy, money, ledger, plans, latches, season, repetitions ─> later     CycleMemory
   command ─> group allocation, hand-over ─> device commands               GroupHandover
                                                     │
 coordinator ─ command ─> NativeZendureRuntime ─> NativeDeviceCommandGate ─> NativeTransportRouter
     ^                      │  _write_lock            │ HEMS gate                 │ lease, generation
     │                      │  standby task           v                           v
     │                      │                  ZendureHemsCommandGate     adapter of the transport
  snapshot <─ normalizer <─ intake <─ deque <─ transport (Paho thread / POST)     │
                                        │                                        v
                                        └── observe ──> NativeCommandVerificationManager
```

### Inventory

| Component | State | Operations | Correct means |
|---|---|---|---|
| Decision engine (`decision_engine.py`, `strategy_adapter.py`) | none between cycles | collect, reject, select | protections and emergencies win; a waiting plan keeps others out |
| Filters and charge binding (`coordinator.py`, `charge_commit_policy.py`) | the persisted binding: type, phase, target, deadline, stall timer; grace of the grid | hold, linger, `_apply_charge_commit`, abort, yield, `_enter_safe_idle` | grid energy is bought only below target and discharge price; a pause has hysteresis; every binding ends |
| Arbiter and power controller (`mode_arbiter.py`, `regulation_power_controller.py`, `grid_history.py`) | regulation state, latch starts, overshoot hold, last mode change, stable cycles | evaluate, calculate, `_update_regulation_runtime_state` | blocked discharging stops output; holds end; a lasting surplus is charged |
| Command building and result (`device_command.py`, `command_execution_state.py`, `manual_standby.py`) | last mode and powers, manual stop | build, confirm, stop | what is stored is what was accepted |
| Group control (`shadow_allocator.py`, `coordinator.py`) | members, lead, last targets, pending hand-over (persisted) | allocate, lead, hand-over, pause, stop | members do not oppose each other; circuits hold; hand-overs end |
| Battery protection (`battery_protection.py`, `coordinator.py`) | emergency latch per device, discharge block, discharge lock | per cycle | emergencies charge; locks open again, and not too early |
| Full-charge maintenance (`core/full_charge_maintenance.py`, `full_charge_maintenance_*.py`) | record per device, marks of charging devices | evaluate, command, release | overdue batteries are charged; charges BSFAI started are ended |
| Command verification (`native_command_verification.py`) | commands in insertion order, index of the active one per device and target, failure counters | prepare, gate, sent, transport_result, observe_readback, readback_timeout, effect, cancel | the index names live commands only; one failure per command; nothing still awaited is forgotten; cancelled is never written |
| Command adapters (`hardware/zendure/*_commands.py`) | the write set under way, readback timers | execute, observe, expire | confirmation only after a matching fresh report; every command is eventually decided |
| Write authority (`native_transport_router.py`) | snapshot: device, transport, generation, synchronized | select, update_readiness, execute | one writer per generation; authority that ended is never used again |
| Runtime, serialised commands and persistent standby (`native_zendure_runtime.py`) | `_write_lock`, the standby task and generation per device | async_execute_device_command, `_cancel_…`, `_schedule_…`, `_async_smart_mode_standby` | a newer active target wins; nobody waits for ever |
| Runtime, intake of reports | deques of the transports, cursors, startup capture | `_consume_captured_messages`, `_consume_messages`, `_consume_local_messages` | each report once, in order, none lost |
| HEMS protection (`hardware/zendure/hems*.py`) | monitoring, age of observation and of the last heartbeat, last decision | set_monitoring, observe_energy, measurement, gate update | no command while HEMS may control the device; control returns afterwards |
| MQTT transports (`hardware/zendure/cloud_mqtt.py`, `local_mqtt.py`) | connection state, session, start/connect/reconnect tasks, callbacks | async_start, async_stop, handlers, `_reconnect`, `_complete_connection` | one session; CONNECTED means subscribed; a stop is final; reconnects eventually |
| ZenSDK polling (`native_zendure_runtime.py`, `hardware/zendure/zensdk.py`) | failures, next poll, last success per device | `_schedule_zensdk_poll`, reads of the write test, `_zensdk_health` | a device shown as available has answered lately; a reachable one recovers |
| First write test (`native_zendure_runtime.py`, `hardware/zendure/first_write.py`) | original value, phase, verdict | write, readback, restore | "restored" is said only of a restored device; the test ends |
| Packs (`hardware/zendure/normalizer.py`, `pack_inventory.py`, `native_source_fusion.py`) | membership and candidate per transport and fused | complete and grouped reports | packs of two mountings are never mixed; the shown packs follow the mounted ones |
| Values of several transports (`native_source_fusion.py`, `native_read_source.py`) | value, age, retained flag and online state per transport | report, selection | a value shown as valid was true lately; a reported value is shown again |
| Native command gate (`native_device_command_gate.py`) | none | evaluate, execute | limits and capabilities respected, first failing reason wins |
| Energy and money (`coordinator.py`, `economics.py`) | day, totals, baseline of the last sample (persisted) | sample, pause, restart | counted energy is awake time of that day, money is its value |
| Charge ledger (`coordinator.py`, `charge_economics.py`, `soc_plausibility.py`, `soc_sensor_grace.py`) | SoC that counts, outlier, evidence, average price (persisted) | read, reuse, miss, reset | the average consists of prices paid; a lasting reading is believed; one bad reading clears nothing |
| Split of a charge (`charge_source_allocator.py`, `charge_economics.py`) | command of the AC input | allocate, classify | limits of input and battery; what was requested as grid energy is priced as such |
| Plans from prices (`learned_planning.py`, `decision_engine.py`, `automatic_strategy.py`) | permission of the reserve charge; everything else is rebuilt each cycle | plan, allow | the rebuilt plan keeps its reach and its window; the deadline lies behind an active peak |
| PV charge latch, passthrough, season (`decision_engine.py`, `coordinator.py`) | start and stop counts; start, exports, power; tendency | per cycle | closed and opened for a reason, in time; nights do not end a summer |
| Command effectiveness (`command_effectiveness.py`) | misses, retries, time of the last | per cycle | repeated only when confirmed, apart and boundedly; given up in the end |
| Learned statistics, market prices | samples, price slots | numeric | outside of model checking |
| Debug recorder, entities, configuration, migration | files, forms | I/O and presentation | mostly outside of model checking |

### Where it is hard

* **Long sequences.** Bindings, latches, holds, locks, marks and hand-overs live over many cycles and
  across restarts, and each cycle may see other prices, protections, readings and settings.
* **Layers with their own memory.** Strategy, protection, arbiter, controller and group control each
  remember what they did and may contradict each other for a few cycles.
* **Threads and the event loop.** Paho runs a network thread per session; `asyncio.to_thread` runs
  connects, subscriptions and Cloud/Local writes. Handlers of the loop interleave with all of them,
  and cancelling the awaiting task does not stop the thread.
* **Awaits between check and use.** Generation, readiness, freshness and setpoints are judged
  before an await and relied upon afterwards; a group is commanded one device after the other.
* **Order of results.** Transport result, report, timeout and physical effect of one command arrive
  in any order, and commands to the same target overlap.
* **Losses.** Lost links, refused connects, missing SUBACKs, unanswered POSTs; heartbeats nobody
  listened to; refused, partial and raising commands.
* **Several sources.** Transports lag, replay, disagree and fall silent; poll loop and write test read the same
  devices; a meter and a sensor show this cycle or the last one.
* **Bounds.** Deques, histories, counters and sessions at their limits, midnight and restarts in between.

`PROJECT.json` lists these hazards at their source lines, with the properties that cover each.

## 2. Modules

| Module | Models | Uses |
|---|---|---|
| `StrategyCycle`, `StrategyCycleProofs` | decision engine, filters, holds and charge binding; theorems | – |
| `RegulationCycle`, `RegulationCycleProofs` | grid history, arbiter, power controller, command, run-time state; theorems | – |
| `GroupAllocation` | allocation over circuits and lead device, as operators | – |
| `GroupHandover`, `MCGroupHandover`, `GroupHandoverProofs` | group cycles with awaited commands, devices, restarts; instance; theorems | `GroupAllocation` |
| `CellProtection` | emergency latch, discharge block and lock, as operators | – |
| `FullChargeMaintenance` | maintenance planner, as operators | – |
| `BatteryCare`, `BatteryCareProofs` | one cycle's care for several devices, composing both; theorem | `CellProtection`, `FullChargeMaintenance` |
| `EnergyAccounting` | counted energy and its value over days, pauses and restarts | – |
| `ChargeLedger` | SoC plausibility, price evidence, average charge price and its reset | – |
| `ChargeSplit` | split of a charge between native PV, AC PV and grid, and its pricing | – |
| `PricePlan` | learned plan, reserve and classic charge over a day of prices | – |
| `PvChargeLatch` | hysteresis of the PV charge, lagging meters, other batteries | – |
| `HousePassthrough` | passthrough of PV of a clipped device | – |
| `SeasonDetection` | summer and winter | – |
| `CommandEffectiveness` | noticing and repeating commands without effect | – |
| `CycleMemory`, `CycleMemoryProofs` | the eight above together; theorems | the eight above |
| `CommandVerification` | `NativeCommandVerificationManager`, callers arbitrary | – |
| `CommandDispatch` | ZenSDK, Cloud and Local adapters over the manager | `CommandVerification` |
| `WriteLease` | **abstract** single-writer lease and what it promises | – |
| `TransportRouter` | `NativeTransportRouter` with concurrent callers | `WriteLease` (refinement mapping) |
| `SmartModeStandby` | serialised commands and the delayed standby task | – |
| `ReportIntake` | capture and consumption of the transports' deques | – |
| `HemsProtection` | heartbeat tracker and HEMS gate | – |
| `MqttConnection` | connection state machine of the MQTT transports with Paho sessions | – |
| `DevicePolling` | poll loop and write test reading devices over HTTP | – |
| `FirstWriteTest` | one write, its readback and its restore | – |
| `NativeRuntime`, `NativeRuntimeProofs` | the seven components of the runtime together; theorems | the seven above |
| `PackInventory` | packs of a device, per transport and fused | – |
| `SourceFusion` | one property over several transports | – |
| `NativeReadings` | both together | `PackInventory`, `SourceFusion` |
| `NativeDeviceProofs` | theorems about commands and readings of a device | `CommandDispatch`, `NativeReadings` |
| `FiniteSums` | lemmas on sums and least members of finite sets | – (used by `GroupHandoverProofs`, `CycleMemoryProofs`) |

`NativeRuntime`, `NativeReadings` and `CycleMemory` compose components that run on the same event loop and meet
the same inputs, but of which none reads a variable of another one: what they exchange (messages,
readiness, answers, requests, prices, powers) is an input that may take any value at any time. A
behaviour follows one of them (`part`) with every input it may get; the others rest. That covers what a
product of their states would, as far as each component is concerned.

Operators commented `defect:` are variants of the definition next to them with a plausible
programming error. They are part of no specification; each shows that some property notices it.

### Correspondence with the code

**StrategyCycle.** A decision is its reason; `Offered`, `Rejected` and `Decide` are the rules, the
rejection and the selection by priority (`Ranking`). `Filtered`, `Held` and `Lingers` are the
coordinator's filters, the discharge hold and the PV hold, in this order. `Bind` is
`_apply_charge_commit`: `Abort`, `PhaseOf`, `Yields` and `NewBinding` are the helpers it calls.
`HoldGap` and `SafeIdle` are the two early ends of a cycle. Prices and SoC are ranks; the
thresholds derived from the price curve are constants in the order the code guarantees. What the
installation is like in a cycle is a set of `Conditions`. Left out: the strict PV filter at low SoC,
the application of maintenance (in `BatteryCare`), the morning transition, the start counters of PV
charging (in `PvChargeLatch`), the forecast outlook, and replacing the plan after its deadline (in `PricePlan`).

**RegulationCycle.** Starts from any sequence of intents. `Arbitrate` is `ModeArbiter.evaluate` with
its holds in the order of the code; an exact power is any value the step limits and caps admit
(`FinalPowers`). `UpdateRuntime` is `_update_regulation_runtime_state`, `Execute` what
`confirmed_command_state_updates` makes of a result: a native entry has no AC-mode entity, so the
builder always writes mode and side, and the runtime may drop a setpoint the device already shows
(`Outcomes`). `GridEvent` lets a cycle run without time passing, `SkippedCycle` and `SafeIdle` are
cycles that end early, `Restart` keeps the persisted state and loses the grid history.

**GroupHandover.** A cycle plans in one step (`Alone`, `Pause`, `Handover`, `Distribute`) and then awaits
its device commands one by one (`todo`); goal, SoC, reachability, readings and configuration change in
between. `WaitFor` is the decision to stop and wait; `newer` holds the devices observed after the
`requested_at` of their pending entry. `saved` is the document that a restart loads. One unit is 50 W:
the hand-over tolerance is one unit and the 0.5 W threshold is zero.

**BatteryCare.** `Cycle` is the path of `_async_update_data` that deals with several native devices:
emergencies first, then maintenance, then the filters for the selected device. `Commanded` applies the
commands in the order they are sent; `reached` are the devices whose commands are applied, and a
command that fails is one of the bounded events. `marks` are `cell_voltage_emergency_charge_devices`
and its maintenance counterpart. `dropped` and `owed` are history variables.

**CommandVerification.** Command ids are positions in the insertion order of `_commands`. A method
that raises or returns early is a disabled action. `observe_readback` compares its report time with
the command's `sent_at`; only that comparison (`fresh`) is kept. `_finish`, `_fail` and `_trim`
are the operators `Finish`, `Fail` and `Trim`, called where the code calls them. `CVSpec` lets
callers do anything the interface allows.

**CommandDispatch.** One *write set* is the properties one command is mapped to (the mapping itself
is a non-empty set of targets). `execute` is split at every point where something else can run:
preparing a property, the answer of the POST or publish, each transport result, the return, which
releases the lock and, on MQTT, starts the timers. On the event loop (setup `zensdk`) reports can
come in only at the await, on MQTT at any point. In the setups `zensdk` and `standby` the awaiting
task may be cancelled: the POST ends with it, a worker thread goes on without lock and timers. `RecordRaises`
is the exception of `transport_result` for a command that was superseded or forgotten meanwhile.

**TransportRouter.** `Select`, `UpdateReadiness` and `Execute` are the router's methods.
`Capture` is the runtime reading `snapshot.generation` before it waits for the gate; `revoked` records
whose captured authority ended since, which the code does not keep and the properties need.

**SmartModeStandby.** `Enter` is `async_execute_device_command` up to the lock, `StartWrite`…`Finish`
the part under it, `Poll` one round of the standby task's loop, `Task…` its call of the serialised
path. `queue` is `_write_lock` with its waiters in FIFO order. `threaded` tells Cloud MQTT from ZenSDK.
The guards under the lock (readiness, freshness, unchanged setpoints, gate) are one nondeterministic
`Skip`, because what follows depends only on whether the write starts.

**ReportIntake.** The two cursors of the code: identity of the last message (Cloud) and number of
messages seen (Local). The startup phase's traffic is assumed to fit into the deque (10 000).

**HemsProtection.** Times are ages, capped just above the window. `Refresh` is the runtime's turn
(`set_monitoring`, snapshot, gate), `Heartbeat` and `Message` what a message does at once.

**MqttConnection.** `net`, `dialing` and `closing` are Paho's loops and the worker threads; `callbacks` is the
event loop's callback queue, in order (`call_soon_threadsafe`). Each task is a phase: `starter`
(`async_start`), `connector` (`_complete_connection`), `reconnector` (`_reconnect`). `adapter` is the
session the command adapter was made with.

**DevicePolling.** `StartRead`, `Answers`, `TimesOut`, `Rejected` and `Record` are a read of several devices: it
records nothing before the slowest of them is done, so the reads of the poll loop and of the write test
overlap. `success` is the age of the recorded success, `answered` that of the true answer. A tick stands for
eight seconds, in which both addresses of a silent device time out.

**FirstWriteTest.** `Write`, the readbacks and `Restore` of `async_verify_reversible_write`, with writes
that are applied late, in order, or never, answers that are lost, and a device and HEMS that change. The
gate judges the context captured at the beginning but asks HEMS anew before each write.

**PackInventory.** `CompleteReport` and `GroupedReport` go through one transport's normalizer and the fused
stabilizer; a membership changes after it was confirmed twice. **SourceFusion** keeps value, age and
retained flag per transport; `Selected` is the arbiter's choice: within the tolerance the first by validity, fresh
before retained, and priority (`SortKey`), otherwise none.

**EnergyAccounting.** A sample carries the set of flows that have one unit of power; an interval counts up to
`MaxInterval`, what lies before midnight only in the totals. `Account` books the flows and
their values (`Priceable`: an unknown price is not booked as zero).

**ChargeLedger.** The state of charge moves at most one step of the outlier tolerance per cycle. An amount of energy
is none or some, and a mixed price is the set of prices it is mixed from. `Evaluate` is
`evaluate_soc_for_accounting`, `MayReuse` the grace, `Book` the rest of the cycle, `Unbooked` a cycle that ends before it (safe
idle for another reason than the SoC, the hold of a grid gap): the SoC and the reset count, the change does not.
`Missed` are cycles without a SoC (`soc_invalid`) and outages.

**ChargeSplit.** `Allocate` and `Classify` are the allocator and the pricing; the plant between two cycles is
`Import`, `Export` and `BatteryCharge`.

**PricePlan.** `LearnedPlan`, the reserve and the classic charge are operators over the prices of the day; a cycle
rebuilds all of them and follows one. Left out: charging losses, PV at present, the very cheap price, the
expensive price and the paid energy in the discharge threshold. The forecast is constant over the
day; a "good" outlook always waits, and a learned plan that is not ready falls back to the classic one.

**PvChargeLatch.** `Advance` is `advance_pv_charge_hysteresis`; the meter and the other battery's sensor show this cycle
or, both, the last one; the battery follows its command or does not yet. A passthrough is not kept as
`prev_discharge_w`. **HousePassthrough** is `_update_pv_houseload_passthrough` with its start gate; **SeasonDetection**
the bounded tendency with its dead band; **CommandEffectiveness** the verdict, its counters and what a restart
keeps of them.


## 3. Runs

| Run | Module | Expect | Asks |
|---|---|---|---|
| `Dispatch` | `CommandDispatch` | pass | Is the fate of a command true and decided, on the loop, in threads, with cancelled writers? |
| `Runtime` | `NativeRuntime` | pass | Is there one writer, one standby task, one session; is each report handed on once; does the gate fail closed, is health fresh and a restore real; does nobody wait for ever? |
| `Readings` | `NativeReadings` | pass | Was what is shown true, and does it settle on what is true? |
| `GroupHandover` | `MCGroupHandover` | pass | Do members never oppose each other, do circuits hold, do hand-overs end, does a pause stop everybody? |
| `Strategy` | `StrategyCycle` | pass | Where may a binding buy, do protections win, does every learned binding end? |
| `Regulation` | `RegulationCycle` | pass | Do holds and latches neither keep what must end nor block what must begin? |
| `Care` | `BatteryCare` | pass | Are charges of other devices found and ended, is maintenance completed, does the lock open? |
| `Memory` | `CycleMemory` | pass | Are energy, money and prices those of what happened, do plans stay, do latches, season and repetitions change for a reason? |
| `CareLock` | `BatteryCare` | violation | Does an emergency charge leave the discharge lock closed? |
| `LedgerReset` | `ChargeLedger` | violation | Does one transient low reading leave the charge ledger alone? |
| `SparseReports` | `PackInventory` | violation | Does the normalizer tolerate grouped reports before the first complete one? |
| `MqttLocal` | `MqttConnection` | violation | Does a Local command reach the current session? |

Many properties are conjunctions of named parts; each part has its own comment in its module:

* `Dispatch`: `FateSound` = `CDTypeOK`, `ConfirmedHasMatch`, `FailedNeverConfirmed`, `ResultsAccepted`, `WindowCloses`.
* `Runtime`: `SessionsSound`, `HemsSound`, and `RuntimeSettles` = `RequestsDecided`, `ReportsConsumed`,
  `QuietReleasesControl`, `Reconnects`, `StopCompletes`, `ReachableRecovers`, `TestEnds`.
* `GroupHandover`: `GroupSafe` = `MembersSafe`, `CircuitsHold`.
* `Strategy`: `CycleSafe` = `BindingSafe`, `ProtectionSafe`; `BindingGuarded` = `PlanKeepsOthersOut`, `PauseHasHysteresis`.
* `Regulation`: `ChargeSafe` = `RegTypeOK`, `NoChargeFromOther`, `PvEndsOnStableImport`; `SidesStartSafely` =
  `NoOutputWhileBlocked`, `PvStartsFromZeroOutput`; `HoldsEnd` = `PersistentExportCharges`, `IdleEndsHolds`.
* `Care`: `CareCompletes` = `OverdueCompletes`, `FullUnlocks`, `PeersReleased`.
* `Memory`: `AccountsSound` = `EnergySound`, `MoneySound`; `PlansSound` = `PlanTypeOK`, `DeadlineBehindActivePeak`,
  `ReservePatient`, `WaitHolds`; `PlansKept` = `LearnedKeepsReach`, `WindowStands`; `LatchesSound` = `LatchSound`,
  `PassthroughSound`; `MemorySettles` = `LatchOpens`, `EffectDecided`.

### Bounds, and why they are enough

* `Dispatch`: one device with two targets, two values, two commands, two writers, all three setups: a cancelled
  writer's thread overlaps one later write set. Keys interact only through the history, so two
  show both a superseding and an unrelated command. The history keeps one command (50 in the code), so that a command
  refuted while its set is prepared is trimmed before its transport result: `transport_result` then raises
  `KeyError` and the rest of the set gets no timers (`RecordRaises`). `ResultsAccepted` and `ReadbackDeadline` name
  this exception. `MaxAttempts` 1 makes the second attempt the one refused.
* `Runtime`, by part. Authority: two devices, two transports, two tasks, three generations, enough to lose an
  authority, give it to another, and return to the first while a task still holds it. Standby: three
  requests (target, stop, target in every order and overlap), two confirmation polls and two idle polls, instead of 6
  and 12; both kinds of transport. Intake: bursts of up to five reports, with a deque of three and eight
  reports, overrun the deque. HEMS: a window of three ticks; ages above it are indistinguishable to the code.
  Sessions: three, so two replacements, and three link losses, refusals or lost SUBACKs; a stale connect task that
  fails can end each new session in turn, so sessions are unbounded in principle, and `Reconnects` excludes the
  executions that need a fourth. Polling: two units, a data age of three ticks, one read of the write test, two
  outages: poll loop and test overlap in every order, and a device falls silent again after it
  recovered. Write test: three mishaps (a lost, late or refused step, or a change by somebody else).
* `Readings`: two mountings of three packs that share one, so that a mixture is neither; two routes that
  lag by different amounts; two changes. One property with two values farther apart than the tolerance,
  and two disturbances of a source.
* `GroupHandover`: two systems of 4 units behind a circuit of 5, goals +3 and -6: the circuit binds, both
  directions occur, a reversal needs a hand-over. `MaxEvents` 2: two changes or failures anywhere in a
  behaviour, of goal, SoC, reachability, reading, configuration, command or restart; `Follow` and `Report`
  are unbounded.
* `Strategy`: six price ranks, one in every zone between the thresholds; five SoC ranks from emergency
  to maximum; latest start and deadline one and two steps ahead. At most two `Conditions` at once in automatic,
  one outside of it, and in Autarky (`summer`) one besides a house with nothing to cover, which is what makes its
  discharge hold and its lingering PV charge bite: every test of the code looks at one or two of them.
* `Regulation`: minimum holds of one tick (two for PV charging), two stable export cycles, powers up to 3
  with steps of 2: a ramp takes two cycles, a hold outlives one, an export becomes stable in two.
* `Care`: two devices, one with varying cells, two voltage levels (cutoff and recovered) and none. SoC has
  three levels: empty, full with current, full without. One event; time, flow, voltages and windows
  change without bound. `CareLock` has one device and five SoC levels, so that a charge takes several cycles.
* `Memory`, by part. Energy: a day of three ticks and four ticks in all, one midnight, intervals that
  count, count in part and do not count. Ledger: six levels, three confirmations, as in the code, and two gaps or
  outliers. Plans: five slots with three prices each, so that ties and windows on either side of a peak occur;
  four forecasts. Latch: PV, own output, input and another battery on both sides of each threshold. Passthrough:
  a discharge limit below the minimum output and one above it. Season: a
  band of two, a day of six cycles. Repetitions: three confirmations and three retries, as in the code.
  `LedgerReset` is the ledger alone; `SparseReports` and `MqttLocal` are small instances of their modules.

Deadlock is checked for `Strategy`, `Regulation`, `Care` and `CareLock`, whose cycles never stop. The other models
stop at the bounds of their counters, and the system itself may be idle; that nothing gets stuck is stated
by the liveness properties.

### Fairness

* `Strategy`, `Regulation`, `Care`: the coordinator's timer fires again and again and a due cycle runs (in
  `Regulation` however many grid events refresh in between, hence `SF` on `Tick`); in `Strategy` time reaches the
  deadline, in `Care` current that flows changes the charge. Prices, sensors, settings and results are
  not fair: the liveness properties name what has to stay from some time on.
* `GroupHandover`: cycles are run, an awaited command returns, devices follow their setpoint and report.
* `Dispatch`: the thread goes on, publish returns (it has its own timeout), timers fire. Reports
  are *not* fair: the device may stay silent.
* `Runtime`: each clause is guarded by its part, so a component that is not followed owes nothing.
  Standby: whoever holds the lock decides its guards and gets an answer (the transports have timeouts), the
  polling loop wakes from its sleep; delivery and reports are not fair. Intake: the capture ends (hard timeout), the loop keeps
  turning. HEMS: time passes and the loop turns; `QuietReleasesControl` assumes a path that stays healthy and a
  silent HEMS from some time on. Sessions: threads end, Paho keeps reconnecting (its loop does), callbacks are run,
  sleeps and waits end; start, stop and trouble are not fair, and trouble is bounded, so the broker behaves
  eventually. Polling: the loop turns, each request is answered or times out, its result is recorded. Write test: the
  test writes and restores, and its waits are over some time.
* `Readings`: every route and every source goes on reporting, and time passes.
* `Memory`: cycles go on (`LatchNext`), and not every repetition of a command is refused (`SF` on `Repeated`); everything
  else is safety.

## 4. What the runs show

The passing runs state the properties above their definitions. The violations are disagreements of the
code with its own tests, comments and documents:

* **A lock released by the rest of an emergency charge** (`CareLock`): in the first cycle after a cell
  emergency the decision is no longer an emergency while the measured power is still that of the emergency
  charge, so the lock notes an ordinary charge (`battery_protection.py:103`) and opens in the next cycle;
  `tests/test_maintenance_431.py:568` calls this `test_emergency_charge_cannot_release_discharge_lock`.
* **A ledger cleared by one transient sample** (`LedgerReset`): after a gap of more than 300 s any reading is
  accepted (`soc_plausibility.py:57`); if it is a transient 0, the next two true ones count as outliers, the held 0
  counts on, and the third cycle clears the ledger, against `charge_economics.py:23-27`.
* **Two sparse reports end the runtime** (`SparseReports`): two grouped reports that each list one of two packs,
  before any complete one, raise `TypeError` at `hardware/zendure/normalizer.py:716`, against `pack_inventory.py:61-62`.
* **Local commands on a closed session** (`MqttLocal`): `_local_adapter` survives `_open_session`
  (`hardware/zendure/local_mqtt.py:303`), against `docs/architecture/zendure-local-mqtt-v5.0.0.md:57-58`.

### Other disagreements, stated in the modules and not run

These formulas fail when they are added to the configuration named; they stay with their modules.

* `NewestTargetWins` (`Runtime`): cancelling the standby task leaves the `asyncio.to_thread` worker running,
  so its `smartMode` write can reach the device after the newer target (`native_zendure_runtime.py:1403`,
  `hardware/zendure/cloud_mqtt.py:299`), against the comment at `native_zendure_runtime.py:1401-1402` "A new target
  cancels a pending persistent-standby write". Over ZenSDK it holds: `NewestTargetWinsByPost` is run and proved.
* `ReportsConsumed` with `Cursor = "count"` (`Runtime`): the Local cursor is the previous length of the deque; once
  the deque is full its length never grows (`native_zendure_runtime.py:2049`), against
  `docs/architecture/zendure-local-mqtt-v5.0.0.md:40-42`.
* `ConnectedIsCurrent` (`Runtime`): a sleeping `_reconnect` replaces a session that Paho connected meanwhile;
  the state stays CONNECTED over the new, unsubscribed session (`cloud_mqtt.py:574`), against
  `docs/architecture/native-power-controller-v5.0.0.md:32-33`. For the first session this cannot happen (`ReadyFirst`,
  proved).
* `UnwindBeforeIncrease` (`GroupHandover`): the cycle that completes a hand-over does not look at reductions again and
  sorts the devices of the hand-over first, so it may raise a member before another one is reduced, against
  the comment at `coordinator.py:3871-3872`. `MembersSafe` and `CircuitsHold` therefore exempt that cycle (`over`).
* `UpperLimitBlocks` (`Strategy`): an active binding replaces the decision after the upper limit made it idle
  (`_apply_charge_commit`), against `docs/user-guide.md:778` and `docs/sensoren.md:35`.
* `EvidenceEndsWithDischarge` (`LedgerReset`, as a PROPERTY): a cycle that ends in safe idle or in the hold of a grid
  gap returns (`coordinator.py:7555-7604`) after `prev_soc` moved (`:6294-6296`) and before the change is booked and
  evidence is dropped (`:7868-7942`), so evidence outlives a discharge, against the comment at `coordinator.py:7926`
  "Never carry charge evidence across a discharge interval".

### Exceptions that are reachable

Properties that pass with an exception name it:

* `ProtectionSafe` exempts a grid gap: the hold of a running discharge looks at SoC and cell protection no more.
* `LearnedBuysBelowDischarge` exempts decisions without thresholds: a lingering PV charge carries none.
* `PlanKeepsOthersOut` exempts the very cheap price. `LateNeverWaits` exempts a yielded binding, although the
  comment at `coordinator.py:2438-2446` calls phase transitions monotonic: a pause goes back to waiting.
* `NoOutputWhileBlocked` exempts the ramp of a setpoint the regulation did not know of (adopted, or left by
  a failed write).
* `CareSafe` exempts `dropped`: a mark that an emergency takes over without sending its own command, and a
  device that charges when another one is selected. `PeersReleased` assumes a cell voltage: a peer whose
  voltage never returns is never released.
* `OverdueCompletes` exempts a battery that never left its last confirmed full charge; a device that was never
  confirmed full has no deadline at all.
* `WindowCloses`: a readback handled while the worker thread still publishes is overwritten by
  `transport_ok` (`native_command_verification.py:213`). Such a command stays in flight after its
  window; it also counts as active without being indexed, so that `_trim` never removes it.
* `ReadbackDeadline` is stated for uncancelled writers. After `Abandon` in the setup `standby` the
  thread's commands get no timers (`cloud_mqtt.py:299`), and the property fails there.
* `Reconnects`: a SUBACK that is missing after a reconnect by Paho only sets `_connect_failure`, which
  nobody awaits (`cloud_mqtt.py:513`); the transport stays RECONNECTING over an open link.
* `StoppedForGood` does not say that every session is closed: a stop that cancels `async_start` while the
  dialing thread runs leaves that session's loop running (`cloud_mqtt.py:451`).
* `NoControlAfterHeartbeat` concerns heartbeats that were received. After an outage longer than the
  window commands are allowed as soon as observation resumes, since `measurement` judges by the age of
  the last activity (`hems_activity.py:49`), although the tracker's docstring speaks of a fresh quiet
  window.
* `LatchSound`: the latch of the PV charge may close without a surplus, when the own output fell in each of two
  cycles: the second fall is still in the meter when the output is already lower. The proof attempt found it.
* `PricesPaid` speaks of changes of the state of charge that were booked: evidence outlives those that were not.
* `PassthroughSound` bounds the output by the minimum output where that is above the discharge limit.
* `ClearedWhenLow` counts low readings of levels that were `checked` against a predecessor: the first one after an
  interruption is not, which is what `LedgerReset` shows.
* `LearnedKeepsReach` speaks of a plan that is used, and fits into the longest window (`SlotCap`): near its maximum a
  battery ignores its plan (`NearMax`), beyond the cap the plan drops the later slots (`learned_planning.py:1349`). `AsExpected` asks
  for the energy of the charge besides what PV was to bring. The proof attempt found the first and the last.
* `WaitHolds`: a valley charge may run at a price at which the battery would discharge, if the price is zero or the valley
  factor leaves no discount. The proof attempt found it; the charge wins by its rank.
* `SummerOutlastsNights` bounds the speed, not the fact, of a change: about 61 evaluated daylight cycles without PV end a
  summer.

### Observations

Met while modelling, and part of the models unless said otherwise:

* Manual standby does not look at the result of its stop (`coordinator.py:8837`): a refused stop counts as done and is
  never repeated.
* A member that is removed from a group which stays active is not stopped; changing the group reloads the entry
  without stops; a device that is no longer selected keeps its last setpoint.
* Readings of up to 50 W pass the tolerance for reductions and not the one of a pending hand-over.
* Maintenance and emergency commands of one peer may follow each other in a cycle, and the group's targets follow both.
* While a learned candidate outranks a discharge and its binding is refused by the price guard, the cycle is idle.
* Of the latch starts only the one of the present state is kept; safe idle keeps its age.
* The stamp of the last mode change is set even when the command then fails.
* The write test may take as "original" a setpoint reported before the last command (up to 15 s old); a test POST that
  raised although it was delivered is not restored. The gate judges the captured context, but HEMS as it is.
* Of several values, a fresh `/state` after retained properties stays marked as retained, and the online state of
  Cloud stays the one of the discovery. Retained `/state` messages would count as fresh; the model assumes that the
  devices do not retain them.
* The allocator's `grid_requested_w` and `unfilled_w` do not see that PV of the AC side uses part of the AC input
  limit; what is commanded keeps the limit all the same (`SplitSound`).
* For native entries the builder always writes mode and side, so `active_command_write_pending` is always true and
  the detector of commands without effect never repeats one; `EffectSound` says what it does for other entries.
* What the battery took up or gave in a cycle that ended early is in no charge ledger: `prev_soc` moves on (`Unbooked`).
* The passthrough is raised to its minimum output after the discharge limit, so that it exceeds a limit below 80 W
  (`coordinator.py:4970-4973`, `Limited`).
* Manual mode does not reset the passthrough's previous output (`sf800_passthrough_prev_output_w`).

## 5. What is proved

All theorems hold for every value of the constants, under the named `ASSUME`s of their modules
(sizes are natural numbers, model values differ from the sets they are not in, thresholds are in the order
the code guarantees: the thresholds of the price curve are clamped against each other where they are derived, the
reserve target is clamped by the maximum SoC (`ReserveTarget`), the limits of a device are its profile's,
the voltage at which charging may resume is one the cells can have, the valley factor is at most and the peak factor at least
100 %, and a day is as long as its price slots). The bounds on counters (`MaxCommands`, `MaxGeneration`, `MaxReports`, ...) stay
parameters; the proofs need only that they are natural. In each module the invariant that the run checks is
strengthened until every action keeps it; the added parts are what the code relies on without saying it.

**`NativeDeviceProofs`.** *`IndexSoundness`*: `IndexSound` is not inductive, since `Effect` keeps a `transport_ok`
command indexed unless its effect is still pending; `CVInv` adds `IndexPending`. The proof has a lemma per way a method
leaves a command (`KeepInv`, `FinishInv`, `FailInv`), a lemma for trimming and preparing, and one step per action.
*`CancelledCommandsStayUnsent`*, *`FailuresCountCommands`*: by the shape of a step (`StepShape`).
*`FateIsSound`*: the same manager under the adapters. `FateInv` adds why a fate is true: a confirmed command was never
counted as failed and a report carried its value (`CommandsTrue`); write sets of cancelled and of later writers share no
command and no timer runs for a set that has not returned (`WorkTrue`); without cancelled writers there is one set at a
time (`OneWriteSet`). The adapters take several steps per call, so each is a lemma over a shape of a step
(`RewriteCommands`, `RewriteWork`). *`FailuresCountedOnce`*: every step of an adapter is one of the manager, or leaves it alone.
*`PacksStayTogether`*: for any mountings and any lag of the routes, a membership is one that a
report listed. `PacksInv` adds what the fusion relies on: it meets every report that a route meets, so that without a
membership and a count of its own it knows that no route has one. *`ValidWasTrue`*: a value shown as valid was in the
device within the stale time. `KeptWasTrue` says so of what each transport keeps and did not find retained; the
arbiter's choice is one of those.

**`NativeRuntimeProofs`.** *`SingleWriter`*, of the abstract lease: no write is of a later epoch and those of the current
epoch are by its holder (`LeaseInv`). *`LeaseNeverTransferred`*, *`RevokedAuthorityNeverUsed`*: `RouterInv` says that captured
authority is at most as new as the lease and strictly older once revoked, and that whatever was sent in the current
generation went to the current synchronized holder. *`RouterImplementsLease`*: every step of the router maps to a
step of `WriteLease` or a stutter, with the synchronized device and transport as holder and the generation as epoch.
*`StandbyIsTracked`*: at most one standby task can still write for the present generation and
it is the tracked one, for any number of requests and polls. `StandbyInv` adds what the lock does (`QueueSound`: exactly those
that wait or write are queued, and only the head writes), in which order calls take it (`CallsSound`) and what a
device that holds an active target got it from (`DeviceSound`). *`PostNeverUndoes`*, an action property, follows from it: over
a transport that awaits its answer no older target replaces a newer one.
*`SessionInvHolds`*: while an MQTT transport is wanted, at most one dial, one close or one current
session is under way (`OneDial`, `OneClose`, `CurrentOnly`), a stop is marked before it waits (`StopMarked`), CONNECTED means a subscribed
first session until a replacement (`ReadyFirst`), and the adapter follows the session. *`StoppedStays`*: a
stopped transport stays stopped. *`SessionsAreSound`* has the hypothesis `~Local`: for the Local transport a part of
`SessionsSound`, `CommandsReachSession`, is violated (`MqttLocal`); all the rest of the invariant is proved for both. *`HemsGateSound`* with *`HeartbeatBlocksControl`* and *`UnobservedBlocksControl`*: type correctness and both properties are
inductive together, for every window. *`TestRestores`*: `TestInv` tracks which writes can still be on their way in each step
of the write test, and hence why an answer with the original value after the restore is the last word.
*`AvailableAnswered`*: a recorded success is never younger than the answer it stands for (`PollingInv`), although reads overlap.
*`ReportsHandedOnce`*: the deque is the latest reports without a gap (`DequeSound`) and the cursor names the end of what was
handed over (`CursorSound`), with both kinds of cursor. *`RuntimeIsSound`*, *`RuntimeNeverReverts`* and *`RuntimeImplementsLease`*
put the components together: a step of the composition is a step of one part and leaves the
variables of the others alone (`OneComponent`).

**`StrategyCycleProofs`.** *`CycleIsSafe`*, *`BindingIsGuarded`*: for any prices, thresholds and levels in the order of
`StrategyAssumption`. The proof follows a cycle: what is selected is offered and not rejected, and an emergency ranks first
(`DecideCases`, `SelectedPlain`; that `Ranking` has a best one is the least number principle), filters and lingering add nothing
that protections forbid, and `BindCases` lists the ways a binding begins, goes on or ends. The strengthening is `SourceTyped`: the type
of a binding stays that of the rule that made it, although the rule is offered no more.

**`RegulationCycleProofs`.** *`ChargeIsSafe`*, *`SidesAreSafe`*: for any holds, latches, steps and limits. `CountsSeen` is what the
properties need of the grid history: imports (exports) are counted only while the newest valid sample is one, through
cycles without a sample and restarts. `ArbitrateCases` lists the verdicts; a lemma per property says which of
them can charge, keep a PV charge or put out (`InputVerdict`, `PvVerdict`, `BlockedVerdict`), and `PowersOf` and `BuildSides` carry that to
the command.

**`BatteryCareProofs`.** *`ChargingPeersAreMarked`*: `CareSafe` is inductive, for any number of devices. Each device of a
cycle is followed through its commands: not reached it keeps setpoint and mark, told to charge it is marked, released
it is idle (`CommandedPeer`, `CycleKeepsSafe`).

**`GroupHandoverProofs`.** *`AllocationIsSound`*: for any candidates, circuits and capacities an allocation stays in the
direction of the goal and within the limits of devices and circuits, and grants no more in all than was asked. The sums are those of
the community modules; what is needed of them (`FiniteSums`) follows from the least number principle on the sizes of sets.
`Allocate` is a recursive function, and each of its steps keeps `Filled` (`StepFilled`). *`GroupIsSafe`*: `IInv` says what a setpoint that was taken
is bounded by at each point of a cycle: by zero and the stored target (`Kept`) before the cycle plans, by zero and the plan (`Planned`)
while commands are still to come, and what is to come is the plan (`Delivering`). Stored targets and plans are sound (`InvSound`), stored
targets imply a marked peer (`Marked`), and a cycle that does not complete a hand-over begins either with everybody within the plan or with a
plan that raises nobody above the stored target (`NoRise`). There is a lemma per action. The properties speak of members of the present group that took their last command:
for more devices than the instance has, the invariant fails if they speak of all, since a removed member keeps its setpoint (section 4).

**`CycleMemoryProofs`.** *`AccountsAreSound`*: `EnergyInv` relates the buckets to the time awake on that day and the money to the
energy that could be priced (`Booked`). *`LedgerIsSound`*: `LedgerInv` says that evidence holds prices charged since a
change of the SoC was last booked, that a reading that stays is believed or counted, and how far the level believed in can be from the
true one. *`LatchesAreSound`*: `LatchInv` bounds the counts of the latch by what the meter showed; `PassInv` those of the passthrough by
the time since its begin. *`EffectIsSound`*: the persisted counters are those of what happened (`EffectKept`).
*`SplitsAreSound`*: an action property about the allocation as arithmetic, with a lemma on the parts of an
allocation (`AllocationParts`). *`SummersOutlastNights`*: the tendency needs as many evaluated cycles to cross the dead band
as it is wide. *`PlansAreSound`*: a cycle makes its plan anew, so `PlanInv` is established by every cycle rather than kept. The
peak threshold is never below the average, hence some slot is no peak; the deadline is behind the slot that ends the
running peak (`PeakEnd`); the cheaper slots of a reserve charge are a part of what was summed up when it was compared. *`PlansAreKept`*, both action
properties: `PlanInv` says of the window that it is the best of those offered (`Placed`), of the need that it is what is
missing (`Sized`), and that a forced charge is left to no other rule (`ForcedRuns`). Within a tick a forced plan has charged
what it needs of it, and any other has the length of its window left; that the deadline stands makes the windows of the next cycle those
of this one but the expired, and of several nearest ones the chosen stays. The attempts corrected three
statements (section 4). `PartsStart` and `PartsStep` lift all of them to the composition.

Only model-checked:

* the liveness properties (`RuntimeSettles`, `ReadbackDeadline`, `ReadingsSettle`, `GroupSettles`, `PauseStopsMembers`,
  `LearnedEnds`, `HoldsEnd`, `EmergencyCharges`, `CareCompletes`, `MemorySettles`): they need fairness and `ENABLED`, out of reach for
  the prover used.

Every invariant and every action property that a passing run checks is a theorem.

## 6. Not modelled

* HTTP, TLS, JSON, topics and payloads, credentials, privacy filters, static device tables.
* The control law and learned statistics: questions of control quality over real
  numbers, not of reachable states. Their results appear as ranks, constants or sets of possible values.
* Market prices and grid meters: their readings are inputs.
* Entities, dashboards, forms, diagnostics, debug recorder files: presentation and I/O. They are the larger part
  of the repository's lines.
* The native command gate, whose verdict is a possible refusal in the models that call it.
* In the modelled components: what `PROJECT.json` names in the notes of its components. The cycle modules are not
  composed with each other: each takes what the others hand to it as arbitrary, which admits more than
  the program does. A crash between the commands of a cycle and its save is modelled for groups only.
* Clocks are assumed not to go backwards; the Local publish that raises and a clock for the standby's idle time
  are not in the models.

The models rest on some assumptions about the outside: a meter and the sensor of another battery lag together and by at
most one cycle, and a refused passthrough is not delivered (`PvChargeLatch`); the traffic of the startup phase fits
into the deque (`ReportIntake`); Paho's loop reconnects as its documentation says (`MqttConnection`).

## 7. Plan

1. Proofs for the compositions and modules below, with them.
2. `WriteAuthority`: runtime, router, lock and stop composed (selection, readiness, `async_stop` at
   `native_zendure_runtime.py:593`), with the Local hand-over on top; refines `WriteLease`.
3. `NativeDeviceCommandGate` with its clamping, as operators checked against a reference definition, and the learned
   history with its persistence.
4. Composition of `StrategyCycle` and `RegulationCycle` for the discharge protections, and of `BatteryCare` and
   `GroupHandover` for commands to the same device in one cycle.
5. Debug recorder sessions and configuration migration (crash and restart between steps).

Runs are kept to distinct questions; modules that compose others take over their runs.

## 8. Running the checks

`tlc -config <Run>.cfg <Module>` for each run in section 3, e.g.
`tlc -config Runtime.cfg NativeRuntime`; `tlapm <Module>Proofs.tla` for the proofs.
