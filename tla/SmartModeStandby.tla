-------------------------- MODULE SmartModeStandby --------------------------
(***************************************************************************)
(* The delayed persistent-standby write of NativeZendureRuntime             *)
(* (native_zendure_runtime.py) for one device whose model has standby value *)
(* 0: after a zero-power stop a background task watches the reported limits *)
(* and, once they stayed zero, writes smartMode = 0 through the same        *)
(* serialised command path as everybody else.  A newer active target must   *)
(* win against that write wherever it is.                                   *)
(*                                                                         *)
(* Requests of the coordinator are numbered in the order they enter         *)
(* async_execute_device_command; the standby task started by stop n is task *)
(* n.  Several requests may be in flight (a scheduled and a requested       *)
(* refresh of the coordinator overlap).  Steps of the event loop between    *)
(* two awaits are one action; taking the free lock is a step of its own,    *)
(* which only adds interleavings.                                           *)
(*                                                                         *)
(* threaded: the write runs in a worker thread (Cloud MQTT, cloud_mqtt.py   *)
(* async_execute_authorized), which survives the cancellation of the task   *)
(* that awaits it.  Otherwise it is the ZenSDK POST, which ends with it.    *)
(***************************************************************************)
EXTENDS Integers, Sequences, SequencesExt

CONSTANTS MaxRequests,   \* bound on the coordinator's requests
          ConfirmPolls,  \* polls within the confirmation timeout (30 s / 5 s)
          DelayPolls,    \* confirmed polls within the idle delay (60 s / 5 s)
          Threads        \* the kinds of transport to choose from

ASSUME PollAssumption == ConfirmPolls \in Nat /\ DelayPolls \in Nat \ {0}
ASSUME RequestAssumption == MaxRequests \in Nat
ASSUME ThreadsAssumption == Threads \subseteq BOOLEAN

Requests == 1..MaxRequests
NoTask == 0

VARIABLES threaded,  \* the write set runs in a worker thread
          entered,   \* requests so far
          calls,     \* request -> its call of async_execute_device_command
          gen,       \* _smart_mode_standby_generations[device]
          tracked,   \* _smart_mode_standby_tasks[device], NoTask when absent
          tasks,     \* request -> the standby task it started
          queue,     \* _write_lock: its holder, then the waiters in order
          orphans,   \* tasks cancelled while their worker thread still runs
          dev,       \* what the device was last told, and by which request
          report     \* the limits last reported, and the stops it predates

standbyVars ==
  <<threaded, entered, calls, gen, tracked, tasks, queue, orphans, dev, report>>

Call(n) == <<"call", n>>
Task(n) == <<"task", n>>

\* "zero": the limits are zero; "standby": and smartMode is 0
Targets == {"active", "zero", "standby"}

NewCall == [kind |-> "none", phase |-> "none", gen |-> 0, applied |-> FALSE]
NewTask == [phase |-> "none", gen |-> 0, left |-> 0, idle |-> 0, applied |-> FALSE]

Polling(g) ==
  [phase |-> "polling", gen |-> g, left |-> ConfirmPolls, idle |-> 0, applied |-> FALSE]

Alive(n) == tasks[n].phase \in {"polling", "waiting", "writing"}

StandbyInit ==
  /\ threaded \in Threads
  /\ entered = 0 /\ gen = 0 /\ tracked = NoTask /\ queue = <<>> /\ orphans = {}
  /\ calls = [n \in Requests |-> NewCall]
  /\ tasks = [n \in Requests |-> NewTask]
  /\ dev = [target |-> "active", by |-> 0]
  /\ report = [target |-> "active", before |-> {}]

(***************************************************************************)
(* _cancel_smart_mode_standby: a new generation, and the tracked task ends  *)
(* wherever it is suspended (ts is the tasks function it ends in, q the     *)
(* lock it may wait for or hold).                                           *)
(***************************************************************************)
Ended(ts, n) == IF n = NoTask THEN ts ELSE [ts EXCEPT ![n].phase = "ended"]

Without(q, n) == RemoveFirst(q, Task(n))

Survivors(n) == IF n # NoTask /\ threaded /\ tasks[n].phase = "writing"
                   /\ ~tasks[n].applied
                THEN orphans \cup {n} ELSE orphans

(***************************************************************************)
(* The coordinator's requests                                              *)
(***************************************************************************)
\* defect: an active request does not cancel the pending standby write
EnterKeeping(kind) ==
  /\ entered < MaxRequests
  /\ entered' = entered + 1
  /\ calls' = [calls EXCEPT ![entered + 1] =
                 [kind |-> kind, phase |-> "waiting", gen |-> gen, applied |-> FALSE]]
  /\ queue' = Append(queue, Call(entered + 1))
  /\ UNCHANGED <<threaded, gen, tracked, tasks, orphans, dev, report>>

\* An active target cancels the pending standby write before it waits for the
\* lock; every request then notes the generation.
Enter(kind) ==
  /\ entered < MaxRequests
  /\ entered' = entered + 1
  /\ IF kind = "active"
     THEN /\ gen' = gen + 1 /\ tracked' = NoTask
          /\ tasks' = Ended(tasks, tracked)
          /\ queue' = Append(Without(queue, tracked), Call(entered + 1))
          /\ orphans' = Survivors(tracked)
     ELSE /\ queue' = Append(queue, Call(entered + 1))
          /\ UNCHANGED <<gen, tracked, tasks, orphans>>
  /\ calls' = [calls EXCEPT ![entered + 1] =
                 [kind |-> kind, phase |-> "waiting", gen |-> gen', applied |-> FALSE]]
  /\ UNCHANGED <<threaded, dev, report>>

Holds(u) == queue # <<>> /\ Head(queue) = u

\* The holder passes the guards under the lock and starts its write; a stop
\* takes its stop_requested_at here.
StartWrite(n) ==
  /\ Holds(Call(n)) /\ calls[n].phase = "waiting"
  /\ calls' = [calls EXCEPT ![n].phase = "writing"]
  /\ report' = [report EXCEPT !.before = @ \cup {n}]
  /\ UNCHANGED <<threaded, entered, gen, tracked, tasks, queue, orphans, dev>>

\* SKIPPED: not ready, state not fresh, setpoints unchanged or gate blocked
Skip(n) ==
  /\ Holds(Call(n)) /\ calls[n].phase = "waiting"
  /\ calls' = [calls EXCEPT ![n].phase = "done"]
  /\ queue' = Tail(queue)
  /\ UNCHANGED <<threaded, entered, gen, tracked, tasks, orphans, dev, report>>

\* The write reaches the device, at most once
Deliver(n) ==
  /\ calls[n].phase = "writing" /\ ~calls[n].applied
  /\ calls' = [calls EXCEPT ![n].applied = TRUE]
  /\ dev' = [target |-> IF calls[n].kind = "active" THEN "active" ELSE "zero",
             by |-> n]
  /\ UNCHANGED <<threaded, entered, gen, tracked, tasks, queue, orphans, report>>

\* defect: the previous standby task keeps running
FinishUncancelled(n) ==
  /\ calls[n].phase = "writing" /\ calls[n].applied
  /\ calls' = [calls EXCEPT ![n].phase = "done"]
  /\ queue' = Tail(queue)
  /\ IF calls[n].kind = "stop" /\ calls[n].gen = gen
     THEN /\ tracked' = n
          /\ tasks' = [tasks EXCEPT ![n] =
                         Polling(gen)]
     ELSE UNCHANGED <<tracked, tasks>>
  /\ UNCHANGED <<threaded, entered, gen, orphans, dev, report>>

\* The transport accepted the write.  A stop schedules its standby task unless
\* the generation changed since it entered (_schedule_smart_mode_standby
\* cancels the previous task first).
Finish(n) ==
  /\ calls[n].phase = "writing" /\ calls[n].applied
  /\ calls' = [calls EXCEPT ![n].phase = "done"]
  /\ IF calls[n].kind = "stop" /\ calls[n].gen = gen
     THEN /\ gen' = gen + 1 /\ tracked' = n
          /\ tasks' = [Ended(tasks, tracked) EXCEPT ![n] =
                         Polling(gen + 1)]
          /\ queue' = Tail(Without(queue, tracked))
          /\ orphans' = Survivors(tracked)
     ELSE /\ queue' = Tail(queue)
          /\ UNCHANGED <<gen, tracked, tasks, orphans>>
  /\ UNCHANGED <<threaded, entered, dev, report>>

\* FAILED: the transport reports an error, whether or not the write arrived
FinishFailed(n) ==
  /\ calls[n].phase = "writing"
  /\ calls' = [calls EXCEPT ![n].phase = "done"]
  /\ queue' = Tail(queue)
  /\ UNCHANGED <<threaded, entered, gen, tracked, tasks, orphans, dev, report>>

(***************************************************************************)
(* The standby task                                                        *)
(***************************************************************************)
Untracked(n) == IF tracked = n THEN NoTask ELSE tracked

\* the task returns: its finally clause drops it if it is still the tracked one
TaskReturns(n) == /\ tasks' = Ended(tasks, n)
                  /\ tracked' = Untracked(n)

\* _confirmed_zero_setpoints; "unknown" also when a limit is not fresh
Confirmation(n) == IF report.target # "active" THEN "zero"
                   ELSE IF n \in report.before THEN "unknown" ELSE "active"

\* One round of the loop: a stale state, an offline runtime or another
\* transport ends it (ok = FALSE), like an active limit reported after the stop.
Poll(n, ok, fresh) ==
  LET seen == IF fresh THEN Confirmation(n) ELSE "unknown"
      t    == tasks[n]
      aged == [t EXCEPT !.left = IF @ > 0 THEN @ - 1 ELSE 0]
  IN /\ t.phase = "polling"
     /\ \/ /\ ~ok \/ t.gen # gen \/ seen = "active" \/ (seen = "unknown" /\ t.left = 0)
           /\ TaskReturns(n)
           /\ UNCHANGED queue
        \/ /\ ok /\ t.gen = gen /\ seen = "unknown" /\ t.left > 0
           /\ tasks' = [tasks EXCEPT ![n] = aged]
           /\ UNCHANGED <<tracked, queue>>
        \/ /\ ok /\ t.gen = gen /\ seen = "zero" /\ t.idle < DelayPolls
           /\ tasks' = [tasks EXCEPT ![n] = [aged EXCEPT !.idle = @ + 1]]
           /\ UNCHANGED <<tracked, queue>>
        \/ /\ ok /\ t.gen = gen /\ seen = "zero" /\ t.idle = DelayPolls
           /\ tasks' = [tasks EXCEPT ![n].phase = "waiting"]
           /\ queue' = Append(queue, Task(n))
           /\ UNCHANGED tracked
     /\ UNCHANGED <<threaded, entered, calls, gen, orphans, dev, report>>

\* Under the lock the generation is checked again before the write starts.
TaskStartWrite(n) ==
  /\ Holds(Task(n)) /\ tasks[n].phase = "waiting"
  /\ tasks[n].gen = gen
  /\ tasks' = [tasks EXCEPT ![n].phase = "writing"]
  /\ UNCHANGED <<threaded, entered, calls, gen, tracked, queue, orphans, dev, report>>

TaskSkip(n) ==
  /\ Holds(Task(n)) /\ tasks[n].phase = "waiting"
  /\ TaskReturns(n) /\ queue' = Tail(queue)
  /\ UNCHANGED <<threaded, entered, calls, gen, orphans, dev, report>>

TaskDeliver(n) ==
  /\ tasks[n].phase = "writing" /\ ~tasks[n].applied
  /\ tasks' = [tasks EXCEPT ![n].applied = TRUE]
  /\ dev' = [target |-> "standby", by |-> n]
  /\ UNCHANGED <<threaded, entered, calls, gen, tracked, queue, orphans, report>>

TaskFinish(n) ==
  /\ tasks[n].phase = "writing"
  /\ TaskReturns(n) /\ queue' = Tail(queue)
  /\ UNCHANGED <<threaded, entered, calls, gen, orphans, dev, report>>

\* A worker thread nobody awaits any more publishes its write
OrphanDeliver(n) ==
  /\ n \in orphans
  /\ orphans' = orphans \ {n}
  /\ dev' = [target |-> "standby", by |-> n]
  /\ UNCHANGED <<threaded, entered, calls, gen, tracked, tasks, queue, report>>

\* A report of the device arrives
Report ==
  /\ report' = [target |-> dev.target, before |-> {}]
  /\ UNCHANGED <<threaded, entered, calls, gen, tracked, tasks, queue, orphans, dev>>

StandbyNext ==
  \/ \E kind \in {"active", "stop"} : Enter(kind)
  \/ \E n \in Requests :
       \/ StartWrite(n) \/ Skip(n) \/ Deliver(n) \/ Finish(n) \/ FinishFailed(n)
       \/ \E ok, fresh \in BOOLEAN : Poll(n, ok, fresh)
       \/ TaskStartWrite(n) \/ TaskSkip(n) \/ TaskDeliver(n) \/ TaskFinish(n)
       \/ OrphanDeliver(n)
  \/ Report

StandbySpec == StandbyInit /\ [][StandbyNext]_standbyVars

\* Whoever holds the lock goes on: guards are decided, writes answer within
\* their timeouts, and the polling loop wakes up.
StandbyFairness ==
  \A n \in Requests :
    /\ WF_standbyVars(StartWrite(n) \/ Skip(n))
    /\ WF_standbyVars(Finish(n) \/ FinishFailed(n))
    /\ WF_standbyVars(\E ok, fresh \in BOOLEAN : Poll(n, ok, fresh))
    /\ WF_standbyVars(TaskStartWrite(n) \/ TaskSkip(n))
    /\ WF_standbyVars(TaskFinish(n))

StandbyFairSpec == StandbySpec /\ StandbyFairness

(***************************************************************************)
(* Properties                                                              *)
(***************************************************************************)
StandbyTypeOK ==
  /\ threaded \in Threads
  /\ entered \in 0..MaxRequests
  /\ calls \in [Requests -> [kind : {"none", "active", "stop"},
                             phase : {"none", "waiting", "writing", "done"},
                             gen : Nat, applied : BOOLEAN]]
  /\ gen \in Nat
  /\ tracked \in Requests \cup {NoTask}
  /\ tasks \in [Requests ->
                 [phase : {"none", "polling", "waiting", "writing", "ended"},
                  gen : Nat, left : 0..ConfirmPolls, idle : 0..DelayPolls,
                  applied : BOOLEAN]]
  /\ \A i \in DOMAIN queue : \E n \in Requests : queue[i] \in {Call(n), Task(n)}
  /\ orphans \subseteq Requests
  /\ dev \in [target : Targets, by : 0..MaxRequests]
  /\ report \in [target : Targets, before : SUBSET Requests]

\* A standby task that still runs is the tracked one and of the current
\* generation, so that the next active target reaches and cancels it.
OnlyTrackedTaskRuns ==
  \A n \in Requests : Alive(n) => tracked = n /\ tasks[n].gen = gen

\* No standby write is pending for a stop that a newer active target replaced,
\* wherever stop and target overlapped: waiting for the lock, writing, or
\* between the write and the scheduling of the task.
NoStandbyBehindTarget ==
  \A n, m \in Requests : Alive(n) /\ n < m => calls[m].kind # "active"

\* Both, in every state the types allow: what is pending for a stop can be
\* found and cancelled, and a newer target has cancelled it.
StandbyTracked == StandbyTypeOK /\ OnlyTrackedTaskRuns /\ NoStandbyBehindTarget

\* An active target the device was told is only replaced by a newer request,
\* never by the standby of an older stop: "A new target cancels a pending
\* persistent-standby write before it can wait behind the serialized transport
\* lock" (native_zendure_runtime.py:1401).
Undone == dev.target = "active" /\ dev'.target # "active" /\ dev'.by <= dev.by

NewestTargetWins == [][~Undone]_standbyVars

\* Where the write ends with the task that is cancelled, the ZenSDK POST, this
\* holds for every interleaving of targets, stops, reports and polls.
NewestTargetWinsByPost == [][~threaded => ~Undone]_standbyVars

\* The serialised path never gets stuck behind a standby write: every request
\* is decided, and every standby task ends.
RequestsDecided ==
  \A n \in Requests : []<>(calls[n].phase \in {"none", "done"} /\ ~Alive(n))
=============================================================================
