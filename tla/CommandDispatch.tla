-------------------------- MODULE CommandDispatch --------------------------
(***************************************************************************)
(* The command adapters on top of the verification manager.                *)
(*                                                                         *)
(* Setup "zensdk": ZendureZenSdkCommandAdapter (zensdk_commands.py) on the  *)
(* event loop, under the runtime's _write_lock.  Polled reports and the     *)
(* coordinator's effect feedback run while the HTTP POST is awaited.        *)
(*                                                                         *)
(* Setups "mqtt" and "standby": the Cloud and Local MQTT adapters           *)
(* (cloud_mqtt_commands.py, local_mqtt_commands.py) in a worker thread      *)
(* under _command_lock (cloud_mqtt.py), so that reports handled by the      *)
(* event loop interleave with every step of execute; each written command   *)
(* gets a readback timer after execute returned.                            *)
(*                                                                         *)
(* In the setups "zensdk" and "standby" the task that awaits execute may be *)
(* cancelled, as a delayed standby write is by a new target.  A POST ends   *)
(* with its task; a worker thread goes on without the lock and without      *)
(* timers.                                                                  *)
(***************************************************************************)
EXTENDS CommandVerification

CONSTANTS Setups,    \* the setups to choose from
          Writers,   \* executions of execute under way at the same time
          Nobody     \* no writer

ASSUME SetupsAssumption == Setups \subseteq {"zensdk", "mqtt", "standby"}
ASSUME NobodyAssumption == Nobody \notin Writers

VARIABLES setup,     \* the adapter in use, and whether its caller may be cancelled
          work,      \* writer -> the write set it is working on
          holder,    \* the writer holding the lock, or Nobody
          timers,    \* commands with a pending readback timer
          expired    \* commands whose readback timer has fired

cdVars == <<cmds, active, failures, issued, setup, work, holder, timers, expired>>
restVars == <<setup, timers, expired>>

Threaded == setup \in {"mqtt", "standby"}
Cancellable == setup \in {"zensdk", "standby"}

\* todo: keys not yet prepared; batch: commands prepared; recorded: those with
\* a transport result; outcome: "none" until the transport answered
NoWork == [todo |-> {}, batch |-> {}, recorded |-> {}, outcome |-> "none"]

Awaiting(w) == /\ work[w].todo = {} /\ work[w].batch \ work[w].recorded # {}
               /\ work[w].outcome = "none"

Complete(w) == /\ work[w].todo = {} /\ work[w].batch # {}
               /\ work[w].recorded = work[w].batch

\* Handlers of the event loop run between any two steps of a worker thread, but
\* only at the await of an adapter that itself runs on the loop.
LoopFree == Threaded \/ \A w \in Writers : work[w] = NoWork \/ Awaiting(w)

CDInit == /\ CVInit /\ setup \in Setups
          /\ work = [w \in Writers |-> NoWork] /\ holder = Nobody
          /\ timers = {} /\ expired = {}

(***************************************************************************)
(* execute                                                                 *)
(***************************************************************************)

\* One write set of one device takes the lock (MaxCommands bounds it)
Begin(w, d, T) ==
  /\ holder = Nobody /\ work[w] = NoWork
  /\ issued + Cardinality(T) <= MaxCommands
  /\ holder' = w
  /\ work' = [work EXCEPT ![w].todo = {d} \X T]
  /\ UNCHANGED cvVars /\ UNCHANGED restVars

\* prepare, gate(accepted) and sent for one property
PrepareWrite(w, k, v) ==
  /\ k \in work[w].todo
  /\ PrepareAs([NewCommand(k, v) EXCEPT !.status = "sent", !.sent = TRUE,
                                        !.attempts = 1])
  /\ work' = [work EXCEPT ![w].todo = @ \ {k}, ![w].batch = @ \cup {issued'}]
  /\ UNCHANGED holder /\ UNCHANGED restVars

\* The POST or publish returns
Reply(w, ok) ==
  /\ Awaiting(w)
  /\ work' = [work EXCEPT ![w].outcome = IF ok THEN "ok" ELSE "error"]
  /\ UNCHANGED cvVars /\ UNCHANGED holder /\ UNCHANGED restVars

RecordResult(w, id) ==
  /\ work[w].outcome # "none"
  /\ id \in work[w].batch \ work[w].recorded
  /\ TransportResult(id, work[w].outcome = "ok")
  /\ work' = [work EXCEPT ![w].recorded = @ \cup {id}]
  /\ UNCHANGED holder /\ UNCHANGED restVars

Release(w) == holder' = IF holder = w THEN Nobody ELSE holder

\* transport_result raises for a command that was superseded or forgotten:
\* execute ends without results or timers for the rest
RecordRaises(w, id) ==
  /\ work[w].outcome # "none"
  /\ id \in work[w].batch \ work[w].recorded
  /\ ~Mutable(id)
  /\ work' = [work EXCEPT ![w] = NoWork]
  /\ Release(w)
  /\ UNCHANGED cvVars /\ UNCHANGED restVars

\* After the property writes of a model with a command function, the Cloud
\* adapter goes on with the properties that function is expected to change
Invoke(w, d, T) ==
  /\ Threaded /\ Complete(w) /\ work[w].outcome = "ok"
  /\ {d} \X T \cap {cmds[id].key : id \in work[w].batch \cap DOMAIN cmds} = {}
  /\ issued + Cardinality(T) <= MaxCommands
  /\ work' = [work EXCEPT ![w].todo = {d} \X T, ![w].outcome = "none"]
  /\ UNCHANGED cvVars /\ UNCHANGED holder /\ UNCHANGED restVars

\* defect: only one command of the write set gets its timer
ReturnOneTimer(w) ==
  /\ Complete(w)
  /\ work' = [work EXCEPT ![w] = NoWork]
  /\ Release(w)
  /\ timers' = IF Threaded /\ holder = w
               THEN timers \cup {CHOOSE id \in work[w].batch : TRUE} ELSE timers
  /\ UNCHANGED cvVars /\ UNCHANGED <<setup, expired>>

\* execute returns: the lock is released, MQTT transports start the timers
Return(w) ==
  /\ Complete(w)
  /\ work' = [work EXCEPT ![w] = NoWork]
  /\ Release(w)
  /\ timers' = IF Threaded /\ holder = w THEN timers \cup work[w].batch ELSE timers
  /\ UNCHANGED cvVars /\ UNCHANGED <<setup, expired>>

\* The task awaiting the POST or the worker thread is cancelled
Abandon(w) ==
  /\ Cancellable /\ holder = w /\ (Threaded \/ Awaiting(w))
  /\ holder' = Nobody
  /\ work' = IF Threaded THEN work ELSE [work EXCEPT ![w] = NoWork]
  /\ UNCHANGED cvVars /\ UNCHANGED restVars

(***************************************************************************)
(* The event loop's handlers                                               *)
(***************************************************************************)
\* observe_properties for one property of a report: active_for, then
\* observe_readback of that command
Observe(k, v, fresh, retained) ==
  /\ LoopFree
  /\ active[k] # NoId
  /\ ObserveReadback(active[k], k, v, fresh, retained)
  /\ UNCHANGED <<work, holder>> /\ UNCHANGED restVars

\* observe_command_effectiveness: only the ZenSDK commands share the manager of
\* the runtime that the coordinator's feedback reaches
PhysicalEffect(k, e) ==
  /\ ~Threaded /\ LoopFree
  /\ active[k] # NoId
  /\ Effect(active[k], e)
  /\ UNCHANGED <<work, holder>> /\ UNCHANGED restVars

\* _expire_command_readback after its sleep (a forgotten id only ends the task)
Expire(id) ==
  /\ id \in timers
  /\ timers' = timers \ {id} /\ expired' = expired \cup {id}
  /\ IF id \in DOMAIN cmds /\ active[cmds[id].key] = id /\ ~cmds[id].readback
     THEN ReadbackTimeout(id)
     ELSE UNCHANGED cvVars
  /\ UNCHANGED <<setup, work, holder>>

CDNext ==
  \/ \E w \in Writers :
       \/ \E d \in Devices, T \in (SUBSET Targets) \ {{}} :
            Begin(w, d, T) \/ Invoke(w, d, T)
       \/ \E k \in Keys, v \in Values : PrepareWrite(w, k, v)
       \/ \E ok \in BOOLEAN : Reply(w, ok)
       \/ \E id \in work[w].batch : RecordResult(w, id) \/ RecordRaises(w, id)
       \/ Return(w)
       \/ Abandon(w)
  \/ \E k \in Keys, v \in Values, fresh, retained \in BOOLEAN :
       Observe(k, v, fresh, retained)
  \/ \E k \in Keys, e \in {"confirmed", "timeout"} : PhysicalEffect(k, e)
  \/ \E id \in timers : Expire(id)

CDSpec == CDInit /\ [][CDNext]_cdVars

\* The adapter finishes what it started and timers fire.
CDFairness ==
  /\ \A w \in Writers :
       /\ WF_cdVars(\E k \in Keys, v \in Values : PrepareWrite(w, k, v))
       /\ WF_cdVars(\E ok \in BOOLEAN : Reply(w, ok))
       /\ \A id \in Ids : WF_cdVars(RecordResult(w, id) \/ RecordRaises(w, id))
       /\ WF_cdVars(Return(w))
  /\ \A id \in Ids : WF_cdVars(Expire(id))

CDFairSpec == CDSpec /\ CDFairness

(***************************************************************************)
(* Properties                                                              *)
(***************************************************************************)
CDTypeOK ==
  /\ CVTypeOK /\ setup \in Setups
  /\ \A w \in Writers :
       /\ work[w].todo \subseteq Keys
       /\ work[w].recorded \subseteq work[w].batch
       /\ work[w].batch \subseteq 1..issued
       /\ work[w].outcome \in {"none", "ok", "error"}
  /\ holder \in Writers \cup {Nobody}
  /\ timers \cup expired \subseteq 1..issued

\* A command counts as done only after a fresh report carried the value that was
\* asked for: neither a transport acknowledgement nor the physical effect of
\* something else completes it (native-command-verification-v5.0.0.md).
ConfirmedHasMatch ==
  \A id \in DOMAIN cmds :
    cmds[id].status \in {"readback_confirmed", "effect_confirmed"} =>
      cmds[id].sent /\ cmds[id].expected \in cmds[id].seen

\* A command that was counted as a failure is never reported as confirmed
\* later, however late the matching report or the effect arrives.
FailedNeverConfirmed ==
  \A id \in DOMAIN cmds :
    cmds[id].counted =>
      cmds[id].status \notin {"readback_confirmed", "effect_confirmed"}

\* With no cancelled task a command of a write set is neither superseded nor
\* cancelled before it has its result.  transport_result then raises for a command
\* only if it was refuted before and forgotten by _trim.
ResultsAccepted ==
  setup = "mqtt" =>
    \A w \in Writers :
      \A id \in (work[w].batch \ work[w].recorded) \cap DOMAIN cmds : Mutable(id)

\* "A fresh exact readback confirms it; ... otherwise it becomes a readback
\* timeout" (native-power-controller-v5.0.0.md:70): a command that still counts
\* as in flight after its window has been answered by a readback; only a
\* transport result recorded after that readback can have put it in flight again.
WindowCloses ==
  \A id \in expired \cap DOMAIN cmds :
    cmds[id].status \in {"sent", "transport_ok"} => cmds[id].readback

\* The fate a command is reported to have is its true one, whatever results,
\* reports, effects and cancellations of overlapping write sets come between,
\* and none that was missed is in flight for ever.
FateSound ==
  /\ CDTypeOK /\ ConfirmedHasMatch /\ FailedNeverConfirmed /\ ResultsAccepted
  /\ WindowCloses

\* Every command that is awaited stops being awaited without a readback: it is
\* confirmed, refuted, superseded or timed out, unless transport_result raised for
\* a forgotten command of its write set: the others then get no timer.
Awaited(id) == \E k \in Keys : active[k] = id /\ ~cmds[id].readback

Remembered == \A w \in Writers : work[w].batch \ work[w].recorded \subseteq DOMAIN cmds

ReadbackDeadline ==
  setup = "mqtt" /\ []Remembered => \A id \in Ids : []<>~Awaited(id)
=============================================================================
