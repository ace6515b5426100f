------------------------ MODULE CommandVerification ------------------------
(***************************************************************************)
(* The lifecycle of native device commands kept by                         *)
(* NativeCommandVerificationManager (native_command_verification.py).      *)
(*                                                                         *)
(* Every method that changes state is an action; a method that raises or   *)
(* returns early leaves the manager alone and is a disabled action.  CVSpec *)
(* lets callers use the interface in any order: what holds of CVSpec is    *)
(* what the manager guarantees on its own.  CommandDispatch composes the   *)
(* same actions with the adapters that really call them.                   *)
(*                                                                         *)
(* Command ids are the positions in the insertion order of the dict        *)
(* _commands (the code draws a uuid and relies on that order in _trim).    *)
(* Timestamps appear only through the comparison the code makes: a report  *)
(* is "fresh" when its observed_at is later than the command's sent_at.    *)
(***************************************************************************)
EXTENDS Integers, FiniteSets

CONSTANTS Devices,       \* device ids
          Targets,       \* target keys (property names)
          Values,        \* values told apart by ReadbackPolicy.matches
          HistoryLimit,  \* history_limit
          MaxAttempts,   \* max_attempts of every command
          MaxCommands    \* bound on the commands ever prepared

ASSUME HistoryAssumption == HistoryLimit \in Nat \ {0}
ASSUME AttemptsAssumption == MaxAttempts \in Nat \ {0}
ASSUME CommandsAssumption == MaxCommands \in Nat

Keys == Devices \X Targets
Ids == 1..MaxCommands
NoId == 0

VARIABLES cmds,      \* _commands: retained id -> command record
          active,    \* _active: key -> id, NoId when absent
          failures,  \* _failures: device -> count
          issued     \* commands prepared so far

cvVars == <<cmds, active, failures, issued>>

(***************************************************************************)
(* Command records                                                         *)
(***************************************************************************)
Terminal == {"blocked", "transport_error", "readback_timeout",
             "readback_mismatch", "contradictory_response",
             "effect_confirmed", "effect_timeout", "effect_mismatch",
             "superseded", "cancelled"}

Statuses == Terminal \cup {"prepared", "gate_accepted", "sent",
                           "transport_ok", "readback_confirmed"}

EffectStatuses == {"pending", "not_applicable", "not_observable",
                   "confirmed", "timeout", "mismatch"}

Commands == [key : Keys, expected : Values, status : Statuses,
             sent : BOOLEAN,            \* sent_at is set
             readback : BOOLEAN,        \* readback_at is set
             seen : SUBSET Values,      \* distinct readback_values
             effect : EffectStatuses,
             attempts : 0..MaxAttempts,
             counted : BOOLEAN]         \* failure_counted

NewCommand(k, v) ==
  [key |-> k, expected |-> v, status |-> "prepared", sent |-> FALSE,
   readback |-> FALSE, seen |-> {}, effect |-> "pending", attempts |-> 0,
   counted |-> FALSE]

\* CommandVerification.active
Live(c) == IF c.status = "readback_confirmed" THEN c.effect = "pending"
                                              ELSE c.status \notin Terminal

\* _mutable: the commands on which the mutating methods do not raise
Mutable(id) == /\ id \in DOMAIN cmds
               /\ cmds[id].status \notin {"superseded", "cancelled"}

(***************************************************************************)
(* The three ways a method leaves a command: kept, finished (_finish drops *)
(* it from the active index if it is the one indexed) or failed (_fail     *)
(* counts the first failure of the command, then finishes it).             *)
(***************************************************************************)
DeviceOf(c) == c.key[1]

\* defect: _finish forgets to drop the index entry
NotReleased(id) == active

Released(id) == [active EXCEPT ![cmds[id].key] = IF @ = id THEN NoId ELSE @]

Keep(id, c) == /\ cmds' = [cmds EXCEPT ![id] = c]
               /\ UNCHANGED <<active, failures, issued>>

Finish(id, c) == /\ cmds' = [cmds EXCEPT ![id] = c]
                 /\ active' = Released(id)
                 /\ UNCHANGED <<failures, issued>>

\* defect: every failure event is counted
FailEveryTime(id, c) == /\ cmds' = [cmds EXCEPT ![id] = [c EXCEPT !.counted = TRUE]]
                        /\ failures' = [failures EXCEPT ![DeviceOf(c)] = @ + 1]
                        /\ active' = Released(id)
                        /\ UNCHANGED issued

Fail(id, c) == /\ cmds' = [cmds EXCEPT ![id] = [c EXCEPT !.counted = TRUE]]
               /\ failures' = [failures EXCEPT ![DeviceOf(c)] =
                                 IF c.counted THEN @ ELSE @ + 1]
               /\ active' = Released(id)
               /\ UNCHANGED issued

(***************************************************************************)
(* _trim removes the oldest commands that are not live until the history   *)
(* fits or only live commands are left.                                    *)
(***************************************************************************)
Trimmable(cs) ==
  LET idle   == {id \in DOMAIN cs : ~Live(cs[id])}
      excess == Cardinality(DOMAIN cs) - HistoryLimit
  IN {id \in idle : Cardinality({j \in idle : j < id}) < excess}

Trim(cs) == [id \in DOMAIN cs \ Trimmable(cs) |-> cs[id]]

(***************************************************************************)
(* The methods                                                             *)
(***************************************************************************)
Superseded(c) == IF Live(c) THEN [c EXCEPT !.status = "superseded"] ELSE c

\* the dict after the new command c is stored and its predecessor superseded
WithNew(id, c) ==
  [j \in DOMAIN cmds \cup {id} |->
     IF j = id THEN c
     ELSE IF j = active[c.key] THEN Superseded(cmds[j]) ELSE cmds[j]]

\* prepare, for a command that is then in state c; a caller that gates and
\* sends in the same step passes the state those calls leave
PrepareAs(c) ==
  /\ issued < MaxCommands
  /\ issued' = issued + 1
  /\ cmds' = Trim(WithNew(issued + 1, c))
  /\ active' = [active EXCEPT ![c.key] = issued + 1]
  /\ UNCHANGED failures

Prepare(k, v) == PrepareAs(NewCommand(k, v))

Gate(id, accepted) ==
  /\ Mutable(id)
  /\ \/ accepted  /\ Keep(id, [cmds[id] EXCEPT !.status = "gate_accepted"])
     \/ ~accepted /\ Finish(id, [cmds[id] EXCEPT !.status = "blocked"])

Sent(id) ==
  /\ Mutable(id)
  /\ cmds[id].status = "gate_accepted"
  /\ cmds[id].attempts < MaxAttempts
  /\ Keep(id, [cmds[id] EXCEPT !.attempts = @ + 1, !.sent = TRUE,
                               !.status = "sent"])

TransportResult(id, ok) ==
  /\ Mutable(id)
  /\ cmds[id].sent
  /\ \/ ok  /\ Keep(id, [cmds[id] EXCEPT !.status = "transport_ok"])
     \/ ~ok /\ Fail(id, [cmds[id] EXCEPT !.status = "transport_error"])

\* observe_readback up to its early returns
Observable(id, k, fresh, retained) ==
  /\ id \in DOMAIN cmds
  /\ cmds[id].status # "superseded"
  /\ k = cmds[id].key
  /\ ~retained
  /\ cmds[id].sent /\ fresh

\* defect: a report is taken as the confirmation whatever value it carries
ReadbackUnmatched(c, v) ==
  IF c.readback \/ c.seen \ {v} # {} THEN "contradictory_response"
                                     ELSE "readback_confirmed"

\* the status observe_readback decides on for a value v
ReadbackStatus(c, v) ==
  IF v = c.expected
  THEN IF c.status = "transport_error" THEN "contradictory_response"
                                       ELSE "readback_confirmed"
  ELSE IF c.readback \/ c.seen \ {v} # {} THEN "contradictory_response"
                                          ELSE "readback_mismatch"

ObserveReadback(id, k, v, fresh, retained) ==
  /\ Observable(id, k, fresh, retained)
  /\ LET s == ReadbackStatus(cmds[id], v)
         c == [cmds[id] EXCEPT !.seen = @ \cup {v}, !.readback = TRUE,
                               !.status = s]
     IN IF s = "readback_confirmed" THEN Keep(id, c) ELSE Fail(id, c)

ReadbackTimeout(id) ==
  /\ Mutable(id)
  /\ Fail(id, [cmds[id] EXCEPT !.status = "readback_timeout"])

Effect(id, e) ==
  /\ Mutable(id)
  /\ cmds[id].readback
  /\ LET c == [cmds[id] EXCEPT !.effect = e]
     IN \/ e = "pending" /\ Keep(id, c)
        \/ e = "confirmed" /\ Finish(id, [c EXCEPT !.status = "effect_confirmed"])
        \/ e \in {"not_applicable", "not_observable"}
             /\ Finish(id, [c EXCEPT !.status = "readback_confirmed"])
        \/ e = "timeout" /\ Fail(id, [c EXCEPT !.status = "effect_timeout"])
        \/ e = "mismatch" /\ Fail(id, [c EXCEPT !.status = "effect_mismatch"])

Cancel(id) ==
  /\ id \in DOMAIN cmds
  /\ ~cmds[id].sent
  /\ Finish(id, [cmds[id] EXCEPT !.status = "cancelled"])

(***************************************************************************)
(* The manager under arbitrary callers                                     *)
(***************************************************************************)
CVInit == /\ cmds = [id \in {} |-> NoId]
          /\ active = [k \in Keys |-> NoId]
          /\ failures = [d \in Devices |-> 0]
          /\ issued = 0

CVNext ==
  \/ \E k \in Keys, v \in Values : Prepare(k, v)
  \/ \E id \in DOMAIN cmds :
       \/ \E b \in BOOLEAN : Gate(id, b) \/ TransportResult(id, b)
       \/ Sent(id)
       \/ \E k \in Keys, v \in Values, fresh, retained \in BOOLEAN :
            ObserveReadback(id, k, v, fresh, retained)
       \/ ReadbackTimeout(id)
       \/ \E e \in EffectStatuses : Effect(id, e)
       \/ Cancel(id)

CVSpec == CVInit /\ [][CVNext]_cvVars

(***************************************************************************)
(* Properties                                                              *)
(***************************************************************************)
\* Types of the manager's state; retained ids are ids already issued.
CVTypeOK ==
  /\ issued \in 0..MaxCommands
  /\ DOMAIN cmds \in SUBSET (1..issued)
  /\ \A id \in DOMAIN cmds : cmds[id] \in Commands
  /\ active \in [Keys -> 0..issued]
  /\ failures \in [Devices -> Nat]

\* Every entry of _active names a retained, live command of its own key.  The
\* lookup self._commands[previous_id] in prepare therefore never raises and
\* active_for never returns a finished command, whatever the callers, the
\* trims and the late results in between did.
IndexSound ==
  \A k \in Keys : active[k] # NoId =>
    /\ active[k] \in DOMAIN cmds
    /\ Live(cmds[active[k]])
    /\ cmds[active[k]].key = k

\* Only a command whose effect is still open is indexed: every other result
\* of effect() finishes or fails it.  (The strengthening that makes IndexSound
\* inductive: a late readback makes an indexed command live again only so.)
IndexPending ==
  \A k \in Keys : active[k] # NoId => cmds[active[k]].effect = "pending"

\* failures_by_device counts commands, not events: a step that raises the
\* count of a device raises it by one and marks a so far unmarked command of
\* that device, however many errors, mismatches and timeouts it collects.
FailureCountedOnce ==
  [][\A d \in Devices : failures'[d] # failures[d] =>
       /\ failures'[d] = failures[d] + 1
       /\ \E id \in DOMAIN cmds \cap DOMAIN cmds' :
            /\ DeviceOf(cmds[id]) = d
            /\ ~cmds[id].counted /\ cmds'[id].counted]_cvVars

\* A cancelled command was never written to the device and never will be:
\* no later call finds it mutable.
CancelledNeverSent ==
  \A id \in DOMAIN cmds : cmds[id].status = "cancelled" => ~cmds[id].sent
=============================================================================
