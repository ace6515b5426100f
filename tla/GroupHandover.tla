---------------------------- MODULE GroupHandover ----------------------------
(***************************************************************************)
(* Productive control of a battery group: coordinator._execute_device_     *)
(* command with _productive_group_targets and _async_stop_group_members.   *)
(* A cycle plans synchronously and then awaits one device command after    *)
(* the other; devices, readings, the configuration and the goal of the     *)
(* regulation change between the commands.  A cycle that must reduce one   *)
(* member and increase another stops the reduced ones and waits until they *)
(* are measured at zero (the hand-over).                                   *)
(***************************************************************************)
EXTENDS GroupAllocation

CONSTANTS NoReading,   \* no fresh measured power
          Selected,    \* native_runtime.selected_device_id
          Groups,      \* the member sets the group may be configured to
          Goals,       \* signed targets of the regulation, in units
          SocLevels,
          Tolerance,   \* GROUP_HANDOVER_POWER_TOLERANCE_W, in units
          MaxEvents    \* bound: changes of goal, SoC, reachability, readings
                       \* and configuration, and failed device commands

ASSUME HandoverAssumption ==
    /\ Selected \in Devices
    /\ Groups \subseteq SUBSET Devices
    /\ Goals \subseteq Int /\ NoReading \notin Int

VARIABLES
    group,    \* members of the enabled group of the selected device, or {}
    usable,   \* members that are online, configured, supported, not blocked
    soc, goal,
    setp,     \* the setpoint each device last accepted
    flow,     \* the power each device really exchanges
    obs,      \* the last fresh measured power of a device, or NoReading
    newer,    \* devices observed after requested_at of their pending entry
    lead,     \* group_control_lead_state: device, held 600 s, idle for 60 s
    stored,   \* group_control_members
    last,     \* group_control_last_targets: device -> [dir, w]
    pend,     \* devices of group_control_handover_pending
    pc,       \* the phase of the cycle, "idle" between cycles
    todo,     \* device commands the phase still has to await
    plan,     \* direction and target_commands (device -> power) of the cycle
    saved,    \* the persisted state at the end of the last full cycle
    over,     \* a hand-over was completed at the start of this cycle
    missed,   \* devices whose last command was not accepted
    events

envVars == <<group, usable, soc, goal>>
devVars == <<setp, flow, obs, newer>>
cycleVars == <<lead, stored, last, pend, pc, todo, plan, over>>
vars == <<envVars, devVars, cycleVars, saved, missed, events>>

NoPlan == [dir |-> 0, to |-> <<>>]
NoLead == [dev |-> NoDevice, ripe |-> FALSE, idle |-> FALSE]
ById(d, e) == IdRank[d] < IdRank[e]
\* The commands that set the devices of `order` to the powers `target`.
Commands(order, target) == [i \in DOMAIN order |-> [dev |-> order[i], w |-> target[order[i]]]]
Stops(S) == {Commands(order, [d \in S |-> 0]) : order \in InOrder(S, ById)}

Init ==
    /\ group \in Groups
    /\ usable = Devices
    /\ soc \in [Devices -> SocLevels]
    /\ goal \in Goals
    /\ setp = [d \in Devices |-> 0]
    /\ flow = setp
    /\ obs = setp
    /\ newer = {}
    /\ lead = NoLead
    /\ stored = {}
    /\ last = <<>>
    /\ pend = {}
    /\ pc = "idle"
    /\ todo = <<>>
    /\ plan = NoPlan
    /\ over = FALSE
    /\ saved = [lead |-> lead, stored |-> stored, last |-> last, pend |-> pend]
    /\ missed = {}
    /\ events = 0

-----------------------------------------------------------------------------
(* Planning                                                                *)

\* Fewer than two members, or group control not enabled: the selected device
\* is commanded alone, after every other earlier member was stopped.
GroupOff == Cardinality(group) < 2
Alone ==
    /\ pc = "idle"
    /\ GroupOff
    /\ \E stops \in Stops(stored \ {Selected}) :
         todo' = Append(stops, [dev |-> Selected,
                                w |-> Sign(goal) * Min({Abs(goal), MaxPower[Selected]})])
    /\ last' = IF stored \ {Selected} = {} THEN last ELSE <<>>
    /\ stored' = {}
    /\ pend' = {}
    /\ pc' = "alone"
    /\ over' = FALSE
    /\ UNCHANGED <<envVars, devVars, lead, plan, saved, missed, events>>

\* The lead d of this cycle.
NextLead(d) ==
    IF d = NoDevice THEN lead
    ELSE [dev |-> d, ripe |-> lead.dev = d /\ lead.ripe, idle |-> FALSE]

\* A member is not usable, or nobody can take the target.
Blocked == \/ ~(group \subseteq usable)
           \/ goal # 0 /\ Candidates(group, goal, soc) = {}

\* defect: members that cannot be reached are the only ones stopped.
PauseUnreachable(d) ==
    /\ Blocked
    /\ lead' = IF group \subseteq usable THEN NextLead(d) ELSE lead
    /\ stored' = group
    /\ todo' \in Stops(group \ usable)
    /\ pc' = "stop" /\ over' = FALSE
    /\ UNCHANGED <<envVars, devVars, last, pend, plan, saved, missed, events>>
\* Every member is stopped, whatever becomes of the single stops.
Pause(d) ==
    /\ Blocked
    /\ lead' = IF group \subseteq usable THEN NextLead(d) ELSE lead
    /\ stored' = group
    /\ todo' \in Stops(group)
    /\ pc' = "stop"
    /\ over' = FALSE
    /\ UNCHANGED <<envVars, devVars, last, pend, plan, saved, missed, events>>

\* A pending hand-over is over when each of its devices was observed after the
\* stop was requested and exchanges nothing.
HandoverOver == \A d \in pend : d \in newer /\ obs[d] = 0

Previous == IF pend # {} /\ HandoverOver
            THEN [d \in DOMAIN last \cup pend |->
                    IF d \in pend THEN [dir |-> 0, w |-> 0] ELSE last[d]]
            ELSE last
Old(d) == IF d \in DOMAIN Previous THEN Previous[d].w ELSE 0

\* Members whose old target, or whose measured power, is beyond the new one.
Reductions(target) ==
    {d \in DOMAIN target :
        \/ d \in DOMAIN Previous /\ (\/ Opposed(Old(d), target[d])
                                     \/ Abs(target[d]) < Abs(Old(d)))
        \/ /\ obs[d] \notin {NoReading, 0}
           /\ \/ Sign(obs[d]) # Sign(target[d])
              \/ Abs(obs[d]) > Abs(target[d]) + Tolerance}
Increases(target) ==
    {d \in DOMAIN target : \/ Abs(target[d]) > Abs(Old(d))
                           \/ Opposed(Old(d), target[d])}

\* defect: no new hand-over is ever begun.
WaitForPending(target) == IF HandoverOver THEN {} ELSE pend
\* The devices this cycle stops and waits for; empty when it may go on.
WaitFor(target) ==
    IF pend # {} THEN IF HandoverOver THEN {} ELSE pend
    ELSE IF Increases(target) = {} THEN {} ELSE Reductions(target)

\* Members that are to be reduced, or had another direction, come first; then
\* those that are no candidates, by id, and the candidates as they are served.
SendOrder(cand, target) ==
    LET first(d) == d \in DOMAIN Previous
                    /\ (\/ Previous[d].dir # Sign(goal)
                        \/ Abs(target[d]) < Abs(Previous[d].w))
        listed(d, e) ==
            \/ d \notin ToSet(cand) /\ (e \in ToSet(cand) \/ ById(d, e))
            \/ \E i, j \in DOMAIN cand : i < j /\ cand[i] = d /\ cand[j] = e
    IN  InOrder(group, LAMBDA d, e : \/ first(d) /\ ~first(e)
                                     \/ (first(d) <=> first(e)) /\ listed(d, e))

Handover(d, target, wait) ==
    /\ ~Blocked
    /\ wait # {}
    /\ newer' = IF pend = {} THEN newer \ wait ELSE newer
    /\ pend' = wait
    /\ todo' \in Stops(wait)
    /\ lead' = NextLead(d)
    /\ stored' = group
    /\ plan' = [dir |-> Sign(goal), to |-> target]
    /\ pc' = "wait"
    /\ over' = FALSE
    /\ UNCHANGED <<envVars, setp, flow, obs, last, saved, missed, events>>

Distribute(d, cand, target, wait) ==
    /\ ~Blocked
    /\ wait = {}
    /\ todo' \in {Commands(order, target) : order \in SendOrder(cand, target)}
    /\ plan' = [dir |-> Sign(goal), to |-> target]
    /\ lead' = NextLead(d)
    /\ stored' = group
    /\ pend' = {}
    /\ over' = (pend # {})
    /\ pc' = "send"
    /\ UNCHANGED <<envVars, devVars, last, saved, missed, events>>

\* A cycle of an enabled group: the lead is chosen among the candidates as
\* they are served without one.  ("\E x \in {e}" names the value of e.)
GroupCycle ==
    /\ pc = "idle"
    /\ ~GroupOff
    /\ \E natural \in Served(group, goal, NoDevice, soc) :
       \E d \in {StableLead(natural, goal, lead, soc)} :
       \E cand \in Served(group, goal, d, soc) :
       \E target \in {Allocate(cand, group, goal)} :
          \/ Pause(d)
          \/ \E wait \in {WaitFor(target)} :
                \/ Handover(d, target, wait)
                \/ Distribute(d, cand, target, wait)

-----------------------------------------------------------------------------
(* The awaited device commands                                             *)

Event == events < MaxEvents /\ events' = events + 1

Accepted == setp' = [setp EXCEPT ![Head(todo).dev] = Head(todo).w]

\* defect: a stop that changed nothing renews as well.
CommandAlwaysRenews ==
    /\ todo # <<>> /\ Head(todo).dev \in usable
    /\ Accepted
    /\ missed' = missed \ {Head(todo).dev}
    /\ newer' = IF pc = "wait" THEN newer \ {Head(todo).dev} ELSE newer
    /\ todo' = Tail(todo)
    /\ UNCHANGED <<envVars, flow, obs, lead, stored, last, pend, pc, plan,
                   over, saved, events>>
\* The command is applied, or skipped as native_setpoints_unchanged because
\* the device shows the setpoint already.  A stop that was written during a
\* hand-over renews its requested_at.
CommandAccepted ==
    /\ todo # <<>>
    /\ Head(todo).dev \in usable
    /\ Accepted
    /\ missed' = missed \ {Head(todo).dev}
    /\ \E written \in BOOLEAN :
        /\ (setp[Head(todo).dev] # Head(todo).w) => written
        /\ written => \/ setp[Head(todo).dev] # Head(todo).w
                      \/ obs[Head(todo).dev] = NoReading
        /\ newer' = IF pc = "wait" /\ written
                    THEN newer \ {Head(todo).dev} ELSE newer
    /\ todo' = Tail(todo)
    /\ UNCHANGED <<envVars, flow, obs, lead, stored, last, pend, pc, plan,
                   over, saved, events>>

\* The command fails or is refused; a failed one may have reached the device.
\* Stops are best effort; any other failure stops all members of the plan.
CommandFailed ==
    /\ todo # <<>>
    /\ IF Head(todo).dev \in usable THEN Event ELSE UNCHANGED events
    /\ IF Head(todo).dev \in usable THEN UNCHANGED setp \/ Accepted
       ELSE UNCHANGED setp
    /\ missed' = missed \cup {Head(todo).dev}
    /\ IF pc = "send"
       THEN todo' \in Stops(DOMAIN plan.to) /\ pc' = "stop"
       ELSE todo' = Tail(todo) /\ pc' = IF pc = "wait" THEN "giveup" ELSE pc
    /\ UNCHANGED <<envVars, flow, obs, newer, lead, stored, last, pend, plan,
                   over, saved>>

\* All commands of the phase are awaited.  A hand-over with a failed stop is
\* given up: every member of the plan is stopped as well.
GiveUp ==
    /\ pc = "giveup"
    /\ todo = <<>>
    /\ todo' \in Stops(DOMAIN plan.to)
    /\ pc' = "stop"
    /\ UNCHANGED <<envVars, devVars, lead, stored, last, pend, plan, over,
                   saved, missed, events>>

\* The end of the cycle stores its targets and saves the persisted state.
EndCycle ==
    /\ pc \in {"alone", "stop", "wait", "send"}
    /\ todo = <<>>
    /\ last' = CASE pc = "send" -> [d \in DOMAIN plan.to |->
                                       [dir |-> plan.dir, w |-> plan.to[d]]]
                 [] pc = "stop" -> <<>>
                 [] OTHER -> last
    /\ pend' = IF pc = "stop" THEN {} ELSE pend
    /\ saved' = [lead |-> lead, stored |-> stored, last |-> last', pend |-> pend']
    /\ newer' = newer \cap pend'
    /\ plan' = NoPlan
    /\ pc' = "idle"
    /\ over' = FALSE
    /\ UNCHANGED <<envVars, setp, flow, obs, lead, stored, todo, missed, events>>

-----------------------------------------------------------------------------
(* The devices and everything else that changes between two awaits         *)

\* A device follows its setpoint.
Follow(d) ==
    /\ flow[d] # setp[d]
    /\ flow' = [flow EXCEPT ![d] = setp[d]]
    /\ UNCHANGED <<envVars, setp, obs, newer, cycleVars, saved, missed, events>>

\* A reachable device reports its power.
Report(d) ==
    /\ d \in usable
    /\ obs[d] # flow[d] \/ d \in pend \ newer
    /\ obs' = [obs EXCEPT ![d] = flow[d]]
    /\ newer' = IF d \in pend THEN newer \cup {d} ELSE newer
    /\ UNCHANGED <<envVars, setp, flow, cycleVars, saved, missed, events>>

\* The lead has been lead for GROUP_LEAD_MINIMUM_RUNTIME_SECONDS.
LeadRipens ==
    /\ lead.dev # NoDevice
    /\ ~lead.ripe
    /\ lead' = [lead EXCEPT !.ripe = TRUE]
    /\ UNCHANGED <<envVars, devVars, stored, last, pend, pc, todo, plan, over,
                   saved, missed, events>>
\* No cycle had a target for GROUP_LEAD_IDLE_RESET_SECONDS.
LeadIdles ==
    /\ pc = "idle"
    /\ goal = 0 \/ GroupOff \/ Blocked
    /\ lead.dev # NoDevice
    /\ ~lead.idle
    /\ lead' = [lead EXCEPT !.idle = TRUE]
    /\ UNCHANGED <<envVars, devVars, stored, last, pend, pc, todo, plan, over,
                   saved, missed, events>>

ChangeGoal ==
    /\ Event
    /\ \E g \in Goals \ {goal} : goal' = g
    /\ UNCHANGED <<group, usable, soc, devVars, cycleVars, saved, missed>>
ChangeSoc(d) ==
    /\ Event
    /\ \E s \in SocLevels \ {soc[d]} : soc' = [soc EXCEPT ![d] = s]
    /\ UNCHANGED <<group, usable, goal, devVars, cycleVars, saved, missed>>
\* A member is lost, blocked or protected, or comes back.
ChangeReach(d) ==
    /\ Event
    /\ usable' = IF d \in usable THEN usable \ {d} ELSE usable \cup {d}
    /\ UNCHANGED <<group, soc, goal, devVars, cycleVars, saved, missed>>
\* The reading of a device is no longer fresh.
LoseReading(d) ==
    /\ Event
    /\ obs[d] # NoReading
    /\ obs' = [obs EXCEPT ![d] = NoReading]
    /\ newer' = newer \ {d}
    /\ UNCHANGED <<envVars, setp, flow, cycleVars, saved, missed>>

\* Home Assistant restarts, or an option was saved and the entry is reloaded:
\* readings are gone, the persisted state is the one of the last full cycle.
Restart ==
    /\ Event
    /\ group' \in Groups
    /\ obs' = [d \in Devices |-> NoReading]
    /\ newer' = {}
    /\ lead' = saved.lead
    /\ stored' = saved.stored
    /\ last' = saved.last
    /\ pend' = saved.pend
    /\ pc' = "idle"
    /\ todo' = <<>>
    /\ plan' = NoPlan
    /\ over' = FALSE
    /\ missed' = IF pc = "idle" THEN missed ELSE Devices
    /\ UNCHANGED <<usable, soc, goal, setp, flow, saved>>

Next ==
    \/ Alone \/ GroupCycle
    \/ CommandAccepted \/ CommandFailed \/ GiveUp \/ EndCycle
    \/ LeadRipens \/ LeadIdles \/ ChangeGoal \/ Restart
    \/ \E d \in Devices : \/ Follow(d) \/ Report(d) \/ ChangeSoc(d)
                          \/ ChangeReach(d) \/ LoseReading(d)

\* Refreshes keep coming (Alone or GroupCycle is always enabled between
\* cycles), an awaited command returns, and devices follow and report.
\* Nothing else is fair.
Fairness ==
    /\ WF_pc(pc = "idle" /\ pc' \in {"alone", "stop", "wait", "send"})
    /\ WF_vars(CommandAccepted)
    /\ WF_vars(todo # <<>> /\ Head(todo).dev \notin usable /\ CommandFailed)
    /\ WF_vars(GiveUp \/ EndCycle)
    /\ \A d \in Devices : WF_vars(Follow(d)) /\ WF_vars(Report(d))
Spec == Init /\ [][Next]_vars /\ Fairness

-----------------------------------------------------------------------------
\* Type invariant; no setpoint is beyond the limit of its device.
GroupTypeOK ==
    /\ setp \in [Devices -> Int] /\ flow \in [Devices -> Int]
    /\ \A d \in Devices : Abs(setp[d]) <= MaxPower[d]
    /\ obs \in [Devices -> Int \cup {NoReading}]
    /\ pend \subseteq Devices /\ newer \subseteq Devices /\ missed \subseteq Devices
    /\ lead.dev \in Devices \cup {NoDevice}
    /\ DOMAIN last \subseteq Devices /\ DOMAIN plan.to \subseteq Devices
    /\ pc = "idle" => todo = <<>>

\* Members that had a target and took their last command.
Told == (group \cap DOMAIN last) \ missed

\* While no cycle completes a hand-over, no two members that took their last
\* command are set to opposite directions: one battery never charges another.
\* Failures, lost members, restarts and goals that turn in mid-cycle included.
NoOpposingMembers == ~over => \A d, e \in Told : ~Opposed(setp[d], setp[e])

\* The same together with the types and device limits.
MembersSafe == GroupTypeOK /\ NoOpposingMembers

\* Nor do their setpoints together exceed a circuit above them, whatever lead
\* changes, reductions and hand-overs lie between two allocations.
CircuitsHold ==
    ~over => \A c \in Circuits : Load(c, [d \in Told |-> Abs(setp[d])]) <= Cap[c]

\* Both: neither a single member nor a circuit carries what it must not.
GroupSafe == MembersSafe /\ CircuitsHold

\* "Reduce or unwind existing output before increasing any member" (the
\* comment above the sort of ordered_ids), in the cycle that completes a
\* hand-over: a member is not raised while another one whose command is still
\* to come exceeds its own new target.  The code does not re-evaluate the
\* reductions in that cycle, and sorts the devices of the hand-over first.
UnwindBeforeIncrease ==
    [][\A d \in Devices :
          pc = "send" /\ over /\ Abs(setp'[d]) > Abs(setp[d]) =>
             \A i \in 2 .. Len(todo) :
                LET e == todo[i].dev
                IN  /\ ~Opposed(setp[e], todo[i].w)
                    /\ Abs(setp[e]) <= Abs(todo[i].w)]_vars

\* The allocation that the members should have.
Allocated ==
    \E natural \in Served(group, goal, NoDevice, soc) :
    \E cand \in Served(group, goal, StableLead(natural, goal, lead, soc), soc) :
    \E target \in {Allocate(cand, group, goal)} : \A d \in group : setp[d] = target[d]

\* Once goal, readings and members stay as they are, a group that is not
\* paused reaches its allocation: a hand-over does not wait for ever.
GroupSettles == <>[](GroupOff \/ Blocked \/ Allocated)

\* A group that stays paused ends with every reachable member at zero.
PauseStopsMembers ==
    <>[](~GroupOff /\ Blocked => \A d \in group \cap usable : setp[d] = 0)
=============================================================================
