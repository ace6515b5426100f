------------------------- MODULE NativeDeviceProofs -------------------------
(***************************************************************************)
(* What is said of a native device is true.  The lifecycle of commands, for*)
(* every number of devices, targets, values, writers and commands and every*)
(* history limit: what the verification manager guarantees to any caller   *)
(* (CommandVerification.tla), and, in all three setups of the adapters,    *)
(* that what is said of a command is its true fate (CommandDispatch.tla).  *)
(* What is shown of its readings, for any packs, routes, readings,         *)
(* tolerances and ages: packs of before and after a change are never shown *)
(* together, and a value shown as valid was in the device within the window*)
(* (NativeReadings.tla).                                                   *)
(***************************************************************************)
EXTENDS CommandDispatch, NativeReadings, TLAPS


-----------------------------------------------------------------------------
(* The manager, whoever calls it.                                          *)

CVInv == CVTypeOK /\ IndexSound /\ IndexPending

\* _trim only forgets, and never a live command.
LEMMA TrimKeepsLive ==
  ASSUME NEW cs
  PROVE  /\ DOMAIN Trim(cs) \subseteq DOMAIN cs
         /\ \A id \in DOMAIN Trim(cs) : Trim(cs)[id] = cs[id]
         /\ \A id \in DOMAIN cs : Live(cs[id]) => id \in DOMAIN Trim(cs)
BY DEF Trim, Trimmable

\* A method that keeps a command keeps the invariant when an indexed command
\* stays live with its effect open.
LEMMA KeepInv ==
  ASSUME CVInv, NEW id \in DOMAIN cmds, NEW c \in Commands,
         c.key = cmds[id].key, Keep(id, c),
         active[c.key] = id => Live(c) /\ c.effect = "pending"
  PROVE  CVInv'
<1>1. CVTypeOK'
  BY DEF CVInv, CVTypeOK, Keep
<1>2. \A k \in Keys : active'[k] # NoId =>
        /\ active'[k] \in DOMAIN cmds'
        /\ Live(cmds'[active'[k]])
        /\ cmds'[active'[k]].key = k
        /\ cmds'[active'[k]].effect = "pending"
  <2> SUFFICES ASSUME NEW k \in Keys, active[k] # NoId
               PROVE  /\ active[k] \in DOMAIN cmds'
                      /\ Live(cmds'[active[k]])
                      /\ cmds'[active[k]].key = k
                      /\ cmds'[active[k]].effect = "pending"
    BY DEF Keep
  <2>1. active[k] \in DOMAIN cmds /\ cmds[active[k]].key = k
    BY DEF CVInv, IndexSound
  <2>2. CASE active[k] = id
    BY <2>1, <2>2 DEF Keep
  <2>3. CASE active[k] # id
    BY <2>1, <2>3 DEF Keep, CVInv, IndexSound, IndexPending
  <2> QED BY <2>2, <2>3
<1> QED BY <1>1, <1>2 DEF CVInv, IndexSound, IndexPending, Live

\* Finishing a command removes it from the index, so nothing is asked of c.
LEMMA ReleaseInv ==
  ASSUME CVInv, NEW id \in DOMAIN cmds, NEW c \in Commands,
         c.key = cmds[id].key,
         cmds' = [cmds EXCEPT ![id] = c], active' = Released(id),
         issued' = issued, failures' \in [Devices -> Nat]
  PROVE  CVInv'
<1>0. cmds[id] \in Commands /\ cmds[id].key \in Keys
  BY DEF CVInv, CVTypeOK, Commands
<1>1. CVTypeOK'
  <2>1. \A k \in Keys : active'[k] = IF k = cmds[id].key /\ active[k] = id
                                     THEN NoId ELSE active[k]
    BY <1>0 DEF CVInv, CVTypeOK, Released
  <2>2. active' \in [Keys -> 0..issued]
    BY <1>0, <2>1 DEF CVInv, CVTypeOK, Released, NoId
  <2> QED BY <2>2 DEF CVInv, CVTypeOK
<1>2. \A k \in Keys : active'[k] # NoId => active'[k] = active[k] /\ active[k] # id
  <2> SUFFICES ASSUME NEW k \in Keys, active'[k] # NoId
               PROVE  active'[k] = active[k] /\ active[k] # id
    OBVIOUS
  <2>1. CASE k = cmds[id].key
    BY <2>1, <1>0 DEF CVInv, CVTypeOK, Released
  <2>2. CASE k # cmds[id].key
    BY <2>2, <1>0 DEF CVInv, CVTypeOK, Released, IndexSound, NoId
  <2> QED BY <2>1, <2>2
<1>3. \A k \in Keys : active'[k] # NoId =>
        /\ active'[k] \in DOMAIN cmds'
        /\ cmds'[active'[k]] = cmds[active[k]]
  BY <1>2 DEF CVInv, IndexSound
<1> QED BY <1>1, <1>2, <1>3 DEF CVInv, IndexSound, IndexPending, Live

LEMMA FinishInv ==
  ASSUME CVInv, NEW id \in DOMAIN cmds, NEW c \in Commands,
         c.key = cmds[id].key, Finish(id, c)
  PROVE  CVInv'
BY ReleaseInv DEF Finish, CVInv, CVTypeOK

LEMMA FailInv ==
  ASSUME CVInv, NEW id \in DOMAIN cmds, NEW c \in Commands,
         c.key = cmds[id].key, Fail(id, c)
  PROVE  CVInv'
<1> DEFINE d == [c EXCEPT !.counted = TRUE]
<1>1. d \in Commands /\ d.key = cmds[id].key
  BY DEF Commands
<1>2. failures' \in [Devices -> Nat]
  <2> DEFINE n == IF c.counted THEN failures[DeviceOf(c)]
                               ELSE failures[DeviceOf(c)] + 1
  <2>1. failures' = [failures EXCEPT ![DeviceOf(c)] = n]
    BY DEF Fail
  <2>2. DeviceOf(c) \in Devices
    BY DEF DeviceOf, Commands, Keys
  <2>3. failures \in [Devices -> Nat]
    BY DEF CVInv, CVTypeOK
  <2>4. n \in Nat
    BY <2>2, <2>3
  <2> HIDE DEF n
  <2> QED BY <2>1, <2>3, <2>4
<1> QED BY <1>1, <1>2, ReleaseInv DEF Fail

\* The invariant holds under arbitrary callers.
LEMMA CVInitInv == CVInit => CVInv
BY CommandsAssumption DEF CVInit, CVInv, CVTypeOK, IndexSound, IndexPending, NoId

LEMMA PrepareInv ==
  ASSUME CVInv, NEW c \in Commands, Live(c), c.effect = "pending", PrepareAs(c)
  PROVE  CVInv'
<1> DEFINE new == issued + 1
           next == WithNew(new, c)
<1>0. /\ issued \in Nat /\ MaxCommands \in Nat /\ new <= MaxCommands
      /\ new \notin DOMAIN cmds /\ DOMAIN cmds \subseteq 1..issued
      /\ c.key \in Keys
  BY CommandsAssumption DEF CVInv, CVTypeOK, PrepareAs, Commands
<1>1. /\ DOMAIN next = DOMAIN cmds \cup {new}
      /\ next[new] = c
      /\ \A j \in DOMAIN cmds :
           next[j] = IF j = active[c.key] THEN Superseded(cmds[j]) ELSE cmds[j]
  BY <1>0 DEF WithNew
<1>2. \A j \in DOMAIN cmds : cmds[j] \in Commands /\ Superseded(cmds[j]) \in Commands
  <2> SUFFICES ASSUME NEW j \in DOMAIN cmds
               PROVE  cmds[j] \in Commands /\ Superseded(cmds[j]) \in Commands
    OBVIOUS
  <2>1. cmds[j] \in Commands
    BY DEF CVInv, CVTypeOK
  <2>2. "superseded" \in Statuses
    BY DEF Statuses, Terminal
  <2> QED BY <2>1, <2>2 DEF Superseded, Commands
<1>3. \A j \in DOMAIN next : next[j] \in Commands
  BY <1>1, <1>2
<1>4. cmds' = Trim(next)
  BY DEF PrepareAs
<1> HIDE DEF next
<1>5. /\ DOMAIN cmds' \subseteq DOMAIN next
      /\ \A j \in DOMAIN cmds' : cmds'[j] = next[j]
      /\ \A j \in DOMAIN next : Live(next[j]) => j \in DOMAIN cmds'
  BY <1>4, TrimKeepsLive
<1>6. active' = [active EXCEPT ![c.key] = new] /\ issued' = new
      /\ failures' = failures
  BY DEF PrepareAs
<1>7. CVTypeOK'
  <2>1. DOMAIN cmds' \in SUBSET (1..new)
    BY <1>0, <1>1, <1>5
  <2>2. \A j \in DOMAIN cmds' : cmds'[j] \in Commands
    BY <1>3, <1>5
  <2>3. active' \in [Keys -> 0..new]
    BY <1>0, <1>6 DEF CVInv, CVTypeOK
  <2> QED BY <1>0, <1>6, <2>1, <2>2, <2>3 DEF CVInv, CVTypeOK
<1>8. \A k \in Keys : active'[k] # NoId =>
        /\ active'[k] \in DOMAIN cmds'
        /\ Live(cmds'[active'[k]])
        /\ cmds'[active'[k]].key = k
        /\ cmds'[active'[k]].effect = "pending"
  <2> SUFFICES ASSUME NEW k \in Keys, active'[k] # NoId
               PROVE  /\ active'[k] \in DOMAIN cmds'
                      /\ Live(cmds'[active'[k]])
                      /\ cmds'[active'[k]].key = k
                      /\ cmds'[active'[k]].effect = "pending"
    OBVIOUS
  <2>1. CASE k = c.key
    <3>1. active'[k] = new
      BY <2>1, <1>0, <1>6 DEF CVInv, CVTypeOK
    <3> QED BY <3>1, <2>1, <1>1, <1>5
  <2>2. CASE k # c.key
    <3>1. active'[k] = active[k] /\ active[k] # NoId
      BY <2>2, <1>6 DEF CVInv, CVTypeOK
    <3>2. /\ active[k] \in DOMAIN cmds /\ cmds[active[k]].key = k
          /\ Live(cmds[active[k]]) /\ cmds[active[k]].effect = "pending"
      BY <3>1 DEF CVInv, IndexSound, IndexPending
    <3>3. active[k] # active[c.key]
      BY <3>1, <3>2, <2>2, <1>0 DEF CVInv, IndexSound
    <3>4. next[active[k]] = cmds[active[k]] /\ active[k] \in DOMAIN next
      BY <3>2, <3>3, <1>1
    <3>5. active[k] \in DOMAIN cmds' /\ cmds'[active[k]] = cmds[active[k]]
      BY <3>2, <3>4, <1>5
    <3> QED BY <3>1, <3>2, <3>5
  <2> QED BY <2>1, <2>2
<1> QED BY <1>7, <1>8 DEF CVInv, IndexSound, IndexPending, Live

\* One step per method.
LEMMA CVNextInv == CVInv /\ [CVNext]_cvVars => CVInv'
<1> SUFFICES ASSUME CVInv, [CVNext]_cvVars PROVE CVInv'
  OBVIOUS
<1>0. \A id \in DOMAIN cmds : cmds[id] \in Commands
  BY DEF CVInv, CVTypeOK
<1>1. ASSUME NEW k \in Keys, NEW v \in Values, Prepare(k, v) PROVE CVInv'
  <2>1. NewCommand(k, v) \in Commands
    BY AttemptsAssumption DEF NewCommand, Commands, Statuses, Terminal, EffectStatuses
  <2>2. Live(NewCommand(k, v)) /\ NewCommand(k, v).effect = "pending"
    BY DEF NewCommand, Live, Terminal
  <2> QED BY <1>1, <2>1, <2>2, PrepareInv DEF Prepare
<1>2. ASSUME NEW id \in DOMAIN cmds, NEW b \in BOOLEAN, Gate(id, b) PROVE CVInv'
  <2>1. CASE b
    <3> DEFINE c == [cmds[id] EXCEPT !.status = "gate_accepted"]
    <3>1. c \in Commands /\ c.key = cmds[id].key /\ c.effect = cmds[id].effect
          /\ Live(c)
      BY <1>0 DEF Commands, Statuses, Live, Terminal
    <3>2. Keep(id, c)
      BY <1>2, <2>1 DEF Gate
    <3>3. active[c.key] = id => c.effect = "pending"
      BY <1>0, <3>1 DEF CVInv, CVTypeOK, IndexPending, NoId, Commands
    <3> HIDE DEF c
    <3> QED BY <3>1, <3>2, <3>3, KeepInv
  <2>2. CASE ~b
    <3> DEFINE c == [cmds[id] EXCEPT !.status = "blocked"]
    <3>1. c \in Commands /\ c.key = cmds[id].key
      BY <1>0 DEF Commands, Statuses, Terminal
    <3>2. Finish(id, c)
      BY <1>2, <2>2 DEF Gate
    <3> HIDE DEF c
    <3> QED BY <3>1, <3>2, FinishInv
  <2> QED BY <2>1, <2>2
<1>3. ASSUME NEW id \in DOMAIN cmds, Sent(id) PROVE CVInv'
  <2> DEFINE c == [cmds[id] EXCEPT !.attempts = @ + 1, !.sent = TRUE,
                                   !.status = "sent"]
  <2>1. c \in Commands /\ c.key = cmds[id].key /\ c.effect = cmds[id].effect
        /\ Live(c)
    <3>1. cmds[id].attempts + 1 \in 0..MaxAttempts
      BY <1>0, <1>3, AttemptsAssumption DEF Sent, Commands
    <3> QED BY <1>0, <3>1 DEF Commands, Statuses, Live, Terminal
  <2>2. Keep(id, c)
    BY <1>3 DEF Sent
  <2>3. active[c.key] = id => c.effect = "pending"
    BY <1>0, <2>1 DEF CVInv, CVTypeOK, IndexPending, NoId, Commands
  <2> HIDE DEF c
  <2> QED BY <2>1, <2>2, <2>3, KeepInv
<1>4. ASSUME NEW id \in DOMAIN cmds, NEW b \in BOOLEAN, TransportResult(id, b)
      PROVE CVInv'
  <2>1. CASE b
    <3> DEFINE c == [cmds[id] EXCEPT !.status = "transport_ok"]
    <3>1. c \in Commands /\ c.key = cmds[id].key /\ c.effect = cmds[id].effect
          /\ Live(c)
      BY <1>0 DEF Commands, Statuses, Live, Terminal
    <3>2. Keep(id, c)
      BY <1>4, <2>1 DEF TransportResult
    <3>3. active[c.key] = id => c.effect = "pending"
      BY <1>0, <3>1 DEF CVInv, CVTypeOK, IndexPending, NoId, Commands
    <3> HIDE DEF c
    <3> QED BY <3>1, <3>2, <3>3, KeepInv
  <2>2. CASE ~b
    <3> DEFINE c == [cmds[id] EXCEPT !.status = "transport_error"]
    <3>1. c \in Commands /\ c.key = cmds[id].key
      BY <1>0 DEF Commands, Statuses, Terminal
    <3>2. Fail(id, c)
      BY <1>4, <2>2 DEF TransportResult
    <3> HIDE DEF c
    <3> QED BY <3>1, <3>2, FailInv
  <2> QED BY <2>1, <2>2
<1>5. ASSUME NEW id \in DOMAIN cmds, NEW k \in Keys, NEW v \in Values,
             NEW fresh \in BOOLEAN, NEW replayed \in BOOLEAN,
             ObserveReadback(id, k, v, fresh, replayed)
      PROVE CVInv'
  <2> DEFINE s == ReadbackStatus(cmds[id], v)
             c == [cmds[id] EXCEPT !.seen = @ \cup {v}, !.readback = TRUE,
                                   !.status = s]
  <2>1. s \in {"contradictory_response", "readback_mismatch", "readback_confirmed"}
    BY DEF ReadbackStatus
  <2>2. c \in Commands /\ c.key = cmds[id].key /\ c.effect = cmds[id].effect
        /\ c.status = s
    <3> HIDE DEF s
    <3> QED BY <1>0, <2>1 DEF Commands, Statuses, Terminal
  <2>3. IF s = "readback_confirmed" THEN Keep(id, c) ELSE Fail(id, c)
    BY <1>5 DEF ObserveReadback
  <2>4. active[c.key] = id => c.effect = "pending"
    BY <1>0, <2>2 DEF CVInv, CVTypeOK, IndexPending, NoId, Commands
  <2> HIDE DEF c, s
  <2>5. CASE s = "readback_confirmed"
    <3>1. active[c.key] = id => Live(c) /\ c.effect = "pending"
      BY <2>2, <2>4, <2>5 DEF Live
    <3> QED BY <2>2, <2>3, <2>5, <3>1, KeepInv
  <2>6. CASE s # "readback_confirmed"
    BY <2>2, <2>3, <2>6, FailInv
  <2> QED BY <2>5, <2>6
<1>6. ASSUME NEW id \in DOMAIN cmds, ReadbackTimeout(id) PROVE CVInv'
  <2> DEFINE c == [cmds[id] EXCEPT !.status = "readback_timeout"]
  <2>1. c \in Commands /\ c.key = cmds[id].key
    BY <1>0 DEF Commands, Statuses, Terminal
  <2>2. Fail(id, c)
    BY <1>6 DEF ReadbackTimeout
  <2> HIDE DEF c
  <2> QED BY <2>1, <2>2, FailInv
<1>7. ASSUME NEW id \in DOMAIN cmds, NEW e \in EffectStatuses, Effect(id, e)
      PROVE CVInv'
  <2> DEFINE c(s) == [[cmds[id] EXCEPT !.effect = e] EXCEPT !.status = s]
             d == [cmds[id] EXCEPT !.effect = e]
  <2>1. \A s \in Statuses : c(s) \in Commands /\ c(s).key = cmds[id].key
    BY <1>0 DEF Commands
  <2>2. d \in Commands /\ d.key = cmds[id].key /\ d.status = cmds[id].status
        /\ d.effect = e
    BY <1>0 DEF Commands
  <2>3. {"effect_confirmed", "readback_confirmed", "effect_timeout",
         "effect_mismatch"} \subseteq Statuses
    BY DEF Statuses, Terminal
  <2>4. \/ e = "pending" /\ Keep(id, d)
        \/ \E s \in Statuses : Finish(id, c(s)) \/ Fail(id, c(s))
    BY <1>7, <2>3 DEF Effect
  <2>5. e = "pending" /\ active[d.key] = id => Live(d) /\ d.effect = "pending"
    <3> SUFFICES ASSUME e = "pending", active[d.key] = id
                 PROVE  Live(d) /\ d.effect = "pending"
      OBVIOUS
    <3>1. cmds[id].key \in Keys /\ id # NoId
      BY <1>0 DEF CVInv, CVTypeOK, Commands, NoId
    <3>2. Live(cmds[id]) /\ cmds[id].effect = "pending"
      BY <2>2, <3>1 DEF CVInv, IndexSound, IndexPending
    <3> HIDE DEF d
    <3> QED BY <2>2, <3>2 DEF Live
  <2> HIDE DEF c, d
  <2>6. CASE e = "pending" /\ Keep(id, d)
    BY <2>2, <2>5, <2>6, KeepInv
  <2>7. ASSUME NEW s \in Statuses, Finish(id, c(s)) PROVE CVInv'
    BY <2>1, <2>7, FinishInv
  <2>8. ASSUME NEW s \in Statuses, Fail(id, c(s)) PROVE CVInv'
    BY <2>1, <2>8, FailInv
  <2> QED BY <2>4, <2>6, <2>7, <2>8
<1>8. ASSUME NEW id \in DOMAIN cmds, Cancel(id) PROVE CVInv'
  <2> DEFINE c == [cmds[id] EXCEPT !.status = "cancelled"]
  <2>1. c \in Commands /\ c.key = cmds[id].key
    BY <1>0 DEF Commands, Statuses, Terminal
  <2>2. Finish(id, c)
    BY <1>8 DEF Cancel
  <2> HIDE DEF c
  <2> QED BY <2>1, <2>2, FinishInv
<1>9. CASE UNCHANGED cvVars
  BY <1>9 DEF cvVars, CVInv, CVTypeOK, IndexSound, IndexPending, Live
<1> QED
  BY <1>1, <1>2, <1>3, <1>4, <1>5, <1>6, <1>7, <1>8, <1>9 DEF CVNext

\* prepare never looks up a forgotten command and active_for only ever returns
\* a live one, for any callers and any history limit.
THEOREM IndexSoundness == CVSpec => [](CVTypeOK /\ IndexSound)
<1>1. CVInv => CVTypeOK /\ IndexSound
  BY DEF CVInv
<1> QED BY CVInitInv, CVNextInv, <1>1, PTL DEF CVSpec

\* A method that rewrites one command leaves the other commands as they are.
LEMMA OthersKept ==
  ASSUME NEW id \in DOMAIN cmds, NEW c,
         Keep(id, c) \/ Finish(id, c) \/ Fail(id, c)
  PROVE  /\ DOMAIN cmds' = DOMAIN cmds
         /\ \A j \in DOMAIN cmds \ {id} : cmds'[j] = cmds[j]
         /\ cmds'[id] \in {c, [c EXCEPT !.counted = TRUE]}
BY DEF Keep, Finish, Fail

\* Apart from prepare, every method rewrites one command in one of the three
\* ways, keeps its key and its failure mark, and makes it cancelled only while
\* it is unsent.
LEMMA StepShape ==
  ASSUME CVInv, CVNext
  PROVE  \/ \E k \in Keys, v \in Values : Prepare(k, v)
         \/ \E id \in DOMAIN cmds, c \in Commands :
              /\ c.key = cmds[id].key /\ c.counted = cmds[id].counted
              /\ c.status = "cancelled" => ~c.sent
              /\ Keep(id, c) \/ Finish(id, c) \/ Fail(id, c)
<1> DEFINE Shape(id, c) ==
             /\ c.key = cmds[id].key /\ c.counted = cmds[id].counted
             /\ c.status = "cancelled" => ~c.sent
             /\ Keep(id, c) \/ Finish(id, c) \/ Fail(id, c)
           Rewrites == \E id \in DOMAIN cmds, c \in Commands : Shape(id, c)
<1>0. \A id \in DOMAIN cmds : cmds[id] \in Commands
  BY DEF CVInv, CVTypeOK
<1>1. ASSUME NEW id \in DOMAIN cmds, NEW c \in Commands, Shape(id, c)
      PROVE  Rewrites
  BY <1>1
<1> HIDE DEF Rewrites
<1>3. ASSUME NEW id \in DOMAIN cmds,
             Cancel(id)
      PROVE  Rewrites
  <2> DEFINE c == [cmds[id] EXCEPT !.status = "cancelled"]
  <2>1. c \in Commands /\ c.sent = cmds[id].sent
        /\ c.key = cmds[id].key /\ c.counted = cmds[id].counted
    BY <1>0 DEF Commands, Statuses, Terminal
  <2>2. Finish(id, c) /\ ~cmds[id].sent
    BY <1>3 DEF Cancel
  <2> HIDE DEF c
  <2> QED BY <2>1, <2>2, <1>1
<1>4. ASSUME NEW id \in DOMAIN cmds, NEW b \in BOOLEAN,
             Gate(id, b) \/ TransportResult(id, b)
      PROVE  Rewrites
  <2> DEFINE c(s) == [cmds[id] EXCEPT !.status = s]
  <2>1. \A s \in Statuses : /\ c(s) \in Commands /\ c(s).status = s
                          /\ c(s).key = cmds[id].key /\ c(s).counted = cmds[id].counted
    BY <1>0 DEF Commands
  <2>2. \E s \in {"gate_accepted", "blocked", "transport_ok", "transport_error"} :
          Keep(id, c(s)) \/ Finish(id, c(s)) \/ Fail(id, c(s))
    BY <1>4 DEF Gate, TransportResult
  <2>3. {"gate_accepted", "blocked", "transport_ok", "transport_error"}
          \subseteq Statuses \ {"cancelled"}
    BY DEF Statuses, Terminal
  <2> HIDE DEF c
  <2> QED BY <2>1, <2>2, <2>3, <1>1
<1>5. ASSUME NEW id \in DOMAIN cmds, Sent(id)
      PROVE  Rewrites
  <2> DEFINE c == [cmds[id] EXCEPT !.attempts = @ + 1, !.sent = TRUE,
                                   !.status = "sent"]
  <2>1. cmds[id].attempts + 1 \in 0..MaxAttempts
    BY <1>0, <1>5, AttemptsAssumption DEF Sent, Commands
  <2>2. c \in Commands /\ c.status = "sent"
        /\ c.key = cmds[id].key /\ c.counted = cmds[id].counted
    BY <1>0, <2>1 DEF Commands, Statuses
  <2>3. Keep(id, c)
    BY <1>5 DEF Sent
  <2> HIDE DEF c
  <2> QED BY <2>2, <2>3, <1>1
<1>6. ASSUME NEW id \in DOMAIN cmds, NEW k \in Keys, NEW v \in Values,
             NEW fresh \in BOOLEAN, NEW replayed \in BOOLEAN,
             ObserveReadback(id, k, v, fresh, replayed)
      PROVE  Rewrites
  <2> DEFINE s == ReadbackStatus(cmds[id], v)
             c == [cmds[id] EXCEPT !.seen = @ \cup {v}, !.readback = TRUE,
                                   !.status = s]
  <2>1. s \in {"contradictory_response", "readback_mismatch", "readback_confirmed"}
    BY DEF ReadbackStatus
  <2>2. c \in Commands /\ c.status = s
        /\ c.key = cmds[id].key /\ c.counted = cmds[id].counted
    <3> HIDE DEF s
    <3> QED BY <1>0, <2>1 DEF Commands, Statuses, Terminal
  <2>3. Keep(id, c) \/ Fail(id, c)
    BY <1>6 DEF ObserveReadback
  <2> HIDE DEF c, s
  <2> QED BY <2>1, <2>2, <2>3, <1>1
<1>7. ASSUME NEW id \in DOMAIN cmds, ReadbackTimeout(id)
      PROVE  Rewrites
  <2> DEFINE c == [cmds[id] EXCEPT !.status = "readback_timeout"]
  <2>1. c \in Commands /\ c.status = "readback_timeout"
        /\ c.key = cmds[id].key /\ c.counted = cmds[id].counted
    BY <1>0 DEF Commands, Statuses, Terminal
  <2>2. Fail(id, c)
    BY <1>7 DEF ReadbackTimeout
  <2> HIDE DEF c
  <2> QED BY <2>1, <2>2, <1>1
<1>8. ASSUME NEW id \in DOMAIN cmds, NEW e \in EffectStatuses, Effect(id, e)
      PROVE  Rewrites
  <2> DEFINE c(s) == [[cmds[id] EXCEPT !.effect = e] EXCEPT !.status = s]
             d == [cmds[id] EXCEPT !.effect = e]
  <2>1. \A s \in Statuses : /\ c(s) \in Commands /\ c(s).status = s
                          /\ c(s).key = cmds[id].key /\ c(s).counted = cmds[id].counted
    BY <1>0 DEF Commands
  <2>2. d \in Commands /\ d.key = cmds[id].key /\ d.counted = cmds[id].counted
        /\ d.status = cmds[id].status /\ cmds[id].status # "cancelled"
    BY <1>0, <1>8 DEF Commands, Effect, Mutable
  <2>3. {"effect_confirmed", "readback_confirmed", "effect_timeout",
         "effect_mismatch"} \subseteq Statuses \ {"cancelled"}
    BY DEF Statuses, Terminal
  <2>4. \/ Keep(id, d)
        \/ \E s \in Statuses \ {"cancelled"} : Finish(id, c(s)) \/ Fail(id, c(s))
    BY <1>8, <2>3 DEF Effect
  <2> HIDE DEF c, d
  <2> QED BY <2>1, <2>2, <2>4, <1>1
<1> QED
  BY <1>3, <1>4, <1>5, <1>6, <1>7, <1>8 DEF CVNext, Rewrites

LEMMA CancelledStep ==
  CVInv /\ CancelledNeverSent /\ [CVNext]_cvVars => CancelledNeverSent'
<1> SUFFICES ASSUME CVInv, CancelledNeverSent, [CVNext]_cvVars
             PROVE  CancelledNeverSent'
  OBVIOUS
<1>0. \A id \in DOMAIN cmds : cmds[id] \in Commands
  BY DEF CVInv, CVTypeOK
<1>1. ASSUME NEW id \in DOMAIN cmds, NEW c \in Commands,
             Keep(id, c) \/ Finish(id, c) \/ Fail(id, c),
             c.status = "cancelled" => ~c.sent
      PROVE  CancelledNeverSent'
  <2>1. cmds'[id].status = c.status /\ cmds'[id].sent = c.sent
    BY <1>1, OthersKept DEF Commands
  <2> QED BY <1>1, <2>1, OthersKept DEF CancelledNeverSent
<1>2. ASSUME NEW k \in Keys, NEW v \in Values, Prepare(k, v)
      PROVE  CancelledNeverSent'
  <2> DEFINE c == NewCommand(k, v)
             next == WithNew(issued + 1, c)
  <2>1. cmds' = Trim(next)
    BY <1>2 DEF Prepare, PrepareAs
  <2>2. c.status = "prepared"
    BY DEF NewCommand
  <2>3. \A j \in DOMAIN next :
          \/ next[j].status \in {"prepared", "superseded"}
          \/ j \in DOMAIN cmds /\ next[j] = cmds[j]
    <3> SUFFICES ASSUME NEW j \in DOMAIN next
                 PROVE  \/ next[j].status \in {"prepared", "superseded"}
                        \/ j \in DOMAIN cmds /\ next[j] = cmds[j]
      OBVIOUS
    <3>1. CASE j = issued + 1
      BY <3>1, <2>2 DEF WithNew
    <3>2. CASE j # issued + 1
      <4>1. j \in DOMAIN cmds
        BY <3>2 DEF WithNew
      <4>2. next[j] \in {cmds[j], Superseded(cmds[j])}
        BY <3>2, <4>1 DEF WithNew
      <4>3. Superseded(cmds[j]) = cmds[j] \/ Superseded(cmds[j]).status = "superseded"
        BY <1>0, <4>1 DEF Superseded, Commands
      <4> QED BY <4>1, <4>2, <4>3
    <3> QED BY <3>1, <3>2
  <2> HIDE DEF next
  <2>4. /\ DOMAIN cmds' \subseteq DOMAIN next
        /\ \A j \in DOMAIN cmds' : cmds'[j] = next[j]
    BY <2>1, TrimKeepsLive
  <2> QED BY <2>3, <2>4 DEF CancelledNeverSent
<1>4. CASE UNCHANGED cvVars
  BY <1>4 DEF cvVars, CancelledNeverSent
<1> QED BY <1>1, <1>2, <1>4, StepShape

\* A cancelled command never reaches the device: cancel() refuses a command
\* that was sent, and sent() refuses one that was cancelled.
THEOREM CancelledCommandsStayUnsent == CVSpec => []CancelledNeverSent
<1>1. CVInit => CancelledNeverSent
  BY DEF CVInit, CancelledNeverSent
<1> QED BY <1>1, CVInitInv, CVNextInv, CancelledStep, PTL DEF CVSpec

\* What FailureCountedOnce says of a step.
CountsOnce ==
  \A d \in Devices : failures'[d] # failures[d] =>
    /\ failures'[d] = failures[d] + 1
    /\ \E id \in DOMAIN cmds \cap DOMAIN cmds' :
         /\ DeviceOf(cmds[id]) = d
         /\ ~cmds[id].counted /\ cmds'[id].counted

\* No method of the manager counts a failure without the mark, or twice.
LEMMA StepCountsOnce == ASSUME CVInv, CVNext PROVE CountsOnce
<1>1. CASE failures' = failures
  BY <1>1 DEF CountsOnce
<1>2. ASSUME NEW id \in DOMAIN cmds, NEW c \in Commands,
             c.key = cmds[id].key, c.counted = cmds[id].counted, Fail(id, c)
      PROVE  CountsOnce
  <2>1. cmds[id] \in Commands /\ failures \in [Devices -> Nat]
    BY DEF CVInv, CVTypeOK
  <2>2. id \in DOMAIN cmds' /\ cmds'[id].counted
    BY <1>2 DEF Fail, Commands
  <2>3. CASE c.counted
    BY <1>2, <2>1, <2>3 DEF Fail, CountsOnce
  <2>4. CASE ~c.counted
    <3>1. failures' = [failures EXCEPT ![DeviceOf(c)] = @ + 1]
      BY <1>2, <2>4 DEF Fail
    <3>2. DeviceOf(cmds[id]) = DeviceOf(c) /\ ~cmds[id].counted
      BY <1>2, <2>4 DEF DeviceOf
    <3> QED BY <2>1, <2>2, <3>1, <3>2 DEF CountsOnce
  <2> QED BY <2>3, <2>4
<1>3. ASSUME NEW k \in Keys, NEW v \in Values, Prepare(k, v) PROVE failures' = failures
  BY <1>3 DEF Prepare, PrepareAs
<1>4. ASSUME NEW id \in DOMAIN cmds, NEW c, Keep(id, c) \/ Finish(id, c)
      PROVE  failures' = failures
  BY <1>4 DEF Keep, Finish
<1> QED BY <1>1, <1>2, <1>3, <1>4, StepShape

\* The failure count of a device grows by one, and only together with the mark
\* on the failing command.
THEOREM FailuresCountCommands == CVSpec => FailureCountedOnce
<1>1. CVInv /\ [CVNext]_cvVars => [CountsOnce]_cvVars
  BY StepCountsOnce
<1>2. CVSpec => [][CountsOnce]_cvVars
  BY CVInitInv, CVNextInv, <1>1, PTL DEF CVSpec
<1> QED BY <1>2 DEF FailureCountedOnce, CountsOnce

-----------------------------------------------------------------------------
(* The adapters. The invariant                                            *)

Unrecorded(w) == work[w].batch \ work[w].recorded

\* A confirmed command was not counted, and a report carried the value asked for.
Deserved(c) ==
  c.status \in {"readback_confirmed", "effect_confirmed"} => ~c.counted /\ c.expected \in c.seen

\* The same is so of the readback of an indexed one; one in flight without a
\* readback is indexed.
Tracked(id, c) ==
  /\ active[c.key] = id => ~c.counted /\ (c.readback => c.expected \in c.seen)
  /\ c.status \in {"sent", "transport_ok"} /\ ~c.readback => active[c.key] = id

\* Every command is sent with its preparation.
CommandsTrue ==
  \A id \in DOMAIN cmds :
    /\ cmds[id].sent /\ cmds[id].status # "cancelled"
    /\ Deserved(cmds[id]) /\ Tracked(id, cmds[id])

\* A command belongs to one write set at most, and while it waits for its result
\* only a report or a newer command changes it.  Timers are those of commands
\* whose write set has returned.
WorkTrue ==
  /\ \A w, x \in Writers : w # x => work[w].batch \cap work[x].batch = {}
  /\ \A w \in Writers : work[w].batch \cap (timers \cup expired) = {}
  /\ \A w \in Writers : \A id \in Unrecorded(w) \cap DOMAIN cmds :
       ~cmds[id].readback => cmds[id].status \in {"sent", "superseded"}

\* Without cancelled tasks there is one write set at a time, and each of its keys
\* is prepared once.
OneWriteSet ==
  setup = "mqtt" =>
    /\ \A w \in Writers : work[w] # NoWork => holder = w
    /\ \A w \in Writers : \A id \in Unrecorded(w) \cap DOMAIN cmds :
         cmds[id].status # "superseded" /\ cmds[id].key \notin work[w].todo

WorkTypes ==
  work \in [Writers -> [todo : SUBSET Keys, batch : SUBSET (1..issued),
                        recorded : SUBSET (1..issued), outcome : {"none", "ok", "error"}]]

FateInv ==
  /\ CVInv /\ CDTypeOK /\ WorkTypes
  /\ CommandsTrue /\ WorkTrue /\ OneWriteSet /\ WindowCloses

\* The inductive invariant implies what the run checks.
LEMMA FateInvSound == FateInv => IndexSound /\ FateSound
<1> SUFFICES ASSUME FateInv PROVE IndexSound /\ FateSound
  OBVIOUS
<1>1. ConfirmedHasMatch /\ FailedNeverConfirmed
  BY DEF FateInv, CommandsTrue, Deserved, ConfirmedHasMatch, FailedNeverConfirmed
<1>2. ResultsAccepted
  BY DEF FateInv, CommandsTrue, OneWriteSet, Unrecorded, ResultsAccepted, Mutable
<1> QED BY <1>1, <1>2 DEF FateInv, FateSound, CVInv

LEMMA FateInitInv == CDInit => FateInv
<1> SUFFICES ASSUME CDInit PROVE FateInv
  OBVIOUS
<1>1. CVInv
  BY CVInitInv DEF CDInit
<1>2. DOMAIN cmds = {} /\ issued = 0
  BY DEF CDInit, CVInit
<1>3. WorkTypes
  BY <1>2 DEF CDInit, WorkTypes, NoWork
<1>4. CDTypeOK
  BY <1>1 DEF CDInit, CDTypeOK, CVInv, NoWork
<1> QED
  BY <1>1, <1>2, <1>3, <1>4
  DEF CDInit, FateInv, CommandsTrue, WorkTrue, OneWriteSet, WindowCloses, Unrecorded, NoWork

-----------------------------------------------------------------------------
(* The manager's steps                                                      *)

\* Rewriting one command in a way that keeps its key and that it was sent keeps
\* the manager sound and what is said of all others.
LEMMA RewriteCommands ==
  ASSUME CVInv, CommandsTrue, NEW id \in DOMAIN cmds, NEW c \in Commands,
         c.key = cmds[id].key, c.sent, c.status # "cancelled",
         \/ Keep(id, c) /\ Deserved(c) /\ Tracked(id, c)
         \/ Finish(id, c) /\ Deserved(c) /\ c.status \notin {"sent", "transport_ok"}
         \/ /\ Fail(id, c)
            /\ c.readback \/ c.status \notin {"sent", "transport_ok"}
            /\ c.status \notin {"readback_confirmed", "effect_confirmed"}
  PROVE  CommandsTrue'
<1>0. cmds[id] \in Commands /\ cmds[id].key \in Keys /\ id # NoId
  BY DEF CVInv, CVTypeOK, Commands, NoId
<1>1. /\ DOMAIN cmds' = DOMAIN cmds
      /\ \A j \in DOMAIN cmds \ {id} : cmds'[j] = cmds[j]
  BY OthersKept
<1>2. \A j \in DOMAIN cmds \ {id} : active'[cmds[j].key] = j <=> active[cmds[j].key] = j
  <2> SUFFICES ASSUME NEW j \in DOMAIN cmds \ {id}
               PROVE  active'[cmds[j].key] = j <=> active[cmds[j].key] = j
    OBVIOUS
  <2>1. j # NoId /\ cmds[j].key \in Keys /\ active \in [Keys -> 0..issued]
    BY DEF CVInv, CVTypeOK, Commands, NoId
  <2>2. active' = active \/ active' = Released(id)
    BY DEF Keep, Finish, Fail
  <2> QED BY <1>0, <2>1, <2>2 DEF Released
<1>3. ASSUME NEW j \in DOMAIN cmds \ {id}
      PROVE  /\ cmds'[j].sent /\ cmds'[j].status # "cancelled"
             /\ Deserved(cmds'[j]) /\ Tracked(j, cmds[j])'
  BY <1>1, <1>2, <1>3 DEF CommandsTrue, Deserved, Tracked
<1>4. CASE Keep(id, c) /\ Deserved(c) /\ Tracked(id, c)
  <2>1. cmds'[id] = c /\ active' = active
    BY <1>4 DEF Keep
  <2> QED BY <1>1, <1>3, <1>4, <2>1 DEF CommandsTrue, Tracked
<1>5. ASSUME Finish(id, c) \/ Fail(id, c) PROVE active'[c.key] # id
  BY <1>0, <1>5 DEF Finish, Fail, Released, CVInv, CVTypeOK
<1>6. CASE Finish(id, c) /\ Deserved(c) /\ c.status \notin {"sent", "transport_ok"}
  <2>1. cmds'[id] = c
    BY <1>6 DEF Finish
  <2> QED BY <1>1, <1>3, <1>5, <1>6, <2>1 DEF CommandsTrue, Tracked
<1>7. CASE /\ Fail(id, c)
           /\ c.readback \/ c.status \notin {"sent", "transport_ok"}
           /\ c.status \notin {"readback_confirmed", "effect_confirmed"}
  <2> DEFINE d == [c EXCEPT !.counted = TRUE]
  <2>1. cmds'[id] = d
    BY <1>7 DEF Fail
  <2>2. /\ d.status = c.status /\ d.sent = c.sent /\ d.key = c.key /\ d.readback = c.readback
    BY DEF Commands
  <2> HIDE DEF d
  <2> QED BY <1>1, <1>3, <1>5, <1>7, <2>1, <2>2 DEF CommandsTrue, Tracked, Deserved
<1> QED BY <1>4, <1>6, <1>7

\* prepare stores the new command, supersedes the indexed one of its key, and
\* leaves of the others what _trim retains.
LEMMA PrepareShape ==
  ASSUME CVInv, NEW c \in Commands, Live(c), PrepareAs(c)
  PROVE  /\ DOMAIN cmds' \subseteq DOMAIN cmds \cup {issued + 1}
         /\ issued + 1 \in DOMAIN cmds' /\ cmds'[issued + 1] = c
         /\ \A j \in DOMAIN cmds' \ {issued + 1} :
              cmds'[j] = IF j = active[c.key] THEN [cmds[j] EXCEPT !.status = "superseded"]
                         ELSE cmds[j]
         /\ active' = [active EXCEPT ![c.key] = issued + 1]
         /\ issued' = issued + 1 /\ failures' = failures
<1> DEFINE new == issued + 1
           next == WithNew(new, c)
<1>0. issued \in Nat /\ new \notin DOMAIN cmds /\ c.key \in Keys
  BY CommandsAssumption DEF CVInv, CVTypeOK, Commands
<1>1. /\ DOMAIN next = DOMAIN cmds \cup {new}
      /\ next[new] = c
      /\ \A j \in DOMAIN cmds :
           next[j] = IF j = active[c.key] THEN Superseded(cmds[j]) ELSE cmds[j]
  BY <1>0 DEF WithNew
<1>2. \A j \in DOMAIN cmds :
        j = active[c.key] => Superseded(cmds[j]) = [cmds[j] EXCEPT !.status = "superseded"]
  BY <1>0 DEF CVInv, CVTypeOK, IndexSound, NoId, Superseded
<1>3. cmds' = Trim(next)
  BY DEF PrepareAs
<1> HIDE DEF next
<1>4. /\ DOMAIN cmds' \subseteq DOMAIN next
      /\ \A j \in DOMAIN cmds' : cmds'[j] = next[j]
      /\ \A j \in DOMAIN next : Live(next[j]) => j \in DOMAIN cmds'
  BY <1>3, TrimKeepsLive
<1>5. \A j \in DOMAIN cmds' \ {new} :
        cmds'[j] = IF j = active[c.key] THEN [cmds[j] EXCEPT !.status = "superseded"]
                   ELSE cmds[j]
  BY <1>1, <1>2, <1>4
<1>6. new \in DOMAIN cmds' /\ cmds'[new] = c /\ DOMAIN cmds' \subseteq DOMAIN cmds \cup {new}
  BY <1>1, <1>4
<1> QED BY <1>5, <1>6 DEF PrepareAs

LEMMA PrepareCommands ==
  ASSUME CVInv, CommandsTrue, NEW c \in Commands, PrepareAs(c), Live(c), c.sent,
         c.status = "sent", ~c.counted, ~c.readback
  PROVE  CommandsTrue'
<1> DEFINE new == issued + 1
<1>0. c.key \in Keys /\ active \in [Keys -> 0..issued] /\ issued \in Nat
      /\ DOMAIN cmds \subseteq 1..issued
  BY CommandsAssumption DEF CVInv, CVTypeOK, Commands
<1>1. /\ DOMAIN cmds' \subseteq DOMAIN cmds \cup {new}
      /\ cmds'[new] = c
      /\ \A j \in DOMAIN cmds' \ {new} :
           cmds'[j] = IF j = active[c.key] THEN [cmds[j] EXCEPT !.status = "superseded"]
                      ELSE cmds[j]
      /\ active' = [active EXCEPT ![c.key] = new]
  BY PrepareShape
<1>2. ASSUME NEW j \in DOMAIN cmds', j = new
      PROVE  /\ cmds'[j].sent /\ cmds'[j].status # "cancelled"
             /\ Deserved(cmds'[j]) /\ Tracked(j, cmds[j])'
  BY <1>0, <1>1, <1>2 DEF Deserved, Tracked
<1>3. ASSUME NEW j \in DOMAIN cmds', j # new
      PROVE  /\ cmds'[j].sent /\ cmds'[j].status # "cancelled"
             /\ Deserved(cmds'[j]) /\ Tracked(j, cmds[j])'
  <2>1. j \in DOMAIN cmds /\ j # NoId /\ cmds[j] \in Commands /\ cmds[j].key \in Keys
    BY <1>0, <1>1, <1>3 DEF CVInv, CVTypeOK, Commands, NoId
  <2>2. cmds[j].sent /\ cmds[j].status # "cancelled" /\ Deserved(cmds[j]) /\ Tracked(j, cmds[j])
    BY <2>1 DEF CommandsTrue
  <2>3. CASE j = active[c.key]
    <3> DEFINE d == [cmds[j] EXCEPT !.status = "superseded"]
    <3>1. /\ d.status = "superseded" /\ d.sent = cmds[j].sent /\ d.key = cmds[j].key
          /\ cmds'[j] = d /\ cmds[j].key = c.key
      BY <1>0, <1>1, <1>3, <2>1, <2>3 DEF Commands, CVInv, IndexSound
    <3> HIDE DEF d
    <3>2. active'[c.key] # j
      BY <1>0, <1>1, <1>3
    <3> QED BY <2>2, <3>1, <3>2 DEF Deserved, Tracked
  <2>4. CASE j # active[c.key]
    <3>1. cmds'[j] = cmds[j]
      BY <1>1, <1>3, <2>4
    <3>2. active'[cmds[j].key] = j <=> active[cmds[j].key] = j
      BY <1>0, <1>1, <1>3, <2>1, <2>4
    <3> QED BY <2>2, <3>1, <3>2 DEF Tracked
  <2> QED BY <2>3, <2>4
<1> QED BY <1>2, <1>3 DEF CommandsTrue

-----------------------------------------------------------------------------
(* The adapters' steps                                                      *)

\* What a step that leaves the manager alone has to keep.
LEMMA ManagerKept ==
  ASSUME FateInv, UNCHANGED cvVars
  PROVE  CVInv' /\ CVTypeOK' /\ CommandsTrue'
BY DEF FateInv, cvVars, CVInv, CVTypeOK, IndexSound, IndexPending, Live, CommandsTrue, Deserved, Tracked

LEMMA BeginInv ==
  ASSUME FateInv, NEW w \in Writers, NEW d \in Devices, NEW T \in (SUBSET Targets) \ {{}},
         Begin(w, d, T)
  PROVE  FateInv'
<1>1. UNCHANGED cvVars /\ UNCHANGED restVars /\ holder' = w
      /\ work' = [work EXCEPT ![w].todo = {d} \X T] /\ work[w] = NoWork /\ holder = Nobody
  BY DEF Begin
<1>2. {d} \X T \in SUBSET Keys
  BY DEF Keys
<1>3. WorkTypes' /\ \A x \in Writers : work'[x].batch = work[x].batch
      /\ work'[x].recorded = work[x].recorded /\ work'[x].outcome = work[x].outcome
      /\ work'[x].todo \in SUBSET Keys /\ (x # w => work'[x] = work[x])
  BY <1>1, <1>2 DEF FateInv, WorkTypes, cvVars
<1>4. CDTypeOK'
  BY <1>1, <1>3, ManagerKept DEF FateInv, CDTypeOK, cvVars, restVars
<1>5. WorkTrue' /\ WindowCloses'
  BY <1>1, <1>3 DEF FateInv, WorkTrue, WindowCloses, Unrecorded, cvVars, restVars
<1>6. OneWriteSet'
  <2>1. work[w].batch = {}
    BY <1>1 DEF NoWork
  <2>2. setup = "mqtt" => \A x \in Writers : work[x] = NoWork
    BY <1>1, NobodyAssumption DEF FateInv, OneWriteSet
  <2> QED BY <1>1, <1>3, <2>1, <2>2 DEF OneWriteSet, Unrecorded, restVars, NoWork
<1> QED BY <1>1, <1>3, <1>4, <1>5, <1>6, ManagerKept DEF FateInv

LEMMA InvokeInv ==
  ASSUME FateInv, NEW w \in Writers, NEW d \in Devices, NEW T \in (SUBSET Targets) \ {{}},
         Invoke(w, d, T)
  PROVE  FateInv'
<1>1. /\ UNCHANGED cvVars /\ UNCHANGED restVars /\ holder' = holder
      /\ work' = [work EXCEPT ![w].todo = {d} \X T, ![w].outcome = "none"]
      /\ work[w].batch # {} /\ Unrecorded(w) = {}
  BY DEF Invoke, Complete, Unrecorded
<1>2. {d} \X T \in SUBSET Keys
  BY DEF Keys
<1>3. WorkTypes' /\ \A x \in Writers : work'[x].batch = work[x].batch
      /\ work'[x].recorded = work[x].recorded /\ (x # w => work'[x] = work[x])
  BY <1>1, <1>2 DEF FateInv, WorkTypes, cvVars
<1>4. CDTypeOK'
  BY <1>1, <1>3, ManagerKept DEF FateInv, CDTypeOK, WorkTypes, cvVars, restVars
<1>5. WorkTrue' /\ WindowCloses'
  BY <1>1, <1>3 DEF FateInv, WorkTrue, WindowCloses, Unrecorded, cvVars, restVars
<1>6. OneWriteSet'
  <2>1. work[w] # NoWork
    BY <1>1 DEF NoWork
  <2>2. ASSUME NEW x \in Writers, x # w
        PROVE  (work'[x] # NoWork <=> work[x] # NoWork) /\ Unrecorded(x)' = Unrecorded(x)
               /\ work'[x].todo = work[x].todo
    BY <1>3, <2>2 DEF Unrecorded
  <2>3. Unrecorded(w)' = {}
    BY <1>1, <1>3 DEF Unrecorded
  <2> QED BY <1>1, <2>1, <2>2, <2>3 DEF FateInv, OneWriteSet, cvVars, restVars
<1> QED BY <1>1, <1>3, <1>4, <1>5, <1>6, ManagerKept DEF FateInv

LEMMA ReplyInv ==
  ASSUME FateInv, NEW w \in Writers, NEW ok \in BOOLEAN, Reply(w, ok)
  PROVE  FateInv'
<1>1. /\ UNCHANGED cvVars /\ UNCHANGED restVars /\ holder' = holder
      /\ \E o \in {"ok", "error"} : work' = [work EXCEPT ![w].outcome = o]
      /\ work[w].batch # {}
  BY DEF Reply, Awaiting
<1>3. WorkTypes' /\ \A x \in Writers : work'[x].batch = work[x].batch
      /\ work'[x].recorded = work[x].recorded /\ work'[x].todo = work[x].todo
      /\ (x # w => work'[x] = work[x])
  BY <1>1 DEF FateInv, WorkTypes, cvVars
<1>4. CDTypeOK'
  BY <1>1, <1>3, ManagerKept DEF FateInv, CDTypeOK, WorkTypes, cvVars, restVars
<1>5. WorkTrue' /\ WindowCloses'
  BY <1>1, <1>3 DEF FateInv, WorkTrue, WindowCloses, Unrecorded, cvVars, restVars
<1>6. OneWriteSet'
  <2>1. work[w] # NoWork
    BY <1>1 DEF NoWork
  <2>2. \A x \in Writers : Unrecorded(x)' = Unrecorded(x)
    BY <1>3 DEF Unrecorded
  <2> QED BY <1>1, <1>3, <2>1, <2>2 DEF FateInv, OneWriteSet, cvVars, restVars
<1> QED BY <1>1, <1>3, <1>4, <1>5, <1>6, ManagerKept DEF FateInv

\* A write set that ends, with or without timers for its commands.
LEMMA EndInv ==
  ASSUME FateInv, NEW w \in Writers, UNCHANGED cvVars, UNCHANGED <<setup, expired>>,
         work' = [work EXCEPT ![w] = NoWork],
         timers' = timers \/ timers' = timers \cup work[w].batch,
         Release(w)
  PROVE  FateInv'
<1>1. /\ WorkTypes' /\ work'[w] = NoWork
      /\ \A x \in Writers : x # w => work'[x] = work[x]
  BY DEF FateInv, WorkTypes, NoWork, cvVars
<1>2. /\ NoWork.batch = {} /\ NoWork.recorded = {} /\ NoWork.todo = {}
      /\ NoWork.outcome = "none"
  BY DEF NoWork
<1>3. CDTypeOK'
  <2>1. timers' \cup expired' \subseteq 1..issued'
    BY DEF FateInv, CDTypeOK, cvVars
  <2>2. holder' \in Writers \cup {Nobody}
    BY DEF FateInv, CDTypeOK, Release
  <2> QED BY <1>1, <1>2, <2>1, <2>2, ManagerKept DEF FateInv, CDTypeOK, cvVars
<1>4. WorkTrue'
  <2>1. \A x \in Writers : work'[x].batch = IF x = w THEN {} ELSE work[x].batch
    BY <1>1, <1>2
  <2>2. \A x \in Writers : Unrecorded(x)' = IF x = w THEN {} ELSE Unrecorded(x)
    BY <1>1, <1>2 DEF Unrecorded
  <2>3. \A x \in Writers : work'[x].batch \cap (timers' \cup expired') = {}
    BY <2>1 DEF FateInv, WorkTrue
  <2> QED BY <2>1, <2>2, <2>3 DEF FateInv, WorkTrue, cvVars
<1>5. WindowCloses'
  BY DEF FateInv, WindowCloses, cvVars
<1>6. OneWriteSet'
  <2>1. \A x \in Writers : x # w => Unrecorded(x)' = Unrecorded(x)
    BY <1>1 DEF Unrecorded
  <2>2. Unrecorded(w)' = {}
    BY <1>1, <1>2 DEF Unrecorded
  <2>3. setup = "mqtt" => \A x \in Writers : work'[x] # NoWork => holder' = x
    <3> SUFFICES ASSUME setup = "mqtt", NEW x \in Writers, work'[x] # NoWork
                 PROVE  holder' = x
      OBVIOUS
    <3>1. x # w /\ holder = x
      BY <1>1 DEF FateInv, OneWriteSet
    <3> QED BY <3>1 DEF Release
  <2> QED BY <1>1, <2>1, <2>2, <2>3 DEF FateInv, OneWriteSet, cvVars
<1> QED BY <1>1, <1>3, <1>4, <1>5, <1>6, ManagerKept DEF FateInv

LEMMA PrepareWriteInv ==
  ASSUME FateInv, NEW w \in Writers, NEW k \in Keys, NEW v \in Values, PrepareWrite(w, k, v)
  PROVE  FateInv'
<1> DEFINE c == [NewCommand(k, v) EXCEPT !.status = "sent", !.sent = TRUE, !.attempts = 1]
           new == issued + 1
<1>1. /\ c \in Commands /\ c.key = k /\ c.status = "sent" /\ c.sent /\ ~c.counted /\ ~c.readback
      /\ c.effect = "pending" /\ Live(c)
  <2> DEFINE n == NewCommand(k, v)
  <2>1. n \in Commands
    BY AttemptsAssumption DEF NewCommand, Commands, Statuses, Terminal, EffectStatuses
  <2>2. n.key = k /\ ~n.counted /\ ~n.readback /\ n.effect = "pending"
    BY DEF NewCommand
  <2>3. 1 \in 0..MaxAttempts
    BY AttemptsAssumption
  <2> HIDE DEF n
  <2>4. c = [n EXCEPT !.status = "sent", !.sent = TRUE, !.attempts = 1]
    BY DEF n
  <2> HIDE DEF c
  <2>5. /\ c \in Commands /\ c.key = n.key /\ c.status = "sent" /\ c.sent = TRUE
        /\ c.counted = n.counted /\ c.readback = n.readback /\ c.effect = n.effect
    BY <2>1, <2>3, <2>4 DEF Commands, Statuses
  <2> QED BY <2>2, <2>5 DEF Live, Terminal
<1>2. /\ PrepareAs(c) /\ k \in work[w].todo /\ UNCHANGED <<setup, timers, expired, holder>>
      /\ work' = [work EXCEPT ![w].todo = @ \ {k}, ![w].batch = @ \cup {issued'}]
  BY DEF PrepareWrite, restVars
<1> HIDE DEF c
<1>3. CVInv' /\ CommandsTrue'
  BY <1>1, <1>2, PrepareInv, PrepareCommands DEF FateInv
<1>4. /\ DOMAIN cmds' \subseteq DOMAIN cmds \cup {new} /\ cmds'[new] = c /\ issued' = new
      /\ \A j \in DOMAIN cmds' \ {new} :
           cmds'[j] = IF j = active[k] THEN [cmds[j] EXCEPT !.status = "superseded"]
                      ELSE cmds[j]
  BY <1>1, <1>2, PrepareShape DEF FateInv
<1>5. /\ issued \in Nat /\ DOMAIN cmds \subseteq 1..issued /\ new \notin 1..issued
      /\ 1..issued \subseteq 1..new /\ new \in 1..new
      /\ timers \cup expired \subseteq 1..issued
  BY CommandsAssumption DEF FateInv, CVInv, CVTypeOK, CDTypeOK
<1>6. /\ work'[w].batch = work[w].batch \cup {new} /\ work'[w].todo = work[w].todo \ {k}
      /\ work'[w].recorded = work[w].recorded /\ work'[w].outcome = work[w].outcome
      /\ \A x \in Writers : x # w => work'[x] = work[x]
      /\ \A x \in Writers : work[x].batch \subseteq 1..issued /\ work[x].recorded \subseteq work[x].batch
  BY <1>2, <1>4 DEF FateInv, WorkTypes, CDTypeOK
<1>7. WorkTypes'
  BY <1>2, <1>4, <1>5 DEF FateInv, WorkTypes
<1>8. CDTypeOK'
  <2>1. /\ CVTypeOK' /\ setup' \in Setups /\ holder' \in Writers \cup {Nobody}
        /\ timers' \cup expired' \subseteq 1..issued'
    BY <1>2, <1>3, <1>4, <1>5 DEF FateInv, CDTypeOK, CVInv
  <2>2. \A x \in Writers : work'[x].recorded \subseteq work'[x].batch
    BY <1>6
  <2> QED BY <1>7, <2>1, <2>2 DEF CDTypeOK, WorkTypes
<1>9. \A j \in DOMAIN cmds' \ {new} :
        /\ j \in DOMAIN cmds /\ cmds'[j].key = cmds[j].key /\ cmds'[j].readback = cmds[j].readback
        /\ j # active[k] => cmds'[j].status = cmds[j].status
        /\ j = active[k] => cmds'[j].status = "superseded"
  BY <1>4 DEF FateInv, CVInv, CVTypeOK, Commands
<1>10. \A x \in Writers : Unrecorded(x)' = IF x = w THEN Unrecorded(w) \cup {new} ELSE Unrecorded(x)
  BY <1>5, <1>6 DEF Unrecorded
<1>11. WorkTrue'
  <2>1. \A x, y \in Writers : x # y => work'[x].batch \cap work'[y].batch = {}
    BY <1>5, <1>6 DEF FateInv, WorkTrue
  <2>2. \A x \in Writers : work'[x].batch \cap (timers' \cup expired') = {}
    <3>1. \A x \in Writers : work[x].batch \cap (timers \cup expired) = {}
      BY DEF FateInv, WorkTrue
    <3>2. new \notin timers \cup expired
      BY <1>5
    <3>3. timers' = timers /\ expired' = expired
      BY <1>2
    <3>4. \A x \in Writers : work'[x].batch \subseteq work[x].batch \cup {new}
      BY <1>6
    <3> QED BY <3>1, <3>2, <3>3, <3>4
  <2>3. ASSUME NEW x \in Writers, NEW j \in Unrecorded(x)' \cap DOMAIN cmds', ~cmds'[j].readback
        PROVE  cmds'[j].status \in {"sent", "superseded"}
    <3>1. CASE j = new
      BY <1>1, <1>4, <3>1
    <3>2. CASE j # new
      BY <1>9, <1>10, <2>3, <3>2 DEF FateInv, WorkTrue
    <3> QED BY <3>1, <3>2
  <2> QED BY <2>1, <2>2, <2>3 DEF WorkTrue
<1>12. OneWriteSet'
  <2> SUFFICES ASSUME setup = "mqtt" PROVE OneWriteSet'
    BY <1>2 DEF OneWriteSet
  <2>1. work[w] # NoWork /\ holder = w
    BY <1>2 DEF FateInv, OneWriteSet, NoWork
  <2>2. \A x \in Writers : work'[x] # NoWork => holder' = x
    BY <1>2, <1>6, <2>1 DEF FateInv, OneWriteSet
  <2>3. ASSUME NEW j \in Unrecorded(w)' \cap DOMAIN cmds'
        PROVE  cmds'[j].status # "superseded" /\ cmds'[j].key \notin work'[w].todo
    <3>1. CASE j = new
      BY <1>1, <1>4, <1>6, <3>1
    <3>2. CASE j # new
      <4>1. /\ j \in Unrecorded(w) \cap DOMAIN cmds /\ j # NoId
            /\ cmds[j].status # "superseded" /\ cmds[j].key \notin work[w].todo
        BY <1>5, <1>9, <1>10, <2>3, <3>2 DEF FateInv, OneWriteSet, NoId
      <4>2. j # active[k]
        BY <1>2, <4>1 DEF FateInv, CVInv, IndexSound
      <4> QED BY <1>6, <1>9, <2>3, <3>2, <4>1, <4>2
    <3> QED BY <3>1, <3>2
  <2>4. \A x \in Writers : x # w => Unrecorded(x)' = {}
    <3> SUFFICES ASSUME NEW x \in Writers, x # w PROVE Unrecorded(x)' = {}
      OBVIOUS
    <3>1. work'[x] = NoWork
      BY <1>2, <2>1, <2>2
    <3> QED BY <3>1 DEF NoWork, Unrecorded
  <2> QED BY <2>2, <2>3, <2>4 DEF OneWriteSet
<1>13. WindowCloses'
  BY <1>2, <1>5, <1>9 DEF FateInv, WindowCloses
<1> QED BY <1>3, <1>7, <1>8, <1>11, <1>12, <1>13 DEF FateInv

\* A command that got a readback, or that no write set holds any more, may change
\* in every way but being superseded.
LEMMA RewriteWork ==
  ASSUME FateInv, CVInv', NEW id \in DOMAIN cmds, DOMAIN cmds' = DOMAIN cmds, issued' = issued,
         \A j \in DOMAIN cmds \ {id} : cmds'[j] = cmds[j],
         cmds'[id].key = cmds[id].key, cmds'[id].status # "superseded",
         UNCHANGED <<setup, work, holder>>,
         timers' \cup expired' = timers \cup expired, expired \subseteq expired',
         \/ cmds'[id].readback /\ expired' = expired
         \/ /\ \A w \in Writers : id \notin work[w].batch
            /\ cmds'[id].status \notin {"sent", "transport_ok"}
            /\ expired' \subseteq expired \cup {id}
  PROVE  WorkTypes' /\ CDTypeOK' /\ WorkTrue' /\ OneWriteSet' /\ WindowCloses'
<1>1. WorkTypes' /\ CDTypeOK'
  BY DEF FateInv, WorkTypes, CDTypeOK, CVInv
<1>2. \A w \in Writers : Unrecorded(w)' = Unrecorded(w) /\ Unrecorded(w) \subseteq work[w].batch
  BY DEF Unrecorded
<1>3. WorkTrue'
  BY <1>2 DEF FateInv, WorkTrue
<1>4. OneWriteSet'
  BY <1>2 DEF FateInv, OneWriteSet
<1>5. WindowCloses'
  BY DEF FateInv, WindowCloses
<1> QED BY <1>1, <1>3, <1>4, <1>5

LEMMA RecordResultInv ==
  ASSUME FateInv, NEW w \in Writers, NEW id \in work[w].batch, RecordResult(w, id)
  PROVE  FateInv'
<1> DEFINE o(s) == [cmds[id] EXCEPT !.status = s]
           e == [o("transport_error") EXCEPT !.counted = TRUE]
<1>1. /\ id \in DOMAIN cmds /\ id \in Unrecorded(w) /\ cmds[id] \in Commands /\ cmds[id].sent
      /\ cmds[id].status \notin {"superseded", "cancelled"}
      /\ UNCHANGED <<setup, timers, expired, holder>>
      /\ work' = [work EXCEPT ![w].recorded = @ \cup {id}]
  BY DEF RecordResult, TransportResult, Mutable, FateInv, CVInv, CVTypeOK, CommandsTrue, Unrecorded, restVars
<1>2. Keep(id, o("transport_ok")) \/ Fail(id, o("transport_error"))
  BY DEF RecordResult, TransportResult
<1>3. \A s \in {"transport_ok", "transport_error"} :
        /\ o(s) \in Commands /\ o(s).key = cmds[id].key /\ o(s).status = s
        /\ o(s).sent = cmds[id].sent /\ o(s).counted = cmds[id].counted
        /\ o(s).readback = cmds[id].readback
        /\ o(s).expected = cmds[id].expected /\ o(s).seen = cmds[id].seen
  BY <1>1 DEF Commands, Statuses, Terminal
<1> HIDE DEF o
<1>4. CVInv'
  <2>1. \E b \in BOOLEAN : TransportResult(id, b)
    BY DEF RecordResult
  <2> QED BY <1>1, <2>1, CVNextInv DEF FateInv, CVNext
<1>5. CommandsTrue'
  <2>1. Deserved(cmds[id]) /\ Tracked(id, cmds[id])
    BY <1>1 DEF FateInv, CommandsTrue
  <2>2. ~cmds[id].readback => cmds[id].status = "sent"
    BY <1>1 DEF FateInv, WorkTrue
  <2>3. Tracked(id, o("transport_ok")) /\ Deserved(o("transport_ok"))
    BY <1>3, <2>1, <2>2 DEF Tracked, Deserved
  <2> QED BY <1>1, <1>2, <1>3, <2>3, RewriteCommands DEF FateInv
<1>6. /\ DOMAIN cmds' = DOMAIN cmds /\ issued' = issued
      /\ \A j \in DOMAIN cmds \ {id} : cmds'[j] = cmds[j]
  BY <1>2, OthersKept DEF Keep, Fail
<1>7. /\ \A x \in Writers : work'[x].batch = work[x].batch /\ work'[x].todo = work[x].todo
                            /\ work'[x].outcome = work[x].outcome
                            /\ (x # w => work'[x] = work[x])
      /\ work'[w].recorded = work[w].recorded \cup {id}
      /\ WorkTypes'
  BY <1>1, <1>6 DEF FateInv, WorkTypes
<1>8. \A x \in Writers : Unrecorded(x)' \subseteq Unrecorded(x) /\ id \notin Unrecorded(x)'
  <2> SUFFICES ASSUME NEW x \in Writers
               PROVE  Unrecorded(x)' \subseteq Unrecorded(x) /\ id \notin Unrecorded(x)'
    OBVIOUS
  <2>1. x # w => id \notin work[x].batch
    BY <1>1 DEF FateInv, WorkTrue, Unrecorded
  <2> QED BY <1>7, <2>1 DEF Unrecorded
<1>9. CDTypeOK'
  <2>1. \A x \in Writers : work'[x].recorded \subseteq work'[x].batch
    BY <1>7 DEF FateInv, CDTypeOK
  <2> QED BY <1>1, <1>4, <1>6, <1>7, <2>1 DEF FateInv, CDTypeOK, WorkTypes, CVInv
<1>10. WorkTrue'
  BY <1>1, <1>6, <1>7, <1>8 DEF FateInv, WorkTrue
<1>11. OneWriteSet'
  <2>1. work[w] # NoWork
    BY <1>1 DEF NoWork, Unrecorded
  <2> QED BY <1>1, <1>6, <1>7, <1>8, <2>1 DEF FateInv, OneWriteSet
<1>12. WindowCloses'
  <2>1. id \notin expired
    BY <1>1 DEF FateInv, WorkTrue, Unrecorded
  <2> QED BY <1>1, <1>6, <2>1 DEF FateInv, WindowCloses
<1> QED BY <1>4, <1>5, <1>7, <1>9, <1>10, <1>11, <1>12 DEF FateInv

LEMMA ObserveInv ==
  ASSUME FateInv, NEW k \in Keys, NEW v \in Values, NEW fresh \in BOOLEAN, NEW replayed \in BOOLEAN,
         Observe(k, v, fresh, replayed)
  PROVE  FateInv'
<1> DEFINE id == active[k]
           s == ReadbackStatus(cmds[id], v)
           c == [cmds[id] EXCEPT !.seen = @ \cup {v}, !.readback = TRUE, !.status = s]
<1>1. /\ id \in DOMAIN cmds /\ id # NoId /\ cmds[id] \in Commands /\ k = cmds[id].key
      /\ ObserveReadback(id, k, v, fresh, replayed)
      /\ UNCHANGED <<setup, timers, expired, work, holder>>
  BY DEF Observe, ObserveReadback, Observable, FateInv, CVInv, CVTypeOK, restVars
<1>2. s \in {"contradictory_response", "readback_mismatch", "readback_confirmed"}
      /\ (s = "readback_confirmed" => v = cmds[id].expected)
  BY DEF ReadbackStatus
<1>3. IF s = "readback_confirmed" THEN Keep(id, c) ELSE Fail(id, c)
  BY <1>1 DEF ObserveReadback
<1>4. /\ c \in Commands /\ c.key = cmds[id].key /\ c.status = s /\ c.readback /\ c.sent = cmds[id].sent
      /\ c.expected = cmds[id].expected /\ c.seen = cmds[id].seen \cup {v}
      /\ c.counted = cmds[id].counted
  <2> HIDE DEF s
  <2> QED BY <1>1, <1>2 DEF Commands, Statuses, Terminal
<1> HIDE DEF c, s
<1>5. CVInv'
  BY <1>1, CVNextInv DEF FateInv, CVNext
<1>6. cmds[id].sent /\ Deserved(cmds[id]) /\ Tracked(id, cmds[id])
  BY <1>1 DEF FateInv, CommandsTrue
<1>7. CommandsTrue'
  <2>1. s = "readback_confirmed" => Deserved(c) /\ Tracked(id, c)
    BY <1>1, <1>2, <1>4, <1>6 DEF Deserved, Tracked
  <2> QED BY <1>1, <1>2, <1>3, <1>4, <1>6, <2>1, RewriteCommands DEF FateInv
<1>8. /\ DOMAIN cmds' = DOMAIN cmds /\ issued' = issued
      /\ \A j \in DOMAIN cmds \ {id} : cmds'[j] = cmds[j]
      /\ cmds'[id].key = c.key /\ cmds'[id].readback = c.readback /\ cmds'[id].status = c.status
  <2>1. Keep(id, c) \/ Fail(id, c)
    BY <1>3
  <2>2. cmds'[id] \in {c, [c EXCEPT !.counted = TRUE]}
    BY <1>1, <2>1, OthersKept
  <2>3. DOMAIN cmds' = DOMAIN cmds /\ \A j \in DOMAIN cmds \ {id} : cmds'[j] = cmds[j]
    BY <1>1, <2>1, OthersKept
  <2>4. issued' = issued
    BY <2>1 DEF Keep, Fail
  <2>5. /\ cmds'[id].key = c.key /\ cmds'[id].readback = c.readback
        /\ cmds'[id].status = c.status
    BY <1>4, <2>2 DEF Commands
  <2> QED BY <2>3, <2>4, <2>5
<1>9. WorkTypes' /\ CDTypeOK' /\ WorkTrue' /\ OneWriteSet' /\ WindowCloses'
  BY <1>1, <1>2, <1>4, <1>5, <1>8, RewriteWork
<1> QED BY <1>5, <1>7, <1>9 DEF FateInv

LEMMA PhysicalEffectInv ==
  ASSUME FateInv, NEW k \in Keys, NEW e \in {"confirmed", "timeout"}, PhysicalEffect(k, e)
  PROVE  FateInv'
<1> DEFINE id == active[k]
           o(s) == [[cmds[id] EXCEPT !.effect = e] EXCEPT !.status = s]
<1>1. /\ id # NoId /\ Mutable(id) /\ id \in DOMAIN cmds /\ cmds[id] \in Commands
      /\ cmds[id].readback /\ k = cmds[id].key /\ Effect(id, e)
      /\ UNCHANGED <<setup, timers, expired, work, holder>>
  BY DEF PhysicalEffect, Effect, Mutable, FateInv, CVInv, CVTypeOK, IndexSound, restVars
<1>2. \/ Finish(id, o("effect_confirmed"))
      \/ Fail(id, o("effect_timeout"))
  BY <1>1 DEF Effect
<1>3. \A s \in {"effect_confirmed", "effect_timeout"} :
        /\ o(s) \in Commands /\ o(s).key = cmds[id].key /\ o(s).status = s
        /\ o(s).sent = cmds[id].sent /\ o(s).counted = cmds[id].counted
        /\ o(s).readback = cmds[id].readback
        /\ o(s).expected = cmds[id].expected /\ o(s).seen = cmds[id].seen
  BY <1>1 DEF Commands, Statuses, Terminal, EffectStatuses
<1> HIDE DEF o
<1>4. CVInv'
  <2>1. e \in EffectStatuses
    BY DEF EffectStatuses
  <2> QED BY <1>1, <2>1, CVNextInv DEF FateInv, CVNext
<1>5. cmds[id].sent /\ ~cmds[id].counted /\ cmds[id].expected \in cmds[id].seen
  BY <1>1 DEF FateInv, CommandsTrue, Tracked
<1>6. CommandsTrue'
  <2>1. Deserved(o("effect_confirmed"))
    BY <1>3, <1>5 DEF Deserved
  <2> QED BY <1>1, <1>2, <1>3, <1>5, <2>1, RewriteCommands DEF FateInv
<1>7. /\ DOMAIN cmds' = DOMAIN cmds /\ issued' = issued
      /\ \A j \in DOMAIN cmds \ {id} : cmds'[j] = cmds[j]
      /\ cmds'[id].key = cmds[id].key /\ cmds'[id].readback /\ cmds'[id].status # "superseded"
  <2>1. PICK s \in {"effect_confirmed", "effect_timeout"} : Finish(id, o(s)) \/ Fail(id, o(s))
    BY <1>2
  <2>2. DOMAIN cmds' = DOMAIN cmds /\ \A j \in DOMAIN cmds \ {id} : cmds'[j] = cmds[j]
    BY <1>1, <2>1, OthersKept
  <2>3. issued' = issued
    BY <2>1 DEF Finish, Fail
  <2>4. cmds'[id] \in {o(s), [o(s) EXCEPT !.counted = TRUE]}
    BY <1>1, <2>1, OthersKept
  <2>5. /\ cmds'[id].key = o(s).key /\ cmds'[id].readback = o(s).readback
        /\ cmds'[id].status = o(s).status
    BY <1>3, <2>4 DEF Commands
  <2> QED BY <1>1, <1>3, <2>2, <2>3, <2>5
<1>8. WorkTypes' /\ CDTypeOK' /\ WorkTrue' /\ OneWriteSet' /\ WindowCloses'
  BY <1>1, <1>4, <1>7, RewriteWork
<1> QED BY <1>4, <1>6, <1>8 DEF FateInv

LEMMA ExpireInv ==
  ASSUME FateInv, NEW id \in timers, Expire(id)
  PROVE  FateInv'
<1>1. /\ timers' = timers \ {id} /\ expired' = expired \cup {id}
      /\ UNCHANGED <<setup, work, holder>>
      /\ \A w \in Writers : id \notin work[w].batch
  BY DEF Expire, FateInv, WorkTrue
<1>2. CASE /\ id \in DOMAIN cmds /\ active[cmds[id].key] = id /\ ~cmds[id].readback
           /\ ReadbackTimeout(id)
  <2> DEFINE c == [cmds[id] EXCEPT !.status = "readback_timeout"]
  <2>1. Fail(id, c)
    BY <1>2 DEF ReadbackTimeout
  <2>2. /\ c \in Commands /\ c.key = cmds[id].key /\ c.status = "readback_timeout"
        /\ c.sent = cmds[id].sent /\ cmds[id].sent
    BY <1>2 DEF FateInv, CVInv, CVTypeOK, CommandsTrue, Commands, Statuses, Terminal
  <2> HIDE DEF c
  <2>3. CVInv'
    BY <1>2, CVNextInv DEF FateInv, CVNext
  <2>4. CommandsTrue'
    BY <1>2, <2>1, <2>2, RewriteCommands DEF FateInv
  <2>5. DOMAIN cmds' = DOMAIN cmds /\ \A j \in DOMAIN cmds \ {id} : cmds'[j] = cmds[j]
    BY <1>2, <2>1, OthersKept
  <2>6. issued' = issued
    BY <2>1 DEF Fail
  <2>7. cmds'[id].key = c.key /\ cmds'[id].status = c.status
    BY <1>2, <2>1, <2>2, OthersKept DEF Commands
  <2>8. WorkTypes' /\ CDTypeOK' /\ WorkTrue' /\ OneWriteSet' /\ WindowCloses'
    BY <1>1, <1>2, <2>2, <2>3, <2>5, <2>6, <2>7, RewriteWork
  <2> QED BY <2>3, <2>4, <2>8 DEF FateInv
<1>3. CASE /\ ~(id \in DOMAIN cmds /\ active[cmds[id].key] = id /\ ~cmds[id].readback)
           /\ UNCHANGED cvVars
  <2>1. WorkTypes' /\ CDTypeOK'
    BY <1>1, <1>3, ManagerKept DEF FateInv, WorkTypes, CDTypeOK, cvVars
  <2>2. WorkTrue' /\ OneWriteSet'
    BY <1>1, <1>3 DEF FateInv, WorkTrue, OneWriteSet, Unrecorded, cvVars
  <2>3. id \in DOMAIN cmds /\ cmds[id].status \in {"sent", "transport_ok"} => cmds[id].readback
    BY <1>3 DEF FateInv, CommandsTrue, Tracked
  <2>4. WindowCloses'
    BY <1>1, <1>3, <2>3 DEF FateInv, WindowCloses, cvVars
  <2> QED BY <1>3, <2>1, <2>2, <2>4, ManagerKept DEF FateInv
<1> QED BY <1>2, <1>3 DEF Expire

\* One step per action.
LEMMA FateNextInv == FateInv /\ [CDNext]_cdVars => FateInv'
<1> SUFFICES ASSUME FateInv, [CDNext]_cdVars PROVE FateInv'
  OBVIOUS
<1>1. ASSUME NEW w \in Writers, NEW id \in work[w].batch, RecordRaises(w, id)
      PROVE  FateInv'
  BY <1>1, EndInv DEF RecordRaises, restVars
<1>2. ASSUME NEW w \in Writers, Return(w) PROVE FateInv'
  BY <1>2, EndInv DEF Return
<1>3. ASSUME NEW w \in Writers, Abandon(w) PROVE FateInv'
  <2>1. CASE Threaded
    <3>1. /\ UNCHANGED <<work, timers, expired, setup>> /\ UNCHANGED cvVars
          /\ holder' = Nobody /\ setup # "mqtt"
      BY <1>3, <2>1 DEF Abandon, Cancellable, restVars
    <3>2. WorkTypes' /\ CDTypeOK'
      BY <3>1, ManagerKept DEF FateInv, WorkTypes, CDTypeOK, cvVars
    <3>3. WorkTrue' /\ OneWriteSet' /\ WindowCloses'
      BY <3>1 DEF FateInv, WorkTrue, OneWriteSet, WindowCloses, Unrecorded, cvVars
    <3> QED BY <3>1, <3>2, <3>3, ManagerKept DEF FateInv
  <2>2. CASE ~Threaded
    BY <1>3, <2>2, EndInv DEF Abandon, Release, restVars
  <2> QED BY <2>1, <2>2
<1>4. CASE UNCHANGED cdVars
  <2>1. UNCHANGED cvVars /\ UNCHANGED <<setup, work, holder, timers, expired>>
    BY <1>4 DEF cdVars, cvVars
  <2>2. WorkTypes' /\ CDTypeOK'
    BY <2>1, ManagerKept DEF FateInv, WorkTypes, CDTypeOK, cvVars
  <2>3. WorkTrue' /\ OneWriteSet' /\ WindowCloses'
    BY <2>1 DEF FateInv, WorkTrue, OneWriteSet, WindowCloses, Unrecorded, cvVars
  <2> QED BY <2>1, <2>2, <2>3, ManagerKept DEF FateInv
<1> QED
  BY <1>1, <1>2, <1>3, <1>4, BeginInv, InvokeInv, PrepareWriteInv, ReplyInv, RecordResultInv,
     ObserveInv, PhysicalEffectInv, ExpireInv
  DEF CDNext

\* Whatever results, reports, effects, timeouts and cancellations of overlapping
\* write sets come between, a command is said to be confirmed only after its own
\* value was reported, a failed one never, and one whose window is over is not
\* left in flight unanswered.
THEOREM FateIsSound == CDSpec => [](IndexSound /\ FateSound)
BY FateInitInv, FateNextInv, FateInvSound, PTL DEF CDSpec

\* The failures that make a device unreliable are counted once per command.
THEOREM FailuresCountedOnce == CDSpec => FailureCountedOnce
<1>1. FateInv /\ [CDNext]_cdVars => [CountsOnce]_cvVars
  <2> SUFFICES ASSUME FateInv, [CDNext]_cdVars PROVE [CountsOnce]_cvVars
    OBVIOUS
  <2>1. CASE CVNext
    BY <2>1, StepCountsOnce DEF FateInv
  <2>2. CASE UNCHANGED cvVars
    BY <2>2
  <2>3. ASSUME NEW w \in Writers, NEW k \in Keys, NEW v \in Values, PrepareWrite(w, k, v)
        PROVE  CountsOnce
    BY <2>3 DEF PrepareWrite, PrepareAs, CountsOnce
  <2>4. ASSUME NEW w \in Writers, NEW id \in work[w].batch, RecordResult(w, id)
        PROVE  CVNext
    BY <2>4 DEF RecordResult, TransportResult, Mutable, CVNext
  <2>5. ASSUME NEW k \in Keys, NEW v \in Values, NEW fresh \in BOOLEAN, NEW replayed \in BOOLEAN,
               Observe(k, v, fresh, replayed)
        PROVE  CVNext
    BY <2>5 DEF Observe, ObserveReadback, FateInv, CVInv, IndexSound, CVNext
  <2>6. ASSUME NEW k \in Keys, NEW e \in {"confirmed", "timeout"}, PhysicalEffect(k, e)
        PROVE  CVNext
    BY <2>6 DEF PhysicalEffect, EffectStatuses, FateInv, CVInv, IndexSound, CVNext
  <2>7. ASSUME NEW id \in timers, Expire(id) PROVE CVNext \/ UNCHANGED cvVars
    BY <2>7 DEF Expire, CVNext
  <2>8. ASSUME NEW w \in Writers,
               \/ \E d \in Devices, T \in SUBSET Targets : Begin(w, d, T) \/ Invoke(w, d, T)
               \/ \E ok \in BOOLEAN : Reply(w, ok)
               \/ \E id \in work[w].batch : RecordRaises(w, id)
               \/ Return(w) \/ Abandon(w)
        PROVE  UNCHANGED cvVars
    BY <2>8 DEF Begin, Invoke, Reply, RecordRaises, Return, Abandon
  <2>9. CASE UNCHANGED cdVars
    BY <2>9 DEF cdVars, cvVars
  <2> QED
    BY <2>1, <2>2, <2>3, <2>4, <2>5, <2>6, <2>7, <2>8, <2>9 DEF CDNext
<1>2. CDSpec => [][CountsOnce]_cvVars
  BY <1>1, FateInitInv, FateNextInv, PTL DEF CDSpec
<1> QED BY <1>2 DEF FailureCountedOnce, CountsOnce


(***************************************************************************)
(* The packs                                                               *)
(***************************************************************************)
Counts == {Cardinality(ids) : ids \in SUBSET Packs} \cup {Unknown}

Lists == (SUBSET Packs) \cup {Unknown}
Votes == 0..Confirmations - 1
Memberships == [current : Lists, candidate : Lists, votes : Votes, expected : Counts]

\* A membership is one that a report listed, so packs that were together.
Together(ids) == \E set \in mountedOnce : ids \subseteq set

Proven(m) ==
  /\ m \in Memberships
  /\ m.candidate = Unknown <=> m.votes = 0
  /\ m.current # Unknown => Together(m.current)

\* The fusion meets every report that a route meets: without a membership and
\* without a count of its own it knows that no route has one.
PacksInv ==
  /\ stable \in BOOLEAN /\ failed \in BOOLEAN
  /\ mounted \in mountedOnce /\ mountedOnce \subseteq Mountings
  /\ open \subseteq Routes /\ told \in [Routes -> mountedOnce]
  /\ inventory \in [Routes -> [stab : Memberships, known : SUBSET Packs]]
  /\ Proven(fused)
  /\ \A r \in Routes : Proven(inventory[r].stab)
  /\ fused.current = Unknown /\ fused.expected = Unknown =>
       \A r \in Routes : inventory[r].stab.current = Unknown

\* What PackMembershipStabilizer makes of a list: it keeps its membership, or
\* accepts the list, or waits for its confirmation.
LEMMA ObserveKeepsProven ==
  ASSUME NEW m, Proven(m), NEW ids \in SUBSET Packs, Together(ids), stable \in BOOLEAN
  PROVE  /\ Proven(ObservePacks(m, ids))
         /\ ObservePacks(m, ids).expected = m.expected
         /\ m.current # Unknown => ObservePacks(m, ids).current # Unknown
         /\ m.expected = Unknown => ObservePacks(m, ids).current # Unknown
<1> DEFINE votes == IF ids = m.candidate THEN m.votes + 1 ELSE 1
           a == Accept(m, ids)
           w == [m EXCEPT !.candidate = ids, !.votes = votes]
<1>1. /\ m \in Memberships /\ ids # Unknown
      /\ m.candidate = Unknown <=> m.votes = 0
      /\ m.current # Unknown => Together(m.current)
  BY UnknownAssumption DEF Proven
<1>0. {ids, Unknown} \subseteq Lists /\ 0 \in Votes
  BY DEF Lists, Votes, Confirmations
<1>2. /\ a \in Memberships /\ a.current = ids /\ a.candidate = Unknown /\ a.votes = 0
      /\ a.expected = m.expected
  BY <1>0, <1>1 DEF Accept, Memberships
<1>3. votes \in Nat \ {0}
  BY <1>1 DEF Memberships, Votes, Confirmations
<1>4. ASSUME votes < Confirmations
      PROVE  /\ w \in Memberships /\ w.current = m.current /\ w.candidate = ids
             /\ w.votes = votes /\ w.expected = m.expected
  <2>1. votes \in Votes
    BY <1>3, <1>4 DEF Votes, Confirmations
  <2> HIDE DEF votes
  <2> QED BY <1>0, <1>1, <2>1 DEF Memberships
<1>5. ObservePacks(m, ids) = IF m.expected # Unknown /\ Cardinality(ids) # m.expected THEN m
                        ELSE IF m.current \in {Unknown, ids} \/ ~stable \/ votes >= Confirmations
                        THEN a ELSE w
  BY DEF ObservePacks
<1> HIDE DEF votes, a, w
<1>6. Proven(a)
  BY <1>1, <1>2 DEF Proven
<1>7. ASSUME votes < Confirmations PROVE Proven(w)
  BY <1>1, <1>3, <1>4, <1>7 DEF Proven
<1>8. ObservePacks(m, ids) = m \/ ObservePacks(m, ids) = a \/ (votes < Confirmations /\ ObservePacks(m, ids) = w)
  BY <1>3, <1>5 DEF Confirmations
<1>9. Proven(ObservePacks(m, ids))
  BY <1>6, <1>7, <1>8
<1>10. ObservePacks(m, ids).expected = m.expected
  BY <1>2, <1>4, <1>8
<1>11. m.current # Unknown => ObservePacks(m, ids).current # Unknown
  BY <1>1, <1>2, <1>4, <1>8
<1>12. m.expected = Unknown => ObservePacks(m, ids).current # Unknown
  <2>1. ASSUME m.expected = Unknown, m.current = Unknown PROVE ObservePacks(m, ids) = a
    BY <1>5, <2>1
  <2> QED BY <1>1, <1>2, <1>11, <2>1
<1> QED BY <1>9, <1>10, <1>11, <1>12

LEMMA CountedKeepsProven ==
  ASSUME NEW m, Proven(m), NEW count \in Counts
  PROVE  /\ Proven(Counted(m, count))
         /\ Counted(m, count).current = m.current
         /\ Counted(m, count).expected = Unknown => m.expected = Unknown
BY DEF Proven, Counted, Memberships

LEMMA PacksInitInv == PackInit => PacksInv
<1> SUFFICES ASSUME PackInit PROVE PacksInv
  OBVIOUS
<1>1. /\ Nothing \in Memberships /\ Nothing.candidate = Unknown /\ Nothing.votes = 0
      /\ Nothing.current = Unknown
  BY DEF Nothing, Memberships, Lists, Votes, Counts, Confirmations
<1>2. Proven(Nothing)
  BY <1>1 DEF Proven
<1>3. inventory = [r \in Routes |-> [stab |-> Nothing, known |-> {}]] /\ fused = Nothing
  BY DEF PackInit
<1>4. inventory \in [Routes -> [stab : Memberships, known : SUBSET Packs]]
  BY <1>1, <1>3
<1>5. Proven(fused) /\ \A r \in Routes : inventory[r].stab = Nothing
  BY <1>2, <1>3
<1>6. /\ stable \in BOOLEAN /\ failed \in BOOLEAN
      /\ mounted \in mountedOnce /\ mountedOnce \subseteq Mountings
      /\ open \subseteq Routes /\ told \in [Routes -> mountedOnce]
  BY MountingsAssumption DEF PackInit
<1> QED BY <1>1, <1>2, <1>4, <1>5, <1>6 DEF PacksInv

LEMMA PackReportInv ==
  ASSUME PacksInv, NEW r \in Routes, NEW ids \in SUBSET told[r], NEW full \in BOOLEAN,
         NEW count \in Counts, PackReport(r, ids, full, count)
  PROVE  PacksInv'
<1> DEFINE s == IF full THEN ObservePacks(Counted(inventory[r].stab, count), ids)
                        ELSE Counted(inventory[r].stab, count)
           f == IF full THEN ObservePacks(Counted(fused, count), ids) ELSE Counted(fused, count)
           known == inventory[r].known
           k == ids \cup (IF full /\ known # {} THEN known \cap s.current ELSE known)
<1>1. /\ UNCHANGED <<stable, mounted, mountedOnce, open, told>>
      /\ \/ failed' = TRUE /\ UNCHANGED <<inventory, fused>>
         \/ /\ inventory' = [inventory EXCEPT ![r] = [stab |-> s, known |-> k]]
            /\ fused' = f /\ failed' = failed
  BY DEF PackReport
<1>2. /\ told[r] \in mountedOnce /\ told[r] \subseteq Packs
      /\ inventory[r].known \subseteq Packs
      /\ Proven(inventory[r].stab) /\ Proven(fused) /\ stable \in BOOLEAN
  BY DEF PacksInv, Packs
<1>3. ids \in SUBSET Packs /\ Together(ids)
  BY <1>2 DEF Together
<1>4. /\ Proven(s)
      /\ full => s.current # Unknown \/ inventory[r].stab.current = Unknown
      /\ ~full => s.current = inventory[r].stab.current
  BY <1>2, <1>3, CountedKeepsProven, ObserveKeepsProven
<1>5. /\ Proven(f)
      /\ f.expected = Unknown => fused.expected = Unknown
      /\ f.current = Unknown => fused.current = Unknown
      /\ full /\ f.current = Unknown => f.expected # Unknown
  BY <1>2, <1>3, CountedKeepsProven, ObserveKeepsProven
<1>6. k \subseteq Packs
  BY <1>2, <1>3
<1> HIDE DEF s, f, k
<1>7. CASE failed' = TRUE /\ UNCHANGED <<inventory, fused>>
  BY <1>1, <1>7 DEF PacksInv, Proven, Together
<1>8. CASE /\ inventory' = [inventory EXCEPT ![r] = [stab |-> s, known |-> k]]
           /\ fused' = f /\ failed' = failed
  <2>1. /\ inventory'[r].stab = s
        /\ \A x \in Routes \ {r} : inventory'[x] = inventory[x]
        /\ inventory' \in [Routes -> [stab : Memberships, known : SUBSET Packs]]
    BY <1>4, <1>6, <1>8 DEF PacksInv, Proven
  <2>2. Proven(fused)' /\ \A x \in Routes : Proven(inventory[x].stab)'
    BY <1>1, <1>4, <1>5, <1>8, <2>1 DEF PacksInv, Proven, Together
  <2>3. ASSUME f.current = Unknown, f.expected = Unknown, NEW x \in Routes
        PROVE  inventory'[x].stab.current = Unknown
    <3>1. ~full /\ \A y \in Routes : inventory[y].stab.current = Unknown
      BY <1>5, <2>3 DEF PacksInv
    <3> QED BY <1>4, <2>1, <3>1
  <2> QED BY <1>1, <1>8, <2>1, <2>2, <2>3 DEF PacksInv
<1> QED BY <1>1, <1>7, <1>8

LEMMA PacksNextInv == PacksInv /\ [PackNext]_packVars => PacksInv'
<1> SUFFICES ASSUME PacksInv, [PackNext]_packVars PROVE PacksInv'
  OBVIOUS
<1>1. CASE Mount
  <2>1. /\ UNCHANGED <<stable, open, told, inventory, fused, failed>>
        /\ mounted' \in Mountings /\ mountedOnce' = mountedOnce \cup {mounted'}
    BY <1>1 DEF Mount
  <2>2. \A m : Proven(m) => Proven(m)'
    BY <2>1 DEF Proven, Together
  <2>3. Proven(fused)' /\ \A r \in Routes : Proven(inventory[r].stab)'
    BY <2>1 DEF PacksInv, Proven, Together
  <2> QED BY <2>1, <2>3 DEF PacksInv
<1>2. ASSUME NEW r \in Routes, CompleteReport(r) PROVE PacksInv'
  <2>1. told[r] \in SUBSET Packs
    BY DEF PacksInv, Packs
  <2>2. Cardinality(told[r]) \in Counts
    BY <2>1 DEF Counts
  <2> QED BY <1>2, <2>2, PackReportInv DEF CompleteReport
<1>3. ASSUME NEW r \in Routes, Grouped(r) PROVE PacksInv'
  <2>1. told[r] \in SUBSET Packs
    BY DEF PacksInv, Packs
  <2>2. {Unknown, Cardinality(told[r])} \subseteq Counts
    BY <2>1 DEF Counts
  <2> QED BY <1>3, <2>2, PackReportInv DEF Grouped
<1>4. ASSUME NEW r \in Routes, CatchUp(r) \/ FallSilent(r) PROVE PacksInv'
  <2>1. /\ UNCHANGED <<stable, mounted, mountedOnce, inventory, fused, failed>>
        /\ open' \subseteq open /\ told' \in [Routes -> mountedOnce]
    BY <1>4 DEF CatchUp, FallSilent, PacksInv
  <2> QED BY <2>1 DEF PacksInv, Proven, Together
<1>5. CASE UNCHANGED packVars
  BY <1>5 DEF packVars, PacksInv, Proven, Together
<1> QED BY <1>1, <1>2, <1>3, <1>4, <1>5 DEF PackNext

LEMMA PacksInvSound == PacksInv => PacksNeverMixed
<1> SUFFICES ASSUME PacksInv PROVE PacksNeverMixed
  OBVIOUS
<1>1. PackTypeOK
  BY DEF PacksInv, PackTypeOK, Proven, Memberships, Lists, Votes
<1>2. ASSUME stable PROVE \E set \in mountedOnce : Shown \subseteq set
  <2>1. CASE fused.current # Unknown
    BY <2>1 DEF Shown, PacksInv, Proven, Together
  <2>2. CASE fused.current = Unknown /\ fused.expected # Unknown
    BY <1>2, <2>2 DEF Shown, PacksInv
  <2>3. CASE fused.current = Unknown /\ fused.expected = Unknown
    <3>1. \A r \in Routes : ShownBy(r) = {}
      BY <1>2, <2>3 DEF ShownBy, PacksInv
    <3> QED BY <2>3, <3>1 DEF Shown, PacksInv
  <2> QED BY <2>1, <2>2, <2>3
<1> QED BY <1>1, <1>2 DEF PacksNeverMixed

(***************************************************************************)
(* The value of a property                                                 *)
(***************************************************************************)
\* The value that a transport keeps of a report that was not retained was in
\* the device when the report came: it has not been gone for longer.
KeptWasTrue ==
  \A t \in Sources : ~retained[t] /\ observed[t].value \in Readings =>
    since[observed[t].value] <= observed[t].age

FusionInv == FusionTypeOK /\ since[actual] = 0 /\ KeptWasTrue

Observations == [value : Readings \cup {Invalid, NoReading}, age : 0..TooOld]

LEMMA FusionInitInv == FusionInit => FusionInv
<1> SUFFICES ASSUME FusionInit PROVE FusionInv
  OBVIOUS
<1>1. TooOld \in Nat /\ 0 \in 0..MaxDisturbances /\ NoReading \notin Readings
  BY StaleAssumption, DisturbancesAssumption, ReadingsAssumption DEF TooOld, NoReading
<1>2. since \in [Readings -> 0..TooOld] /\ since[actual] = 0
  BY <1>1 DEF FusionInit
<1>3. observed \in [Sources -> Observations] /\ retained \in [Sources -> BOOLEAN]
  BY <1>1 DEF FusionInit, Observations
<1>4. FusionTypeOK
  BY <1>1, <1>2, <1>3 DEF FusionInit, FusionTypeOK, Observations
<1>5. KeptWasTrue
  BY <1>1 DEF FusionInit, KeptWasTrue
<1> QED BY <1>2, <1>4, <1>5 DEF FusionInv

\* A report that is not retained brings the value of now, or none.
LEMMA KeepReading ==
  ASSUME FusionInv, NEW t \in Sources, NEW v \in Readings \cup {Invalid}, NEW old \in BOOLEAN,
         Remember(t, v, old), ~old => v \in {actual, Invalid},
         talking' \subseteq Sources, disturbances' \in 0..MaxDisturbances
  PROVE  FusionInv'
<1> DEFINE o == [value |-> v, age |-> 0]
<1>1. /\ observed' = [observed EXCEPT ![t] = o] /\ retained' = [retained EXCEPT ![t] = old]
      /\ UNCHANGED <<critical, offline, actual, since>>
  BY DEF Remember
<1>2. /\ observed \in [Sources -> Observations] /\ retained \in [Sources -> BOOLEAN]
      /\ TooOld \in Nat
  BY StaleAssumption DEF FusionInv, FusionTypeOK, Observations, TooOld
<1>3. o \in Observations /\ o.value = v /\ o.age = 0
  BY <1>2 DEF Observations
<1> HIDE DEF o
<1>4. FusionTypeOK'
  <2>1. observed' \in [Sources -> Observations] /\ retained' \in [Sources -> BOOLEAN]
    BY <1>1, <1>2, <1>3
  <2> QED BY <1>1, <2>1 DEF FusionInv, FusionTypeOK, Observations
<1>5. KeptWasTrue'
  <2> SUFFICES ASSUME NEW u \in Sources, ~retained'[u], observed'[u].value \in Readings
               PROVE  since'[observed'[u].value] <= observed'[u].age
    BY DEF KeptWasTrue
  <2>1. CASE u # t
    <3>1. observed'[u] = observed[u] /\ retained'[u] = retained[u]
      BY <1>1, <1>2, <2>1
    <3> QED BY <1>1, <3>1 DEF FusionInv, KeptWasTrue
  <2>2. CASE u = t
    <3>1. observed'[u] = o /\ retained'[u] = old
      BY <1>1, <1>2, <2>2
    <3>2. v = actual
      BY <1>3, <3>1, ReadingsAssumption DEF Invalid
    <3> QED BY <1>1, <1>3, <3>1, <3>2 DEF FusionInv
  <2> QED BY <2>1, <2>2
<1> QED BY <1>1, <1>4, <1>5 DEF FusionInv

\* An age grows by one, to TooOld at most, and keeps the order of two ages.
LEMMA OlderAges ==
  ASSUME NEW a \in 0..TooOld, NEW b \in 0..TooOld
  PROVE  /\ Min({a + 1, TooOld}) \in 0..TooOld
         /\ a <= b => Min({a + 1, TooOld}) <= Min({b + 1, TooOld})
         /\ 0 <= Min({a + 1, TooOld})
BY StaleAssumption DEF TooOld, Min

LEMMA FusionTickInv == ASSUME FusionInv, FusionTick PROVE FusionInv'
<1> DEFINE older(a) == Min({a + 1, TooOld})
<1>1. /\ observed' = [t \in Sources |-> [observed[t] EXCEPT !.age = older(@)]]
      /\ since' = [v \in Readings |-> IF v = actual THEN 0 ELSE older(since[v])]
      /\ UNCHANGED <<critical, offline, talking, actual, retained, disturbances>>
  BY DEF FusionTick
<1>2. /\ observed \in [Sources -> Observations] /\ since \in [Readings -> 0..TooOld]
      /\ TooOld \in Nat /\ actual \in Readings
  BY StaleAssumption DEF FusionInv, FusionTypeOK, Observations, TooOld
<1>3. /\ \A a \in 0..TooOld : older(a) \in 0..TooOld /\ 0 <= older(a)
      /\ \A a, b \in 0..TooOld : a <= b => older(a) <= older(b)
  BY OlderAges
<1> HIDE DEF older
<1>4. \A t \in Sources : /\ observed'[t] \in Observations
                         /\ observed'[t].value = observed[t].value
                         /\ observed'[t].age = older(observed[t].age)
  BY <1>1, <1>2, <1>3 DEF Observations
<1>5. since' \in [Readings -> 0..TooOld] /\ since'[actual] = 0
  BY <1>1, <1>2, <1>3
<1>6. FusionTypeOK'
  <2>1. observed' \in [Sources -> Observations]
    BY <1>1, <1>4
  <2> QED BY <1>1, <1>5, <2>1 DEF FusionInv, FusionTypeOK, Observations
<1>7. KeptWasTrue'
  <2> SUFFICES ASSUME NEW t \in Sources, ~retained'[t], observed'[t].value \in Readings
               PROVE  since'[observed'[t].value] <= observed'[t].age
    BY DEF KeptWasTrue
  <2>1. /\ observed[t].age \in 0..TooOld /\ since[observed[t].value] \in 0..TooOld
        /\ since[observed[t].value] <= observed[t].age
    BY <1>1, <1>2, <1>4 DEF FusionInv, KeptWasTrue, Observations
  <2>2. \/ since'[observed'[t].value] = 0
        \/ since'[observed'[t].value] = older(since[observed[t].value])
    BY <1>1, <1>4
  <2> QED BY <1>3, <1>4, <2>1, <2>2
<1> QED BY <1>1, <1>5, <1>6, <1>7 DEF FusionInv

LEMMA FusionNextInv == FusionInv /\ [FusionNext]_fusionVars => FusionInv'
<1> SUFFICES ASSUME FusionInv, [FusionNext]_fusionVars PROVE FusionInv'
  OBVIOUS
<1>0. /\ talking \subseteq Sources /\ actual \in Readings /\ Cloud \in Sources
      /\ disturbances \in 0..MaxDisturbances /\ MaxDisturbances \in Nat
      /\ retained \in [Sources -> BOOLEAN]
  BY DisturbancesAssumption DEF FusionInv, FusionTypeOK, Sources
<1>1. Disturb => disturbances' \in 0..MaxDisturbances
  BY <1>0 DEF Disturb
<1>2. ASSUME NEW t \in Sources, PropertiesReport(t) PROVE FusionInv'
  BY <1>0, <1>2, KeepReading DEF PropertiesReport
<1>3. ASSUME NEW t \in Sources, ImplausibleReport(t) PROVE FusionInv'
  BY <1>0, <1>1, <1>3, KeepReading DEF ImplausibleReport
<1>4. ASSUME NEW t \in Sources, Subscribe(t) PROVE FusionInv'
  <2>1. talking' \subseteq Sources /\ disturbances' = disturbances
    BY <1>0, <1>4 DEF Subscribe
  <2>2. CASE UNCHANGED <<critical, offline, actual, since, observed, retained>>
    BY <2>1, <2>2 DEF FusionInv, FusionTypeOK, KeptWasTrue
  <2>3. CASE \E v \in Readings : Remember(t, v, TRUE)
    BY <1>0, <2>1, <2>3, KeepReading
  <2> QED BY <1>4, <2>2, <2>3 DEF Subscribe
<1>5. ASSUME NEW t \in Sources, Silence(t) PROVE FusionInv'
  <2>1. /\ UNCHANGED <<critical, offline, actual, since, observed, retained>>
        /\ talking' \subseteq Sources /\ disturbances' \in 0..MaxDisturbances
    BY <1>0, <1>1, <1>5 DEF Silence
  <2> QED BY <2>1 DEF FusionInv, FusionTypeOK, KeptWasTrue
<1>6. CASE StateReport
  BY <1>0, <1>6, KeepReading DEF StateReport
<1>7. CASE ValueChanges
  <2>1. /\ actual' \in Readings /\ since' = [since EXCEPT ![actual'] = 0]
        /\ UNCHANGED <<critical, offline, talking, observed, retained>>
        /\ disturbances' \in 0..MaxDisturbances
    BY <1>1, <1>7 DEF ValueChanges
  <2>2. since \in [Readings -> 0..TooOld] /\ TooOld \in Nat
    BY StaleAssumption DEF FusionInv, FusionTypeOK, TooOld
  <2>3. /\ since' \in [Readings -> 0..TooOld] /\ since'[actual'] = 0
        /\ \A v \in Readings : since'[v] <= since[v]
    BY <2>1, <2>2
  <2>4. FusionTypeOK'
    BY <2>1, <2>3 DEF FusionInv, FusionTypeOK
  <2>5. KeptWasTrue'
    <3> SUFFICES ASSUME NEW t \in Sources, ~retained[t], observed[t].value \in Readings
                 PROVE  since'[observed[t].value] <= observed[t].age
      BY <2>1 DEF KeptWasTrue
    <3>1. since[observed[t].value] <= observed[t].age /\ observed[t].age \in 0..TooOld
      BY DEF FusionInv, FusionTypeOK, KeptWasTrue
    <3> QED BY <2>2, <2>3, <3>1
  <2> QED BY <2>3, <2>4, <2>5 DEF FusionInv
<1>8. CASE FusionTick
  BY <1>8, FusionTickInv
<1>9. CASE UNCHANGED fusionVars
  BY <1>9 DEF fusionVars, FusionInv, FusionTypeOK, KeptWasTrue
<1> QED
  BY <1>2, <1>3, <1>4, <1>5, <1>6, <1>7, <1>8, <1>9 DEF FusionNext

\* ranked[0] and pool[0] are one of those that were ranked.
LEMMA FirstIsOne ==
  ASSUME FusionTypeOK, NEW ts \in SUBSET Sources, ts # {}
  PROVE  First(ts) \in ts
<1>1. \A t \in Sources : SortKey(t) \in Nat
  <2> SUFFICES ASSUME NEW t \in Sources PROVE SortKey(t) \in Nat
    OBVIOUS
  <2>1. Validity(t) \in {"valid", "stale", "offline", "invalid", "never_received"}
    BY DEF Validity
  <2>2. ValidityRank[Validity(t)] \in Nat
    BY <2>1 DEF ValidityRank
  <2>3. Priority(t) \in Nat
    BY DEF Priority
  <2> QED BY <2>2, <2>3 DEF SortKey
<1>2. \E t \in ts : \A u \in ts : SortKey(t) <= SortKey(u)
  BY <1>1 DEF Sources
<1> QED BY <1>2 DEF First

LEMMA FusionInvSound == FusionInv => ShownWasTrue
<1> SUFFICES ASSUME FusionInv, Selected.validity = "valid"
             PROVE  since[Selected.value] <= StaleAfter
  BY DEF FusionInv, ShownWasTrue
<1>1. Usable # {}
  <2> SUFFICES ASSUME Usable = {} PROVE FALSE
    OBVIOUS
  <2>1. First(Sources) \in Sources
    BY FirstIsOne DEF FusionInv, Sources
  <2>2. Validity(First(Sources)) = "valid"
    BY DEF Selected
  <2> QED BY <2>1, <2>2 DEF Usable
<1>2. Fresh # {} /\ Selected.value = observed[First(Pool)].value
  BY <1>1 DEF Selected
<1> DEFINE t == First(Fresh)
<1>3. t \in Fresh
  BY <1>2, FirstIsOne DEF FusionInv, Fresh, Usable
<1>4. Selected.value = observed[t].value
  BY <1>2 DEF Pool
<1> HIDE DEF t
<1>5. t \in Sources /\ ~retained[t] /\ Validity(t) = "valid"
  BY <1>3 DEF Fresh, Usable
<1>6. observed[t].value \in Readings \cup {Invalid, NoReading} /\ observed[t].age \in 0..TooOld
  BY <1>5 DEF FusionInv, FusionTypeOK
<1>7. observed[t].value \in Readings /\ ~(observed[t].age > StaleAfter)
  BY <1>5, <1>6 DEF Validity
<1>8. since[observed[t].value] <= observed[t].age /\ since[observed[t].value] \in 0..TooOld
  BY <1>5, <1>7 DEF FusionInv, FusionTypeOK, KeptWasTrue
<1> QED BY <1>4, <1>6, <1>7, <1>8, StaleAssumption DEF TooOld

(***************************************************************************)
(* Both                                                                    *)
(***************************************************************************)
LEMMA ReadingsInvariant == Spec => [](PacksInv /\ FusionInv)
<1>1. Init => PacksInv /\ FusionInv
  BY PacksInitInv, FusionInitInv DEF Init
<1>2. PacksInv /\ FusionInv /\ [Next]_readingVars => (PacksInv /\ FusionInv)'
  <2> SUFFICES ASSUME PacksInv, FusionInv, [Next]_readingVars PROVE (PacksInv /\ FusionInv)'
    OBVIOUS
  <2>1. [PackNext]_packVars /\ [FusionNext]_fusionVars
    BY DEF Next, readingVars, packVars, fusionVars
  <2> QED BY <2>1, PacksNextInv, FusionNextInv
<1> QED BY <1>1, <1>2, PTL DEF Spec

\* Packs of before and after a change are never shown together, whichever
\* routes lag behind, report in groups, count wrongly or fall silent.
THEOREM PacksStayTogether == Spec => []PacksNeverMixed
BY ReadingsInvariant, PacksInvSound, PTL

\* A value shown as valid was in the device within the window, whichever
\* transports replay, disagree, go stale or come and go.
THEOREM ValidWasTrue == Spec => []ShownWasTrue
BY ReadingsInvariant, FusionInvSound, PTL
=============================================================================
