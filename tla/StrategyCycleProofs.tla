------------------------- MODULE StrategyCycleProofs -------------------------
(***************************************************************************)
(* The strategic cycle for any prices, thresholds, states of charge, times *)
(* and grace periods: what the charge binding and the protections of the   *)
(* battery never do.                                                       *)
(***************************************************************************)
EXTENDS StrategyCycle, WellFoundedInduction, TLAPS

-----------------------------------------------------------------------------
(* The ranking of the reasons                                              *)

Reasons == {"emergency", "manual_charge", "manual_discharge", "manual_idle",
            "learned_forced", "planning", "learned_active", "very_cheap",
            "valley", "reserve", "pv", "cover", "peak_discharge",
            "price_discharge", "passthrough", "wait", "idle"}

LEMMA RankingReasons ==
  /\ ToSet(Ranking) = Reasons
  /\ \A r \in Reasons : \E i \in DOMAIN Ranking : Ranking[i] = r
  /\ DOMAIN Ranking = 1 .. 17
BY DEF Ranking, Reasons, ToSet

LEMMA LeastNumber ==
  ASSUME NEW T, T \subseteq Nat, T # {}
  PROVE  \E n \in T : \A m \in T : n <= m
<1>1. PICK n \in T : \A m \in T : <<m, n>> \notin OpToRel(<, Nat)
  BY Zenon, NatLessThanWellFounded, WFMin
<1>2. \A m \in T : ~(m < n)
  BY <1>1 DEF OpToRel
<1> QED BY <1>2

LEMMA RankType ==
  ASSUME NEW r \in Reasons
  PROVE  Rank[r] \in 1 .. 17 /\ Ranking[Rank[r]] = r
BY RankingReasons DEF Rank

LEMMA BestOne ==
  ASSUME NEW S, S \subseteq Reasons, S # {}
  PROVE  Best(S) \in S /\ \A q \in S : Rank[Best(S)] <= Rank[q]
<1> DEFINE T == {Rank[q] : q \in S}
<1>1. T \subseteq Nat /\ T # {}
  BY RankType
<1>2. PICK n \in T : \A m \in T : n <= m
  BY <1>1, LeastNumber
<1>3. PICK r \in S : Rank[r] = n
  BY <1>2
<1>4. \A q \in S : Rank[r] <= Rank[q]
  BY <1>2, <1>3
<1> QED BY <1>3, <1>4 DEF Best

LEMMA EmergencyFirst ==
  ASSUME NEW S, S \subseteq Reasons, "emergency" \in S
  PROVE  Best(S) = "emergency"
<1>1. Ranking[1] = "emergency"
  BY DEF Ranking
<1>2. \A i \in 2 .. 17 : Ranking[i] # "emergency"
  BY DEF Ranking
<1>3. Rank["emergency"] = 1
  BY <1>1, <1>2, RankType DEF Reasons
<1>4. Best(S) \in Reasons /\ Rank[Best(S)] <= 1
  BY <1>3, BestOne
<1>5. Rank[Best(S)] = 1
  BY <1>4, RankType
<1> QED BY <1>1, <1>4, <1>5, RankType

-----------------------------------------------------------------------------
(* The reason a cycle selects                                              *)

LEMMA PriceType ==
  ASSUME NEW in \in Inputs, Known(in)
  PROVE  in.price \in Int
BY StrategyAssumption DEF Inputs, Known

LEMMA OfferedReasons ==
  ASSUME NEW in
  PROVE  Offered(in) \subseteq Reasons
<1>1. ManualRule(in) \subseteq Reasons
  BY DEF ManualRule, Reasons
<1>2. CoverRule(in) \subseteq Reasons
  BY DEF CoverRule, Reasons
<1>3. LearnedReason(in) \in Reasons
  BY DEF LearnedReason, Reasons
<1>4. \A r \in Reasons, holds \in BOOLEAN : Only(r, holds) \subseteq Reasons
  BY DEF Only
<1> QED BY <1>1, <1>2, <1>3 DEF Offered, Only, Reasons

\* What the engine can answer, and when.
LEMMA DecideCases ==
  ASSUME NEW in, NEW offered \in SUBSET Reasons
  PROVE  LET r == Decide(in, offered)
         IN  \/ r \in {"limits_invalid", "direction_blocked", "idle"}
             \/ r = "grid_sensor_invalid" /\ "noGrid" \in in.is
             \/ r \in offered /\ (r \in Idles \/ ~Rejected(in, r))
<1> DEFINE kept == {r \in offered : r \in Idles \/ ~Rejected(in, r)}
           free == IF Economic \cap kept = {} THEN kept ELSE kept \ {"learned_active"}
           active == free \ {"wait", "idle"}
           r == Decide(in, offered)
<1>1. kept \subseteq offered /\ \A q \in kept : q \in Idles \/ ~Rejected(in, q)
  OBVIOUS
<1>2. free \subseteq kept /\ active \subseteq kept
  OBVIOUS
<1>3. \/ r \in {"limits_invalid", "direction_blocked", "idle"}
      \/ r = "grid_sensor_invalid" /\ "noGrid" \in in.is
      \/ active # {} /\ r = Best(active)
      \/ free # {} /\ r = Best(free)
  BY DEF Decide
<1> HIDE DEF kept, free, active, r
<1>4. active # {} => Best(active) \in active
  BY <1>1, <1>2, BestOne
<1>5. free # {} => Best(free) \in free
  BY <1>1, <1>2, BestOne
<1>6. \/ r \in {"limits_invalid", "direction_blocked", "idle"}
      \/ r = "grid_sensor_invalid" /\ "noGrid" \in in.is
      \/ r \in kept
  BY <1>2, <1>3, <1>4, <1>5
<1> QED BY <1>1, <1>6 DEF r

\* A cell emergency that no limit stops is selected before everything else.
Emergency(in) == "cell" \in in.is /\ in.is \cap {"upper", "limits"} = {}

LEMMA EmergencyDecided ==
  ASSUME NEW in, Emergency(in)
  PROVE  Decide(in, Offered(in)) = "emergency"
<1> DEFINE offered == Offered(in)
           kept == {r \in offered : r \in Idles \/ ~Rejected(in, r)}
           free == IF Economic \cap kept = {} THEN kept ELSE kept \ {"learned_active"}
           active == free \ {"wait", "idle"}
<1>1. "emergency" \in offered
  BY DEF Offered, Only, EmergencyRule, Emergency
<1>2. ~Rejected(in, "emergency")
  BY DEF Rejected, Outputs, Discharges, Economic
<1> HIDE DEF offered
<1>3. "emergency" \in active
  BY <1>1, <1>2
<1>4. active \subseteq Reasons
  BY OfferedReasons DEF offered
<1>5. "limits" \notin in.is
  BY DEF Emergency
<1>6. Decide(in, offered) = Best(active)
  BY <1>3, <1>5 DEF Decide
<1> HIDE DEF active
<1> QED BY <1>3, <1>4, <1>6, EmergencyFirst DEF offered

\* A source of grid charging was offered and not rejected; what it was offered
\* for holds.
LEMMA SourceOffered ==
  ASSUME NEW in, NEW r \in Sources, r \in Offered(in)
  PROVE  /\ r \in {"learned_forced", "learned_active"} => Usable(in) /\ r = LearnedReason(in)
         /\ r = "reserve" => soc < ReserveTarget
<1>1. r \notin ManualRule(in) /\ r \notin CoverRule(in)
  BY DEF Sources, ManualRule, CoverRule
<1>2. r \in {"learned_forced", "learned_active"} => r \in Only(LearnedReason(in), Usable(in))
  BY <1>1 DEF Offered, Only
<1>3. r = "reserve" => ReserveRule(in)
  BY <1>1 DEF Offered, Only, LearnedReason
<1> QED BY <1>2, <1>3 DEF Only, ReserveRule, ReserveWindow

\* What the rest of a cycle needs to know of the reason it goes on with.
Plain(in, r) ==
  /\ r \notin {"commit", "waiting_price", "target_reached", "blocked_price"}
  /\ r = "grid_sensor_invalid" => "noGrid" \in in.is
  /\ r \in Discharges => MayOutput(in)
  /\ r \in Sources => r \in Offered(in) /\ ~Rejected(in, r)
  /\ Emergency(in) => r = "emergency"

LEMMA SelectedPlain ==
  ASSUME NEW in
  PROVE  Plain(in, Held(in, Filtered(in, Decide(in, Offered(in)))))
<1> DEFINE d == Decide(in, Offered(in))
           f == Filtered(in, d)
           r == Held(in, f)
           Own == {"commit", "waiting_price", "target_reached", "blocked_price"}
           Stops == {"soc_limit_upper", "soc_limit_lower", "soc_min_resume_block",
                     "cell_voltage_sensor_invalid", "cell_voltage_cutoff_block"}
<1>1. \/ d \in {"limits_invalid", "direction_blocked", "idle"}
      \/ d = "grid_sensor_invalid" /\ "noGrid" \in in.is
      \/ d \in Offered(in) /\ (d \in Idles \/ ~Rejected(in, d))
  BY OfferedReasons, DecideCases
<1>2. Offered(in) \subseteq Reasons
  BY OfferedReasons
<1>3. d \notin Own
  BY <1>1, <1>2 DEF Reasons
<1>4. d = "grid_sensor_invalid" => "noGrid" \in in.is
  BY <1>1, <1>2 DEF Reasons
<1>5. d \in Sources => d \in Offered(in) /\ ~Rejected(in, d)
  BY <1>1 DEF Sources, Idles
<1>6. Emergency(in) => d = "emergency"
  BY EmergencyDecided
<1> HIDE DEF d
<1>7. f \in {d} \cup Stops
  BY DEF Filtered
<1>8. f \in Discharges => f = d /\ MayOutput(in)
  BY <1>7 DEF Filtered, MayOutput, Discharges, Outputs, Economic
<1>9. Emergency(in) => f = "emergency"
  BY <1>6 DEF Filtered, Emergency, Outputs, Discharges, Economic
<1> HIDE DEF f
<1>10. r = f \/ (Holds(in, f) /\ r \in Economic \cup {"cover"})
  BY DEF Held, Continuation, Economic
<1>11. Holds(in, f) => MayOutput(in) /\ ~Emergency(in)
  BY DEF Holds, MayOutput, CellBlocked, Emergency
<1> HIDE DEF r
<1>12. r \notin Own
  BY <1>3, <1>7, <1>10 DEF Economic
<1>13. r = "grid_sensor_invalid" => "noGrid" \in in.is
  BY <1>4, <1>7, <1>10 DEF Economic
<1>14. r \in Discharges => MayOutput(in)
  BY <1>8, <1>10, <1>11
<1>15. r \in Sources => r \in Offered(in) /\ ~Rejected(in, r)
  BY <1>5, <1>7, <1>10 DEF Economic, Sources
<1>16. Emergency(in) => r = "emergency"
  BY <1>9, <1>10, <1>11
<1> QED BY <1>12, <1>13, <1>14, <1>15, <1>16 DEF Plain, r, f, d

\* A PV charge that lingers is plain as well.
LEMMA LingeringPlain ==
  ASSUME NEW in, NEW r, Lingers(in, r)
  PROVE  Plain(in, "pv")
BY DEF Plain, Lingers, Discharges, Economic, Sources, Emergency

-----------------------------------------------------------------------------
(* The binding                                                             *)

LEMMA PhaseType ==
  ASSUME NEW in, NEW c, NEW r, NEW thr
  PROVE  PhaseOf(in, c, r, thr) \in {"waiting", "active", "forced", "yielded"}
BY DEF PhaseOf

LEMMA TypeOf ==
  ASSUME NEW r \in Sources
  PROVE  Type(r) \in {"learned", "planning", "very_cheap", "valley", "reserve"}
BY DEF Type, Sources

LEMMA TargetsType ==
  ASSUME soc \in 0 .. SocMax, NEW r
  PROVE  Targets(r) \in 0 .. SocMax
BY StrategyAssumption DEF Targets

\* The first phase of a new binding is no pause.
LEMMA NewBindingType ==
  ASSUME soc \in 0 .. SocMax, NEW in, NEW r \in Sources
  PROVE  LET c == NewBinding(in, r)
         IN  /\ c \in Bindings
             /\ c.type = Type(r) /\ c.src = r /\ c.target = Targets(r)
             /\ c.type = "learned" /\ now >= c.latest => c.phase \in {"forced", "yielded"}
<1> DEFINE fresh == [type |-> Type(r), src |-> r, phase |-> "waiting", stall |-> FALSE,
                     target |-> Targets(r),
                     latest |-> IF Type(r) = "learned" THEN Latest ELSE Never,
                     deadline |-> IF Type(r) = "learned" THEN Deadline ELSE Never,
                     acceptable |-> Acceptable]
           phase == PhaseOf(in, fresh, "none", TRUE)
           c == NewBinding(in, r)
<1>1. Type(r) \in {"learned", "planning", "very_cheap", "valley", "reserve"}
      /\ Targets(r) \in 0 .. SocMax
  BY TypeOf, TargetsType
<1>2. fresh \in Bindings
  BY <1>1 DEF Bindings
<1>3. phase \in {"waiting", "active", "forced", "yielded"}
  BY PhaseType
<1>4. c = [fresh EXCEPT !.phase = phase]
  BY DEF NewBinding
<1>5. fresh.type = "learned" /\ now >= fresh.latest => phase \in {"forced", "yielded"}
  BY DEF PhaseOf, Forced
<1>6. fresh.type = Type(r) /\ fresh.src = r /\ fresh.target = Targets(r)
  OBVIOUS
<1> HIDE DEF fresh, phase, c
<1>7. c \in Bindings /\ c.phase = phase /\ c.type = fresh.type /\ c.src = fresh.src
      /\ c.target = fresh.target /\ c.latest = fresh.latest
  BY <1>2, <1>3, <1>4 DEF Bindings
<1> QED BY <1>5, <1>6, <1>7 DEF c

\* A binding is typed, and its type is that of the reason it began with.
BindingTyped(c) == c \in Bindings /\ c.type = Type(c.src)

\* What Bind answers.
LEMMA BindCases ==
  ASSUME NEW in, NEW r, NEW thr, NEW full, soc \in 0 .. SocMax,
         commit # NoBinding => BindingTyped(commit)
  PROVE  LET b == Bind(in, r, thr, full)
         IN  \/ /\ b.commit = NoBinding
                /\ b.out \in {r, "target_reached", "blocked_price"}
                /\ r \notin Charges => b.out = r
             \/ /\ commit # NoBinding /\ Abort(in, commit, thr, full) = "none"
                /\ BindingTyped(b.commit)
                /\ b.commit.phase = PhaseOf(in, commit, r, thr)
                /\ b.commit.type = commit.type /\ b.commit.src = commit.src
                /\ b.commit.target = commit.target /\ b.commit.latest = commit.latest
                /\ b.out = Bound(b.commit, r)
             \/ /\ commit = NoBinding /\ r \in Sources /\ soc < SocMax
                /\ ~Conflict(in, r, thr)
                /\ b.commit = NewBinding(in, r)
                /\ b.out = Bound(b.commit, r)
<1> DEFINE b == Bind(in, r, thr, full)
<1>1. CASE commit # NoBinding
  <2> DEFINE why == Abort(in, commit, thr, full)
             phase == PhaseOf(in, commit, r, thr)
             stall == Stalls(in, commit)
             next == [commit EXCEPT !.phase = phase, !.stall = stall]
  <2>1. phase \in {"waiting", "active", "forced", "yielded"}
    BY PhaseType
  <2>2. stall \in BOOLEAN
    BY DEF Stalls
  <2>3. commit \in Bindings /\ commit.type = Type(commit.src)
    BY <1>1 DEF BindingTyped
  <2>4. b = IF why = "none" THEN [commit |-> next, out |-> Bound(next, r)]
            ELSE [commit |-> Cleared,
                  out |-> CASE why = "target" -> TargetStop(r)
                            [] why = "price" -> PriceStop(r)
                            [] OTHER -> r]
    BY <1>1 DEF Bind
  <2> HIDE DEF phase, stall, b, why
  <2>5. /\ next \in Bindings
        /\ next.phase = phase /\ next.type = commit.type /\ next.src = commit.src
        /\ next.target = commit.target /\ next.latest = commit.latest
    BY <2>1, <2>2, <2>3 DEF Bindings
  <2> HIDE DEF next
  <2>6. CASE why = "none"
    <3>1. b.commit = next /\ b.out = Bound(next, r)
      BY <2>4, <2>6
    <3>2. BindingTyped(next)
      BY <2>3, <2>5 DEF BindingTyped
    <3> QED BY <1>1, <2>5, <2>6, <3>1, <3>2 DEF b, phase, why
  <2>7. CASE why # "none"
    <3>1. b.commit = NoBinding /\ b.out \in {r, TargetStop(r), PriceStop(r)}
      BY <2>4, <2>7 DEF Cleared
    <3> QED BY <3>1 DEF TargetStop, PriceStop, b
  <2> QED BY <2>6, <2>7
<1>2. CASE commit = NoBinding
  BY <1>2 DEF Bind, PriceStop
<1> QED BY <1>1, <1>2

-----------------------------------------------------------------------------
(* A commanded cycle                                                       *)

SourceTyped == commit # NoBinding => commit.type = Type(commit.src)

\* The two action properties, as actions.
KeepsOut ==
  pc' = "env" /\ commit = NoBinding /\ commit' # NoBinding /\ seen'.waits
    => commit'.type = "very_cheap"
Resumes ==
  pc = "cycle" /\ commit # NoBinding /\ commit' # NoBinding
    /\ commit.phase = "yielded" /\ commit'.phase # "yielded"
    => seen'.zone = "below"

LEMMA FactsOf ==
  ASSUME NEW in, NEW thr
  PROVE  /\ Facts(in, thr).zone = Zone(in) /\ Facts(in, thr).thr = thr
         /\ Facts(in, thr).waits <=> Waits(in)
         /\ Facts(in, thr).blocked <=> ~MayOutput(in)
         /\ Facts(in, thr).is = in.is \cap {"cell", "upper", "limits", "noGrid"}
BY DEF Facts

LEMMA ConflictZone ==
  ASSUME NEW in \in Inputs, NEW r, Zone(in) = "conflict", Strategic(r)
  PROVE  Conflict(in, r, TRUE)
<1>1. Known(in)
  BY DEF Zone
<1>2. in.price \in Int
  BY <1>1, PriceType
<1>3. in.price >= Effective + Tolerance
  BY <1>1, <1>2, StrategyAssumption DEF Zone
<1> QED BY <1>1, <1>3 DEF Conflict, At

\* A charge is commanded only while the phase of the binding is active or
\* forced, and no reason of the engine has its name.
LEMMA BoundOut ==
  ASSUME NEW in, NEW c, NEW r, Plain(in, r)
  PROVE  /\ Bound(c, r) \in {"commit", "waiting_price", r}
         /\ Bound(c, r) = "waiting_price" => c.phase \notin {"active", "forced"}
         /\ Bound(c, r) = r /\ r \in Discharges => c.phase \notin {"active", "forced"}
         /\ r \in Discharges /\ c.phase \notin {"active", "forced"} => Bound(c, r) = r
BY DEF Bound, Plain, Outputs, Discharges, Economic

LEMMA CommandedSound ==
  ASSUME StrategyTypeOK, SourceTyped, NEW in \in Inputs, NEW r, NEW thr \in BOOLEAN,
         Plain(in, r), Commanded(in, r, thr), seen' = Facts(in, thr),
         soc' = soc, now' = now
  PROVE  /\ commit' \in Bindings \cup {NoBinding} /\ SourceTyped'
         /\ r \in Economic => out' = r
         /\ LearnedBuysBelowDischarge' /\ BuysBelowTarget' /\ LateNeverWaits'
         /\ Emergency(in) => out' = "emergency" /\ commit' = NoBinding
         /\ ~MayOutput(in) => out' \notin Discharges
         /\ KeepsOut /\ Resumes
<1>1. PICK full : commit' = Bind(in, r, thr, full).commit /\ out' = Bind(in, r, thr, full).out
  BY DEF Commanded
<1>2. soc \in 0 .. SocMax /\ now \in 0 .. MaxTime /\ commit \in Bindings \cup {NoBinding}
  BY DEF StrategyTypeOK
<1>3. commit # NoBinding => BindingTyped(commit)
  BY <1>2 DEF SourceTyped, BindingTyped
<1>4. /\ seen'.zone = Zone(in) /\ seen'.thr = thr
      /\ seen'.waits <=> Waits(in)
  BY FactsOf
<1>5. /\ r \notin {"commit", "waiting_price", "target_reached", "blocked_price"}
      /\ r \in Discharges => MayOutput(in)
      /\ r \in Sources => r \in Offered(in) /\ ~Rejected(in, r)
      /\ Emergency(in) => r = "emergency"
  BY DEF Plain
<1>6. /\ ~MayOutput(in)
      /\ out' \in {r, "commit", "waiting_price", "target_reached", "blocked_price"}
      => out' \notin Discharges
  BY <1>5 DEF Discharges, Economic
<1>7. CASE /\ commit' = NoBinding
           /\ out' \in {r, "target_reached", "blocked_price"}
           /\ r \notin Charges => out' = r
  <2>1. out' # "commit"
    BY <1>5, <1>7
  <2>2. commit' \in Bindings \cup {NoBinding} /\ SourceTyped'
    BY <1>7 DEF SourceTyped
  <2>3. r \in Economic => out' = r
    BY <1>7 DEF Economic, Charges, Sources
  <2>4. LearnedBuysBelowDischarge' /\ BuysBelowTarget' /\ LateNeverWaits'
    BY <1>7, <2>1 DEF LearnedBuysBelowDischarge, BuysBelowTarget, LateNeverWaits
  <2>5. Emergency(in) => out' = "emergency" /\ commit' = NoBinding
    BY <1>5, <1>7 DEF Charges, Sources
  <2>6. KeepsOut /\ Resumes
    BY <1>7 DEF KeepsOut, Resumes
  <2> QED BY <1>6, <1>7, <2>2, <2>3, <2>4, <2>5, <2>6
<1>8. CASE /\ commit # NoBinding /\ Abort(in, commit, thr, full) = "none"
           /\ BindingTyped(commit')
           /\ commit'.phase = PhaseOf(in, commit, r, thr)
           /\ commit'.type = commit.type /\ commit'.src = commit.src
           /\ commit'.target = commit.target /\ commit'.latest = commit.latest
           /\ out' = Bound(commit', r)
  <2>1. commit' \in Bindings /\ SourceTyped'
    BY <1>8 DEF BindingTyped, SourceTyped
  <2>2. commit \in Bindings /\ commit.type = Type(commit.src) /\ commit.target \in 0 .. SocMax
    BY <1>3, <1>8 DEF BindingTyped, Bindings
  <2>3. /\ out' \in {"commit", "waiting_price", r}
        /\ out' = "waiting_price" => commit'.phase \notin {"active", "forced"}
        /\ r \in Discharges /\ commit'.phase \notin {"active", "forced"} => out' = r
    BY <1>8, BoundOut
  <2>4. r \in Economic => out' = r
    <3>1. r \in Economic => commit'.phase = "yielded" /\ r \in Discharges
      BY <1>8 DEF PhaseOf, Yields, Discharges
    <3> QED BY <2>3, <3>1
  <2>5. ~Conflict(in, commit.src, thr) /\ ~(soc >= Goal(commit))
        /\ "cell" \notin in.is
    BY <1>8 DEF Abort
  <2>6. LearnedBuysBelowDischarge'
    <3> SUFFICES ASSUME thr, commit'.type \in {"learned", "reserve"},
                        Zone(in) = "conflict"
                 PROVE  FALSE
      BY <1>4 DEF LearnedBuysBelowDischarge
    <3>1. Strategic(commit.src)
      BY <1>8, <2>2 DEF Strategic
    <3>2. Conflict(in, commit.src, TRUE)
      BY <3>1, ConflictZone
    <3>3. thr = TRUE
      OBVIOUS
    <3> QED BY <2>5, <3>2, <3>3
  <2>7. BuysBelowTarget'
    <3>1. soc < commit.target /\ soc < SocMax
      BY <1>2, <2>2, <2>5, StrategyAssumption DEF Goal
    <3> QED BY <1>8, <3>1 DEF BuysBelowTarget
  <2>8. LateNeverWaits'
    <3> SUFFICES ASSUME now >= commit'.latest, commit'.type = "learned",
                        out' = "waiting_price"
                 PROVE  commit'.phase = "yielded"
      BY DEF LateNeverWaits
    <3>1. Forced(commit) /\ commit.type = "learned"
      BY <1>8 DEF Forced
    <3>2. commit'.phase \in {"yielded", "forced"}
      BY <1>8, <3>1 DEF PhaseOf
    <3> QED BY <2>3, <3>2
  <2>9. ~Emergency(in)
    BY <2>5 DEF Emergency
  <2>10. KeepsOut
    BY <1>8 DEF KeepsOut
  <2>11. Resumes
    <3> SUFFICES ASSUME commit.phase = "yielded", commit'.phase # "yielded"
                 PROVE  Zone(in) = "below"
      BY <1>4 DEF Resumes
    <3>1. ~Yields(in, commit, r, thr)
      BY <1>8 DEF PhaseOf
    <3>2. Known(in) /\ ~(in.price >= Effective - Hysteresis)
      BY <3>1 DEF Yields
    <3>3. in.price \in Int /\ Effective \in Int /\ Hysteresis \in Int
      BY <3>2, PriceType, StrategyAssumption
    <3>4. in.price < Effective - Hysteresis
      BY <3>2, <3>3
    <3> QED BY <3>2, <3>4 DEF Zone
  <2> QED BY <1>6, <2>1, <2>3, <2>4, <2>6, <2>7, <2>8, <2>9, <2>10, <2>11
<1>9. CASE /\ commit = NoBinding /\ r \in Sources /\ soc < SocMax
           /\ ~Conflict(in, r, thr)
           /\ commit' = NewBinding(in, r)
           /\ out' = Bound(commit', r)
  <2>1. /\ commit' \in Bindings
        /\ commit'.type = Type(r) /\ commit'.src = r /\ commit'.target = Targets(r)
        /\ commit'.type = "learned" /\ now >= commit'.latest
             => commit'.phase \in {"forced", "yielded"}
    BY <1>2, <1>9, NewBindingType
  <2>2. /\ out' \in {"commit", "waiting_price", r}
        /\ out' = "waiting_price" => commit'.phase \notin {"active", "forced"}
    BY <1>9, BoundOut
  <2>3. r \notin Economic /\ r # "emergency"
    BY <1>9 DEF Sources, Economic
  <2>4. SourceTyped'
    BY <2>1 DEF SourceTyped
  <2>5. LearnedBuysBelowDischarge'
    <3> SUFFICES ASSUME thr, commit'.type \in {"learned", "reserve"},
                        Zone(in) = "conflict"
                 PROVE  FALSE
      BY <1>4 DEF LearnedBuysBelowDischarge
    <3>1. Strategic(r)
      BY <2>1 DEF Strategic
    <3>2. Conflict(in, r, TRUE)
      BY <3>1, ConflictZone
    <3>3. thr = TRUE
      OBVIOUS
    <3> QED BY <1>9, <3>2, <3>3
  <2>6. r = "reserve" => soc < ReserveTarget
    BY <1>5, <1>9, SourceOffered
  <2>7. BuysBelowTarget'
    <3>1. soc < Targets(r)
      <4>1. Type(r) = "learned" => soc < Targets(r)
        <5>1. Type(r) = "learned" => Targets(r) \in {soc + Need, SocMax}
          BY DEF Targets, Type
        <5>2. soc < soc + Need
          BY <1>2, StrategyAssumption
        <5> QED BY <1>9, <5>1, <5>2
      <4>2. Type(r) # "learned" /\ r # "reserve" => Targets(r) = SocMax
        BY DEF Targets
      <4>3. Type(r) # "learned" /\ r = "reserve" => Targets(r) = ReserveTarget
        BY DEF Targets
      <4> QED BY <1>9, <2>6, <4>1, <4>2, <4>3
    <3> QED BY <1>9, <2>1, <3>1 DEF BuysBelowTarget
  <2>8. LateNeverWaits'
    BY <2>1, <2>2 DEF LateNeverWaits
  <2>9. KeepsOut
    <3> SUFFICES ASSUME Waits(in) PROVE Type(r) = "very_cheap"
      BY <1>4, <2>1 DEF KeepsOut
    <3>1. r \notin {"planning", "valley", "reserve"}
      BY <1>5, <1>9 DEF Rejected
    <3>2. r \notin {"learned_forced", "learned_active"}
      <4>1. LearnedReason(in) = "wait"
        BY DEF Waits
      <4> QED BY <1>5, <1>9, <4>1, SourceOffered
    <3> QED BY <1>9, <3>1, <3>2 DEF Sources, Type
  <2>10. Resumes
    BY <1>9 DEF Resumes
  <2> QED BY <1>5, <1>6, <2>1, <2>2, <2>3, <2>4, <2>5, <2>7, <2>8, <2>9, <2>10
<1> QED BY <1>1, <1>2, <1>3, <1>7, <1>8, <1>9, BindCases

-----------------------------------------------------------------------------
(* Every step                                                              *)

\* The protections and the binding of CycleSafe, with the type of the binding.
CycleInv == CycleSafe /\ SourceTyped

LEMMA TypesKept ==
  ASSUME StrategyTypeOK, soc' \in 0 .. SocMax, now' \in 0 .. MaxTime,
         commit' \in Bindings \cup {NoBinding}, gap' \in 0 .. GapLimit, pc' \in {"cycle", "env"}
  PROVE  StrategyTypeOK'
BY DEF StrategyTypeOK

LEMMA CycleStep ==
  ASSUME CycleInv, Cycle
  PROVE  CycleInv' /\ KeepsOut /\ Resumes
<1>0. StrategyTypeOK /\ SourceTyped
  BY DEF CycleInv, CycleSafe, BindingSafe
<1>1. PICK in \in Inputs :
       \E offered \in {Offered(in)} : \E selected \in {Decide(in, offered)} :
       \E r \in {Held(in, Filtered(in, selected))} :
         /\ \/ /\ picked' = r
               /\ seen' = Facts(in, TRUE)
               /\ IF HoldsGap(in, r) THEN HoldGap
                  ELSE IF r \in Critical THEN SafeIdle(r)
                  ELSE Commanded(in, r, TRUE)
            \/ /\ Lingers(in, r)
               /\ picked' = "pv"
               /\ seen' = Facts(in, FALSE)
               /\ Commanded(in, "pv", FALSE)
         /\ gap' = IF "noGrid" \notin in.is THEN 0
                   ELSE IF gap < GapLimit THEN gap + 1 ELSE gap
  BY DEF Cycle
<1> DEFINE r == Held(in, Filtered(in, Decide(in, Offered(in))))
<1>2. /\ \/ /\ picked' = r
            /\ seen' = Facts(in, TRUE)
            /\ IF HoldsGap(in, r) THEN HoldGap
               ELSE IF r \in Critical THEN SafeIdle(r)
               ELSE Commanded(in, r, TRUE)
         \/ /\ Lingers(in, r)
            /\ picked' = "pv"
            /\ seen' = Facts(in, FALSE)
            /\ Commanded(in, "pv", FALSE)
      /\ gap' = IF "noGrid" \notin in.is THEN 0
                ELSE IF gap < GapLimit THEN gap + 1 ELSE gap
  BY <1>1
<1>3. Plain(in, r)
  BY SelectedPlain
<1> HIDE DEF r
<1>4. pc = "cycle" /\ pc' = "env" /\ soc' = soc /\ now' = now
  BY DEF Cycle
<1>5. gap' \in 0 .. GapLimit
  BY <1>0, <1>2, StrategyAssumption DEF StrategyTypeOK
<1>6. /\ soc' \in 0 .. SocMax /\ now' \in 0 .. MaxTime
      /\ commit \in Bindings \cup {NoBinding}
  BY <1>0, <1>4 DEF StrategyTypeOK
<1>7. seen' \in {Facts(in, TRUE), Facts(in, FALSE)}
  BY <1>2
<1>8. /\ "cell" \in seen'.is /\ seen'.is \cap {"upper", "limits"} = {} => Emergency(in)
      /\ "noGrid" \notin seen'.is => "noGrid" \notin in.is
      /\ seen'.blocked => ~MayOutput(in)
  <2>1. seen'.is = in.is \cap {"cell", "upper", "limits", "noGrid"}
    <3>1. \A thr : Facts(in, thr).is = in.is \cap {"cell", "upper", "limits", "noGrid"}
      BY FactsOf
    <3> QED BY Zenon, <1>7, <3>1
  <2>2. seen'.blocked => ~MayOutput(in)
    BY Zenon, <1>7, FactsOf
  <2> QED BY <2>1, <2>2 DEF Emergency
\* What remains to be shown of each way a cycle can end.
<1>9. ASSUME commit' \in Bindings \cup {NoBinding}, SourceTyped',
             picked' \in Economic => out' = picked',
             LearnedBuysBelowDischarge', BuysBelowTarget', LateNeverWaits',
             Emergency(in) => out' = "emergency" /\ commit' = NoBinding,
             ~MayOutput(in) /\ "noGrid" \notin in.is => out' \notin Discharges
      PROVE  CycleInv'
  <2>1. StrategyTypeOK'
    BY <1>0, <1>4, <1>5, <1>6, <1>9, TypesKept
  <2>2. DischargeWins'
    BY <1>9 DEF DischargeWins
  <2>3. EmergencyWins'
    BY <1>8, <1>9 DEF EmergencyWins
  <2>4. NoBlockedDischarge'
    BY <1>8, <1>9 DEF NoBlockedDischarge
  <2> QED BY <1>9, <2>1, <2>2, <2>3, <2>4
          DEF CycleInv, CycleSafe, BindingSafe, ProtectionSafe
<1>10. CASE picked' = r /\ seen' = Facts(in, TRUE) /\ HoldsGap(in, r) /\ HoldGap
  <2>1. r = "grid_sensor_invalid" /\ out \in Outputs /\ UNCHANGED <<commit, out>>
    BY <1>10 DEF HoldsGap, HoldGap
  <2>2. "noGrid" \in in.is /\ ~Emergency(in)
    BY <1>3, <2>1 DEF Plain
  <2>3. out' # "commit" /\ out' # "waiting_price"
    BY <2>1 DEF Outputs, Discharges, Economic
  <2>4. commit' \in Bindings \cup {NoBinding} /\ SourceTyped'
    BY <1>0, <1>6, <2>1 DEF SourceTyped
  <2>5. picked' \notin Economic
    BY <1>10, <2>1 DEF Economic
  <2>6. LearnedBuysBelowDischarge' /\ BuysBelowTarget' /\ LateNeverWaits'
    BY <2>3 DEF LearnedBuysBelowDischarge, BuysBelowTarget, LateNeverWaits
  <2>7. KeepsOut /\ Resumes
    BY <2>1 DEF KeepsOut, Resumes
  <2> QED BY <1>9, <2>2, <2>4, <2>5, <2>6, <2>7
<1>11. CASE picked' = r /\ seen' = Facts(in, TRUE) /\ r \in Critical /\ SafeIdle(r)
  <2>1. commit' = NoBinding /\ out' = r /\ r \in Critical
    BY <1>11 DEF SafeIdle, Cleared
  <2>2. ~Emergency(in)
    BY <1>3, <2>1 DEF Plain, Critical
  <2>3. out' # "commit" /\ out' \notin Discharges
    BY <2>1 DEF Critical, Discharges, Economic
  <2>4. SourceTyped'
    BY <2>1 DEF SourceTyped
  <2>5. LearnedBuysBelowDischarge' /\ BuysBelowTarget' /\ LateNeverWaits'
    BY <2>1, <2>3 DEF LearnedBuysBelowDischarge, BuysBelowTarget, LateNeverWaits
  <2>6. KeepsOut /\ Resumes
    BY <2>1 DEF KeepsOut, Resumes
  <2> QED BY <1>9, <1>11, <2>1, <2>2, <2>3, <2>4, <2>5, <2>6
<1>12. CASE picked' = r /\ seen' = Facts(in, TRUE) /\ Commanded(in, r, TRUE)
  BY <1>0, <1>3, <1>4, <1>9, <1>12, CommandedSound
<1>13. CASE Lingers(in, r) /\ picked' = "pv" /\ seen' = Facts(in, FALSE)
              /\ Commanded(in, "pv", FALSE)
  <2>1. Plain(in, "pv")
    BY <1>13, LingeringPlain
  <2>2. picked' \notin Economic
    BY <1>13 DEF Economic
  <2> QED BY <1>0, <1>4, <1>9, <1>13, <2>1, <2>2, CommandedSound
<1> QED BY <1>2, <1>10, <1>11, <1>12, <1>13

\* Between two cycles nothing is decided.
LEMMA EnvStep ==
  ASSUME CycleInv, Rest \/ Charge \/ Drain \/ Tick
  PROVE  CycleInv' /\ KeepsOut /\ Resumes
<1>0. StrategyTypeOK /\ SourceTyped
  BY DEF CycleInv, CycleSafe, BindingSafe
<1>1. /\ pc = "env" /\ pc' = "cycle" /\ UNCHANGED <<commit, out, gap>>
  BY DEF Rest, Charge, Drain, Tick, Elapse
<1>2. soc \in 0 .. SocMax /\ now \in 0 .. MaxTime
  BY <1>0 DEF StrategyTypeOK
<1>3. soc' \in 0 .. SocMax /\ now' \in 0 .. MaxTime
  BY <1>2, StrategyAssumption DEF Rest, Charge, Drain, Tick
<1>4. StrategyTypeOK'
  BY <1>0, <1>1, <1>3 DEF StrategyTypeOK
<1>5. SourceTyped'
  BY <1>0, <1>1 DEF SourceTyped
<1>6. ~Done'
  BY <1>1 DEF Done
<1>7. /\ DischargeWins' /\ LearnedBuysBelowDischarge' /\ BuysBelowTarget' /\ LateNeverWaits'
      /\ EmergencyWins' /\ NoBlockedDischarge'
  BY <1>6 DEF DischargeWins, LearnedBuysBelowDischarge, BuysBelowTarget, LateNeverWaits,
              EmergencyWins, NoBlockedDischarge
<1> QED BY <1>1, <1>4, <1>5, <1>7
        DEF CycleInv, CycleSafe, BindingSafe, ProtectionSafe, KeepsOut, Resumes

LEMMA StillStep ==
  ASSUME CycleInv, UNCHANGED vars
  PROVE  CycleInv'
BY DEF vars, CycleInv, CycleSafe, BindingSafe, ProtectionSafe, SourceTyped, StrategyTypeOK,
       DischargeWins, LearnedBuysBelowDischarge, BuysBelowTarget, LateNeverWaits,
       EmergencyWins, NoBlockedDischarge, Done

LEMMA CycleInit == Init => CycleInv
<1> SUFFICES ASSUME Init PROVE CycleInv
  OBVIOUS
<1>1. StrategyTypeOK /\ SourceTyped
  BY StrategyAssumption DEF Init, StrategyTypeOK, SourceTyped
<1>2. ~Done
  BY DEF Init, Done
<1>3. /\ DischargeWins /\ LearnedBuysBelowDischarge /\ BuysBelowTarget /\ LateNeverWaits
      /\ EmergencyWins /\ NoBlockedDischarge
  BY <1>2 DEF DischargeWins, LearnedBuysBelowDischarge, BuysBelowTarget, LateNeverWaits,
              EmergencyWins, NoBlockedDischarge
<1> QED BY <1>1, <1>3 DEF CycleInv, CycleSafe, BindingSafe, ProtectionSafe

LEMMA NextStep == CycleInv /\ [Next]_vars => CycleInv' /\ [KeepsOut /\ Resumes]_vars
BY CycleStep, EnvStep, StillStep DEF Next

\* Whatever prices, settings and protections a cycle meets, grid charging of a
\* binding replaces no discharge the engine selected, buys only below its
\* target and below the prices of a discharge, and the protections of the
\* battery win (_apply_charge_commit and the filters before it).
THEOREM CycleIsSafe == Spec => []CycleSafe
<1>1. CycleInv => CycleSafe
  BY DEF CycleInv
<1> QED BY <1>1, CycleInit, NextStep, PTL DEF Spec

\* While the learned plan waits only the very cheap price starts a binding,
\* and a paused binding resumes below the hysteresis band alone.
THEOREM BindingIsGuarded == Spec => BindingGuarded
<1>1. Spec => [][KeepsOut /\ Resumes]_vars
  BY CycleInit, NextStep, PTL DEF Spec
<1>2. [KeepsOut /\ Resumes]_vars =>
        /\ [Done' /\ commit = NoBinding /\ commit' # NoBinding /\ seen'.waits
             => commit'.type = "very_cheap"]_vars
        /\ [pc = "cycle" /\ commit # NoBinding /\ commit' # NoBinding
             /\ commit.phase = "yielded" /\ commit'.phase # "yielded"
             => seen'.zone = "below"]_vars
  BY DEF KeepsOut, Resumes, Done
<1> QED BY <1>1, <1>2, PTL DEF BindingGuarded, PlanKeepsOthersOut, PauseHasHysteresis
=============================================================================
