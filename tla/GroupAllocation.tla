--------------------------- MODULE GroupAllocation ---------------------------
(***************************************************************************)
(* The staged allocation of one signed group target to the members of a    *)
(* battery group (shadow_allocator.py) and the choice of the lead device   *)
(* (coordinator._stable_group_lead_device_id).  Positive power charges,    *)
(* negative power discharges.  One unit of power stands for 50 W, so that  *)
(* the 0.5 W threshold of the code is zero units and the hand-over         *)
(* tolerance one unit.                                                     *)
(***************************************************************************)
EXTENDS Integers, FiniteSets, Sequences, SequencesExt, FiniteSetsExt

CONSTANTS Devices,        \* the configured systems
          IdRank,         \* IdRank[d]: the place of d among the ids
          Circuits,       \* circuits of the electrical topology
          NoCircuit,
          Parent,         \* Parent[c]: the upstream circuit, or NoCircuit
          Cap,            \* Cap[c]: the limit of the circuit in units
          CircuitsOf,     \* CircuitsOf[d]: the circuits of d's grid outputs
          MaxPower,       \* MaxPower[d]: limit of d, a multiple of 4 units
          Capacity,       \* Capacity[d]: usable energy
          Reserve, Full,  \* the SoC limits, in levels
          Unknown,        \* a SoC that is not valid
          SocHysteresis   \* GROUP_LEAD_SOC_HYSTERESIS_PCT, in levels

NoDevice == "none"

ASSUME AllocationAssumption ==
    /\ IsFiniteSet(Devices) /\ NoDevice \notin Devices
    /\ IdRank \in [Devices -> Nat]
    /\ \A d, e \in Devices : d # e => IdRank[d] # IdRank[e]
    /\ IsFiniteSet(Circuits)
    /\ Parent \in [Circuits -> Circuits \cup {NoCircuit}]
    /\ Cap \in [Circuits -> Nat]
    /\ CircuitsOf \in [Devices -> SUBSET Circuits]
    /\ MaxPower \in [Devices -> Nat] /\ \A d \in Devices : MaxPower[d] % 4 = 0
    /\ Reserve < Full

Abs(x) == IF x < 0 THEN -x ELSE x
Sign(x) == IF x < 0 THEN -1 ELSE IF x > 0 THEN 1 ELSE 0
Opposed(x, y) == x * y < 0

\* A helper of the orders below: the one sequence of the members of S in the order Sooner, in a set.
InOrder(S, Sooner(_, _)) ==
    {s \in [1 .. Cardinality(S) -> S] :
        /\ ToSet(s) = S
        /\ \A i, j \in DOMAIN s : i < j => Sooner(s[i], s[j])}

-----------------------------------------------------------------------------
\* The circuits of d and those upstream of them.
Ancestry(d) ==
    {c \in Circuits : \A up \in SUBSET Circuits :
        /\ CircuitsOf[d] \subseteq up
        /\ \A b \in up : Parent[b] \in up \cup {NoCircuit}
        => c \in up}

\* The part of the powers `give` that passes the circuit c.
Load(c, give) ==
    SumFunction([d \in DOMAIN give |-> IF c \in Ancestry(d) THEN give[d] ELSE 0])

\* What the tightest circuit above d still has free under the powers `give`.
CircuitRemaining(d, give) ==
    LET free == {IF Cap[c] > Load(c, give) THEN Cap[c] - Load(c, give) ELSE 0
                    : c \in Ancestry(d)}
    IN  IF free = {} THEN MaxPower[d] ELSE Min(free)

\* A member at its reserve, or without a SoC, is not discharged; one at its
\* maximum is not charged.
Eligible(d, dir, soc) ==
    /\ MaxPower[d] > 0
    /\ dir = -1 => soc[d] # Unknown /\ soc[d] > Reserve
    /\ dir = 1 => soc[d] = Unknown \/ soc[d] < Full

\* The sort keys of _discharge_priority and _charge_priority, as "d before e".
Key(d, dir, soc) ==
    IF dir = -1 THEN <<-(Capacity[d] * soc[d]), -soc[d]>>
    ELSE IF soc[d] = Unknown THEN <<0, -Capacity[d]>>
    ELSE <<-(Capacity[d] * (Full - soc[d])), soc[d]>>
Before(d, e, dir, soc) ==
    LET k == Key(d, dir, soc)
        l == Key(e, dir, soc)
    IN  \/ k[1] < l[1]
        \/ k[1] = l[1] /\ k[2] < l[2]
        \/ k = l /\ IdRank[d] < IdRank[e]

Candidates(members, target, soc) ==
    {d \in members : target # 0 /\ Eligible(d, Sign(target), soc)}

\* The candidates as they are served, a preferred lead first.
Served(members, target, lead, soc) ==
    InOrder(Candidates(members, target, soc),
            LAMBDA d, e : \/ d = lead /\ e # lead
                          \/ (d = lead <=> e = lead) /\ Before(d, e, Sign(target), soc))

\* What d gets of what is left of the target, up to the limit of the pass.
Granted(d, limit, target, give) ==
    Max({0, Min({Abs(target) - SumFunction(give), limit - give[d], CircuitRemaining(d, give)})})

\* The powers after the k-th step of the two passes over the candidates in the
\* order cand: up to 75 % of each limit, then up to the limit.
Step(cand, target, k, give) ==
    LET n == Len(cand)
        d == cand[IF k <= n THEN k ELSE k - n]
        limit == IF k <= n THEN (MaxPower[d] * 3) \div 4 ELSE MaxPower[d]
    IN  [give EXCEPT ![d] = @ + Granted(d, limit, target, give)]

Allocate(cand, members, target) ==
    LET rounds == 2 * Len(cand)
        give[k \in 0 .. rounds] ==
            IF k = 0 THEN [d \in members |-> 0]
            ELSE Step(cand, target, k, give[k - 1])
    IN  [d \in members |-> Sign(target) * give[rounds][d]]

\* The lead is kept unless it is no longer eligible, was idle for more than
\* 60 s, or the natural lead is better by the hysteresis and the present one
\* has been lead for 600 s.  `cur` is the persisted lead state, `natural` the
\* candidates as they are served without a lead.
StableLead(natural, target, cur, soc) ==
    LET best == natural[1]
        better == IF target < 0 THEN soc[best] - soc[cur.dev]
                  ELSE soc[cur.dev] - soc[best]
    IN  IF natural = <<>> THEN NoDevice
        ELSE IF /\ cur.dev \in ToSet(natural)
                /\ ~cur.idle
                /\ cur.dev # best
                /\ \/ soc[cur.dev] = Unknown \/ soc[best] = Unknown
                   \/ better < SocHysteresis
                   \/ ~cur.ripe
             THEN cur.dev
             ELSE best
=============================================================================
