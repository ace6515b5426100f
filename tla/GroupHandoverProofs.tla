------------------------- MODULE GroupHandoverProofs -------------------------
(***************************************************************************)
(* Battery groups, for any number of devices, any circuits, limits, goals  *)
(* and bounds: an allocation keeps every limit, and so does the group while *)
(* its commands are awaited one by one, fail, and are cut off by restarts.  *)
(***************************************************************************)
EXTENDS GroupHandover, FiniteSums

LEMMA MinOfThree ==
  ASSUME NEW a \in Int, NEW b \in Int, NEW c \in Int
  PROVE  /\ Min({a, b, c}) \in Int
         /\ Min({a, b, c}) <= a /\ Min({a, b, c}) <= b /\ Min({a, b, c}) <= c
<1>1. \E x \in {a, b, c} : \A y \in {a, b, c} : x <= y
  OBVIOUS
<1>2. Min({a, b, c}) \in {a, b, c} /\ \A y \in {a, b, c} : Min({a, b, c}) <= y
  BY <1>1, MinMember
<1> QED BY <1>2

LEMMA MaxWithZero ==
  ASSUME NEW a \in Int
  PROVE  Max({0, a}) = IF a > 0 THEN a ELSE 0
<1>1. \E x \in {0, a} : \A y \in {0, a} : x >= y
  OBVIOUS
<1>2. Max({0, a}) \in {0, a} /\ \A y \in {0, a} : Max({0, a}) >= y
  BY <1>1 DEF Max
<1> QED BY <1>2

-----------------------------------------------------------------------------
(* The allocation                                                          *)

\* Powers that neither exceed the limit of a member nor that of a circuit.
Within(give, members) ==
    /\ give \in [members -> Nat]
    /\ \A d \in members : give[d] <= MaxPower[d]
    /\ \A c \in Circuits : Load(c, give) <= Cap[c]

LEMMA LoadType ==
  ASSUME NEW members, members \subseteq Devices, NEW give \in [members -> Int], NEW c
  PROVE  Load(c, give) \in Int
<1>1. IsFiniteSet(members)
  BY AllocationAssumption, FS_Subset
<1>2. [d \in members |-> IF c \in Ancestry(d) THEN give[d] ELSE 0] \in [members -> Int]
  OBVIOUS
<1>3. DOMAIN give = members
  OBVIOUS
<1> QED BY <1>1, <1>2, <1>3, SumType DEF Load

LEMMA LoadMonotone ==
  ASSUME NEW members, members \subseteq Devices, NEW give \in [members -> Nat],
         NEW part, part \subseteq members, NEW h \in [part -> Int], NEW c,
         \A d \in part : h[d] <= give[d]
  PROVE  Load(c, h) <= Load(c, give)
<1> DEFINE f == [d \in members |-> IF c \in Ancestry(d) THEN give[d] ELSE 0]
           g == [d \in part |-> IF c \in Ancestry(d) THEN h[d] ELSE 0]
<1>1. IsFiniteSet(members)
  BY AllocationAssumption, FS_Subset
<1>2. f \in [members -> Int] /\ g \in [part -> Int]
  OBVIOUS
<1>3. \A d \in part : g[d] <= f[d]
  OBVIOUS
<1>4. \A d \in members \ part : 0 <= f[d]
  OBVIOUS
<1>5. Load(c, h) = SumFunction(g) /\ Load(c, give) = SumFunction(f)
  BY DEF Load
<1> HIDE DEF f, g
<1>6. SumFunction(g) <= SumFunction(f)
  BY <1>1, <1>2, <1>3, <1>4, SumMonotone
<1> QED BY <1>5, <1>6

LEMMA LoadIncrease ==
  ASSUME NEW members, members \subseteq Devices, NEW give \in [members -> Nat],
         NEW d \in members, NEW amount \in Nat, NEW c,
         NEW more \in [members -> Nat], more[d] = give[d] + amount,
         \A e \in members : e # d => more[e] = give[e]
  PROVE  /\ c \in Ancestry(d) => Load(c, more) = Load(c, give) + amount
         /\ c \notin Ancestry(d) => Load(c, more) = Load(c, give)
<1> DEFINE f == [e \in members |-> IF c \in Ancestry(e) THEN give[e] ELSE 0]
           g == [e \in members |-> IF c \in Ancestry(e) THEN more[e] ELSE 0]
<1>1. IsFiniteSet(members)
  BY AllocationAssumption, FS_Subset
<1>2. f \in [members -> Int] /\ g \in [members -> Int]
  OBVIOUS
<1>3. \A e \in members \ {d} : g[e] = f[e]
  OBVIOUS
<1>4. g[d] - f[d] = IF c \in Ancestry(d) THEN amount ELSE 0
  OBVIOUS
<1>5. Load(c, more) = SumFunction(g) /\ Load(c, give) = SumFunction(f)
  BY DEF Load
<1> HIDE DEF f, g
<1>6. SumFunction(g) = SumFunction(f) + (g[d] - f[d])
  BY <1>1, <1>2, <1>3, SumIncrease
<1>7. SumFunction(f) \in Int
  BY <1>1, <1>2, SumType
<1> QED BY <1>4, <1>5, <1>6, <1>7

LEMMA RemainingBound ==
  ASSUME NEW members, members \subseteq Devices, NEW give \in [members -> Nat],
         NEW d \in Devices
  PROVE  /\ CircuitRemaining(d, give) \in Nat
         /\ \A c \in Ancestry(d) :
               CircuitRemaining(d, give)
                 <= IF Cap[c] > Load(c, give) THEN Cap[c] - Load(c, give) ELSE 0
<1> DEFINE left(c) == IF Cap[c] > Load(c, give) THEN Cap[c] - Load(c, give) ELSE 0
           free == {left(c) : c \in Ancestry(d)}
<1>1. \A c \in Ancestry(d) : Cap[c] \in Nat
  BY AllocationAssumption DEF Ancestry
<1>2. \A c \in Ancestry(d) : left(c) \in Nat
  <2>1. give \in [members -> Int]
    OBVIOUS
  <2>2. \A c \in Ancestry(d) : Load(c, give) \in Int
    BY <2>1, LoadType
  <2> QED BY <1>1, <2>2
<1>3. CircuitRemaining(d, give) = IF free = {} THEN MaxPower[d] ELSE Min(free)
  BY DEF CircuitRemaining
<1>4. MaxPower[d] \in Nat
  BY AllocationAssumption
<1> HIDE DEF left
<1>5. \A c \in Ancestry(d) : left(c) \in free
  OBVIOUS
<1>6. free \subseteq Nat
  BY <1>2
<1> HIDE DEF free
<1>7. CASE free = {}
  BY <1>3, <1>4, <1>5, <1>7
<1>8. CASE free # {}
  <2>1. Min(free) \in free /\ \A y \in free : Min(free) <= y
    BY <1>6, <1>8, MinOfNat
  <2>2. \A c \in Ancestry(d) : CircuitRemaining(d, give) <= left(c)
    BY <1>3, <1>5, <1>8, <2>1
  <2>3. CircuitRemaining(d, give) \in Nat
    BY <1>3, <1>6, <1>8, <2>1
  <2> QED BY <2>2, <2>3 DEF left
<1> QED BY <1>7, <1>8

LEMMA GrantedBound ==
  ASSUME NEW members, members \subseteq Devices, NEW give \in [members -> Nat],
         NEW d \in members, NEW limit \in Int, NEW target \in Int
  PROVE  /\ Granted(d, limit, target, give) \in Nat
         /\ Granted(d, limit, target, give) > 0 =>
              /\ Granted(d, limit, target, give) <= Abs(target) - SumFunction(give)
              /\ Granted(d, limit, target, give) <= limit - give[d]
              /\ \A c \in Ancestry(d) :
                    Load(c, give) + Granted(d, limit, target, give) <= Cap[c]
<1> DEFINE x == Abs(target) - SumFunction(give)
           y == limit - give[d]
           z == CircuitRemaining(d, give)
           least == Min({x, y, z})
<1>1. IsFiniteSet(members) /\ give \in [members -> Int]
  BY AllocationAssumption, FS_Subset
<1>2. x \in Int /\ y \in Int
  BY <1>1, SumType DEF Abs
<1>3. z \in Nat
  BY RemainingBound
<1>4. \A c \in Ancestry(d) : z <= IF Cap[c] > Load(c, give) THEN Cap[c] - Load(c, give) ELSE 0
  BY RemainingBound
<1>5. Granted(d, limit, target, give) = Max({0, least})
  BY DEF Granted
<1>6. \A c \in Ancestry(d) : Cap[c] \in Nat /\ Load(c, give) \in Int
  BY AllocationAssumption, <1>1, LoadType DEF Ancestry
<1> HIDE DEF x, y, z
<1>7. least \in Int /\ least <= x /\ least <= y /\ least <= z
  <2>1. z \in Int
    BY <1>3
  <2> QED BY <1>2, <2>1, MinOfThree
<1> HIDE DEF least
<1>8. Max({0, least}) = IF least > 0 THEN least ELSE 0
  BY <1>7, MaxWithZero
<1>9. Granted(d, limit, target, give) \in Nat
  BY <1>5, <1>7, <1>8
<1>10. ASSUME Granted(d, limit, target, give) > 0
       PROVE  /\ Granted(d, limit, target, give) <= x
              /\ Granted(d, limit, target, give) <= y
              /\ \A c \in Ancestry(d) : Load(c, give) + Granted(d, limit, target, give) <= Cap[c]
  <2>1. Granted(d, limit, target, give) = least /\ least > 0
    BY <1>5, <1>7, <1>8, <1>10
  <2>2. ASSUME NEW c \in Ancestry(d)
        PROVE  Load(c, give) + least <= Cap[c]
    BY <1>3, <1>4, <1>6, <1>7, <2>1
  <2> QED BY <1>7, <2>1, <2>2
<1> QED BY <1>9, <1>10 DEF x, y

\* What a member is granted keeps every limit.
LEMMA GrantWithin ==
  ASSUME NEW members, members \subseteq Devices, NEW give, Within(give, members),
         NEW d \in members, NEW limit \in Int, limit <= MaxPower[d], NEW target \in Int
  PROVE  Within([give EXCEPT ![d] = @ + Granted(d, limit, target, give)], members)
<1>1. give \in [members -> Nat] /\ (\A e \in members : give[e] <= MaxPower[e])
  BY DEF Within
<1>2. PICK amount \in Nat :
        /\ amount = Granted(d, limit, target, give)
        /\ amount > 0 => /\ amount <= limit - give[d]
                         /\ \A c \in Ancestry(d) : Load(c, give) + amount <= Cap[c]
  BY <1>1, GrantedBound
<1>3. PICK more \in [members -> Nat] :
        /\ more = [give EXCEPT ![d] = @ + amount]
        /\ more[d] = give[d] + amount
        /\ \A e \in members : e # d => more[e] = give[e]
  <2> DEFINE m == [give EXCEPT ![d] = @ + amount]
  <2>1. give \in [members -> Nat]
    BY <1>1
  <2>2. m \in [members -> Nat]
    BY <2>1
  <2>3. m[d] = give[d] + amount
    BY <2>1
  <2>4. \A e \in members : e # d => m[e] = give[e]
    BY <2>1
  <2> QED BY <2>2, <2>3, <2>4
<1>4. MaxPower[d] \in Nat /\ give[d] \in Nat /\ give[d] <= MaxPower[d]
  BY <1>1, AllocationAssumption
<1>5. more[d] <= MaxPower[d]
  BY <1>2, <1>3, <1>4
<1>6. \A e \in members : more[e] <= MaxPower[e]
  BY <1>1, <1>3, <1>5
<1>7. ASSUME NEW c \in Circuits PROVE Load(c, more) <= Cap[c]
  <2>7. give \in [members -> Nat]
    BY <1>1
  <2>8. more[d] = give[d] + amount
    BY <1>3
  <2>9. \A e \in members : e # d => more[e] = give[e]
    BY <1>3
  <2>1. /\ c \in Ancestry(d) => Load(c, more) = Load(c, give) + amount
        /\ c \notin Ancestry(d) => Load(c, more) = Load(c, give)
    BY <2>7, <2>8, <2>9, LoadIncrease
  <2>2. Load(c, give) <= Cap[c]
    BY DEF Within
  <2>3. give \in [members -> Int]
    BY <1>1
  <2>4. Load(c, give) \in Int
    BY <2>3, LoadType
  <2>5. CASE c \in Ancestry(d) /\ amount > 0
    BY <1>2, <2>1, <2>5
  <2>6. CASE ~(c \in Ancestry(d) /\ amount > 0)
    <3>1. c \in Ancestry(d) => amount = 0
      BY <1>2, <2>6
    <3>2. Load(c, more) = Load(c, give)
      BY <2>1, <2>4, <3>1
    <3> QED BY <2>2, <3>2
  <2> QED BY <2>5, <2>6
<1>8. Within(more, members)
  BY <1>6, <1>7 DEF Within
<1> QED BY <1>2, <1>3, <1>8

\* ... and together no more than the target.
Filled(give, members, target) ==
    Within(give, members) /\ SumFunction(give) <= Abs(target)

LEMMA GrantFilled ==
  ASSUME NEW members, members \subseteq Devices, NEW target \in Int,
         NEW give, Filled(give, members, target),
         NEW d \in members, NEW limit \in Int, limit <= MaxPower[d]
  PROVE  Filled([give EXCEPT ![d] = @ + Granted(d, limit, target, give)], members, target)
<1>1. give \in [members -> Nat] /\ SumFunction(give) <= Abs(target)
  BY DEF Filled, Within
<1>2. PICK amount \in Nat :
        /\ amount = Granted(d, limit, target, give)
        /\ amount > 0 => amount <= Abs(target) - SumFunction(give)
  BY <1>1, GrantedBound
<1>3. PICK more \in [members -> Int] :
        /\ more = [give EXCEPT ![d] = @ + amount]
        /\ more[d] = give[d] + amount
        /\ \A e \in members \ {d} : more[e] = give[e]
  <2> DEFINE m == [give EXCEPT ![d] = @ + amount]
  <2>1. give \in [members -> Nat]
    BY <1>1
  <2>2. m \in [members -> Int]
    BY <2>1
  <2>3. m[d] = give[d] + amount
    BY <2>1
  <2>4. \A e \in members \ {d} : m[e] = give[e]
    BY <2>1
  <2> QED BY <2>2, <2>3, <2>4
<1>4. Within(more, members)
  <2>1. Within(give, members)
    BY DEF Filled
  <2>2. Within([give EXCEPT ![d] = @ + Granted(d, limit, target, give)], members)
    BY <2>1, GrantWithin
  <2> QED BY <1>2, <1>3, <2>2
<1>5. SumFunction(more) <= Abs(target)
  <2>1. IsFiniteSet(members) /\ give \in [members -> Int]
    BY <1>1, AllocationAssumption, FS_Subset
  <2>2. \A e \in members \ {d} : more[e] = give[e]
    BY <1>3
  <2>3. SumFunction(more) = SumFunction(give) + (more[d] - give[d])
    BY <2>1, <2>2, SumIncrease
  <2>4. give[d] \in Int /\ more[d] = give[d] + amount
    BY <1>3, <2>1
  <2>5. SumFunction(give) \in Int /\ Abs(target) \in Int
    BY <2>1, SumType DEF Abs
  <2>6. SumFunction(more) = SumFunction(give) + amount
    BY <2>3, <2>4, <2>5
  <2> QED BY <1>1, <1>2, <2>5, <2>6
<1> QED BY <1>2, <1>3, <1>4, <1>5 DEF Filled

\* One step of a pass keeps every limit.
LEMMA StepFilled ==
  ASSUME NEW members, members \subseteq Devices, NEW target \in Int,
         NEW give, Filled(give, members, target),
         NEW n \in Nat, NEW cand \in [1 .. n -> members], NEW k \in 1 .. 2 * n
  PROVE  Filled(Step(cand, target, k, give), members, target)
<1>1. Len(cand) = n /\ (IF k <= n THEN k ELSE k - n) \in 1 .. n
  OBVIOUS
<1>2. PICK d \in members : d = cand[IF k <= n THEN k ELSE k - n]
  BY <1>1
<1>3. MaxPower[d] \in Nat
  BY <1>2, AllocationAssumption
<1>4. PICK limit \in Int :
        /\ limit = IF k <= n THEN (MaxPower[d] * 3) \div 4 ELSE MaxPower[d]
        /\ limit <= MaxPower[d]
  BY <1>3
<1>5. Step(cand, target, k, give) = [give EXCEPT ![d] = @ + Granted(d, limit, target, give)]
  BY <1>1, <1>2, <1>4 DEF Step
<1>6. limit <= MaxPower[d]
  BY <1>4
<1>7. Filled([give EXCEPT ![d] = @ + Granted(d, limit, target, give)], members, target)
  BY <1>6, GrantFilled
<1> QED BY <1>5, <1>7

LEMMA NothingIsWithin ==
  ASSUME NEW members, members \subseteq Devices
  PROVE  Within([d \in members |-> 0], members)
<1> DEFINE zero == [d \in members |-> 0]
<1>1. IsFiniteSet(members)
  BY AllocationAssumption, FS_Subset
<1>2. ASSUME NEW c \in Circuits PROVE Load(c, zero) <= Cap[c]
  <2> DEFINE f == [d \in members |-> IF c \in Ancestry(d) THEN zero[d] ELSE 0]
  <2>1. f \in [members -> Int] /\ \A d \in members : f[d] = 0
    OBVIOUS
  <2>2. Load(c, zero) = SumFunction(f)
    BY DEF Load
  <2> HIDE DEF f
  <2>3. SumFunction(f) = 0
    BY <1>1, <2>1, SumZero
  <2>4. Cap[c] \in Nat
    BY AllocationAssumption
  <2> QED BY <2>2, <2>3, <2>4
<1>3. \A d \in members : MaxPower[d] \in Nat
  BY AllocationAssumption
<1> QED BY <1>2, <1>3 DEF Within

\* The two passes, one step after the other.
Passes(cand, members, target, m, give) ==
    give = [k \in 0 .. m |-> IF k = 0 THEN [d \in members |-> 0]
                             ELSE Step(cand, target, k, give[k - 1])]

LEMMA PassesExist ==
  ASSUME NEW cand, NEW members, NEW target, NEW rounds \in Nat
  PROVE  \E give : Passes(cand, members, target, rounds, give)
<1> DEFINE P(m, give) == Passes(cand, members, target, m, give)
           Bad == {m \in Nat : ~ \E give : P(m, give)}
<1> SUFFICES ASSUME Bad # {} PROVE FALSE
  OBVIOUS
<1>1. PICK m \in Bad : \A k \in Bad : m <= k
  <2>1. Bad \subseteq Nat
    OBVIOUS
  <2> HIDE DEF Bad
  <2> QED BY <2>1, LeastNumber
<1>2. m # 0
  <2> DEFINE g == [k \in 0 .. 0 |-> [d \in members |-> 0]]
  <2>1. P(0, g)
    BY DEF Passes
  <2> QED BY <1>1, <2>1
<1>3. PICK n \in Nat : m = n + 1 /\ n \notin Bad
  <2>1. m - 1 \in Nat /\ m = (m - 1) + 1 /\ m - 1 \notin Bad
    BY <1>1, <1>2
  <2> QED BY <2>1
<1>4. PICK g : P(n, g)
  BY <1>3
<1> DEFINE h == [k \in 0 .. n + 1 |-> IF k = 0 THEN [d \in members |-> 0]
                                      ELSE Step(cand, target, k, g[k - 1])]
<1>5. \A k \in 0 .. n : h[k] = g[k]
  BY <1>3, <1>4 DEF Passes
<1>6. \A k \in 0 .. n + 1 : k # 0 => k - 1 \in 0 .. n
  BY <1>3
<1>7. h = [k \in 0 .. n + 1 |-> IF k = 0 THEN [d \in members |-> 0]
                                ELSE Step(cand, target, k, h[k - 1])]
  BY <1>5, <1>6
<1>8. P(n + 1, h)
  BY <1>7 DEF Passes
<1> QED BY <1>1, <1>3, <1>8

LEMMA NothingIsFilled ==
  ASSUME NEW members, members \subseteq Devices, NEW target \in Int
  PROVE  Filled([d \in members |-> 0], members, target)
<1>1. PICK zero \in [members -> Int] : zero = [d \in members |-> 0]
  <2>1. [d \in members |-> 0] \in [members -> Int]
    OBVIOUS
  <2> QED BY <2>1
<1>2. IsFiniteSet(members)
  BY AllocationAssumption, FS_Subset
<1>3. SumFunction(zero) = 0
  BY <1>1, <1>2, SumZero
<1>4. 0 <= Abs(target)
  BY DEF Abs
<1> QED BY <1>1, <1>3, <1>4, NothingIsWithin DEF Filled

LEMMA PassesFilled ==
  ASSUME NEW members, members \subseteq Devices, NEW n \in Nat,
         NEW cand \in [1 .. n -> members], NEW target \in Int,
         NEW give, Passes(cand, members, target, 2 * n, give)
  PROVE  Filled(give[2 * n], members, target)
<1> DEFINE Bad == {k \in 0 .. 2 * n : ~Filled(give[k], members, target)}
<1>1. Bad = {}
  <2> SUFFICES ASSUME Bad # {} PROVE FALSE
    OBVIOUS
  <2>1. PICK k \in Bad : \A j \in Bad : k <= j
    <3>1. Bad \subseteq Nat
      OBVIOUS
    <3> HIDE DEF Bad
    <3> QED BY <3>1, LeastNumber
  <2>2. give[0] = [d \in members |-> 0]
    BY DEF Passes
  <2>3. k # 0
    BY <2>1, <2>2, NothingIsFilled
  <2>4. k \in 1 .. 2 * n /\ k - 1 \in 0 .. 2 * n /\ k - 1 \notin Bad
    BY <2>1, <2>3
  <2>5. Filled(give[k - 1], members, target)
    BY <2>4
  <2>6. give[k] = Step(cand, target, k, give[k - 1])
    BY <2>4 DEF Passes
  <2>7. Filled(give[k], members, target)
    BY <2>4, <2>5, <2>6, StepFilled
  <2> QED BY <2>1, <2>7
<1>2. 2 * n \in 0 .. 2 * n
  OBVIOUS
<1> QED BY <1>1, <1>2

\* The powers of a plan all have its direction and stay within the limits.
Sound(to, dir) ==
    /\ DOMAIN to \subseteq Devices
    /\ to \in [DOMAIN to -> Int]
    /\ \A d \in DOMAIN to : /\ to[d] > 0 => dir = 1
                            /\ to[d] < 0 => dir = -1
    /\ Within([d \in DOMAIN to |-> Abs(to[d])], DOMAIN to)

LEMMA AllocateSound ==
  ASSUME NEW members, members \subseteq Devices, NEW target \in Int,
         NEW n \in Nat, NEW cand \in [1 .. n -> members]
  PROVE  /\ DOMAIN Allocate(cand, members, target) = members
         /\ Sound(Allocate(cand, members, target), Sign(target))
         /\ SumFunction([d \in members |-> Abs(Allocate(cand, members, target)[d])]) <= Abs(target)
<1> DEFINE P(give) == Passes(cand, members, target, 2 * n, give)
           run == CHOOSE give : P(give)
           a == Allocate(cand, members, target)
<1>1. 2 * n \in Nat /\ Len(cand) = n
  OBVIOUS
<1>2. P(run)
  BY <1>1, PassesExist
<1>3. a = [d \in members |-> Sign(target) * run[2 * n][d]]
  BY <1>1 DEF Allocate, Passes
<1>4. Within(run[2 * n], members) /\ SumFunction(run[2 * n]) <= Abs(target)
  BY <1>2, PassesFilled DEF Filled
<1> DEFINE give == run[2 * n]
<1>5. give \in [members -> Nat]
  BY <1>4 DEF Within
<1>6. a = [d \in members |-> Sign(target) * give[d]]
  BY <1>3
<1> HIDE DEF run, give, a
<1>7. Sign(target) \in {-1, 0, 1}
  BY DEF Sign
<1>8. ASSUME NEW d \in members
      PROVE  /\ a[d] \in Int /\ Abs(a[d]) \in Nat /\ Abs(a[d]) <= give[d]
             /\ a[d] > 0 => Sign(target) = 1
             /\ a[d] < 0 => Sign(target) = -1
  <2>1. a[d] = Sign(target) * give[d] /\ give[d] \in Nat
    BY <1>5, <1>6
  <2>2. CASE Sign(target) = -1
    BY <2>1, <2>2 DEF Abs
  <2>3. CASE Sign(target) = 0
    BY <2>1, <2>3 DEF Abs
  <2>4. CASE Sign(target) = 1
    BY <2>1, <2>4 DEF Abs
  <2> QED BY <1>7, <2>2, <2>3, <2>4
<1>9. DOMAIN a = members /\ a \in [members -> Int]
  BY <1>6, <1>8
<1> DEFINE abs == [d \in members |-> Abs(a[d])]
<1>10. abs \in [members -> Nat] /\ \A d \in members : abs[d] <= give[d]
  BY <1>8
<1>11. \A c \in Circuits : Load(c, give) <= Cap[c] /\ Load(c, give) \in Int
  <2>1. \A c \in Circuits : Load(c, give) <= Cap[c]
    BY <1>4 DEF give, Within
  <2>2. give \in [members -> Int]
    BY <1>5
  <2>3. \A c \in Circuits : Load(c, give) \in Int
    BY <2>2, LoadType
  <2> QED BY <2>1, <2>3
<1>12. \A d \in members : give[d] <= MaxPower[d] /\ MaxPower[d] \in Nat
  BY <1>4, AllocationAssumption DEF give, Within
<1> HIDE DEF abs
<1>13. ASSUME NEW c \in Circuits PROVE Load(c, abs) <= Cap[c]
  <2>2. abs \in [members -> Int] /\ members \subseteq members
    BY <1>10
  <2>1. Load(c, abs) <= Load(c, give)
    BY <1>5, <1>10, <2>2, LoadMonotone
  <2>3. Load(c, abs) \in Int
    BY <2>2, LoadType
  <2>4. Cap[c] \in Nat
    BY AllocationAssumption
  <2> QED BY <1>11, <2>1, <2>3, <2>4
<1>14. \A d \in members : abs[d] <= MaxPower[d]
  BY <1>5, <1>10, <1>12
<1>15. Within(abs, members)
  BY <1>10, <1>13, <1>14 DEF Within
<1>16. Sound(a, Sign(target))
  BY <1>8, <1>9, <1>15 DEF Sound, abs
<1>17. SumFunction(abs) <= Abs(target)
  <2>1. IsFiniteSet(members) /\ members \subseteq members
    BY AllocationAssumption, FS_Subset
  <2>2. give \in [members -> Int] /\ abs \in [members -> Int]
    BY <1>5, <1>10
  <2>3. SumFunction(abs) <= SumFunction(give)
    BY <1>10, <2>1, <2>2, SumMonotone
  <2>4. SumFunction(give) <= Abs(target)
    BY <1>4 DEF give
  <2>5. SumFunction(abs) \in Int /\ SumFunction(give) \in Int /\ Abs(target) \in Int
    BY <2>1, <2>2, SumType DEF Abs
  <2> QED BY <2>3, <2>4, <2>5
<1> QED BY <1>9, <1>16, <1>17 DEF a, abs

-----------------------------------------------------------------------------
(* The inductive invariant                                                 *)

\* x lies between nothing and y.
Below(x, y) == \/ 0 <= x /\ x <= y
               \/ y <= x /\ x <= 0

CommandType == [dev : Devices, w : Int]
LeadType == [dev : Devices \cup {NoDevice}, ripe : BOOLEAN, idle : BOOLEAN]

LastPower == [d \in DOMAIN last |-> last[d].w]
\* Targets that a cycle stores are those of a sound plan.
LastSound(l) == \E dir \in {-1, 0, 1} : Sound([d \in DOMAIN l |-> l[d].w], dir)

\* A member that took its last command is within its last stored target.
Kept == \A d \in DOMAIN last \ missed : Below(setp[d], last[d].w)
\* A member with a stored target that took its last command is within the plan.
Planned ==
    /\ group = DOMAIN plan.to
    /\ \A d \in (group \cap DOMAIN last) \ missed : Below(setp[d], plan.to[d])
\* The plan raises no member beyond its stored target.
NoRise == \A d \in DOMAIN plan.to : d \in DOMAIN last => Below(plan.to[d], last[d].w)

OnlyStops == \A i \in DOMAIN todo : todo[i].w = 0
\* What is awaited is the plan, and whoever is not awaited has taken it.
Delivering ==
    /\ group = DOMAIN plan.to
    /\ \A i \in DOMAIN todo : /\ todo[i].dev \in group
                              /\ todo[i].w = plan.to[todo[i].dev]
    /\ \A d \in group : \/ \E i \in DOMAIN todo : todo[i].dev = d
                        \/ setp[d] = plan.to[d] /\ d \notin missed

Marked(l, members) == DOMAIN l # {} => members \ {Selected} # {}

InvType ==
    /\ group \in SUBSET Devices /\ goal \in Int
    /\ lead \in LeadType /\ saved.lead \in LeadType
    /\ stored \subseteq Devices /\ saved.stored \subseteq Devices
    /\ pend \subseteq Devices /\ saved.pend \subseteq Devices
    /\ newer \subseteq Devices /\ missed \subseteq Devices
InvPower ==
    /\ setp \in [Devices -> Int] /\ flow \in [Devices -> Int]
    /\ obs \in [Devices -> Int \cup {NoReading}]
    /\ \A d \in Devices : Abs(setp[d]) <= MaxPower[d]
InvTodo ==
    /\ todo \in Seq(CommandType)
    /\ \A i \in DOMAIN todo : Abs(todo[i].w) <= MaxPower[todo[i].dev]
InvSound ==
    /\ LastSound(last) /\ LastSound(saved.last)
    /\ \E dir \in {-1, 0, 1} : Sound(plan.to, dir)
InvMarked ==
    /\ Marked(last, stored) /\ Marked(saved.last, saved.stored)
    /\ pc \in {"wait", "giveup", "stop", "send"} => stored \ {Selected} # {}
InvPhase ==
    /\ pc = "idle" => todo = <<>> /\ Kept /\ saved.last = last
    /\ pc = "alone" => DOMAIN last = {}
    /\ pc \in {"wait", "giveup"} => OnlyStops /\ Kept
    /\ pc = "stop" => OnlyStops /\ (over \/ Kept \/ Planned)
    /\ pc = "send" => Delivering /\ (over \/ Planned \/ (Kept /\ NoRise))
    /\ pc \in {"idle", "alone", "wait", "giveup", "stop", "send"}

IInv == InvType /\ InvPower /\ InvTodo /\ InvSound /\ InvMarked /\ InvPhase

-----------------------------------------------------------------------------
(* What the invariant implies                                              *)

\* Members within the powers of a sound plan neither oppose each other nor
\* exceed a circuit.
LEMMA BoundedIsSafe ==
  ASSUME NEW f, NEW dir \in {-1, 0, 1}, Sound(f, dir), NEW T, T \subseteq DOMAIN f,
         setp \in [Devices -> Int], \A d \in T : Below(setp[d], f[d])
  PROVE  /\ \A d, e \in T : ~Opposed(setp[d], setp[e])
         /\ \A c \in Circuits : Load(c, [d \in T |-> Abs(setp[d])]) <= Cap[c]
<1> DEFINE M == DOMAIN f
<1>1. M \subseteq Devices /\ f \in [M -> Int]
  BY DEF Sound
<1>2. \A d \in M : (f[d] > 0 => dir = 1) /\ (f[d] < 0 => dir = -1)
  BY DEF Sound
<1>3. Within([d \in M |-> Abs(f[d])], M)
  BY DEF Sound
<1> HIDE DEF M
<1>4. T \subseteq M
  BY DEF M
<1>5. \A d \in T : setp[d] \in Int /\ f[d] \in Int
  BY <1>1, <1>4
<1>6. ASSUME NEW d \in T, NEW e \in T PROVE ~Opposed(setp[d], setp[e])
  <2>1. (setp[d] > 0 => dir = 1) /\ (setp[d] < 0 => dir = -1)
    BY <1>2, <1>4, <1>5 DEF Below
  <2>2. (setp[e] > 0 => dir = 1) /\ (setp[e] < 0 => dir = -1)
    BY <1>2, <1>4, <1>5 DEF Below
  <2>3. ~(setp[d] > 0 /\ setp[e] < 0) /\ ~(setp[d] < 0 /\ setp[e] > 0)
    BY <2>1, <2>2
  <2>4. \A x, y \in Int : x * y < 0 => (x > 0 /\ y < 0) \/ (x < 0 /\ y > 0)
    OBVIOUS
  <2> QED BY <1>5, <2>3, <2>4 DEF Opposed
<1> DEFINE give == [d \in M |-> Abs(f[d])]
           h == [d \in T |-> Abs(setp[d])]
<1>7. give \in [M -> Nat] /\ h \in [T -> Int]
  BY <1>1, <1>5 DEF Abs
<1>8. \A d \in T : h[d] <= give[d]
  BY <1>4, <1>5 DEF Abs, Below
<1> HIDE DEF give, h
<1>9. ASSUME NEW c \in Circuits PROVE Load(c, h) <= Cap[c]
  <2>1. Load(c, h) <= Load(c, give)
    BY <1>1, <1>4, <1>7, <1>8, LoadMonotone
  <2>2. Load(c, give) <= Cap[c]
    BY <1>3 DEF Within, give
  <2>3. give \in [M -> Int] /\ T \subseteq Devices
    BY <1>1, <1>4, <1>7
  <2>4. Load(c, h) \in Int
    BY <1>7, <2>3, LoadType
  <2>5. Load(c, give) \in Int
    BY <1>1, <2>3, LoadType
  <2>6. Cap[c] \in Int
    BY AllocationAssumption
  <2> QED BY <2>1, <2>2, <2>4, <2>5, <2>6
<1> QED BY <1>6, <1>9 DEF h

LEMMA InvIsSafe ==
  ASSUME IInv
  PROVE  GroupSafe
<1> USE DEF IInv
<1>1. DOMAIN last \subseteq Devices /\ DOMAIN plan.to \subseteq Devices
  <2>1. DOMAIN plan.to \subseteq Devices
    BY DEF InvSound, Sound
  <2>2. DOMAIN last = DOMAIN [d \in DOMAIN last |-> last[d].w]
    OBVIOUS
  <2>3. DOMAIN [d \in DOMAIN last |-> last[d].w] \subseteq Devices
    BY DEF InvSound, LastSound, Sound
  <2> QED BY <2>1, <2>2, <2>3
<1>2. GroupTypeOK
  <2>1. lead.dev \in Devices \cup {NoDevice}
    BY DEF InvType, LeadType
  <2>2. pc = "idle" => todo = <<>>
    BY DEF InvPhase
  <2> QED BY <1>1, <2>1, <2>2 DEF GroupTypeOK, InvType, InvPower
<1>3. setp \in [Devices -> Int]
  BY DEF InvPower
<1>4. ASSUME ~over
      PROVE  /\ \A d, e \in Told : ~Opposed(setp[d], setp[e])
             /\ \A c \in Circuits : Load(c, [d \in Told |-> Abs(setp[d])]) <= Cap[c]
  <2>1. Kept \/ Planned
    <3>1. DOMAIN last = {} => Kept
      BY DEF Kept
    <3> QED BY <1>4, <3>1 DEF InvPhase
  <2>2. CASE Kept
    <3>1. PICK f : f = [d \in DOMAIN last |-> last[d].w]
      OBVIOUS
    <3>2. PICK dir \in {-1, 0, 1} : Sound(f, dir)
      BY <3>1 DEF InvSound, LastSound
    <3>3. Told \subseteq DOMAIN f /\ \A d \in Told : Below(setp[d], f[d])
      BY <2>2, <3>1 DEF Kept, Told
    <3> QED BY <1>3, <3>2, <3>3, BoundedIsSafe
  <2>3. CASE Planned
    <3>1. PICK f : f = plan.to
      OBVIOUS
    <3>2. PICK dir \in {-1, 0, 1} : Sound(f, dir)
      BY <3>1 DEF InvSound
    <3>3. Told \subseteq DOMAIN f /\ \A d \in Told : Below(setp[d], f[d])
      BY <2>3, <3>1 DEF Planned, Told
    <3> QED BY <1>3, <3>2, <3>3, BoundedIsSafe
  <2> QED BY <2>1, <2>2, <2>3
<1> QED BY <1>2, <1>4 DEF GroupSafe, MembersSafe, NoOpposingMembers, CircuitsHold

-----------------------------------------------------------------------------
(* The commands of a phase                                                 *)

LEMMA HeadAndTail ==
  ASSUME NEW s \in Seq(CommandType), s # <<>>
  PROVE  /\ Head(s) \in CommandType /\ 1 \in DOMAIN s /\ Head(s) = s[1]
         /\ Tail(s) \in Seq(CommandType)
         /\ \A i \in DOMAIN Tail(s) : i + 1 \in DOMAIN s /\ Tail(s)[i] = s[i + 1]
         /\ \A j \in DOMAIN s : j # 1 => j - 1 \in DOMAIN Tail(s) /\ Tail(s)[j - 1] = s[j]
<1>1. Len(s) \in Nat /\ Len(s) > 0 /\ DOMAIN s = 1 .. Len(s)
  OBVIOUS
<1>2. Head(s) = s[1] /\ s[1] \in CommandType
  BY <1>1
<1>3. Tail(s) \in Seq(CommandType) /\ Len(Tail(s)) = Len(s) - 1
  BY <1>1
<1>4. DOMAIN Tail(s) = 1 .. Len(s) - 1
  BY <1>1, <1>3
<1>5. \A i \in 1 .. Len(s) - 1 : Tail(s)[i] = s[i + 1]
  BY <1>1
<1> QED BY <1>1, <1>2, <1>3, <1>4, <1>5

LEMMA CommandsType ==
  ASSUME NEW S, S \subseteq Devices, NEW n \in Nat, NEW order \in [1 .. n -> S],
         ToSet(order) = S, NEW target \in [S -> Int],
         todo' = Commands(order, target)
  PROVE  /\ todo' \in Seq(CommandType)
         /\ \A i \in DOMAIN todo' :
               /\ todo'[i].dev \in S
               /\ todo'[i].w = target[todo'[i].dev]
         /\ \A d \in S : \E i \in DOMAIN todo' : todo'[i].dev = d
<1>1. DOMAIN order = 1 .. n
  OBVIOUS
<1>2. todo' = [i \in 1 .. n |-> [dev |-> order[i], w |-> target[order[i]]]]
  BY <1>1 DEF Commands
<1>3. \A i \in 1 .. n : order[i] \in S /\ target[order[i]] \in Int
  OBVIOUS
<1>4. \A i \in 1 .. n : todo'[i] \in CommandType /\ todo'[i].dev = order[i]
                          /\ todo'[i].w = target[order[i]]
  BY <1>2, <1>3 DEF CommandType
<1>5. DOMAIN todo' = 1 .. n /\ todo' \in [1 .. n -> CommandType]
  BY <1>2, <1>4
<1>6. todo' \in Seq(CommandType)
  BY <1>5
<1>7. \A d \in S : \E i \in 1 .. n : order[i] = d
  BY <1>1 DEF ToSet
<1>8. \A d \in S : \E i \in DOMAIN todo' : todo'[i].dev = d
  BY <1>4, <1>5, <1>7
<1>9. \A i \in DOMAIN todo' : todo'[i].dev \in S /\ todo'[i].w = target[todo'[i].dev]
  BY <1>3, <1>4, <1>5
<1> QED BY <1>6, <1>8, <1>9

LEMMA StopsType ==
  ASSUME NEW S, S \subseteq Devices, NEW t \in Stops(S)
  PROVE  /\ t \in Seq(CommandType)
         /\ \A i \in DOMAIN t : t[i].w = 0 /\ t[i].dev \in S
<1>1. IsFiniteSet(S)
  BY AllocationAssumption, FS_Subset
<1>2. Cardinality(S) \in Nat
  BY <1>1, FS_CardinalityType
<1>3. PICK n \in Nat : n = Cardinality(S)
  BY <1>2
<1>4. PICK order \in [1 .. n -> S] : ToSet(order) = S /\ t = Commands(order, [d \in S |-> 0])
  BY <1>3 DEF Stops, InOrder
<1>5. t = [i \in 1 .. n |-> [dev |-> order[i], w |-> 0]]
  BY <1>4 DEF Commands
<1>6. \A i \in 1 .. n : order[i] \in S
  OBVIOUS
<1>7. \A i \in 1 .. n : t[i] \in CommandType /\ t[i].w = 0 /\ t[i].dev \in S
  BY <1>5, <1>6 DEF CommandType
<1>8. DOMAIN t = 1 .. n /\ t \in [1 .. n -> CommandType]
  BY <1>5, <1>7
<1> QED BY <1>7, <1>8

\* The devices a cycle stops may be stopped.
LEMMA StopsTodo ==
  ASSUME NEW S, S \subseteq Devices, todo' \in Stops(S)
  PROVE  InvTodo' /\ OnlyStops'
<1>1. /\ todo' \in Seq(CommandType)
      /\ \A i \in DOMAIN todo' : todo'[i].w = 0 /\ todo'[i].dev \in S
  BY StopsType
<1>2. \A d \in S : MaxPower[d] \in Nat
  BY AllocationAssumption
<1>3. Abs(0) = 0
  BY DEF Abs
<1>4. \A i \in DOMAIN todo' : Abs(todo'[i].w) <= MaxPower[todo'[i].dev]
  BY <1>1, <1>2, <1>3
<1> QED BY <1>1, <1>4 DEF InvTodo, OnlyStops

-----------------------------------------------------------------------------
(* The sound plans                                                         *)

LEMMA NothingIsSound ==
  Sound(<<>>, 0)
<1>1. DOMAIN <<>> = {}
  OBVIOUS
<1>2. [d \in DOMAIN <<>> |-> Abs(<<>>[d])] = [d \in {} |-> 0]
  BY <1>1
<1>3. <<>> \in [DOMAIN <<>> -> Int]
  BY <1>1
<1>4. Within([d \in {} |-> 0], {})
  <2>1. {} \subseteq Devices
    OBVIOUS
  <2> DEFINE E == {}
  <2>2. E \subseteq Devices => Within([d \in E |-> 0], E)
    <3> HIDE DEF E
    <3> QED BY NothingIsWithin
  <2> QED BY <2>1, <2>2
<1> QED BY <1>1, <1>2, <1>3, <1>4 DEF Sound

LEMMA NothingIsLastSound ==
  LastSound(<<>>)
<1>1. [d \in DOMAIN <<>> |-> <<>>[d].w] = <<>>
  OBVIOUS
<1> QED BY <1>1, NothingIsSound DEF LastSound

-----------------------------------------------------------------------------
(* Init and the steps that touch neither targets nor commands              *)

LEMMA InitInv ==
  ASSUME Init
  PROVE  IInv
<1> USE DEF Init
<1>1. DOMAIN last = {} /\ DOMAIN saved.last = {}
  OBVIOUS
<1>2. InvType
  <2>1. NoLead \in LeadType
    BY DEF NoLead, LeadType
  <2>2. group \in SUBSET Devices /\ goal \in Int
    BY HandoverAssumption
  <2>3. saved.lead = NoLead /\ saved.stored = {} /\ saved.pend = {}
    OBVIOUS
  <2> QED BY <2>1, <2>2, <2>3 DEF InvType
<1>3. InvPower
  <2>1. \A d \in Devices : MaxPower[d] \in Nat
    BY AllocationAssumption
  <2>2. setp = [d \in Devices |-> 0] /\ flow = setp /\ obs = setp
    OBVIOUS
  <2> QED BY <2>1, <2>2 DEF InvPower, Abs
<1>4. InvTodo
  <2>1. todo = <<>>
    OBVIOUS
  <2> QED BY <2>1 DEF InvTodo
<1>5. InvSound
  <2>1. last = <<>> /\ saved.last = <<>> /\ plan.to = <<>>
    BY DEF NoPlan
  <2> QED BY <2>1, NothingIsSound, NothingIsLastSound DEF InvSound
<1>6. InvMarked
  BY <1>1 DEF InvMarked, Marked
<1>7. InvPhase
  BY <1>1 DEF InvPhase, Kept
<1> QED BY <1>2, <1>3, <1>4, <1>5, <1>6, <1>7 DEF IInv

LEMMA Framed ==
  ASSUME IInv, UNCHANGED <<group, setp, last, stored, pc, todo, plan, over, missed, saved>>,
         InvType', InvPower'
  PROVE  IInv'
<1> USE DEF IInv
<1>1. InvTodo'
  BY DEF InvTodo
<1>2. InvSound'
  BY DEF InvSound
<1>3. InvMarked'
  BY DEF InvMarked
<1>4. InvPhase'
  BY DEF InvPhase, Kept, Planned, NoRise, OnlyStops, Delivering
<1> QED BY <1>1, <1>2, <1>3, <1>4

LEMMA EnvironmentInv ==
  ASSUME IInv,
         \/ LeadRipens \/ LeadIdles \/ ChangeGoal
         \/ \E d \in Devices : \/ Follow(d) \/ Report(d) \/ ChangeSoc(d)
                               \/ ChangeReach(d) \/ LoseReading(d)
  PROVE  IInv'
<1> USE DEF IInv, cycleVars, devVars, envVars
<1>1. CASE LeadRipens \/ LeadIdles
  <2>1. lead' \in LeadType
    BY <1>1 DEF LeadRipens, LeadIdles, InvType, LeadType
  <2>2. InvType' /\ InvPower'
    BY <1>1, <2>1 DEF LeadRipens, LeadIdles, InvType, InvPower
  <2> QED BY <1>1, <2>2, Framed DEF LeadRipens, LeadIdles
<1>2. CASE ChangeGoal
  <2>1. goal' \in Int
    BY <1>2, HandoverAssumption DEF ChangeGoal
  <2>2. InvType' /\ InvPower'
    BY <1>2, <2>1 DEF ChangeGoal, InvType, InvPower
  <2> QED BY <1>2, <2>2, Framed DEF ChangeGoal
<1>3. ASSUME NEW d \in Devices, Follow(d) PROVE IInv'
  <2>1. InvType' /\ InvPower'
    BY <1>3 DEF Follow, InvType, InvPower
  <2> QED BY <1>3, <2>1, Framed DEF Follow
<1>4. ASSUME NEW d \in Devices, Report(d) PROVE IInv'
  <2>1. InvType'
    BY <1>4 DEF Report, InvType
  <2>2. InvPower'
    BY <1>4 DEF Report, InvPower
  <2> QED BY <1>4, <2>1, <2>2, Framed DEF Report
<1>5. ASSUME NEW d \in Devices, ChangeSoc(d) \/ ChangeReach(d) PROVE IInv'
  <2>1. InvType' /\ InvPower'
    BY <1>5 DEF ChangeSoc, ChangeReach, InvType, InvPower
  <2> QED BY <1>5, <2>1, Framed DEF ChangeSoc, ChangeReach
<1>6. ASSUME NEW d \in Devices, LoseReading(d) PROVE IInv'
  <2>1. InvType'
    BY <1>6 DEF LoseReading, InvType
  <2>2. InvPower'
    BY <1>6 DEF LoseReading, InvPower
  <2> QED BY <1>6, <2>1, <2>2, Framed DEF LoseReading
<1> QED BY <1>1, <1>2, <1>3, <1>4, <1>5, <1>6

\* After a restart in mid-cycle nobody is sure to have taken its command.
LEMMA RestartInv ==
  ASSUME IInv, Restart
  PROVE  IInv'
<1> USE DEF IInv, Restart
<1>1. InvType'
  BY HandoverAssumption DEF InvType
<1>2. InvPower'
  BY DEF InvPower
<1>3. InvTodo'
  BY DEF InvTodo
<1>4. InvSound'
  <2>1. plan'.to = <<>>
    BY DEF NoPlan
  <2> QED BY <2>1, NothingIsSound DEF InvSound
<1>5. InvMarked'
  BY DEF InvMarked
<1>6. Kept'
  <2>1. CASE pc = "idle"
    BY <2>1 DEF Kept, InvPhase
  <2>2. CASE pc # "idle"
    <3>1. last' = saved.last /\ missed' = Devices
      BY <2>2
    <3>2. DOMAIN saved.last = DOMAIN [d \in DOMAIN saved.last |-> saved.last[d].w]
      OBVIOUS
    <3>3. DOMAIN [d \in DOMAIN saved.last |-> saved.last[d].w] \subseteq Devices
      BY DEF InvSound, LastSound, Sound
    <3> QED BY <3>1, <3>2, <3>3 DEF Kept
  <2> QED BY <2>1, <2>2
<1>7. InvPhase'
  BY <1>6 DEF InvPhase
<1> QED BY <1>1, <1>2, <1>3, <1>4, <1>5, <1>7

-----------------------------------------------------------------------------
(* The awaited commands                                                    *)

LEMMA LastDomain ==
  ASSUME NEW l, LastSound(l)
  PROVE  /\ DOMAIN l \subseteq Devices
         /\ \A d \in DOMAIN l : l[d].w \in Int
<1> DEFINE f == [d \in DOMAIN l |-> l[d].w]
<1>1. DOMAIN f \subseteq Devices /\ f \in [DOMAIN f -> Int]
  BY DEF LastSound, Sound
<1>2. DOMAIN f = DOMAIN l /\ \A d \in DOMAIN l : f[d] = l[d].w
  OBVIOUS
<1> QED BY <1>1, <1>2

LEMMA GiveUpInv ==
  ASSUME IInv, GiveUp
  PROVE  IInv'
<1> USE DEF IInv, GiveUp, envVars, devVars
<1>1. DOMAIN plan.to \subseteq Devices
  BY DEF InvSound, Sound
<1>2. InvTodo' /\ OnlyStops'
  BY <1>1, StopsTodo
<1>3. InvType' /\ InvPower'
  BY DEF InvType, InvPower
<1>4. InvSound'
  BY DEF InvSound
<1>5. InvMarked'
  BY DEF InvMarked, Marked
<1>6. Kept'
  BY DEF Kept, InvPhase
<1>7. InvPhase'
  BY <1>2, <1>6 DEF InvPhase
<1> QED BY <1>2, <1>3, <1>4, <1>5, <1>7

LEMMA TailTodo ==
  ASSUME InvTodo, todo # <<>>, todo' = Tail(todo)
  PROVE  InvTodo' /\ (OnlyStops => OnlyStops')
<1>1. /\ todo \in Seq(CommandType)
      /\ \A i \in DOMAIN todo : Abs(todo[i].w) <= MaxPower[todo[i].dev]
  BY DEF InvTodo
<1>2. /\ todo' \in Seq(CommandType)
      /\ \A i \in DOMAIN todo' : i + 1 \in DOMAIN todo /\ todo'[i] = todo[i + 1]
  BY <1>1, HeadAndTail
<1>3. \A i \in DOMAIN todo' : Abs(todo'[i].w) <= MaxPower[todo'[i].dev]
  BY <1>1, <1>2
<1>4. OnlyStops => OnlyStops'
  BY <1>2 DEF OnlyStops
<1> QED BY <1>2, <1>3, <1>4 DEF InvTodo

LEMMA CommandPower ==
  ASSUME InvPower, InvTodo, todo # <<>>, Accepted, UNCHANGED <<flow, obs>>
  PROVE  InvPower'
<1>1. /\ todo \in Seq(CommandType)
      /\ \A i \in DOMAIN todo : Abs(todo[i].w) <= MaxPower[todo[i].dev]
  BY DEF InvTodo
<1>2. Head(todo) \in CommandType /\ 1 \in DOMAIN todo /\ Head(todo) = todo[1]
  BY <1>1, HeadAndTail
<1>3. PICK h \in CommandType : h = Head(todo) /\ Abs(h.w) <= MaxPower[h.dev]
  BY <1>1, <1>2
<1>4. h.dev \in Devices /\ h.w \in Int
  BY DEF CommandType
<1>5. setp' = [setp EXCEPT ![h.dev] = h.w]
  BY <1>3 DEF Accepted
<1>6. setp' \in [Devices -> Int]
  BY <1>4, <1>5 DEF InvPower
<1>7. \A d \in Devices : Abs(setp'[d]) <= MaxPower[d]
  BY <1>3, <1>4, <1>5 DEF InvPower
<1> QED BY <1>6, <1>7 DEF InvPower

LEMMA BelowFacts ==
  /\ \A x \in Int : Below(0, x) /\ Below(x, x)
  /\ \A x, y, z \in Int : Below(x, y) /\ Below(y, z) => Below(x, z)
BY DEF Below

\* The command that is awaited is taken.
LEMMA AcceptedInv ==
  ASSUME IInv, CommandAccepted
  PROVE  IInv'
<1> USE DEF IInv
<1>1. /\ todo # <<>> /\ Accepted
      /\ missed' = missed \ {Head(todo).dev}
      /\ todo' = Tail(todo)
  BY DEF CommandAccepted
<1>2. /\ UNCHANGED <<group, goal, flow, obs, lead, stored, last, pend, pc, plan, over, saved>>
      /\ newer' \in {newer, newer \ {Head(todo).dev}}
  BY DEF CommandAccepted, envVars
<1>3. /\ todo \in Seq(CommandType)
  BY DEF InvTodo
<1>4. /\ Head(todo) \in CommandType /\ 1 \in DOMAIN todo /\ Head(todo) = todo[1]
      /\ \A i \in DOMAIN todo' : i + 1 \in DOMAIN todo /\ todo'[i] = todo[i + 1]
      /\ \A j \in DOMAIN todo : j # 1 => j - 1 \in DOMAIN todo' /\ todo'[j - 1] = todo[j]
  BY <1>1, <1>3, HeadAndTail
<1>5. PICK h \in CommandType : h = Head(todo)
  BY <1>4
<1>6. h.dev \in Devices /\ h.w \in Int
  BY DEF CommandType
<1>7. setp' = [setp EXCEPT ![h.dev] = h.w] /\ missed' = missed \ {h.dev}
  BY <1>1, <1>5 DEF Accepted
<1>8. \A d \in Devices : setp'[d] = IF d = h.dev THEN h.w ELSE setp[d]
  BY <1>6, <1>7 DEF InvPower
<1>9. \A d \in DOMAIN last : d \in Devices /\ last[d].w \in Int
  BY LastDomain DEF InvSound
<1>10. \A d \in DOMAIN plan.to : d \in Devices /\ plan.to[d] \in Int
  BY DEF InvSound, Sound
<1>11. InvType'
  BY <1>2, <1>7 DEF InvType
<1>12. InvPower' /\ InvTodo' /\ (OnlyStops => OnlyStops')
  BY <1>1, <1>2, CommandPower, TailTodo
<1>13. InvSound' /\ InvMarked'
  BY <1>2 DEF InvSound, InvMarked
<1>14. ASSUME OnlyStops, Kept PROVE Kept'
  <2>1. h.w = 0
    BY <1>4, <1>5, <1>14 DEF OnlyStops
  <2>2. ASSUME NEW d \in DOMAIN last \ missed' PROVE Below(setp'[d], last[d].w)
    <3>1. CASE d = h.dev
      BY <1>8, <1>9, <2>1, <3>1, BelowFacts
    <3>2. CASE d # h.dev
      BY <1>7, <1>8, <1>9, <1>14, <3>2 DEF Kept
    <3> QED BY <3>1, <3>2
  <2> QED BY <1>2, <2>2 DEF Kept
<1>15. ASSUME OnlyStops, Planned PROVE Planned'
  <2>1. h.w = 0
    BY <1>4, <1>5, <1>15 DEF OnlyStops
  <2>2. ASSUME NEW d \in (group \cap DOMAIN last) \ missed' PROVE Below(setp'[d], plan.to[d])
    <3>0. d \in DOMAIN plan.to
      BY <1>15 DEF Planned
    <3>1. CASE d = h.dev
      BY <1>8, <1>10, <2>1, <3>0, <3>1, BelowFacts
    <3>2. CASE d # h.dev
      BY <1>7, <1>8, <1>10, <1>15, <3>0, <3>2 DEF Planned
    <3> QED BY <3>1, <3>2
  <2> QED BY <1>2, <1>15, <2>2 DEF Planned
<1>16. ASSUME Delivering PROVE h.dev \in group /\ h.w = plan.to[h.dev] /\ group = DOMAIN plan.to
  BY <1>4, <1>5, <1>16 DEF Delivering
<1>17. ASSUME Delivering, Planned PROVE Planned'
  <2>1. ASSUME NEW d \in (group \cap DOMAIN last) \ missed' PROVE Below(setp'[d], plan.to[d])
    <3>0. d \in DOMAIN plan.to
      BY <1>17 DEF Planned
    <3>1. CASE d = h.dev
      BY <1>8, <1>10, <1>16, <1>17, <3>0, <3>1, BelowFacts
    <3>2. CASE d # h.dev
      BY <1>7, <1>8, <1>10, <1>17, <3>0, <3>2 DEF Planned
    <3> QED BY <3>1, <3>2
  <2> QED BY <1>2, <1>17, <2>1 DEF Planned
<1>18. ASSUME Delivering, Kept, NoRise PROVE Kept'
  <2>1. ASSUME NEW d \in DOMAIN last \ missed' PROVE Below(setp'[d], last[d].w)
    <3>1. CASE d = h.dev
      <4>1. setp'[d] = plan.to[d] /\ d \in DOMAIN plan.to
        BY <1>8, <1>6, <1>16, <1>18, <3>1
      <4> QED BY <1>18, <4>1 DEF NoRise
    <3>2. CASE d # h.dev
      BY <1>7, <1>8, <1>9, <1>18, <3>2 DEF Kept
    <3> QED BY <3>1, <3>2
  <2> QED BY <1>2, <2>1 DEF Kept
<1>19. ASSUME Delivering PROVE Delivering'
  <2>1. \A i \in DOMAIN todo' : todo'[i].dev \in group /\ todo'[i].w = plan.to[todo'[i].dev]
    BY <1>4, <1>19 DEF Delivering
  <2>2. ASSUME NEW d \in group
        PROVE  \/ \E i \in DOMAIN todo' : todo'[i].dev = d
               \/ setp'[d] = plan.to[d] /\ d \notin missed'
    <3>1. CASE d = h.dev
      BY <1>6, <1>7, <1>8, <1>16, <1>19, <3>1
    <3>2. CASE d # h.dev
      <4>0. d \in Devices
        BY DEF InvType
      <4>1. CASE setp[d] = plan.to[d] /\ d \notin missed
        BY <1>7, <1>8, <3>2, <4>0, <4>1
      <4>2. CASE \E i \in DOMAIN todo : todo[i].dev = d
        <5>1. PICK i \in DOMAIN todo : todo[i].dev = d
          BY <4>2
        <5>2. i # 1
          BY <1>4, <1>5, <3>2, <5>1
        <5> QED BY <1>4, <5>1, <5>2
      <4> QED BY <1>19, <4>1, <4>2 DEF Delivering
    <3> QED BY <3>1, <3>2
  <2>3. group = DOMAIN plan.to
    BY <1>19 DEF Delivering
  <2> QED BY <1>2, <2>1, <2>2, <2>3 DEF Delivering
<1>20. NoRise => NoRise'
  BY <1>2 DEF NoRise
<1>21. InvPhase'
  <2>1. CASE pc = "idle"
    BY <1>1, <2>1 DEF InvPhase
  <2>2. CASE pc = "alone"
    BY <1>2, <2>2 DEF InvPhase
  <2>3. CASE pc \in {"wait", "giveup"}
    BY <1>2, <1>12, <1>14, <2>3 DEF InvPhase
  <2>4. CASE pc = "stop"
    BY <1>2, <1>12, <1>14, <1>15, <2>4 DEF InvPhase
  <2>5. CASE pc = "send"
    <3>1. Delivering /\ (over \/ Planned \/ (Kept /\ NoRise))
      BY <2>5 DEF InvPhase
    <3>2. Delivering' /\ (over' \/ Planned' \/ (Kept' /\ NoRise'))
      BY <1>2, <1>17, <1>18, <1>19, <1>20, <3>1
    <3> QED BY <1>2, <2>5, <3>2 DEF InvPhase
  <2> QED BY <2>1, <2>2, <2>3, <2>4, <2>5 DEF InvPhase
<1> QED BY <1>11, <1>12, <1>13, <1>21

\* The command that is awaited fails: nothing is claimed of its device.
LEMMA FailedInv ==
  ASSUME IInv, CommandFailed
  PROVE  IInv'
<1> USE DEF IInv
<1>1. /\ todo # <<>> /\ (Accepted \/ UNCHANGED setp)
      /\ missed' = missed \cup {Head(todo).dev}
      /\ UNCHANGED <<group, goal, flow, obs, newer, lead, stored, last, pend, plan, over, saved>>
  BY DEF CommandFailed, envVars
<1>2. IF pc = "send" THEN todo' \in Stops(DOMAIN plan.to) /\ pc' = "stop"
      ELSE todo' = Tail(todo) /\ pc' = IF pc = "wait" THEN "giveup" ELSE pc
  BY DEF CommandFailed
<1>3. todo \in Seq(CommandType)
  BY DEF InvTodo
<1>4. Head(todo) \in CommandType /\ 1 \in DOMAIN todo /\ Head(todo) = todo[1]
  BY <1>1, <1>3, HeadAndTail
<1>5. PICK h \in CommandType : h = Head(todo)
  BY <1>4
<1>6. h.dev \in Devices /\ h.w \in Int
  BY DEF CommandType
<1>7. missed' = missed \cup {h.dev} /\ (setp' = [setp EXCEPT ![h.dev] = h.w] \/ setp' = setp)
  BY <1>1, <1>5 DEF Accepted
<1>8. \A d \in Devices : d # h.dev => setp'[d] = setp[d]
  BY <1>6, <1>7 DEF InvPower
<1>9. \A d \in DOMAIN last : d \in Devices
  BY LastDomain DEF InvSound
<1>10. DOMAIN plan.to \subseteq Devices
  BY DEF InvSound, Sound
<1>11. InvType'
  BY <1>1, <1>6, <1>7 DEF InvType
<1>12. InvPower'
  <2>1. CASE Accepted
    BY <1>1, <2>1, CommandPower
  <2>2. CASE UNCHANGED setp
    BY <1>1, <2>2 DEF InvPower
  <2> QED BY <1>1, <2>1, <2>2
<1>13. InvSound'
  BY <1>1 DEF InvSound
<1>14. InvMarked'
  BY <1>1, <1>2 DEF InvMarked
<1>15. Kept => Kept'
  BY <1>1, <1>7, <1>8, <1>9 DEF Kept
<1>16. Planned => Planned'
  BY <1>1, <1>7, <1>8, <1>9 DEF Planned
<1>17. CASE pc = "send"
  <2>1. InvTodo' /\ OnlyStops'
    BY <1>2, <1>10, <1>17, StopsTodo
  <2>2. over' \/ Kept' \/ Planned'
    BY <1>1, <1>15, <1>16, <1>17 DEF InvPhase
  <2>3. InvPhase'
    BY <1>2, <1>17, <2>1, <2>2 DEF InvPhase
  <2> QED BY <1>11, <1>12, <1>13, <1>14, <2>1, <2>3
<1>18. CASE pc # "send"
  <2>1. todo' = Tail(todo) /\ pc' = IF pc = "wait" THEN "giveup" ELSE pc
    BY <1>2, <1>18
  <2>2. InvTodo' /\ (OnlyStops => OnlyStops')
    BY <1>1, <2>1, TailTodo
  <2>3. CASE pc = "idle"
    BY <1>1, <2>3 DEF InvPhase
  <2>4. CASE pc = "alone"
    <3>1. InvPhase'
      BY <1>1, <2>1, <2>4 DEF InvPhase
    <3> QED BY <1>11, <1>12, <1>13, <1>14, <2>2, <3>1
  <2>5. CASE pc \in {"wait", "giveup"}
    <3>1. InvPhase'
      BY <1>15, <2>1, <2>2, <2>5 DEF InvPhase
    <3> QED BY <1>11, <1>12, <1>13, <1>14, <2>2, <3>1
  <2>6. CASE pc = "stop"
    <3>1. InvPhase'
      BY <1>1, <1>15, <1>16, <2>1, <2>2, <2>6 DEF InvPhase
    <3> QED BY <1>11, <1>12, <1>13, <1>14, <2>2, <3>1
  <2> QED BY <1>18, <2>3, <2>4, <2>5, <2>6 DEF InvPhase
<1> QED BY <1>17, <1>18

\* The targets that a finished cycle stores were delivered.
LEMMA EndInv ==
  ASSUME IInv, EndCycle
  PROVE  IInv'
<1> USE DEF IInv
<1>1. /\ pc \in {"alone", "stop", "wait", "send"} /\ todo = <<>>
      /\ last' = CASE pc = "send" -> [d \in DOMAIN plan.to |->
                                         [dir |-> plan.dir, w |-> plan.to[d]]]
                   [] pc = "stop" -> <<>>
                   [] OTHER -> last
      /\ saved' = [lead |-> lead, stored |-> stored, last |-> last', pend |-> pend']
  BY DEF EndCycle
<1>2. /\ pend' \in {{}, pend} /\ newer' = newer \cap pend' /\ plan' = NoPlan /\ pc' = "idle"
      /\ UNCHANGED <<group, goal, setp, flow, obs, lead, stored, todo, missed>>
  BY DEF EndCycle, envVars
<1>3. /\ pc = "send" => last' = [d \in DOMAIN plan.to |-> [dir |-> plan.dir, w |-> plan.to[d]]]
      /\ pc = "stop" => last' = <<>>
      /\ pc \in {"alone", "wait"} => last' = last
  BY <1>1
<1>4. saved'.lead = lead /\ saved'.stored = stored /\ saved'.last = last' /\ saved'.pend = pend'
  BY <1>1
<1>5. InvType'
  BY <1>2, <1>4 DEF InvType
<1>6. InvPower' /\ InvTodo'
  BY <1>2 DEF InvPower, InvTodo
<1>7. plan'.to = <<>>
  BY <1>2 DEF NoPlan
<1>8. CASE pc = "send"
  <2>1. \A d \in DOMAIN plan.to : setp[d] = plan.to[d] /\ d \notin missed
    <3>1. DOMAIN todo = {}
      BY <1>1
    <3> QED BY <1>8, <3>1 DEF InvPhase, Delivering
  <2>2. PICK dir \in {-1, 0, 1} : Sound(plan.to, dir)
    BY DEF InvSound
  <2>3. plan.to = [d \in DOMAIN plan.to |-> plan.to[d]] /\ \A d \in DOMAIN plan.to : plan.to[d] \in Int
    BY <2>2 DEF Sound
  <2>4. DOMAIN last' = DOMAIN plan.to /\ \A d \in DOMAIN plan.to : last'[d].w = plan.to[d]
    BY <1>3, <1>8
  <2>5. [d \in DOMAIN last' |-> last'[d].w] = plan.to
    BY <2>3, <2>4
  <2>6. LastSound(last')
    BY <2>2, <2>5 DEF LastSound
  <2>7. Kept'
    BY <1>2, <2>1, <2>3, <2>4, BelowFacts DEF Kept
  <2>8. stored \ {Selected} # {}
    BY <1>8 DEF InvMarked
  <2>9. InvSound'
    BY <1>4, <1>7, <2>6, NothingIsSound DEF InvSound
  <2>10. InvMarked'
    BY <1>2, <1>4, <2>8 DEF InvMarked, Marked
  <2>11. InvPhase'
    BY <1>1, <1>2, <1>4, <2>7 DEF InvPhase
  <2> QED BY <1>5, <1>6, <2>9, <2>10, <2>11
<1>9. CASE pc = "stop"
  <2>1. last' = <<>> /\ DOMAIN last' = {}
    BY <1>3, <1>9
  <2>2. LastSound(last')
    BY <2>1, NothingIsLastSound
  <2>3. InvSound'
    BY <1>4, <1>7, <2>2, NothingIsSound DEF InvSound
  <2>4. InvMarked'
    BY <1>2, <1>4, <2>1 DEF InvMarked, Marked
  <2>5. InvPhase'
    BY <1>1, <1>2, <1>4, <2>1 DEF InvPhase, Kept
  <2> QED BY <1>5, <1>6, <2>3, <2>4, <2>5
<1>10. CASE pc \in {"alone", "wait"}
  <2>1. last' = last
    BY <1>3, <1>10
  <2>2. InvSound'
    BY <1>4, <1>7, <2>1, NothingIsSound DEF InvSound
  <2>3. InvMarked'
    BY <1>2, <1>4, <2>1 DEF InvMarked, Marked
  <2>4. Kept
    BY <1>10 DEF InvPhase, Kept
  <2>5. Kept'
    BY <1>2, <2>1, <2>4 DEF Kept
  <2>6. InvPhase'
    BY <1>1, <1>2, <1>4, <2>5 DEF InvPhase
  <2> QED BY <1>5, <1>6, <2>2, <2>3, <2>6
<1> QED BY <1>1, <1>8, <1>9, <1>10

-----------------------------------------------------------------------------
(* Planning                                                                *)

LEMMA GroupHasPeers ==
  ASSUME group \subseteq Devices, ~GroupOff
  PROVE  group \ {Selected} # {}
<1> SUFFICES ASSUME group \subseteq {Selected} PROVE FALSE
  OBVIOUS
<1>1. group = {} \/ group = {Selected}
  OBVIOUS
<1>2. Cardinality(group) \in {0, 1}
  BY <1>1, FS_EmptySet, FS_Singleton
<1> QED BY <1>2 DEF GroupOff

\* Alone, the selected device gets no more than it can take.
LEMMA AloneInv ==
  ASSUME IInv, Alone
  PROVE  IInv'
<1> USE DEF IInv
<1>1. PICK stops \in Stops(stored \ {Selected}) :
         todo' = Append(stops, [dev |-> Selected,
                                w |-> Sign(goal) * Min({Abs(goal), MaxPower[Selected]})])
  BY DEF Alone
<1>2. /\ pc = "idle" /\ pc' = "alone"
      /\ last' = IF stored \ {Selected} = {} THEN last ELSE <<>>
      /\ stored' = {} /\ pend' = {}
      /\ UNCHANGED <<group, goal, setp, flow, obs, newer, lead, plan, saved, missed>>
  BY DEF Alone, envVars, devVars
<1>3. goal \in Int /\ Selected \in Devices /\ MaxPower[Selected] \in Nat
  BY AllocationAssumption, HandoverAssumption DEF InvType
<1>4. PICK w \in Int : /\ w = Sign(goal) * Min({Abs(goal), MaxPower[Selected]})
                       /\ Abs(w) <= MaxPower[Selected]
  <2>1. Abs(goal) \in Nat
    BY <1>3 DEF Abs
  <2>2. \E x \in {Abs(goal), MaxPower[Selected]} : \A y \in {Abs(goal), MaxPower[Selected]} : x <= y
    BY <1>3, <2>1
  <2>3. PICK m : m = Min({Abs(goal), MaxPower[Selected]})
    OBVIOUS
  <2>4. m \in {Abs(goal), MaxPower[Selected]} /\ m <= MaxPower[Selected]
    BY <2>2, <2>3, MinMember
  <2>5. m \in Nat
    BY <1>3, <2>1, <2>4
  <2>6. Sign(goal) \in {-1, 0, 1}
    BY DEF Sign
  <2>7. PICK s \in {-1, 0, 1} : s = Sign(goal)
    BY <2>6
  <2>8. s * m \in Int /\ Abs(s * m) <= m
    BY <2>5 DEF Abs
  <2>9. Abs(s * m) <= MaxPower[Selected]
    BY <1>3, <2>4, <2>5, <2>8 DEF Abs
  <2> QED BY <2>3, <2>7, <2>8, <2>9
<1>5. stored \ {Selected} \subseteq Devices
  BY DEF InvType
<1>6. /\ stops \in Seq(CommandType)
      /\ \A i \in DOMAIN stops : stops[i].w = 0 /\ stops[i].dev \in Devices
  BY <1>1, <1>5, StopsType
<1>7. InvTodo'
  <2>1. PICK c \in CommandType : c = [dev |-> Selected, w |-> w] /\ c.dev = Selected /\ c.w = w
    <3>1. [dev |-> Selected, w |-> w] \in CommandType
      BY <1>3 DEF CommandType
    <3> QED BY <3>1
  <2>2. todo' = Append(stops, c)
    BY <1>1, <1>4, <2>1
  <2>3. todo' \in Seq(CommandType)
    BY <1>6, <2>2
  <2>4. /\ DOMAIN todo' = 1 .. Len(stops) + 1 /\ DOMAIN stops = 1 .. Len(stops) /\ Len(stops) \in Nat
        /\ todo'[Len(stops) + 1] = c
        /\ \A i \in 1 .. Len(stops) : todo'[i] = stops[i]
    BY <1>6, <2>2
  <2>5. ASSUME NEW i \in DOMAIN todo' PROVE Abs(todo'[i].w) <= MaxPower[todo'[i].dev]
    <3>1. CASE i = Len(stops) + 1
      BY <1>4, <2>1, <2>4, <3>1
    <3>2. CASE i \in 1 .. Len(stops)
      <4>1. todo'[i].w = 0 /\ todo'[i].dev \in Devices
        BY <1>6, <2>4, <3>2
      <4>2. MaxPower[todo'[i].dev] \in Nat
        BY <4>1, AllocationAssumption
      <4>3. Abs(0) = 0
        BY DEF Abs
      <4> QED BY <4>1, <4>2, <4>3
    <3> QED BY <2>4, <3>1, <3>2
  <2> QED BY <2>3, <2>5 DEF InvTodo
<1>8. DOMAIN last' = {} /\ LastSound(last')
  <2>1. CASE stored \ {Selected} = {}
    BY <1>2, <2>1 DEF InvMarked, Marked, InvSound
  <2>2. CASE stored \ {Selected} # {}
    BY <1>2, <2>2, NothingIsLastSound
  <2> QED BY <2>1, <2>2
<1>9. InvType' /\ InvPower'
  BY <1>2 DEF InvType, InvPower
<1>10. InvSound'
  BY <1>2, <1>8 DEF InvSound
<1>11. InvMarked'
  BY <1>2, <1>8 DEF InvMarked, Marked
<1>12. InvPhase'
  BY <1>2, <1>8 DEF InvPhase
<1> QED BY <1>7, <1>9, <1>10, <1>11, <1>12

LEMMA ServedType ==
  ASSUME NEW members, members \subseteq Devices, NEW target \in Int, NEW d, NEW s,
         NEW cand \in Served(members, target, d, s)
  PROVE  \E n \in Nat : cand \in [1 .. n -> members]
<1> DEFINE C == Candidates(members, target, s)
<1>1. C \subseteq members
  BY DEF Candidates
<1>2. cand \in [1 .. Cardinality(C) -> C]
  BY DEF Served, InOrder
<1> HIDE DEF C
<1>3. IsFiniteSet(C)
  BY <1>1, AllocationAssumption, FS_Subset
<1>4. Cardinality(C) \in Nat
  BY <1>3, FS_CardinalityType
<1>5. cand \in [1 .. Cardinality(C) -> members]
  BY <1>1, <1>2
<1> QED BY <1>4, <1>5

\* For any members, circuits, priorities and lead: an allocation has one
\* direction, goes beyond no limit of a member or of a circuit, and is together
\* no more than the target (allocate, _circuit_remaining).
THEOREM AllocationIsSound ==
  ASSUME NEW members, members \subseteq Devices, NEW target \in Int, NEW d, NEW s,
         NEW cand \in Served(members, target, d, s)
  PROVE  /\ DOMAIN Allocate(cand, members, target) = members
         /\ Sound(Allocate(cand, members, target), Sign(target))
         /\ SumFunction([e \in members |-> Abs(Allocate(cand, members, target)[e])]) <= Abs(target)
<1>1. PICK n \in Nat : cand \in [1 .. n -> members]
  BY ServedType
<1> QED BY <1>1, AllocateSound

LEMMA LeadStaysTyped ==
  ASSUME InvType, NEW n \in Nat, NEW natural \in [1 .. n -> group],
         NEW d, d = StableLead(natural, goal, lead, soc)
  PROVE  NextLead(d) \in LeadType
<1>1. lead.dev \in Devices \cup {NoDevice} /\ lead.ripe \in BOOLEAN /\ lead \in LeadType /\ group \subseteq Devices
  BY DEF InvType, LeadType
<1>2. d \in Devices \cup {NoDevice}
  <2>1. CASE natural = <<>>
    BY <2>1 DEF StableLead
  <2>2. CASE natural # <<>>
    <3>1. n # 0
      BY <2>2
    <3>2. natural[1] \in group
      BY <3>1
    <3>3. d \in {natural[1], lead.dev}
      BY <2>2 DEF StableLead
    <3> QED BY <1>1, <3>2, <3>3
  <2> QED BY <2>1, <2>2
<1>3. CASE d = NoDevice
  BY <1>1, <1>3 DEF NextLead
<1>4. CASE d # NoDevice
  <2>1. d \in Devices
    BY <1>2, <1>4
  <2>2. (lead.dev = d /\ lead.ripe) \in BOOLEAN
    OBVIOUS
  <2>3. NextLead(d) = [dev |-> d, ripe |-> lead.dev = d /\ lead.ripe, idle |-> FALSE]
    BY <1>4 DEF NextLead
  <2> QED BY <2>1, <2>2, <2>3 DEF LeadType
<1> QED BY <1>3, <1>4

LEMMA PauseInv ==
  ASSUME IInv, pc = "idle", ~GroupOff, NEW d, NextLead(d) \in LeadType, Pause(d)
  PROVE  IInv'
<1> USE DEF IInv
<1>1. /\ lead' \in {NextLead(d), lead} /\ stored' = group /\ todo' \in Stops(group)
      /\ pc' = "stop"
      /\ UNCHANGED <<group, goal, setp, flow, obs, newer, last, pend, plan, saved, missed>>
  BY DEF Pause, envVars, devVars
<1>2. group \subseteq Devices
  BY DEF InvType
<1>3. InvTodo' /\ OnlyStops'
  BY <1>1, <1>2, StopsTodo
<1>4. InvType' /\ InvPower'
  BY <1>1, <1>2 DEF InvType, InvPower
<1>5. InvSound'
  BY <1>1 DEF InvSound
<1>6. group \ {Selected} # {}
  BY <1>2, GroupHasPeers
<1>7. InvMarked'
  BY <1>1, <1>6 DEF InvMarked, Marked
<1>8. Kept
  BY DEF InvPhase
<1>9. Kept'
  BY <1>1, <1>8 DEF Kept
<1>10. InvPhase'
  BY <1>1, <1>3, <1>9 DEF InvPhase
<1> QED BY <1>3, <1>4, <1>5, <1>7, <1>10

LEMMA HandoverInv ==
  ASSUME IInv, pc = "idle", ~GroupOff, NEW d, NextLead(d) \in LeadType,
         NEW target, DOMAIN target = group, \E dir \in {-1, 0, 1} : Sound(target, dir),
         NEW wait, wait = WaitFor(target), Handover(d, target, wait)
  PROVE  IInv'
<1> USE DEF IInv
<1>1. /\ newer' \subseteq newer /\ pend' = wait /\ todo' \in Stops(wait)
      /\ lead' = NextLead(d) /\ stored' = group
      /\ plan' = [dir |-> Sign(goal), to |-> target]
      /\ pc' = "wait"
      /\ UNCHANGED <<group, goal, setp, flow, obs, last, saved, missed>>
  BY DEF Handover, envVars
<1>2. group \subseteq Devices /\ pend \subseteq Devices
  BY DEF InvType
<1>3. wait \subseteq Devices
  <2>1. Reductions(target) \subseteq DOMAIN target
    BY DEF Reductions
  <2> QED BY <1>2, <2>1 DEF WaitFor
<1>4. InvTodo' /\ OnlyStops'
  BY <1>1, <1>3, StopsTodo
<1>5. InvType' /\ InvPower'
  BY <1>1, <1>2, <1>3 DEF InvType, InvPower
<1>6. InvSound'
  <2>1. plan'.to = target
    BY <1>1
  <2> QED BY <1>1, <2>1 DEF InvSound
<1>7. group \ {Selected} # {}
  BY <1>2, GroupHasPeers
<1>8. InvMarked'
  BY <1>1, <1>7 DEF InvMarked, Marked
<1>9. Kept
  BY DEF InvPhase
<1>10. Kept'
  BY <1>1, <1>9 DEF Kept
<1>11. InvPhase'
  BY <1>1, <1>4, <1>10 DEF InvPhase
<1> QED BY <1>4, <1>5, <1>6, <1>8, <1>11

LEMMA OpposedSigns ==
  \A x, y \in Int : Opposed(x, y) <=> \/ x > 0 /\ y < 0
                                      \/ x < 0 /\ y > 0
<1> SUFFICES ASSUME NEW x \in Int, NEW y \in Int
             PROVE  x * y < 0 <=> (x > 0 /\ y < 0) \/ (x < 0 /\ y > 0)
  BY DEF Opposed
<1>1. CASE x = 0
  BY <1>1
<1>2. CASE x > 0
  BY <1>2
<1>3. CASE x < 0
  BY <1>3
<1> QED BY <1>1, <1>2, <1>3

LEMMA BelowWhen ==
  \A x, y \in Int : ~(Abs(x) > Abs(y)) /\ ~Opposed(x, y) => Below(x, y)
BY OpposedSigns DEF Below, Abs

\* A cycle without a hand-over either raises nobody or reduces nobody.
LEMMA DistributeInv ==
  ASSUME IInv, pc = "idle", ~GroupOff, NEW d, NextLead(d) \in LeadType,
         NEW target, DOMAIN target = group, \E dir \in {-1, 0, 1} : Sound(target, dir),
         NEW cand, Distribute(d, cand, target, WaitFor(target))
  PROVE  IInv'
<1> USE DEF IInv
<1>1. /\ WaitFor(target) = {}
      /\ todo' \in {Commands(order, target) : order \in SendOrder(cand, target)}
      /\ lead' = NextLead(d) /\ stored' = group
      /\ plan' = [dir |-> Sign(goal), to |-> target]
      /\ pend' = {} /\ over' = (pend # {}) /\ pc' = "send"
      /\ UNCHANGED <<group, goal, setp, flow, obs, newer, last, saved, missed>>
  BY DEF Distribute, envVars, devVars
<1>2. group \subseteq Devices
  BY DEF InvType
<1>3. target \in [group -> Int] /\ \A e \in group : Abs(target[e]) <= MaxPower[e]
  <2>1. target \in [group -> Int] /\ Within([e \in group |-> Abs(target[e])], group)
    BY DEF Sound
  <2>2. \A e \in group : [f \in group |-> Abs(target[f])][e] <= MaxPower[e]
    BY <2>1 DEF Within
  <2> QED BY <2>1, <2>2
<1>4. PICK n \in Nat : n = Cardinality(group)
  <2>1. IsFiniteSet(group)
    BY <1>2, AllocationAssumption, FS_Subset
  <2> QED BY <2>1, FS_CardinalityType
<1>5. PICK order \in [1 .. n -> group] : ToSet(order) = group /\ todo' = Commands(order, target)
  <2>1. PICK order \in SendOrder(cand, target) : todo' = Commands(order, target)
    BY <1>1
  <2>2. order \in [1 .. n -> group] /\ ToSet(order) = group
    BY <1>4, <2>1 DEF SendOrder, InOrder
  <2> QED BY <2>1, <2>2
<1>6. /\ todo' \in Seq(CommandType)
      /\ \A i \in DOMAIN todo' : todo'[i].dev \in group /\ todo'[i].w = target[todo'[i].dev]
      /\ \A e \in group : \E i \in DOMAIN todo' : todo'[i].dev = e
  BY <1>2, <1>3, <1>5, CommandsType
<1>7. plan'.to = target
  BY <1>1
<1>8. InvType' /\ InvPower'
  BY <1>1, <1>2 DEF InvType, InvPower
<1>9. InvTodo'
  BY <1>3, <1>6 DEF InvTodo
<1>10. InvSound'
  BY <1>1, <1>7 DEF InvSound
<1>11. group \ {Selected} # {}
  BY <1>2, GroupHasPeers
<1>12. InvMarked'
  BY <1>1, <1>11 DEF InvMarked, Marked
<1>13. Delivering'
  BY <1>1, <1>6, <1>7 DEF Delivering
<1>14. \A e \in DOMAIN last : e \in Devices /\ last[e].w \in Int
  BY LastDomain DEF InvSound
<1>15. Kept
  BY DEF InvPhase
<1>16. ASSUME pend = {} PROVE Planned' \/ (Kept' /\ NoRise')
  <2>1. Previous = last
    BY <1>16 DEF Previous
  <2>2. \A e \in DOMAIN last : Old(e) = last[e].w
    BY <2>1 DEF Old
  <2>3. Increases(target) = {} \/ Reductions(target) = {}
    BY <1>1, <1>16 DEF WaitFor
  <2>4. CASE Increases(target) = {}
    <3>1. ASSUME NEW e \in group, e \in DOMAIN last PROVE Below(target[e], last[e].w)
      <4>1. ~(Abs(target[e]) > Abs(last[e].w)) /\ ~Opposed(last[e].w, target[e])
        BY <2>2, <2>4, <3>1 DEF Increases
      <4>2. target[e] \in Int /\ last[e].w \in Int
        BY <1>3, <1>14, <3>1
      <4>3. ~Opposed(target[e], last[e].w)
        BY <4>1, <4>2, OpposedSigns
      <4> QED BY <4>1, <4>2, <4>3, BelowWhen
    <3>2. NoRise'
      BY <1>1, <1>7, <3>1 DEF NoRise
    <3>3. Kept'
      BY <1>1, <1>15 DEF Kept
    <3> QED BY <3>2, <3>3
  <2>5. CASE Reductions(target) = {}
    <3>1. ASSUME NEW e \in (group \cap DOMAIN last) \ missed PROVE Below(setp[e], target[e])
      <4>1. ~(Abs(target[e]) < Abs(last[e].w)) /\ ~Opposed(last[e].w, target[e])
        BY <2>1, <2>2, <2>5, <3>1 DEF Reductions
      <4>2. target[e] \in Int /\ last[e].w \in Int /\ setp[e] \in Int
        BY <1>2, <1>3, <1>14, <3>1 DEF InvPower
      <4>3. ~(Abs(last[e].w) > Abs(target[e]))
        BY <4>1, <4>2 DEF Abs
      <4>4. Below(last[e].w, target[e])
        BY <4>1, <4>2, <4>3, BelowWhen
      <4>5. Below(setp[e], last[e].w)
        BY <1>15, <3>1 DEF Kept
      <4> QED BY <4>2, <4>4, <4>5, BelowFacts
    <3>2. Planned'
      BY <1>1, <1>7, <3>1 DEF Planned
    <3> QED BY <3>2
  <2> QED BY <2>3, <2>4, <2>5
<1>17. over' \/ Planned' \/ (Kept' /\ NoRise')
  BY <1>1, <1>16
<1>18. InvPhase'
  BY <1>1, <1>13, <1>17 DEF InvPhase
<1> QED BY <1>8, <1>9, <1>10, <1>12, <1>18

LEMMA CycleInv ==
  ASSUME IInv, GroupCycle
  PROVE  IInv'
<1> USE DEF IInv
<1>1. pc = "idle" /\ ~GroupOff
  BY DEF GroupCycle
<1>2. PICK natural \in Served(group, goal, NoDevice, soc) :
      \E d \in {StableLead(natural, goal, lead, soc)} :
      \E cand \in Served(group, goal, d, soc) :
      \E target \in {Allocate(cand, group, goal)} :
         \/ Pause(d)
         \/ \E wait \in {WaitFor(target)} :
               \/ Handover(d, target, wait)
               \/ Distribute(d, cand, target, wait)
  BY DEF GroupCycle
<1>3. PICK d : d = StableLead(natural, goal, lead, soc)
  OBVIOUS
<1>4. PICK cand \in Served(group, goal, d, soc) :
      \E target \in {Allocate(cand, group, goal)} :
         \/ Pause(d)
         \/ \E wait \in {WaitFor(target)} :
               \/ Handover(d, target, wait)
               \/ Distribute(d, cand, target, wait)
  BY <1>2, <1>3
<1>5. PICK target : target = Allocate(cand, group, goal)
  OBVIOUS
<1>6. \/ Pause(d) \/ Handover(d, target, WaitFor(target))
      \/ Distribute(d, cand, target, WaitFor(target))
  BY <1>4, <1>5
<1>7. group \subseteq Devices /\ goal \in Int
  BY DEF InvType
<1>8. PICK n \in Nat : natural \in [1 .. n -> group]
  BY <1>7, ServedType
<1>9. NextLead(d) \in LeadType
  BY <1>3, <1>8, LeadStaysTyped
<1>11. DOMAIN target = group /\ Sound(target, Sign(goal))
  BY <1>5, <1>7, AllocationIsSound
<1>12. Sign(goal) \in {-1, 0, 1}
  BY DEF Sign
<1>13. \E dir \in {-1, 0, 1} : Sound(target, dir)
  BY <1>11, <1>12
<1>14. CASE Pause(d)
  BY <1>1, <1>9, <1>14, PauseInv
<1>15. CASE Handover(d, target, WaitFor(target))
  BY <1>1, <1>9, <1>11, <1>13, <1>15, HandoverInv
<1>16. CASE Distribute(d, cand, target, WaitFor(target))
  BY <1>1, <1>9, <1>11, <1>13, <1>16, DistributeInv
<1> QED BY <1>6, <1>14, <1>15, <1>16

-----------------------------------------------------------------------------
LEMMA IdleStep ==
  ASSUME IInv, UNCHANGED vars
  PROVE  IInv'
<1> USE DEF IInv, vars, envVars, devVars, cycleVars
<1>1. InvType' /\ InvPower'
  BY DEF InvType, InvPower
<1> QED BY <1>1, Framed

\* Whatever fails, is lost or changes between two awaited commands: outside a
\* cycle that completes a hand-over the members of the group which took their
\* last command neither oppose each other nor exceed a circuit, and no device
\* is set beyond its limit (_execute_device_command, allocate).
THEOREM GroupIsSafe ==
  Spec => []GroupSafe
<1>1. Init => IInv
  BY InitInv
<1>2. IInv /\ [Next]_vars => IInv'
  <2> SUFFICES ASSUME IInv, [Next]_vars PROVE IInv'
    OBVIOUS
  <2>1. CASE Alone
    BY <2>1, AloneInv
  <2>2. CASE GroupCycle
    BY <2>2, CycleInv
  <2>3. CASE CommandAccepted
    BY <2>3, AcceptedInv
  <2>4. CASE CommandFailed
    BY <2>4, FailedInv
  <2>5. CASE GiveUp
    BY <2>5, GiveUpInv
  <2>6. CASE EndCycle
    BY <2>6, EndInv
  <2>7. CASE Restart
    BY <2>7, RestartInv
  <2>8. CASE LeadRipens \/ LeadIdles \/ ChangeGoal
    BY <2>8, EnvironmentInv
  <2>9. CASE \E d \in Devices : \/ Follow(d) \/ Report(d) \/ ChangeSoc(d)
                                \/ ChangeReach(d) \/ LoseReading(d)
    BY <2>9, EnvironmentInv
  <2>10. CASE UNCHANGED vars
    BY <2>10, IdleStep
  <2> QED BY <2>1, <2>2, <2>3, <2>4, <2>5, <2>6, <2>7, <2>8, <2>9, <2>10 DEF Next
<1>3. IInv => GroupSafe
  BY InvIsSafe
<1> QED BY <1>1, <1>2, <1>3, PTL DEF Spec
=============================================================================
