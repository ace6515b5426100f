----------------------------- MODULE FiniteSums -----------------------------
(***************************************************************************)
(* Sums of numbers over finite sets: what the proofs about allocations and *)
(* about prices need of SumFunctionOnSet of the community modules, by the  *)
(* least number principle on the sizes of sets.                            *)
(***************************************************************************)
EXTENDS Integers, FiniteSets, FiniteSetsExt, Functions, WellFoundedInduction,
        FiniteSetTheorems, TLAPS

\* Every set of natural numbers has a least one.
LEMMA LeastNumber ==
  ASSUME NEW T, T \subseteq Nat, T # {}
  PROVE  \E n \in T : \A m \in T : n <= m
<1>1. PICK n \in T : \A m \in T : <<m, n>> \notin OpToRel(<, Nat)
  BY Zenon, NatLessThanWellFounded, WFMin
<1>2. \A m \in T : ~(m < n)
  BY <1>1 DEF OpToRel
<1> QED BY <1>2

\* A set of finite sets has a member without a smaller one in it.
LEMMA SmallestSet ==
  ASSUME NEW F, F # {}, \A S \in F : IsFiniteSet(S)
  PROVE  \E S \in F : \A T \in F : ~(Cardinality(T) < Cardinality(S))
<1> DEFINE N == {Cardinality(S) : S \in F}
<1>1. N \subseteq Nat /\ N # {}
  BY FS_CardinalityType
<1>2. PICK n \in N : \A m \in N : n <= m
  BY <1>1, LeastNumber
<1>3. PICK S \in F : Cardinality(S) = n
  BY <1>2
<1>4. \A T \in F : n <= Cardinality(T) /\ Cardinality(T) \in Nat
  BY <1>1, <1>2
<1> QED BY <1>1, <1>3, <1>4

-----------------------------------------------------------------------------
(* Sums over finite sets                                                   *)

\* iter is the recursive sum of f over the subsets of D.
Summing(f, D, iter) ==
    iter = [s \in SUBSET D |->
              IF s = {} THEN 0
              ELSE f[CHOOSE x \in s : TRUE] + iter[s \ {CHOOSE x \in s : TRUE}]]

\* A finite set without one of its members is smaller.
LEMMA SmallerSet ==
  ASSUME NEW S, IsFiniteSet(S), NEW x \in S
  PROVE  /\ IsFiniteSet(S \ {x})
         /\ Cardinality(S \ {x}) < Cardinality(S)
         /\ Cardinality(S) \in Nat
<1>1. /\ IsFiniteSet(S \ {x})
      /\ Cardinality(S \ {x}) = Cardinality(S) - 1
  BY FS_RemoveElement
<1>2. Cardinality(S) \in Nat
  BY FS_CardinalityType
<1> QED BY <1>1, <1>2

\* The sum is defined: there is an iter, built up by the size of the subsets.
LEMMA SummingExists ==
  ASSUME NEW D, IsFiniteSet(D), NEW f
  PROVE  \E iter : Summing(f, D, iter)
<1> DEFINE Up(n) == {s \in SUBSET D : Cardinality(s) <= n}
           First(s) == f[CHOOSE x \in s : TRUE]
           Rest(s) == s \ {CHOOSE x \in s : TRUE}
           Partial(n, g) ==
             g = [s \in Up(n) |-> IF s = {} THEN 0 ELSE First(s) + g[Rest(s)]]
           Bad == {n \in Nat : ~ \E g : Partial(n, g)}
<1>1. \A s \in SUBSET D : IsFiniteSet(s) /\ Cardinality(s) \in Nat /\ Cardinality(s) <= Cardinality(D)
  BY FS_Subset, FS_CardinalityType
<1>2. \A s \in SUBSET D : s # {} => (CHOOSE x \in s : TRUE) \in s
  OBVIOUS
<1>3. \A n \in Nat : \A s \in Up(n + 1) : s # {} => Rest(s) \in Up(n)
  <2> TAKE n \in Nat
  <2> TAKE s \in Up(n + 1)
  <2>2. HAVE s # {}
  <2>3. PICK x : x = (CHOOSE y \in s : TRUE) /\ x \in s
    BY <1>2, <2>2
  <2>4. Cardinality(s \ {x}) < Cardinality(s) /\ Cardinality(s) \in Nat /\ Cardinality(s) <= n + 1
    BY <1>1, <2>3, SmallerSet
  <2>5. s \ {x} \in SUBSET D /\ Cardinality(s \ {x}) \in Nat
    BY <1>1
  <2> QED BY <2>3, <2>4, <2>5
<1>4. 0 \notin Bad
  <2> DEFINE g == [s \in Up(0) |-> 0]
  <2>1. \A s \in Up(0) : s = {}
    BY <1>1, FS_EmptySet
  <2>2. Partial(0, g)
    BY <2>1
  <2> QED BY <2>2
<1>5. Bad = {}
  <2> SUFFICES ASSUME Bad # {} PROVE FALSE
    OBVIOUS
  <2> HIDE DEF Bad
  <2>1. PICK m \in Bad : \A k \in Bad : m <= k
    BY LeastNumber DEF Bad
  <2>2. m \in Nat /\ m # 0
    BY <2>1, <1>4 DEF Bad
  <2> DEFINE n == m - 1
  <2>3. n \in Nat /\ n \notin Bad /\ m = n + 1
    BY <2>1, <2>2
  <2> HIDE DEF n
  <2>4. PICK g : Partial(n, g)
    BY <2>3 DEF Bad
  <2> HIDE DEF First, Rest
  <2> DEFINE h == [s \in Up(n + 1) |-> IF s = {} THEN 0 ELSE First(s) + g[Rest(s)]]
  <2>5. \A s \in Up(n) : h[s] = g[s]
    <3>1. \A s \in Up(n) : s \in Up(n + 1)
      BY <2>3, <1>1
    <3> QED BY <3>1, <2>4
  <2>6. \A s \in Up(n + 1) : h[s] = IF s = {} THEN 0 ELSE First(s) + h[Rest(s)]
    <3> HIDE DEF Up
    <3>1. \A s \in Up(n + 1) : s # {} => h[Rest(s)] = g[Rest(s)]
      BY <2>5, <2>3, <1>3
    <3> QED BY <3>1
  <2>7. Partial(n + 1, h)
    <3> HIDE DEF Up
    <3> QED BY <2>6
  <2> HIDE DEF Partial, h
  <2>8. \E k : Partial(m, k)
    BY <2>3, <2>7
  <2> QED BY <2>1, <2>8 DEF Bad
<1>9. Cardinality(D) \in Nat
  BY FS_CardinalityType
<1>10. \A n \in Nat : \E g : Partial(n, g)
  <2> HIDE DEF Partial
  <2> QED BY <1>5
<1>6. PICK g : Partial(Cardinality(D), g)
  <2> HIDE DEF Partial
  <2> QED BY <1>9, <1>10
<1>7. Up(Cardinality(D)) = SUBSET D
  BY <1>1
<1> HIDE DEF Up, Bad
<1>8. Summing(f, D, g)
  BY Zenon, <1>6, <1>7 DEF Summing
<1> QED BY <1>8

\* SumFunctionOnSet is such a sum.
LEMMA SumOnSetIsSumming ==
  ASSUME NEW f, NEW D, IsFiniteSet(D)
  PROVE  \E iter : Summing(f, D, iter) /\ SumFunctionOnSet(f, D) = iter[D]
<1> DEFINE it == CHOOSE iter : Summing(f, D, iter)
<1>1. Summing(f, D, it)
  BY SummingExists
<1>2. SumFunctionOnSet(f, D) = it[D]
  BY DEF SumFunctionOnSet, FoldFunctionOnSet, MapThenFoldSet, Summing
<1> QED BY <1>1, <1>2

\* And so is SumFunction, over the domain.
LEMMA SumIsSumming ==
  ASSUME NEW f, IsFiniteSet(DOMAIN f)
  PROVE  \E iter : Summing(f, DOMAIN f, iter) /\ SumFunction(f) = iter[DOMAIN f]
BY SumOnSetIsSumming DEF SumFunction

\* A sum of numbers is a number.
LEMMA SummingType ==
  ASSUME NEW D, IsFiniteSet(D), NEW f, \A x \in D : f[x] \in Int, NEW iter, Summing(f, D, iter)
  PROVE  /\ iter[{}] = 0
         /\ \A s \in SUBSET D : iter[s] \in Int
         /\ \A s \in SUBSET D : s # {} =>
               \E x \in s : iter[s] = f[x] + iter[s \ {x}]
<1>1. iter[{}] = 0
  BY DEF Summing
<1>2. \A s \in SUBSET D : s # {} => \E x \in s : iter[s] = f[x] + iter[s \ {x}]
  BY DEF Summing
<1> DEFINE Bad == {s \in SUBSET D : iter[s] \notin Int}
<1>3. Bad = {}
  <2> SUFFICES ASSUME Bad # {} PROVE FALSE
    OBVIOUS
  <2>1. \A s \in Bad : IsFiniteSet(s)
    BY FS_Subset
  <2> HIDE DEF Bad
  <2>2. PICK s \in Bad : \A t \in Bad : ~(Cardinality(t) < Cardinality(s))
    BY <2>1, SmallestSet
  <2>3. s \in SUBSET D /\ iter[s] \notin Int /\ s # {}
    <3>1. s \in SUBSET D /\ iter[s] \notin Int
      BY <2>2 DEF Bad
    <3>2. iter[{}] \in Int
      BY <1>1
    <3> QED BY <3>1, <3>2
  <2>4. PICK x \in s : iter[s] = f[x] + iter[s \ {x}]
    BY <2>3, <1>2
  <2>5. Cardinality(s \ {x}) < Cardinality(s)
    BY <2>1, <2>2, SmallerSet
  <2>6. s \ {x} \in SUBSET D /\ s \ {x} \notin Bad
    BY <2>2, <2>3, <2>5
  <2>7. iter[s \ {x}] \in Int /\ f[x] \in Int
    BY <2>3, <2>6 DEF Bad
  <2> QED BY <2>3, <2>4, <2>7
<1> QED BY <1>1, <1>2, <1>3

\* Any element may be the one that is added last.
LEMMA SummingAny ==
  ASSUME NEW D, IsFiniteSet(D), NEW f, \A x \in D : f[x] \in Int, NEW iter, Summing(f, D, iter)
  PROVE  \A s \in SUBSET D : \A x \in s : iter[s] = f[x] + iter[s \ {x}]
<1> DEFINE Fits(s) == \A x \in s : iter[s] = f[x] + iter[s \ {x}]
           Bad == {s \in SUBSET D : ~Fits(s)}
<1> SUFFICES ASSUME Bad # {} PROVE FALSE
  OBVIOUS
<1>1. \A s \in Bad : IsFiniteSet(s)
  BY FS_Subset
<1>2. PICK s \in Bad : \A t \in Bad : ~(Cardinality(t) < Cardinality(s))
  <2> HIDE DEF Bad
  <2> QED BY <1>1, SmallestSet
<1>3. PICK x \in s : iter[s] # f[x] + iter[s \ {x}]
  BY <1>2
<1>4. PICK y \in s : iter[s] = f[y] + iter[s \ {y}]
  BY <1>2, <1>3, SummingType
<1>5. x # y
  BY <1>3, <1>4
<1>6. s \ {x} \in SUBSET D /\ s \ {y} \in SUBSET D
  BY <1>2
<1>7. Fits(s \ {x}) /\ Fits(s \ {y})
  BY <1>1, <1>2, <1>3, <1>4, <1>6, SmallerSet
<1>8. iter[s \ {x}] = f[y] + iter[(s \ {x}) \ {y}]
  BY <1>7, <1>5, <1>4
<1>9. iter[s \ {y}] = f[x] + iter[(s \ {y}) \ {x}]
  BY <1>7, <1>5, <1>3
<1>10. (s \ {x}) \ {y} = (s \ {y}) \ {x}
  OBVIOUS
<1>11. f[x] \in Int /\ f[y] \in Int /\ iter[(s \ {y}) \ {x}] \in Int
  BY <1>2, <1>3, <1>4, SummingType
<1> DEFINE r == iter[(s \ {y}) \ {x}]
<1>12. r \in Int /\ iter[s \ {x}] = f[y] + r /\ iter[s \ {y}] = f[x] + r
  BY <1>8, <1>9, <1>10, <1>11
<1> HIDE DEF r
<1>13. iter[s] = f[y] + (f[x] + r)
  BY <1>4, <1>12
<1>14. f[y] + (f[x] + r) = f[x] + (f[y] + r)
  BY <1>11, <1>12
<1> QED BY <1>3, <1>12, <1>13, <1>14

\* The sum of h over a part E of D is at most the sum of f over D, when h is
\* at most f on E and f is not negative elsewhere.
LEMMA SummingMonotone ==
  ASSUME NEW D, IsFiniteSet(D), NEW E, E \subseteq D,
         NEW f, \A x \in D : f[x] \in Int, NEW g, Summing(f, D, g),
         NEW h, \A x \in E : h[x] \in Int, NEW k, Summing(h, E, k),
         NEW T, T \subseteq D,
         \A x \in T \cap E : h[x] <= f[x],
         \A x \in T \ E : 0 <= f[x]
  PROVE  k[T \cap E] <= g[T]
<1> DEFINE Bad == {s \in SUBSET T : ~(k[s \cap E] <= g[s])}
<1> SUFFICES ASSUME Bad # {} PROVE FALSE
  OBVIOUS
<1>1. IsFiniteSet(E) /\ \A s \in Bad : IsFiniteSet(s)
  BY FS_Subset
<1>2. PICK s \in Bad : \A t \in Bad : ~(Cardinality(t) < Cardinality(s))
  <2> HIDE DEF Bad
  <2> QED BY <1>1, SmallestSet
<1>3. \A t \in SUBSET T : g[t] \in Int /\ k[t \cap E] \in Int
  <2>1. \A t \in SUBSET D : g[t] \in Int
    BY SummingType
  <2>2. \A t \in SUBSET E : k[t] \in Int
    BY <1>1, SummingType
  <2> QED BY <2>1, <2>2
<1>4. s # {}
  <2>1. g[{}] = 0
    BY SummingType
  <2>2. k[{}] = 0
    BY <1>1, SummingType
  <2>3. {} \cap E = {}
    OBVIOUS
  <2>4. k[{} \cap E] <= g[{}]
    BY <2>1, <2>2, <2>3
  <2> QED BY <1>2, <2>4
<1>5. PICK x : x \in s
  BY <1>4
<1>6. s \ {x} \in SUBSET T /\ s \ {x} \notin Bad
  BY <1>1, <1>2, <1>5, SmallerSet
<1>7. k[(s \ {x}) \cap E] <= g[s \ {x}]
  BY <1>6
<1>8. g[s] = f[x] + g[s \ {x}]
  BY <1>2, <1>5, SummingAny
<1>9. f[x] \in Int /\ g[s \ {x}] \in Int /\ k[(s \ {x}) \cap E] \in Int
  BY <1>2, <1>3, <1>5
<1>10. CASE x \in E
  <2>1. k[s \cap E] = h[x] + k[(s \cap E) \ {x}]
    BY <1>1, <1>2, <1>5, <1>10, SummingAny
  <2>2. (s \cap E) \ {x} = (s \ {x}) \cap E
    OBVIOUS
  <2>3. h[x] \in Int /\ h[x] <= f[x]
    BY <1>2, <1>5, <1>10
  <2> DEFINE u == k[(s \ {x}) \cap E]
             v == g[s \ {x}]
  <2>5. u \in Int /\ v \in Int /\ u <= v
    BY <1>7, <1>9
  <2>6. k[s \cap E] = h[x] + u /\ g[s] = f[x] + v
    BY <1>8, <2>1, <2>2
  <2> HIDE DEF u, v
  <2>7. h[x] + u <= f[x] + v
    BY <1>9, <2>3, <2>5
  <2>4. k[s \cap E] <= g[s]
    BY <2>6, <2>7
  <2> QED BY <1>2, <2>4
<1>11. CASE x \notin E
  <2>1. s \cap E = (s \ {x}) \cap E
    BY <1>11
  <2>2. 0 <= f[x]
    BY <1>2, <1>5, <1>11
  <2> DEFINE u == k[(s \ {x}) \cap E]
             v == g[s \ {x}]
  <2>4. u \in Int /\ v \in Int /\ u <= v
    BY <1>7, <1>9
  <2>5. k[s \cap E] = u /\ g[s] = f[x] + v
    BY <1>8, <2>1
  <2> HIDE DEF u, v
  <2>6. u <= f[x] + v
    BY <1>9, <2>2, <2>4
  <2>3. k[s \cap E] <= g[s]
    BY <2>5, <2>6
  <2> QED BY <1>2, <2>3
<1> QED BY <1>10, <1>11

-----------------------------------------------------------------------------
\* A sum of numbers is a number.
LEMMA SumType ==
  ASSUME NEW D, IsFiniteSet(D), NEW f \in [D -> Int]
  PROVE  SumFunction(f) \in Int
<1>1. PICK g : Summing(f, D, g) /\ SumFunction(f) = g[D]
  BY SumIsSumming
<1> QED BY <1>1, SummingType

\* More of what is not negative sums to no less.
LEMMA SumMonotone ==
  ASSUME NEW D, IsFiniteSet(D), NEW E, E \subseteq D,
         NEW f \in [D -> Int], NEW h \in [E -> Int],
         \A x \in E : h[x] <= f[x],
         \A x \in D \ E : 0 <= f[x]
  PROVE  SumFunction(h) <= SumFunction(f)
<1>1. PICK g : Summing(f, D, g) /\ SumFunction(f) = g[D]
  BY SumIsSumming
<1>2. IsFiniteSet(E)
  BY FS_Subset
<1>3. PICK k : Summing(h, E, k) /\ SumFunction(h) = k[E]
  BY <1>2, SumIsSumming
<1>4. D \cap E = E
  OBVIOUS
<1>5. k[D \cap E] <= g[D]
  BY <1>1, <1>3, SummingMonotone
<1> QED BY <1>1, <1>3, <1>4, <1>5

\* To add to one element is to add to the sum.
LEMMA SumIncrease ==
  ASSUME NEW D, IsFiniteSet(D), NEW f \in [D -> Int], NEW h \in [D -> Int],
         NEW x \in D, \A y \in D \ {x} : h[y] = f[y]
  PROVE  SumFunction(h) = SumFunction(f) + (h[x] - f[x])
<1>1. PICK g : Summing(f, D, g) /\ SumFunction(f) = g[D]
  BY SumIsSumming
<1>2. PICK k : Summing(h, D, k) /\ SumFunction(h) = k[D]
  BY SumIsSumming
<1> DEFINE R == D \ {x}
<1>3. R \subseteq D /\ R \cap D = R
  OBVIOUS
<1>4. \A y \in R : h[y] = f[y] /\ h[y] \in Int
  OBVIOUS
<1>5. g[R] \in Int /\ k[R] \in Int
  BY <1>1, <1>2, <1>3, SummingType
<1>6. g[D] = f[x] + g[R] /\ k[D] = h[x] + k[R]
  <2>1. g[D] = f[x] + g[D \ {x}]
    BY <1>1, SummingAny
  <2>2. k[D] = h[x] + k[D \ {x}]
    BY <1>2, SummingAny
  <2> QED BY <2>1, <2>2
<1> HIDE DEF R
<1>13. /\ \A y \in R \cap D : h[y] <= f[y] /\ f[y] <= h[y]
       /\ R \ D = {} /\ D \subseteq D
       /\ \A y \in D : f[y] \in Int /\ h[y] \in Int
  BY <1>3, <1>4
<1>7. k[R \cap D] <= g[R]
  <2>1. Summing(f, D, g) /\ Summing(h, D, k)
    BY <1>1, <1>2
  <2> QED BY <2>1, <1>3, <1>13, SummingMonotone
<1>8. g[R \cap D] <= k[R]
  <2>1. Summing(f, D, g) /\ Summing(h, D, k)
    BY <1>1, <1>2
  <2>2. /\ \A y \in R \cap D : f[y] <= h[y]
        /\ \A y \in R \ D : 0 <= h[y]
    BY <1>13
  <2>3. (\A y \in D : h[y] \in Int) /\ (\A y \in D : f[y] \in Int)
    BY <1>13
  <2> QED BY <2>1, <2>2, <2>3, <1>3, <1>13, SummingMonotone
<1>9. f[x] \in Int /\ h[x] \in Int
  OBVIOUS
<1>10. k[R] <= g[R] /\ g[R] <= k[R]
  BY <1>3, <1>7, <1>8
<1>11. k[R] = g[R]
  BY <1>5, <1>10
<1>12. SumFunction(f) = f[x] + g[R] /\ SumFunction(h) = h[x] + g[R]
  BY <1>1, <1>2, <1>6, <1>11
<1> QED BY <1>5, <1>9, <1>12

\* Zeros sum to zero.
LEMMA SumZero ==
  ASSUME NEW D, IsFiniteSet(D), NEW f \in [D -> Int], \A x \in D : f[x] = 0
  PROVE  SumFunction(f) = 0
<1>1. PICK g : Summing(f, D, g) /\ SumFunction(f) = g[D]
  BY SumIsSumming
<1> DEFINE Bad == {s \in SUBSET D : g[s] # 0}
<1>2. Bad = {}
  <2> SUFFICES ASSUME Bad # {} PROVE FALSE
    OBVIOUS
  <2>1. \A s \in Bad : IsFiniteSet(s)
    BY FS_Subset
  <2>2. PICK s \in Bad : \A t \in Bad : ~(Cardinality(t) < Cardinality(s))
    <3> HIDE DEF Bad
    <3> QED BY <2>1, SmallestSet
  <2>3. s # {}
    BY <1>1, <2>2, SummingType
  <2>4. PICK x \in s : g[s] = f[x] + g[s \ {x}]
    BY <1>1, <2>2, <2>3, SummingType
  <2>5. g[s \ {x}] = 0
    BY <2>1, <2>2, SmallerSet
  <2>6. f[x] = 0
    BY <2>2
  <2>7. f[x] + g[s \ {x}] = 0
    BY <2>5, <2>6
  <2> QED BY <2>2, <2>4, <2>7
<1> QED BY <1>1, <1>2

\* A sum of natural numbers is one, and at least as large as each of them.
LEMMA SumOfNat ==
  ASSUME NEW D, IsFiniteSet(D), NEW f, \A x \in D : f[x] \in Nat
  PROVE  /\ SumFunctionOnSet(f, D) \in Nat
         /\ \A x \in D : f[x] <= SumFunctionOnSet(f, D)
<1>1. PICK g : Summing(f, D, g) /\ SumFunctionOnSet(f, D) = g[D]
  BY SumOnSetIsSumming
<1>2. \A x \in D : f[x] \in Int
  OBVIOUS
<1> DEFINE Bad == {s \in SUBSET D : g[s] \notin Nat}
<1>3. Bad = {}
  <2> SUFFICES ASSUME Bad # {} PROVE FALSE
    OBVIOUS
  <2>1. \A s \in Bad : IsFiniteSet(s)
    BY FS_Subset
  <2>2. PICK s \in Bad : \A t \in Bad : ~(Cardinality(t) < Cardinality(s))
    <3> HIDE DEF Bad
    <3> QED BY <2>1, SmallestSet
  <2>3. s # {}
    <3>1. g[{}] = 0
      BY <1>1, <1>2, SummingType
    <3>2. g[s] \notin Nat
      BY <2>2
    <3>3. g[{}] \in Nat
      BY <3>1
    <3> QED BY <3>2, <3>3
  <2>4. PICK x \in s : g[s] = f[x] + g[s \ {x}]
    BY <1>1, <1>2, <2>2, <2>3, SummingType
  <2>5. g[s \ {x}] \in Nat
    BY <2>1, <2>2, SmallerSet
  <2>6. f[x] \in Nat
    BY <2>2
  <2>7. f[x] + g[s \ {x}] \in Nat
    BY <2>5, <2>6
  <2> QED BY <2>2, <2>4, <2>7
<1>4. ASSUME NEW x \in D PROVE f[x] <= g[D]
  <2>1. g[D] = f[x] + g[D \ {x}]
    BY <1>1, <1>2, SummingAny
  <2>2. g[D \ {x}] \in Nat /\ f[x] \in Nat
    BY <1>3
  <2> QED BY <2>1, <2>2
<1>5. g[D] \in Nat
  BY <1>3
<1> QED BY <1>1, <1>4, <1>5

\* A single number is its own sum.
LEMMA SumOfOne ==
  ASSUME NEW f, NEW x, f[x] \in Int
  PROVE  SumFunctionOnSet(f, {x}) = f[x]
<1> DEFINE D == {x}
<1>1. IsFiniteSet(D) /\ D \in SUBSET D /\ x \in D /\ D \ {x} = {}
  BY FS_Singleton
<1>2. \A y \in D : f[y] \in Int
  OBVIOUS
<1> HIDE DEF D
<1>3. PICK g : Summing(f, D, g) /\ SumFunctionOnSet(f, D) = g[D]
  BY <1>1, SumOnSetIsSumming
<1>4. g[D] = f[x] + g[D \ {x}]
  BY <1>1, <1>2, <1>3, SummingAny
<1>5. g[{}] = 0
  BY <1>1, <1>2, <1>3, SummingType
<1>6. g[D] = f[x] + 0
  BY <1>1, <1>4, <1>5
<1>7. SumFunctionOnSet(f, D) = f[x]
  BY <1>3, <1>6
<1> QED BY <1>7 DEF D

-----------------------------------------------------------------------------
(* Least members                                                           *)

\* The least number of a set is one of its members.
LEMMA MinMember ==
  ASSUME NEW T, NEW x \in T, \A y \in T : x <= y
  PROVE  Min(T) \in T /\ \A y \in T : Min(T) <= y
BY DEF Min

\* A set of natural numbers has one.
LEMMA MinOfNat ==
  ASSUME NEW T, T \subseteq Nat, T # {}
  PROVE  Min(T) \in T /\ \A y \in T : Min(T) <= y
<1>1. PICK x \in T : \A y \in T : x <= y
  BY LeastNumber
<1> QED BY <1>1, MinMember
=============================================================================
