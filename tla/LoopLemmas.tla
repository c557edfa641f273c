----------------------------- MODULE LoopLemmas -----------------------------
(***************************************************************************)
(* What the proofs about loops rest on: least and greatest numbers, an     *)
(* induction over a set of numbers, and that a function defined by         *)
(* recursion along a sequence exists.                                      *)
(***************************************************************************)
EXTENDS Integers, FiniteSetsExt, FiniteSetTheorems, FunctionTheorems, WellFoundedInduction, TLAPS

\* A set of naturals has a least element.
LEMMA LeastNatural ==
    ASSUME NEW S, S \subseteq Nat, S # {}
    PROVE  \E x \in S : \A y \in S : x <= y
<1>1. PICK x \in S : \A y \in S : <<y, x>> \notin OpToRel(<, Nat)
  BY WFMin, NatLessThanWellFounded
<1>2. \A y \in S : ~(y < x)
  BY <1>1 DEF OpToRel
<1> QED BY <1>2

\* What holds of 0 and passes from each number to the next holds of all, up to n.
LEMMA UpTo ==
    ASSUME NEW n \in Nat, NEW T, 0 \in T, \A i \in 1..n : i - 1 \in T => i \in T
    PROVE  \A i \in 0..n : i \in T
<1> SUFFICES ASSUME NEW k \in 0..n, k \notin T PROVE FALSE
  OBVIOUS
<1> DEFINE B == {i \in 0..n : i \notin T}
<1>1. PICK m \in B : \A y \in B : m <= y
  <2>1. B \subseteq Nat /\ k \in B
    OBVIOUS
  <2> QED BY <2>1, LeastNatural
<1>2. m \in 1..n /\ m - 1 \in 0..n /\ m - 1 \notin B
  BY <1>1
<1> QED BY <1>1, <1>2

\* Min and Max of bounded sets of integers.
LEMMA MinBounded ==
    ASSUME NEW S, S \subseteq Int, S # {}, NEW b \in Int, \A x \in S : b <= x
    PROVE  Min(S) \in S /\ \A x \in S : Min(S) <= x
<1> DEFINE N == {x - b : x \in S}
<1>1. \A x \in S : x \in Int /\ x - b \in Nat /\ x - b \in N
  OBVIOUS
<1>2. N \subseteq Nat /\ N # {}
  BY <1>1
<1>3. PICK m \in N : \A y \in N : m <= y
  <2> HIDE DEF N
  <2> QED BY <1>2, LeastNatural
<1>4. PICK a \in S : m = a - b
  OBVIOUS
<1> HIDE DEF N
<1>5. \A x \in S : a <= x
  <2> TAKE x \in S
  <2>1. a - b <= x - b /\ x \in Int /\ a \in Int
    BY <1>1, <1>3, <1>4
  <2> QED BY <2>1
<1>6. \E z \in S : \A x \in S : z <= x
  BY <1>5
<1> DEFINE g == CHOOSE z \in S : \A x \in S : z <= x
<1>7. g \in S /\ \A x \in S : g <= x
  BY <1>6
<1>8. Min(S) = g
  BY DEF Min
<1> HIDE DEF g
<1> QED BY <1>1, <1>7, <1>8

LEMMA MaxBounded ==
    ASSUME NEW S, S \subseteq Int, S # {}, NEW b \in Int, \A x \in S : x <= b
    PROVE  Max(S) \in S /\ \A x \in S : x <= Max(S)
<1> DEFINE N == {b - x : x \in S}
<1>1. \A x \in S : x \in Int /\ b - x \in Nat /\ b - x \in N
  OBVIOUS
<1>2. N \subseteq Nat /\ N # {}
  BY <1>1
<1>3. PICK m \in N : \A y \in N : m <= y
  <2> HIDE DEF N
  <2> QED BY <1>2, LeastNatural
<1>4. PICK a \in S : m = b - a
  OBVIOUS
<1> HIDE DEF N
<1>5. \A x \in S : a >= x
  <2> TAKE x \in S
  <2>1. b - a <= b - x /\ x \in Int /\ a \in Int
    BY <1>1, <1>3, <1>4
  <2> QED BY <2>1
<1>6. \E z \in S : \A x \in S : z >= x
  BY <1>5
<1> DEFINE g == CHOOSE z \in S : \A x \in S : z >= x
<1>7. g \in S /\ \A x \in S : g >= x
  BY <1>6
<1>8. Max(S) = g
  BY DEF Max
<1> HIDE DEF g
<1> QED BY <1>1, <1>7, <1>8

\* The greatest element is Max, the least one Min.
LEMMA MaxIs ==
    ASSUME NEW S, S \subseteq Int, NEW m \in S, \A x \in S : x <= m
    PROVE  Max(S) = m
<1>1. m \in Int /\ Max(S) \in S /\ m <= Max(S)
  BY MaxBounded
<1>2. Max(S) <= m /\ Max(S) \in Int
  BY <1>1
<1> QED BY <1>1, <1>2

LEMMA MinIs ==
    ASSUME NEW S, S \subseteq Int, NEW m \in S, \A x \in S : m <= x
    PROVE  Min(S) = m
<1>1. m \in Int /\ Min(S) \in S /\ Min(S) <= m
  BY MinBounded
<1>2. m <= Min(S) /\ Min(S) \in Int
  BY <1>1
<1> QED BY <1>1, <1>2

\* A finite set of integers has a greatest one.
LEMMA MaxFinite ==
    ASSUME NEW S, S \subseteq Int, S # {}, IsFiniteSet(S)
    PROVE  Max(S) \in S /\ \A x \in S : x <= Max(S)
<1> DEFINE Bounded(A) == \E b \in Int : \A x \in A : x <= b
           C == {A \in SUBSET S : ~Bounded(A)}
<1>1. Bounded(S)
  <2> SUFFICES ASSUME C # {} PROVE FALSE
    OBVIOUS
  <2>1. C \subseteq FiniteSubsetsOf(S)
    BY FS_FiniteSubsetsOfFinite
  <2>2. IsWellFoundedOn(StrictSubsetOrdering(S), FiniteSubsetsOf(S))
    BY FS_StrictSubsetOrderingWellFounded
  <2>3. PICK A \in C : \A B \in C : <<B, A>> \notin StrictSubsetOrdering(S)
    <3> HIDE DEF C
    <3> QED BY <2>1, <2>2, WFMin
  <2>4. ~Bounded(A) /\ A \subseteq S
    OBVIOUS
  <2>5. PICK a \in A : TRUE
    BY <2>4
  <2>6. A \ {a} \notin C
    BY <2>3, <2>4, <2>5 DEF StrictSubsetOrdering
  <2>7. PICK b \in Int : \A x \in A \ {a} : x <= b
    BY <2>4, <2>6
  <2>8. a \in Int /\ A \subseteq Int
    BY <2>4, <2>5
  <2>9. \A x \in A : x <= (IF a > b THEN a ELSE b)
    BY <2>7, <2>8
  <2> QED BY <2>4, <2>8, <2>9
<1> QED BY <1>1, MaxBounded

\* The values of a function on a finite set are finitely many.
LEMMA FiniteImage ==
    ASSUME NEW S, IsFiniteSet(S), NEW f, f = [x \in S |-> f[x]]
    PROVE  IsFiniteSet({f[x] : x \in S})
<1> DEFINE T == {f[x] : x \in S}
<1>1. f \in Surjection(S, T)
  BY DEF Surjection
<1> HIDE DEF T
<1>2. IsFiniteSet(T)
  BY <1>1, FS_Surjection
<1> QED BY <1>2 DEF T

\* A loop of n rounds starts with base and makes, in round i, a value of V of the one
\* before it.
HasRun(n, V, base, step) ==
    \E f \in [0..n -> V] : f[0] = base /\ \A i \in 1..n : f[i] = step[<<i, f[i - 1]>>]

\* A loop of n rounds, each of which makes a new value of the old one, has a value
\* after every round.
LEMMA Recursion ==
    ASSUME NEW n \in Nat, NEW V, NEW base \in V, NEW step \in [(1..n) \X V -> V]
    PROVE  HasRun(n, V, base, step)
<1> DEFINE Runs(m) == {f \in [0..m -> V] : /\ f[0] = base
                                           /\ \A i \in 1..m : f[i] = step[<<i, f[i - 1]>>]}
           T == {m \in 0..n : Runs(m) # {}}
<1>1. 0 \in T
  <2>1. [i \in 0..0 |-> base] \in Runs(0)
    OBVIOUS
  <2> QED BY <2>1
<1>2. ASSUME NEW k \in 1..n, k - 1 \in T PROVE k \in T
  <2>1. PICK f \in [0..(k - 1) -> V] :
            f[0] = base /\ \A i \in 1..(k - 1) : f[i] = step[<<i, f[i - 1]>>]
    BY <1>2
  <2> DEFINE g == [i \in 0..k |-> IF i = k THEN step[<<k, f[k - 1]>>] ELSE f[i]]
  <2>2. f[k - 1] \in V
    BY <2>1
  <2>3. step[<<k, f[k - 1]>>] \in V
    BY <2>2
  <2>4. g \in [0..k -> V]
    BY <2>1, <2>3
  <2>5. g[0] = base
    BY <2>1
  <2>6. ASSUME NEW i \in 1..k PROVE g[i] = step[<<i, g[i - 1]>>]
    <3>1. i \in 0..k /\ i - 1 \in 0..k /\ i - 1 # k /\ k \in 0..k
      OBVIOUS
    <3>2. g[i - 1] = f[i - 1]
      BY <3>1
    <3>3. g[i] = IF i = k THEN step[<<k, f[k - 1]>>] ELSE f[i]
      BY <3>1
    <3>4. i # k => f[i] = step[<<i, f[i - 1]>>]
      BY <2>1
    <3> HIDE DEF g
    <3> QED BY <3>2, <3>3, <3>4
  <2> HIDE DEF g
  <2>7. g \in Runs(k)
    BY <2>4, <2>5, <2>6
  <2> HIDE DEF Runs
  <2> QED BY <2>7
<1>3. n \in T
  <2> HIDE DEF T
  <2>1. \A i \in 1..n : i - 1 \in T => i \in T
    BY <1>2
  <2>2. \A i \in 0..n : i \in T
    BY <1>1, <2>1, UpTo
  <2> QED BY <2>2
<1> QED BY <1>3 DEF HasRun
=============================================================================
