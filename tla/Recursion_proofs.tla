-------------------------- MODULE Recursion_proofs --------------------------
(***************************************************************************)
(* Facts about numbers that the proofs about displays and data sources     *)
(* share: induction, functions that are defined by recursion, least and    *)
(* greatest, products and quotients.                                       *)
(***************************************************************************)
EXTENDS Integers, FiniteSetsExt, WellFoundedInduction, TLAPS

\* Induction over the natural numbers, of a set.
LEMMA Induction ==
    ASSUME NEW T, 0 \in T, \A n \in Nat : n \in T => n + 1 \in T
    PROVE  Nat \subseteq T
<1> SUFFICES ASSUME NEW k \in Nat, k \notin T PROVE FALSE
  OBVIOUS
<1> DEFINE Out == Nat \ T
<1>1. PICK m \in Out : \A n \in Out : ~ (<<n, m>> \in OpToRel(<, Nat))
  <2>1. Out \subseteq Nat /\ Out # {}
    OBVIOUS
  <2> HIDE DEF Out
  <2> QED BY <2>1, NatLessThanWellFounded, WFMin
<1>2. m \in Nat /\ m # 0 /\ m - 1 \in Nat /\ m - 1 < m
  OBVIOUS
<1>3. <<m - 1, m>> \in OpToRel(<, Nat)
  BY <1>2 DEF OpToRel
<1>4. m - 1 \in T
  BY <1>1, <1>2, <1>3
<1>5. (m - 1) + 1 = m
  BY <1>2
<1> QED BY <1>2, <1>4, <1>5

\* Induction up to a number.
LEMMA InductionUpto ==
    ASSUME NEW N \in Nat, NEW T, 0 \in T, \A i \in 1..N : i - 1 \in T => i \in T
    PROVE  \A i \in 0..N : i \in T
<1> DEFINE U == {n \in Nat : n <= N => n \in T}
<1>1. 0 \in U
  OBVIOUS
<1>2. ASSUME NEW n \in Nat, n \in U PROVE n + 1 \in U
  <2> SUFFICES ASSUME n + 1 <= N PROVE n + 1 \in T
    OBVIOUS
  <2>1. n + 1 \in 1..N /\ (n + 1) - 1 = n /\ n \in T
    BY <1>2
  <2> QED BY <2>1
<1>3. Nat \subseteq U
  <2> HIDE DEF U
  <2> QED BY <1>1, <1>2, Induction
<1> QED BY <1>3

\* A recursion over 0..N has a result, and stays where its steps stay.
Steps(N, S) == [1..N -> [S -> S]]
Iterates(f, N, S, base, next) == f \in [0..N -> S] /\ f[0] = base /\ \A i \in 1..N : f[i] = next[i][f[i - 1]]
LEMMA Iteration ==
    ASSUME NEW N \in Nat, NEW S, NEW base \in S, NEW next \in Steps(N, S)
    PROVE  \E f : Iterates(f, N, S, base, next)
<1> DEFINE Upto(n, f) == f[0] = base /\ \A i \in 1..n : f[i] = next[i][f[i - 1]]
           T == {n \in Nat : n <= N => \E f \in [0..N -> S] : Upto(n, f)}
<1>0. next \in [1..N -> [S -> S]]
  BY DEF Steps
<1>1. 0 \in T
  <2>1. [i \in 0..N |-> base] \in [0..N -> S] /\ Upto(0, [i \in 0..N |-> base])
    OBVIOUS
  <2> QED BY <2>1
<1>2. ASSUME NEW n \in Nat, n \in T PROVE n + 1 \in T
  <2> SUFFICES ASSUME n + 1 <= N PROVE \E f \in [0..N -> S] : Upto(n + 1, f)
    OBVIOUS
  <2>1. PICK f \in [0..N -> S] : Upto(n, f)
    BY <1>2
  <2>2. n + 1 \in 1..N /\ n \in 0..N /\ f[n] \in S /\ next[n + 1] \in [S -> S]
    BY <1>0
  <2>3. PICK e \in S : e = next[n + 1][f[n]]
    BY <2>2
  <2> DEFINE g == [f EXCEPT ![n + 1] = e]
  <2>4. g \in [0..N -> S] /\ g[n + 1] = e
    BY <2>2
  <2>5. \A i \in 0..n : g[i] = f[i]
    BY <2>2
  <2>6. g[0] = base /\ g[n + 1] = next[n + 1][g[n]]
    <3>1. g[0] = f[0] /\ g[n] = f[n]
      BY <2>5
    <3> QED BY <2>1, <2>3, <2>4, <3>1
  <2>7. ASSUME NEW i \in 1..n PROVE g[i] = next[i][g[i - 1]]
    <3>1. i \in 0..n /\ i - 1 \in 0..n
      OBVIOUS
    <3>2. g[i] = f[i] /\ g[i - 1] = f[i - 1]
      BY <2>5, <3>1
    <3> QED BY <2>1, <3>2
  <2>8. \A i \in 1..n + 1 : i \in 1..n \/ i = n + 1
    OBVIOUS
  <2>9. (n + 1) - 1 = n
    OBVIOUS
  <2> HIDE DEF g
  <2>10. Upto(n + 1, g)
    BY <2>6, <2>7, <2>8, <2>9
  <2> QED BY <2>4, <2>10
<1>3. Nat \subseteq T
  <2> HIDE DEF T
  <2> QED BY <1>1, <1>2, Induction
<1>4. N \in T
  BY <1>3
<1> QED BY <1>4 DEF Iterates

\* What a recursion keeps.
LEMMA Stays ==
    ASSUME NEW N \in Nat, NEW S, NEW f, f[0] \in S, \A i \in 1..N : f[i - 1] \in S => f[i] \in S
    PROVE  f[N] \in S
<1> DEFINE T == {i \in 0..N : f[i] \in S}
<1>1. 0 \in T
  OBVIOUS
<1>2. \A i \in 1..N : i - 1 \in T => i \in T
  OBVIOUS
<1>3. \A i \in 0..N : i \in T
  <2> HIDE DEF T
  <2> QED BY <1>1, <1>2, InductionUpto
<1>4. N \in T
  BY <1>3
<1> QED BY <1>4

\* The least of some numbers.
LEMMA Least ==
    ASSUME NEW S \in SUBSET Nat, S # {}
    PROVE  Min(S) \in S /\ \A k \in S : Min(S) <= k
<1>1. PICK m \in S : \A k \in S : ~ (<<k, m>> \in OpToRel(<, Nat))
  BY NatLessThanWellFounded, WFMin
<1>2. ASSUME NEW k \in S PROVE m <= k
  <2>1. k \in Nat /\ m \in Nat /\ (m <= k \/ k < m)
    OBVIOUS
  <2>2. k < m => <<k, m>> \in OpToRel(<, Nat)
    BY <2>1 DEF OpToRel
  <2> QED BY <1>1, <2>1, <2>2
<1> QED BY <1>2 DEF Min

\* A non-empty set of integers that is bounded lies between two of its members.
LEMMA MinMax ==
    ASSUME NEW a \in Int, NEW b \in Int, NEW S \in SUBSET (a..b), S # {}
    PROVE  /\ Min(S) \in S /\ Max(S) \in S
           /\ \A k \in S : Min(S) <= k /\ k <= Max(S)
<1>1. \A k \in S : k \in Int /\ a <= k /\ k <= b
  OBVIOUS
<1>2. \E m \in S : \A k \in S : m <= k
  <2> DEFINE Up == {k - a : k \in S}
  <2>1. Up \in SUBSET Nat /\ Up # {}
    <3>1. \A k \in S : k - a \in Nat
      BY <1>1
    <3> QED BY <3>1
  <2>2. PICK u \in Up : \A v \in Up : u <= v
    <3> HIDE DEF Up
    <3> QED BY <2>1, Least
  <2>3. PICK m \in S : u = m - a
    OBVIOUS
  <2>4. ASSUME NEW k \in S PROVE m <= k
    <3>1. u <= k - a
      BY <2>2
    <3> QED BY <1>1, <2>3, <3>1
  <2> QED BY <2>4
<1>3. \E m \in S : \A k \in S : m >= k
  <2> DEFINE Down == {b - k : k \in S}
  <2>1. Down \in SUBSET Nat /\ Down # {}
    <3>1. \A k \in S : b - k \in Nat
      BY <1>1
    <3> QED BY <3>1
  <2>2. PICK u \in Down : \A v \in Down : u <= v
    <3> HIDE DEF Down
    <3> QED BY <2>1, Least
  <2>3. PICK m \in S : u = b - m
    OBVIOUS
  <2>4. ASSUME NEW k \in S PROVE m >= k
    <3>1. u <= b - k
      BY <2>2
    <3> QED BY <1>1, <2>3, <3>1
  <2> QED BY <2>4
<1>4. Min(S) \in S /\ \A k \in S : Min(S) <= k
  BY <1>2 DEF Min
<1>5. Max(S) \in S /\ \A k \in S : Max(S) >= k
  BY <1>3 DEF Max
<1> QED BY <1>1, <1>4, <1>5

LEMMA Greatest ==
    ASSUME NEW N \in Nat, NEW S \in SUBSET (0..N), S # {}
    PROVE  Max(S) \in S /\ \A k \in S : k <= Max(S)
<1>1. 0 \in Int /\ N \in Int
  OBVIOUS
<1> QED BY <1>1, MinMax

\* The larger of two numbers.
LEMMA Larger ==
    ASSUME NEW a \in Nat, NEW b \in Nat
    PROVE  Max({a, b}) \in Nat /\ Max({a, b}) \in {a, b} /\ Max({a, b}) >= a /\ Max({a, b}) >= b
<1>1. \E m \in {a, b} : \A k \in {a, b} : m >= k
  <2>1. CASE a >= b BY <2>1
  <2>2. CASE b >= a BY <2>2
  <2> QED BY <2>1, <2>2
<1>2. Max({a, b}) \in {a, b} /\ \A k \in {a, b} : Max({a, b}) >= k
  BY <1>1 DEF Max
<1> QED BY <1>2

\* Multiplication rises with its factor.
LEMMA Product ==
    ASSUME NEW a \in Nat, NEW b \in Nat, NEW c \in Nat, a <= b
    PROVE  a * c \in Nat /\ a * c <= b * c
<1>1. PICK e \in Nat : b = a + e
  <2>1. b - a \in Nat /\ b = a + (b - a)
    OBVIOUS
  <2> QED BY <2>1
<1>2. b * c = a * c + e * c
  BY <1>1
<1>3. a * c \in Nat /\ e * c \in Nat
  OBVIOUS
<1> QED BY <1>2, <1>3

\* A number has one quotient and one rest.
LEMMA DivisionUnique ==
    ASSUME NEW c \in Nat \ {0}, NEW a \in Nat, NEW b \in Nat, NEW r \in 0..c - 1, NEW s \in 0..c - 1,
           a * c + r = b * c + s
    PROVE  a = b /\ r = s
<1>1. a * c \in Nat /\ b * c \in Nat
  OBVIOUS
<1>2. ASSUME a < b PROVE FALSE
  <2>1. (a + 1) * c <= b * c
    BY <1>2, Product
  <2>2. (a + 1) * c = a * c + c
    OBVIOUS
  <2> QED BY <1>1, <2>1, <2>2
<1>3. ASSUME b < a PROVE FALSE
  <2>1. (b + 1) * c <= a * c
    BY <1>3, Product
  <2>2. (b + 1) * c = b * c + c
    OBVIOUS
  <2> QED BY <1>1, <2>1, <2>2
<1>4. a = b
  BY <1>2, <1>3
<1> QED BY <1>1, <1>4
=============================================================================
