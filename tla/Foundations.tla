----------------------------- MODULE Foundations -----------------------------
(***************************************************************************)
(* Facts about the natural numbers that several proofs need: the first     *)
(* name in a directory, the first event of a kind in a list, and what a    *)
(* loop over the positions of a list computes.                             *)
(***************************************************************************)
EXTENDS Integers, FiniteSetTheorems, WellFoundedInduction, TLAPS

\* A set of natural numbers has a least one: the order is well-founded.
LEMMA Least ==
  ASSUME NEW S \in SUBSET Nat, S # {}
  PROVE  \E n \in S : \A m \in S : n <= m
<1> DEFINE R == OpToRel(<, Nat)
<1>1. IsWellFoundedOn(R, Nat)
  BY NatLessThanWellFounded
<1>2. PICK n \in S : \A m \in S : ~(<<m, n>> \in R)
  <2> HIDE DEF R
  <2>1. QED
  BY <1>1, WFMin
<1>3. \A m, k \in Nat : m < k => <<m, k>> \in R
  BY DEF OpToRel
<1> HIDE DEF R
<1>4. ASSUME NEW m \in S PROVE n <= m
  <2>1. m \in Nat /\ n \in Nat /\ ~(<<m, n>> \in R)
    BY <1>2
  <2>2. ~(m < n)
    BY <2>1, <1>3
  <2>3. QED
    BY <2>1, <2>2
<1>5. QED
  BY <1>4

\* So what holds at 0, and at each position once it holds at the one before, holds
\* at every position.
LEMMA Climb ==
  ASSUME NEW n \in Nat, NEW S, 0 \in S, \A i \in 1 .. n : i - 1 \in S => i \in S
  PROVE  \A i \in 0 .. n : i \in S
<1> SUFFICES ASSUME \E i \in 0 .. n : i \notin S PROVE FALSE
  OBVIOUS
<1> DEFINE Out == {i \in 0 .. n : i \notin S}
<1>1. PICK k \in Out : \A m \in Out : k <= m
  <2>1. Out \in SUBSET Nat /\ Out # {}
    OBVIOUS
  <2> HIDE DEF Out
  <2>2. QED
    BY <2>1, Least
<1>2. k \in 1 .. n /\ k \notin S
  OBVIOUS
<1>3. k - 1 \notin Out
  BY <1>1, <1>2
<1>4. k - 1 \in S
  BY <1>2, <1>3
<1>5. QED
  BY <1>2, <1>4

\* A bounded set of natural numbers has a greatest one.
LEMMA Greatest ==
  ASSUME NEW S \in SUBSET Nat, S # {}, NEW b \in Nat, \A m \in S : m <= b
  PROVE  \E n \in S : \A m \in S : m <= n
<1> DEFINE Above == {k \in Nat : \A m \in S : m <= k}
<1>1. PICK k \in Above : \A j \in Above : k <= j
  <2>1. Above \in SUBSET Nat /\ Above # {}
    OBVIOUS
  <2> HIDE DEF Above
  <2>2. QED
    BY <2>1, Least
<1>2. k \in S
  <2> SUFFICES ASSUME k \notin S PROVE FALSE
    OBVIOUS
  <2>1. k \in Nat /\ \A m \in S : m \in Nat /\ m < k
    BY <1>1
  <2>2. k - 1 \in Nat
    <3>1. PICK m \in S : TRUE
      OBVIOUS
    <3>2. QED
      BY <2>1, <3>1
  <2>3. \A m \in S : m <= k - 1
    <3> SUFFICES ASSUME NEW m \in S PROVE m <= k - 1
      OBVIOUS
    <3>1. k \in Nat /\ m \in Nat /\ m < k
      BY <2>1
    <3> HIDE DEF Above
    <3>2. QED
      BY <3>1
  <2>4. k - 1 \in Above
    BY <2>2, <2>3
  <2>5. k <= k - 1
    BY <2>4, <1>1
  <2>6. QED
    BY <2>1, <2>5
<1>3. QED
  BY <1>1, <1>2

\* What the steps of a loop over n positions that carries a value of A along are.
Steps(n, A) == [A \X (1 .. n) -> A]

\* The values that it has at each position.
Loops(n, A, base, step) ==
  {f \in [0 .. n -> A] : f[0] = base /\ \A i \in 1 .. n : f[i] = step[<<f[i - 1], i>>]}

\* There are such values.
LEMMA Fold ==
  ASSUME NEW n \in Nat, NEW A, NEW base \in A, NEW step \in Steps(n, A)
  PROVE  Loops(n, A, base, step) # {}
<1> DEFINE Upto(m, f) == f[0] = base /\ \A i \in 1 .. m : f[i] = step[<<f[i - 1], i>>]
<1> DEFINE Done == {m \in 0 .. n : \E f \in [0 .. m -> A] : Upto(m, f)}
<1>1. 0 \in Done
  <2> DEFINE f == [i \in 0 .. 0 |-> base]
  <2>1. f \in [0 .. 0 -> A]
    OBVIOUS
  <2>2. f[0] = base
    OBVIOUS
  <2>3. Upto(0, f)
    BY <2>2
  <2> HIDE DEF f, Upto
  <2>4. QED
    BY <2>1, <2>3
<1>2. ASSUME NEW i \in 1 .. n, i - 1 \in Done PROVE i \in Done
  <2>1. PICK f \in [0 .. i - 1 -> A] : Upto(i - 1, f)
    BY <1>2
  <2> DEFINE g == [j \in 0 .. i |-> IF j = i THEN step[<<f[i - 1], i>>] ELSE f[j]]
  <2>2. f[i - 1] \in A
    OBVIOUS
  <2>3. step[<<f[i - 1], i>>] \in A
    BY <2>2 DEF Steps
  <2>4. g \in [0 .. i -> A]
    BY <2>3
  <2>5. \A j \in 0 .. i - 1 : g[j] = f[j]
    OBVIOUS
  <2>6. g[i] = step[<<f[i - 1], i>>]
    OBVIOUS
  <2> HIDE DEF g
  <2>7. ASSUME NEW j \in 1 .. i PROVE g[j] = step[<<g[j - 1], j>>]
    <3>1. CASE j = i
      BY <3>1, <2>5, <2>6
    <3>2. CASE j # i
      BY <3>2, <2>1, <2>5
    <3>3. QED
      BY <3>1, <3>2
  <2>8. Upto(i, g)
    BY <2>1, <2>5, <2>7
  <2>9. QED
    BY <2>4, <2>8
<1>3. n \in Done
  <2> HIDE DEF Done
  <2>1. \A i \in 1 .. n : i - 1 \in Done => i \in Done
    BY <1>2
  <2>2. \A i \in 0 .. n : i \in Done
    BY <1>1, <2>1, Climb
  <2>3. QED
    BY <2>2
<1>4. QED
  BY <1>3 DEF Loops

\* What is listed is finite.
LEMMA ListedFinite ==
  ASSUME NEW n \in Nat, NEW f
  PROVE  IsFiniteSet({f[i] : i \in 1 .. n})
<1> DEFINE T == {f[i] : i \in 1 .. n}
           g == [i \in 1 .. n |-> f[i]]
<1>1. g \in Surjection(1 .. n, T)
  BY DEF Surjection
<1>2. IsFiniteSet(1 .. n)
  BY FS_Interval
<1> HIDE DEF g, T
<1>3. IsFiniteSet(T)
  BY <1>1, <1>2, FS_Surjection
<1>4. QED
  BY <1>3 DEF T

\* A list of different elements is no longer than the set they are of is large.
LEMMA ListedFew ==
  ASSUME NEW n \in Nat, NEW T, IsFiniteSet(T), NEW f \in [1 .. n -> T],
         \A i, j \in 1 .. n : f[i] = f[j] => i = j
  PROVE  n <= Cardinality(T)
<1>1. f \in Injection(1 .. n, T)
  BY DEF Injection, IsInjective
<1>2. Cardinality(1 .. n) <= Cardinality(T)
  BY <1>1, FS_Injection
<1>3. Cardinality(1 .. n) = n
  BY FS_Interval
<1>4. QED
  BY <1>2, <1>3
=============================================================================
