----------------------------- MODULE OrderLemmas -----------------------------
(***************************************************************************)
(* Least and greatest elements of sets of numbers, for the proofs of the   *)
(* other modules.  A property of every natural number follows by looking   *)
(* at the least number that does not have it.                              *)
(***************************************************************************)
EXTENDS Integers, FiniteSetsExt, WellFoundedInduction, FiniteSetTheorems, TLAPS

\* A set of natural numbers has a least element, so Min finds it
LEMMA LeastElement ==
    ASSUME NEW S \in SUBSET Nat, S # {}
    PROVE  \E x \in S : \A y \in S : x <= y
  <1> DEFINE R == OpToRel(<, Nat)
  <1>1. IsWellFoundedOn(R, Nat)
    BY NatLessThanWellFounded
  <1>2. \A x, y \in Nat : x < y => <<x, y>> \in R
    BY DEF OpToRel
  <1> HIDE DEF R
  <1>3. \E x \in S : \A y \in S : ~ (<<y, x>> \in R)
    BY <1>1, WFMin
  <1>4. PICK x \in S : \A y \in S : ~ (<<y, x>> \in R)
    BY <1>3
  <1>5. ASSUME NEW y \in S PROVE x <= y
    <2>1. x \in Nat /\ y \in Nat
      OBVIOUS
    <2>2. ~ (y < x)
      BY <1>2, <1>4, <2>1
    <2> QED
      BY <2>1, <2>2
  <1> QED
    BY <1>4, <1>5

\* The least element of a set is in it and below its others
LEMMA MinFacts ==
    ASSUME NEW S \in SUBSET Nat, S # {}
    PROVE  Min(S) \in S /\ \A y \in S : Min(S) <= y
  BY LeastElement DEF Min

\* Max of a bounded set of numbers is its greatest element
LEMMA GreatestElement ==
    ASSUME NEW S, NEW c \in Nat, S \subseteq 0 .. c, S # {}
    PROVE  Max(S) \in S /\ \A y \in S : Max(S) >= y
  <1> DEFINE R == {c - y : y \in S}
  <1>1. R \in SUBSET Nat /\ R # {}
    <2>1. \A y \in S : c - y \in Nat
      OBVIOUS
    <2> QED
      BY <2>1
  <1>2. PICK x \in R : \A y \in R : x <= y
    BY <1>1, LeastElement
  <1>3. PICK z \in S : x = c - z
    BY <1>2
  <1>4. \A y \in S : z >= y
    <2> TAKE y \in S
    <2>1. x <= c - y
      BY <1>2
    <2> QED
      BY <1>3, <2>1
  <1> QED
    BY <1>3, <1>4 DEF Max

\* Max of an interval is its end
LEMMA MaxInterval ==
    ASSUME NEW a \in Int, NEW b \in Int, a <= b
    PROVE  Max(a .. b) = b
  <1>1. b \in a .. b /\ \A y \in a .. b : b >= y
    OBVIOUS
  <1>2. \A x \in a .. b : (\A y \in a .. b : x >= y) => x = b
    BY <1>1
  <1> QED
    BY <1>1, <1>2 DEF Max

\* Max of the three numbers
LEMMA MaxOfThree ==
    ASSUME NEW a \in Int, NEW b \in Int, NEW c \in Int
    PROVE  /\ Max({a, b, c}) \in {a, b, c}
           /\ Max({a, b, c}) >= a /\ Max({a, b, c}) >= b /\ Max({a, b, c}) >= c
  <1>1. \E x \in {a, b, c} : \A y \in {a, b, c} : x >= y
    <2>1. CASE a >= b /\ a >= c
      BY <2>1
    <2>2. CASE b >= a /\ b >= c
      BY <2>2
    <2>3. CASE c >= a /\ c >= b
      BY <2>3
    <2> QED
      BY <2>1, <2>2, <2>3
  <1>2. Max({a, b, c}) \in {a, b, c} /\ \A y \in {a, b, c} : Max({a, b, c}) >= y
    BY <1>1 DEF Max
  <1> QED
    BY <1>2

\* Induction up to a bound, for the numbers that are in a set
LEMMA Stepwise ==
    ASSUME NEW n \in Nat, NEW B, 0 \in B,
           \A k \in 0 .. n : k < n /\ k \in B => k + 1 \in B
    PROVE  \A k \in 0 .. n : k \in B
  <1> DEFINE Bad == {k \in 0 .. n : k \notin B}
  <1> SUFFICES ASSUME Bad # {} PROVE FALSE
    OBVIOUS
  <1>1. PICK k \in Bad : \A y \in Bad : k <= y
    <2>1. Bad \in SUBSET Nat
      OBVIOUS
    <2> HIDE DEF Bad
    <2> QED
      BY <2>1, LeastElement
  <1>2. k \in 0 .. n /\ k \notin B
    OBVIOUS
  <1>3. k - 1 \in 0 .. n /\ k - 1 < n /\ (k - 1) + 1 = k
    BY <1>2
  <1>4. k - 1 \notin Bad
    <2> HIDE DEF Bad
    <2>1. k - 1 \in Bad => k <= k - 1
      BY <1>1
    <2> QED
      BY <1>3, <2>1
  <1>5. k - 1 \in B
    BY <1>3, <1>4
  <1> QED
    BY <1>2, <1>3, <1>5

\* A finite set of natural numbers has an upper bound
LEMMA FiniteBounded ==
    ASSUME NEW S \in SUBSET Nat, IsFiniteSet(S)
    PROVE  \E c \in Nat : S \subseteq 0 .. c
  <1>0. PICK n \in Nat : ExistsSurjection(1 .. n, S)
    BY FS_NatSurjection
  <1>1. PICK f : f \in [1 .. n -> S] /\ \A t \in S : \E i \in 1 .. n : f[i] = t
    BY <1>0 DEF ExistsSurjection, Surjection
  <1> DEFINE P(k) == \E c \in Nat : \A i \in 1 .. k : f[i] <= c
             Bad  == {k \in 0 .. n : ~ P(k)}
  <1>2. P(0)
    BY 0 \in Nat
  <1>3. ASSUME NEW k \in 0 .. n, k + 1 \in 0 .. n, P(k) PROVE P(k + 1)
    <2>1. PICK c \in Nat : \A i \in 1 .. k : f[i] <= c
      BY <1>3
    <2>2. f[k + 1] \in Nat
      <3>1. k + 1 \in 1 .. n
        BY <1>3
      <3> QED
        BY <1>1, <3>1
    <2>3. PICK d \in Nat : d >= c /\ d >= f[k + 1]
      <3>1. c + f[k + 1] \in Nat /\ c + f[k + 1] >= c /\ c + f[k + 1] >= f[k + 1]
        BY <2>2
      <3> QED
        BY <3>1
    <2>4. ASSUME NEW i \in 1 .. k + 1 PROVE f[i] <= d
      <3>1. f[i] \in Nat
        <4>1. i \in 1 .. n
          BY <1>3
        <4> QED
          BY <1>1, <4>1
      <3>2. CASE i = k + 1
        BY <2>3, <3>2
      <3>3. CASE i # k + 1
        <4>1. i \in 1 .. k
          BY <3>3
        <4>2. f[i] <= c
          BY <2>1, <4>1
        <4> QED
          BY <2>3, <3>1, <4>2
      <3> QED
        BY <3>2, <3>3
    <2> QED
      BY <2>3, <2>4
  <1> HIDE DEF P
  <1>4. Bad = {}
    <2> SUFFICES ASSUME Bad # {} PROVE FALSE
      OBVIOUS
    <2>1. PICK k \in Bad : \A y \in Bad : k <= y
      <3>1. Bad \in SUBSET Nat
        OBVIOUS
      <3> HIDE DEF Bad
      <3> QED
        BY <3>1, LeastElement
    <2>2. k \in 0 .. n /\ ~ P(k)
      OBVIOUS
    <2>3. k # 0
      BY <1>2, <2>2
    <2>4. k - 1 \in 0 .. n /\ (k - 1) + 1 = k
      BY <2>2, <2>3
    <2>5. k - 1 \notin Bad
      <3> HIDE DEF Bad
      <3>1. k - 1 \in Bad => k <= k - 1
        BY <2>1
      <3> QED
        BY <2>4, <3>1
    <2>6. P(k - 1)
      BY <2>4, <2>5
    <2> QED
      BY <1>3, <2>2, <2>4, <2>6
  <1>5. P(n)
    <2>1. n \in 0 .. n
      OBVIOUS
    <2> QED
      BY <1>4, <2>1
  <1>6. PICK c \in Nat : \A i \in 1 .. n : f[i] <= c
    BY <1>5 DEF P
  <1>7. ASSUME NEW t \in S PROVE t \in 0 .. c
    <2>1. PICK i \in 1 .. n : f[i] = t
      BY <1>1
    <2> QED
      BY <1>6, <2>1
  <1> QED
    BY <1>7

==============================================================================
