----------------------------- MODULE MinLemmas -----------------------------
(***************************************************************************)
(* Facts about the least element of a set of natural numbers and the       *)
(* greatest of a bounded one.  Every search of the modelled code answers   *)
(* the first slot, page or region it meets, which the modules write as Min *)
(* of the candidates.                                                      *)
(***************************************************************************)
EXTENDS Integers, FiniteSetsExt, TLAPS, WellFoundedInduction

\* The order on the natural numbers as a relation, of which the library knows that it
\* is well-founded.
LT == {ss \in Nat \X Nat : ss[1] < ss[2]}

\* A set of natural numbers that is not empty has a least element.
LEMMA LeastNumber ==
  ASSUME NEW S \in SUBSET Nat, S # {}
  PROVE  \E x \in S : \A y \in S : x <= y
<1>1. IsWellFoundedOn(LT, Nat)
  BY NatLessThanWellFounded DEF OpToRel, LT
<1>2. PICK x \in S : \A y \in S : ~(<<y, x>> \in LT)
  BY <1>1, WFMin
<1>3. \A y \in S : y < x => <<y, x>> \in LT
  BY DEF LT
<1>4. \A y \in S : ~(y < x)
  BY <1>2, <1>3
<1>5. \A y \in S : x \in Nat /\ y \in Nat
  OBVIOUS
<1> QED BY <1>4, <1>5

\* Min is that element.
LEMMA MinIsLeast ==
  ASSUME NEW S \in SUBSET Nat, S # {}
  PROVE  Min(S) \in S /\ \A y \in S : Min(S) <= y
BY LeastNumber DEF Min

\* An element that no other precedes is Min.
LEMMA MinIs ==
  ASSUME NEW S \in SUBSET Nat, NEW x \in S, \A y \in S : x <= y
  PROVE  Min(S) = x
<1>1. S # {}
  OBVIOUS
<1>2. Min(S) \in S /\ Min(S) <= x /\ x <= Min(S)
  BY <1>1, MinIsLeast
<1>3. Min(S) \in Nat /\ x \in Nat
  BY <1>2
<1> QED BY <1>2, <1>3

\* A set of natural numbers with a bound has a greatest element, and Max is in the set.
LEMMA GreatestIn ==
  ASSUME NEW n \in Nat, NEW S \in SUBSET (0 .. n), S # {}
  PROVE  Max(S) \in S /\ \A y \in S : y <= Max(S)
<1> DEFINE T == {n - y : y \in S}
<1>1. T \in SUBSET Nat /\ T # {}
  <2>1. \A y \in S : y \in 0 .. n
    OBVIOUS
  <2>2. \A y \in 0 .. n : n - y \in Nat
    OBVIOUS
  <2>3. \A t \in T : t \in Nat
    BY <2>1, <2>2
  <2>4. PICK y \in S : TRUE
    OBVIOUS
  <2>5. n - y \in T
    BY <2>4
  <2> QED BY <2>3, <2>5
<1>2. PICK t \in T : \A u \in T : t <= u
  BY <1>1, LeastNumber
<1>3. PICK x \in S : t = n - x
  BY <1>2
<1>4. \A y \in S : x >= y
  <2> TAKE y \in S
  <2>1. n - y \in T
    OBVIOUS
  <2>2. n - x <= n - y
    BY <1>2, <1>3, <2>1
  <2>3. x \in 0 .. n /\ y \in 0 .. n
    OBVIOUS
  <2> QED BY <2>2, <2>3
<1>5. \A y \in S : Max(S) \in S /\ Max(S) >= y
  BY <1>4 DEF Max
<1> QED BY <1>5

-----------------------------------------------------------------------------
(* Multiples of a positive number.                                         *)

\* Different multiples are at least the number apart.
LEMMA MultiplesApart ==
  ASSUME NEW d \in Nat, d > 0, NEW i \in Nat, NEW j \in Nat, i < j
  PROVE  i * d + d <= j * d
<1>1. j = i + 1 + (j - i - 1) /\ j - i - 1 \in Nat
  OBVIOUS
<1>2. j * d = i * d + d + (j - i - 1) * d
  BY <1>1
<1>3. (j - i - 1) * d \in Nat /\ i * d \in Nat
  BY <1>1
<1> QED BY <1>2, <1>3

\* Dividing a multiple gives it back.
LEMMA QuotientOfMultiple ==
  ASSUME NEW d \in Nat, d > 0, NEW i \in Nat
  PROVE  (i * d) \div d = i
<1> DEFINE a == i * d
           q == a \div d
<1>1. a \in Nat
  OBVIOUS
<1>2. q \in Nat /\ q * d \in Nat /\ q * d <= a /\ a < q * d + d
  <2> HIDE DEF a
  <2> QED BY <1>1
<1>3. ~(i < q)
  BY <1>2, MultiplesApart
<1>4. ~(q < i)
  BY <1>2, MultiplesApart
<1> HIDE DEF q
<1>5. q = i
  BY <1>2, <1>3, <1>4
<1> QED BY <1>5 DEF q
=============================================================================
