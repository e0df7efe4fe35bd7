--------------------------- MODULE NaturalLemmas ----------------------------
(* Induction over the natural numbers, and what it gives for the maximum and *)
(* the minimum of a set.  The theorems of NaturalsInduction take an operator *)
(* as a parameter; these take a set, and follow from the fact that the       *)
(* finite sets of numbers have no infinite descent.                          *)
EXTENDS FiniteSetTheorems, FiniteSetsExt, TLAPS

\* A set of natural numbers that is not empty has a least one.
LEMMA LeastNatural ==
    ASSUME NEW T \in SUBSET Nat, T # {}
    PROVE  \E x \in T : \A y \in T : x <= y
  <1> DEFINE Upto(n) == 0 .. n
             F == {Upto(n) : n \in T}
  <1>1. IsWellFoundedOn(StrictSubsetOrdering(Nat), FiniteSubsetsOf(Nat))
    BY FS_StrictSubsetOrderingWellFounded
  <1>2. F \subseteq FiniteSubsetsOf(Nat) /\ F # {}
    <2>1. ASSUME NEW n \in T PROVE Upto(n) \in FiniteSubsetsOf(Nat)
      <3>1. IsFiniteSet(Upto(n)) /\ Upto(n) \subseteq Nat
        BY FS_Interval
      <3> QED
        BY <3>1 DEF FiniteSubsetsOf
    <2> HIDE DEF Upto
    <2> QED
      BY <2>1
  <1>3. PICK X \in F : \A Y \in F : ~(<<Y, X>> \in StrictSubsetOrdering(Nat))
    <2> HIDE DEF F
    <2> QED
      BY <1>1, <1>2, WFMin
  <1>4. PICK x \in T : X = Upto(x)
    OBVIOUS
  <1>5. ASSUME NEW y \in T, y < x PROVE FALSE
    <2>1. <<Upto(y), Upto(x)>> \notin StrictSubsetOrdering(Nat)
      BY <1>3, <1>4
    <2>2. /\ Upto(y) \subseteq Upto(x) /\ x \in Upto(x) /\ x \notin Upto(y)
          /\ Upto(x) \subseteq Nat
      BY <1>5
    <2> QED
      BY <2>1, <2>2 DEF StrictSubsetOrdering
  <1> QED
    BY <1>5

\* A set that has zero, and the successor of each of its numbers, has them all.
LEMMA SetInduction ==
    ASSUME NEW S, 0 \in S, \A n \in Nat \cap S : n + 1 \in S
    PROVE  Nat \subseteq S
  <1> SUFFICES ASSUME Nat \ S # {} PROVE FALSE
    OBVIOUS
  <1>1. PICK x \in Nat \ S : \A y \in Nat \ S : x <= y
    BY LeastNatural
  <1>2. x - 1 \in Nat \cap S
    BY <1>1
  <1> QED
    BY <1>1, <1>2

\* A member that no other exceeds is the maximum.
LEMMA MaxIs ==
    ASSUME NEW S \in SUBSET Int, NEW m \in S, \A x \in S : m >= x
    PROVE  Max(S) = m
  <1>1. Max(S) \in S /\ \A y \in S : Max(S) >= y
    BY DEF Max
  <1>2. Max(S) >= m /\ m >= Max(S) /\ Max(S) \in Int /\ m \in Int
    BY <1>1
  <1> QED
    BY <1>2

\* A member that exceeds no other is the minimum.
LEMMA MinIs ==
    ASSUME NEW S \in SUBSET Int, NEW m \in S, \A x \in S : m <= x
    PROVE  Min(S) = m
  <1>1. Min(S) \in S /\ \A y \in S : Min(S) <= y
    BY DEF Min
  <1>2. Min(S) <= m /\ m <= Min(S) /\ Min(S) \in Int /\ m \in Int
    BY <1>1
  <1> QED
    BY <1>2

\* Of natural numbers, if there are any, there is a minimum.
LEMMA MinExists ==
    ASSUME NEW S \in SUBSET Nat, S # {}
    PROVE  Min(S) \in S /\ \A x \in S : Min(S) <= x
  <1>1. \E x \in S : \A y \in S : x <= y
    BY LeastNatural
  <1> QED
    BY <1>1 DEF Min
=============================================================================
