------------------------------- MODULE Minimum -------------------------------
(* The least element of a set of naturals, as FiniteSetsExt defines it.    *)
EXTENDS Naturals, FiniteSetsExt, WellFoundedInduction, TLAPS

(* A nonempty set of naturals has a least element, and Min is it.          *)
LEMMA MinProperty ==
  ASSUME NEW S \in SUBSET Nat, S # {}
  PROVE  /\ Min(S) \in S
         /\ Min(S) \in Nat
         /\ \A x \in S : Min(S) <= x
<1>. DEFINE R == OpToRel(<, Nat)
<1>1. IsWellFoundedOn(R, Nat)
  BY NatLessThanWellFounded
<1>2. \A y, z \in Nat : y < z => <<y, z>> \in R
  BY DEF OpToRel
<1>. HIDE DEF R
<1>3. PICK x \in S : \A y \in S : ~ (<<y, x>> \in R)
  BY <1>1, WFMin
<1>4. ASSUME NEW y \in S
      PROVE  x <= y
  <2>1. x \in Nat /\ y \in Nat
    OBVIOUS
  <2>2. ~ (y < x)
    BY <1>2, <1>3, <2>1
  <2>. QED
    BY <2>1, <2>2
<1>. QED
  BY <1>4 DEF Min

(* The least of some positions of a sequence is one of them.               *)
LEMMA MinPosition ==
  ASSUME NEW n \in Nat, NEW S \in SUBSET (1 .. n), S # {}
  PROVE  Min(S) \in 1 .. n
<1>1. S \in SUBSET Nat
  OBVIOUS
<1>2. Min(S) \in S
  BY <1>1, MinProperty
<1>. QED
  BY <1>2
=============================================================================
