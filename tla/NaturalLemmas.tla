--------------------------- MODULE NaturalLemmas ----------------------------
(***************************************************************************)
(* What several proofs need about numbers.                                 *)
(***************************************************************************)
EXTENDS Integers, WellFoundedInduction, TLAPS

\* What fits is left as it is by a conversion to an unsigned type.
LEMMA SmallRemainder ==
  ASSUME NEW d \in Nat \ {0}, NEW n \in 0..(d - 1)
  PROVE  n % d = n
  OBVIOUS

\* What is negative wraps.
LEMMA NegativeRemainder ==
  ASSUME NEW d \in Nat \ {0}, NEW n \in Int, n < 0, 0 <= n + d
  PROVE  n % d = n + d
  OBVIOUS

\* A non-empty set of naturals has a least element.
LEMMA LeastElement ==
  ASSUME NEW S, S \subseteq Nat, S # {}
  PROVE  \E i \in S : \A j \in S : i <= j
<1> DEFINE R == {p \in Nat \X Nat : p[1] < p[2]}
<1>1. R = OpToRel(<, Nat)
  BY DEF OpToRel
<1>2. IsWellFoundedOn(R, Nat)
  BY <1>1, NatLessThanWellFounded
<1>3. \E i \in S : \A j \in S : ~ (<<j, i>> \in R)
  <2> HIDE DEF R
  <2> QED
    BY <1>2, WFMin
<1>4. PICK i \in S : \A j \in S : ~ (<<j, i>> \in R)
  BY <1>3
<1>5. ASSUME NEW j \in S
      PROVE  i <= j
  <2>1. <<j, i>> \in Nat \X Nat /\ ~ (<<j, i>> \in R)
    BY <1>4
  <2> QED
    BY <2>1
<1> QED
  BY <1>5
=============================================================================
