---------------------------- MODULE NatExtrema ----------------------------
(***************************************************************************)
(* Min and Max of sets of naturals, for the searches of the FTL and of the *)
(* bad-block management.                                                   *)
(***************************************************************************)
EXTENDS Integers, FiniteSetsExt, WellFoundedInduction, TLAPS

\* A nonempty set of naturals has a least element.
LEMMA LeastNatural ==
    ASSUME NEW S \in SUBSET Nat, S # {}
    PROVE  \E m \in S : \A x \in S : m <= x
  <1>1. IsWellFoundedOn(OpToRel(<, Nat), Nat)
    BY NatLessThanWellFounded
  <1>2. PICK m \in S : \A y \in S : ~(<<y, m>> \in OpToRel(<, Nat))
    BY <1>1, WFMin
  <1>3. \A y \in S : ~(y < m)
    BY <1>2 DEF OpToRel
  <1> QED BY <1>3

\* Min and Max pick what they should from a nonempty set of naturals.
LEMMA MinIsLeast ==
    ASSUME NEW S \in SUBSET Nat, S # {}
    PROVE  Min(S) \in S /\ \A x \in S : Min(S) <= x
  BY LeastNatural DEF Min

LEMMA MaxIsGreatest ==
    ASSUME NEW S \in SUBSET Nat, S # {}, \E b \in Nat : \A x \in S : x <= b
    PROVE  Max(S) \in S /\ \A x \in S : x <= Max(S)
  <1>1. PICK b \in Nat : \A x \in S : x <= b
    OBVIOUS
  <1> DEFINE T == {b - x : x \in S}
  <1>2. PICK s \in S : TRUE
    OBVIOUS
  <1>3. T \in SUBSET Nat /\ b - s \in T
    BY <1>1
  <1>4. PICK m \in T : \A y \in T : m <= y
    BY <1>3, LeastNatural
  <1>5. b - m \in S /\ \A x \in S : x <= b - m
    BY <1>4
  <1> QED BY <1>5 DEF Max

\* The same for the sets the code's searches range over.
LEMMA MaxInRange ==
    ASSUME NEW lo \in Nat, NEW hi \in Nat, NEW S \in SUBSET (lo .. hi), S # {}
    PROVE  Max(S) \in S /\ Max(S) \in lo .. hi
  <1>1. S \in SUBSET Nat /\ \A x \in S : x <= hi
    OBVIOUS
  <1>2. Max(S) \in S
    BY <1>1, MaxIsGreatest
  <1> QED BY <1>2

LEMMA MinInRange ==
    ASSUME NEW lo \in Nat, NEW hi \in Nat, NEW S \in SUBSET (lo .. hi), S # {}
    PROVE  Min(S) \in S /\ Min(S) \in lo .. hi
  <1>1. S \in SUBSET Nat
    OBVIOUS
  <1>2. Min(S) \in S
    BY <1>1, MinIsLeast
  <1> QED BY <1>2
=============================================================================
