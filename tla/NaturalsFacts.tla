--------------------------- MODULE NaturalsFacts ---------------------------
(***************************************************************************)
(* Induction over the natural numbers as statements about sets, which need *)
(* no operator parameter: they follow from the theorem of the library that *)
(* the finite sets are well founded under inclusion.                       *)
(***************************************************************************)
EXTENDS Integers, FiniteSets, FiniteSetTheorems, TLAPS

\* Every set of natural numbers with an element has a least one.
THEOREM LeastNumber ==
    ASSUME NEW T, T \subseteq Nat, T # {}
    PROVE  \E x \in T : \A y \in T : x <= y
<1> DEFINE Family == {0..n : n \in T}
           Order  == StrictSubsetOrdering(Nat)
           Finite == FiniteSubsetsOf(Nat)
<1>1. IsWellFoundedOn(Order, Finite)
  BY FS_StrictSubsetOrderingWellFounded
<1>2. Family \subseteq Finite
  <2>1. ASSUME NEW n \in T PROVE 0..n \in SUBSET Nat /\ IsFiniteSet(0..n)
    BY FS_Interval
  <2> QED BY <2>1 DEF FiniteSubsetsOf
<1>3. Family # {}
  OBVIOUS
<1> HIDE DEF Family, Order, Finite
<1>4. PICK least \in Family : \A other \in Family : <<other, least>> \notin Order
  BY <1>1, <1>2, <1>3, WFMin
<1> USE DEF Family
<1>5. PICK x \in T : least = 0..x
  BY <1>4
<1>6. ASSUME NEW y \in T, y < x PROVE FALSE
  <2>1. 0..y \in Family
    OBVIOUS
  <2>2. 0..y \subseteq 0..x /\ x \notin 0..y /\ x \in 0..x
    BY <1>6
  <2>3. 0..y # 0..x
    BY <2>2
  <2>4. 0..y \in SUBSET Nat /\ 0..x \in SUBSET Nat
    OBVIOUS
  <2>5. <<0..y, 0..x>> \in Order
    BY <2>2, <2>3, <2>4 DEF Order, StrictSubsetOrdering
  <2> QED BY <1>4, <1>5, <2>1, <2>5
<1> QED BY <1>6

\* A set that holds zero, and with a number its successor, holds every number.
THEOREM InductionOnSet ==
    ASSUME NEW S, 0 \in S, \A n \in Nat : n \in S => n + 1 \in S
    PROVE  Nat \subseteq S
<1> SUFFICES ASSUME Nat \ S # {} PROVE FALSE
  OBVIOUS
<1>1. PICK x \in Nat \ S : \A y \in Nat \ S : x <= y
  BY LeastNumber
<1>2. x # 0 /\ x - 1 \in Nat
  BY <1>1
<1>3. x - 1 \in S
  BY <1>1, <1>2
<1> QED BY <1>1, <1>2, <1>3

\* Every set of numbers up to a bound with an element has a greatest one.
THEOREM GreatestNumber ==
    ASSUME NEW bound \in Nat, NEW T, T \subseteq 0..bound, T # {}
    PROVE  \E x \in T : \A y \in T : y <= x
<1> DEFINE Mirror == {bound - x : x \in T}
<1>1. Mirror \subseteq Nat /\ Mirror # {}
  <2>1. ASSUME NEW x \in T PROVE bound - x \in Nat
    <3>1. x \in 0..bound
      OBVIOUS
    <3> QED BY <3>1
  <2> QED BY <2>1
<1>2. PICK m \in Mirror : \A y \in Mirror : m <= y
  BY <1>1, LeastNumber
<1>3. PICK x \in T : m = bound - x
  BY <1>2
<1>4. ASSUME NEW y \in T PROVE y <= x
  <2>1. bound - y \in Mirror
    OBVIOUS
  <2>2. bound - x <= bound - y
    BY <1>2, <1>3, <2>1
  <2>3. x \in 0..bound /\ y \in 0..bound
    OBVIOUS
  <2> QED BY <2>2, <2>3
<1> QED BY <1>4
=============================================================================
