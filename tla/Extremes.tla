------------------------------- MODULE Extremes -------------------------------
(* Extreme elements of sets of naturals: what types a CHOOSE of a largest one. *)
EXTENDS Integers, WellFoundedInduction, TLAPS

\* A nonempty set of naturals has a least element.
LEMMA LeastExists ==
  ASSUME NEW T, T \subseteq Nat, T # {}
  PROVE  \E x \in T : \A y \in T : x <= y
<1> DEFINE less == {p \in Nat \X Nat : p[1] < p[2]}
<1>1. IsWellFoundedOn(less, Nat)
  <2>1. OpToRel(<, Nat) = less
    BY DEF OpToRel, less
  <2> QED
    BY <2>1, NatLessThanWellFounded
<1>2. \E x \in T : \A y \in T : <<y, x>> \notin less
  <2> HIDE DEF less
  <2> QED
    BY <1>1, WFMin
<1>3. ASSUME NEW x \in Nat, NEW y \in Nat, <<y, x>> \notin less PROVE x <= y
  <2>1. <<y, x>> \in Nat \X Nat /\ <<y, x>>[1] = y /\ <<y, x>>[2] = x
    OBVIOUS
  <2>2. ~(y < x)
    BY <1>3, <2>1 DEF less
  <2> QED
    BY <2>2
<1> HIDE DEF less
<1> QED
  BY <1>2, <1>3

\* A nonempty bounded one has a largest: the least distance from the bound.
LEMMA BoundedLargest ==
  ASSUME NEW B \in Nat, NEW T, T \subseteq 0..B, T # {}
  PROVE  \E x \in T : \A y \in T : y <= x
<1> DEFINE S == {B - x : x \in T}
<1>1. PICK m \in S : \A y \in S : m <= y
  <2>1. S \subseteq Nat
    <3>1. \A x \in T : B - x \in Nat
      OBVIOUS
    <3> QED
      BY <3>1
  <2>2. PICK t \in T : TRUE
    OBVIOUS
  <2>3. S # {}
    BY <2>2
  <2> HIDE DEF S
  <2> QED
    BY <2>1, <2>3, LeastExists
<1>2. PICK x \in T : m = B - x
  OBVIOUS
<1>3. ASSUME NEW y \in T PROVE y <= x
  <2>1. B - y \in S
    OBVIOUS
  <2>2. m <= B - y
    BY <1>1, <2>1
  <2> QED
    BY <1>2, <2>2
<1> QED
  BY <1>3
==============================================================================
