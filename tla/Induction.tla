------------------------------ MODULE Induction ------------------------------
(***************************************************************************)
(* Induction over the naturals for the proofs of the other modules.  The   *)
(* library's NatInduction takes a predicate as a parameter; stated of a    *)
(* set, the principle needs none.                                          *)
(***************************************************************************)
EXTENDS Naturals, WellFoundedInduction, TLAPS

\* A set of naturals that holds 0, and with a number its successor, holds all:
\* else there is a least one outside it.
LEMMA SetInduction ==
  ASSUME NEW T, 0 \in T, \A n \in Nat : n \in T => n + 1 \in T
  PROVE  \A n \in Nat : n \in T
  <1> DEFINE left == Nat \ T
             less == OpToRel(<, Nat)
  <1> SUFFICES ASSUME left # {} PROVE FALSE
    OBVIOUS
  <1>1. PICK x \in left : \A y \in left : ~(<< y, x >> \in less)
    <2>1. IsWellFoundedOn(less, Nat)
      BY NatLessThanWellFounded
    <2>2. left \subseteq Nat
      OBVIOUS
    <2> HIDE DEF left, less
    <2>3. QED
      BY <2>1, <2>2, WFMin
  <1>2. x \in Nat /\ x \notin T /\ x # 0
    OBVIOUS
  <1>3. x - 1 \in Nat /\ x = (x - 1) + 1 /\ x - 1 < x
    BY <1>2
  <1>4. x - 1 \notin T
    BY <1>2, <1>3
  <1>5. << x - 1, x >> \in less
    <2>1. << x - 1, x >> \in Nat \X Nat
      BY <1>2, <1>3
    <2>2. QED
      BY <1>3, <2>1 DEF OpToRel
  <1>6. QED
    BY <1>1, <1>3, <1>4, <1>5

=============================================================================
