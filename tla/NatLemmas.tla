----------------------------- MODULE NatLemmas -----------------------------
(***************************************************************************)
(* Facts about the natural numbers that the proofs of several components  *)
(* rest on.                                                               *)
(***************************************************************************)
EXTENDS Naturals, WellFoundedInduction, TLAPS

(* A non-empty set of naturals has a least element.  It is what makes a   *)
(* CHOOSE of the first index that satisfies a test name an index: the     *)
(* search loops of sane.c stop at the first match (804-809, 364-371,      *)
(* 492-514).                                                              *)
LEMMA NatSubsetHasMin ==
    ASSUME NEW T \in SUBSET Nat, T # {}
    PROVE  \E x \in T : \A y \in T : x =< y
<1>1. PICK x \in T : \A y \in T : ~(<<y, x>> \in OpToRel(<, Nat))
    BY NatLessThanWellFounded, WFMin
<1>2. ASSUME NEW y \in T PROVE x =< y
  <2>1. ~(<<y, x>> \in OpToRel(<, Nat))
      BY <1>1
  <2>2. ~(y < x)
      BY <2>1, Zenon DEF OpToRel
  <2>3. QED
      BY <2>2
<1>3. QED
    BY <1>2
=============================================================================
