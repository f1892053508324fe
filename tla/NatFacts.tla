------------------------------- MODULE NatFacts -------------------------------
(* Facts about natural numbers that the proofs of several components use.    *)
EXTENDS Integers, WellFoundedInduction, TLAPS

(* Every non-empty set of naturals has a least element. *)
LEMMA LeastNat ==
  ASSUME NEW T \in SUBSET Nat, T # {}
  PROVE  \E x \in T : \A y \in T : x <= y
<1> DEFINE R == {ss \in Nat \X Nat : ss[1] < ss[2]}
<1>1. IsWellFoundedOn(R, Nat)
  BY NatLessThanWellFounded DEF OpToRel
<1>2. PICK x \in T : \A y \in T : ~(<<y, x>> \in R)
  <2> HIDE DEF R
  <2> QED BY ZenonT(30), <1>1, WFMin
<1>3. ASSUME NEW y \in T PROVE x <= y
  <2>1. ~(<<y, x>> \in R)
    BY <1>2
  <2>2. x \in Nat /\ y \in Nat
    OBVIOUS
  <2>3. <<y, x>> \in Nat \X Nat
    BY <2>2
  <2>4. ~(y < x)
    BY <2>1, <2>2, <2>3
  <2> QED BY <2>4, <2>2
<1> QED BY <1>3

(* An equal share is at most the whole. *)
LEMMA ShareFits ==
  ASSUME NEW a \in Nat, NEW k \in Nat \ {0}
  PROVE  a \div k \in Nat /\ a \div k <= a
OBVIOUS

(* The shares together are at most the whole. *)
LEMMA ShareTotal ==
  ASSUME NEW a \in Nat, NEW k \in Nat \ {0}
  PROVE  (a \div k) * k <= a
BY SMTT(30)

(* An equal share is the largest that all can have. *)
LEMMA ShareMost ==
  ASSUME NEW a \in Nat, NEW k \in Nat \ {0}, NEW b \in Nat, b * k <= a
  PROVE  b <= a \div k
BY SMTT(30)

(* One that used no more than its share leaves the others theirs. *)
LEMMA ShareLeft ==
  ASSUME NEW end \in Int, NEW from \in Int, NEW t \in Int, NEW k \in Nat, NEW b \in Nat,
         b * (k + 1) <= end - from, t <= from + b
  PROVE  b * k <= end - t
<1>1. b * (k + 1) = b * k + b /\ b * k \in Nat
  OBVIOUS
<1> DEFINE p == b * k
           q == b * (k + 1)
<1>2. q = p + b /\ p \in Nat /\ q <= end - from
  BY <1>1
<1> HIDE DEF p, q
<1>3. p <= end - t
  BY <1>2
<1> QED BY <1>3 DEF p
==============================================================================
