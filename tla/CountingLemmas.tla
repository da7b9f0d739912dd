-------------------------- MODULE CountingLemmas --------------------------
(***************************************************************************)
(* Induction over the natural numbers, stated on sets: the provers can     *)
(* instantiate a set where they cannot instantiate a predicate.            *)
(***************************************************************************)
EXTENDS Integers, WellFoundedInduction, TLAPS

\* Every non-empty set of natural numbers has a least element: the
\* natural numbers are well founded.
LEMMA LeastNatural ==
  ASSUME NEW T \in SUBSET Nat, T # {}
  PROVE  \E n \in T : \A m \in T : n <= m
  <1> DEFINE R == {p \in Nat \X Nat : p[1] < p[2]}
  <1>1. IsWellFoundedOn(R, Nat)
    BY NatLessThanWellFounded, Zenon DEF OpToRel
  <1>2. \A m, n \in Nat : m < n => <<m, n>> \in R
    OBVIOUS
  <1> HIDE DEF R
  <1>3. PICK n \in T : \A m \in T : ~(<<m, n>> \in R)
    BY <1>1, WFMin
  <1>4. \A m \in T : ~(m < n)
    BY <1>2, <1>3
  <1> QED
    BY <1>3, <1>4

\* Induction up to n, on a set.
LEMMA CountingUp ==
  ASSUME NEW n \in Nat, NEW T \in SUBSET (0..n), 0 \in T,
         \A i \in 1..n : i - 1 \in T => i \in T
  PROVE  T = 0..n
  <1>1. SUFFICES ASSUME (0..n) \ T # {} PROVE FALSE
    OBVIOUS
  <1>2. PICK i \in (0..n) \ T : \A m \in (0..n) \ T : i <= m
    <2>1. (0..n) \ T \in SUBSET Nat
      OBVIOUS
    <2> QED
      BY <1>1, <2>1, LeastNatural
  <1>3. i # 0 /\ i \in 1..n /\ i - 1 \in 0..n
    BY <1>2
  <1>4. i - 1 \in T
    BY <1>2, <1>3
  <1> QED
    BY <1>2, <1>3, <1>4
=============================================================================
