------------------------------- MODULE Loops -------------------------------
(***************************************************************************)
(* What the proofs about the loops of the client library rest on: natural  *)
(* numbers have least elements, so that what holds at zero and at every    *)
(* successor holds, and a sequence can be put together step by step.       *)
(***************************************************************************)
EXTENDS Integers, Sequences, WellFoundedInduction, SequenceTheorems, TLAPS

(* A set of naturals that is not empty has a least element.                *)
LEMMA NatMin ==
  ASSUME NEW T, T \subseteq Nat, T # {}
  PROVE  \E x \in T : \A y \in T : x <= y
<1> DEFINE R == OpToRel(<, Nat)
<1>1. IsWellFoundedOn(R, Nat)
  BY NatLessThanWellFounded
<1>2. \A x, y \in Nat : <<y, x>> \in R <=> y < x
  BY DEF OpToRel
<1> HIDE DEF R
<1>3. PICK x \in T : \A y \in T : ~(<<y, x>> \in R)
  BY <1>1, WFMin
<1>4. ASSUME NEW y \in T PROVE x <= y
  <2>1. x \in Nat /\ y \in Nat /\ ~(y < x)
    BY <1>2, <1>3
  <2> QED
    BY <2>1
<1> QED
  BY <1>3, <1>4

(* Induction over the natural numbers, for a set.                          *)
LEMMA NatInd ==
  ASSUME NEW S, 0 \in S, \A n \in Nat : n \in S => n + 1 \in S
  PROVE  \A n \in Nat : n \in S
<1> SUFFICES ASSUME NEW m \in Nat, m \notin S PROVE FALSE
  OBVIOUS
<1> DEFINE T == {n \in Nat : n \notin S}
<1>1. PICK x \in T : \A y \in T : x <= y
  BY NatMin
<1>2. x # 0 /\ x \in Nat /\ x \notin S
  BY <1>1
<1>3. x - 1 \in Nat /\ x - 1 \notin T
  BY <1>1, <1>2
<1>4. x - 1 \in S /\ (x - 1) + 1 = x
  BY <1>2, <1>3
<1> QED
  BY <1>2, <1>3, <1>4

(* f joins b and the first n sequences of e, one after the other.          *)
Joins(f, n, b, e) ==
  f = [i \in 0..n |-> IF i = 0 THEN b ELSE f[i - 1] \o e[i]]

(* A sequence can be put together from a first one and n more.             *)
LEMMA Joinable ==
  ASSUME NEW n \in Nat, NEW b, NEW e
  PROVE  \E f : Joins(f, n, b, e)
<1> DEFINE Is(f, k) == Joins(f, k, b, e)
           S == {k \in Nat : \E f : Is(f, k)}
<1>1. 0 \in S
  <2>1. Is([i \in 0..0 |-> b], 0)
    BY DEF Joins
  <2> QED
    BY <2>1
<1>2. ASSUME NEW k \in Nat, k \in S PROVE k + 1 \in S
  <2>1. PICK f : Is(f, k)
    BY <1>2
  <2> DEFINE g == [i \in 0..(k + 1) |-> IF i = k + 1 THEN f[k] \o e[k + 1] ELSE f[i]]
  <2>2. ASSUME NEW i \in 0..(k + 1)
        PROVE  g[i] = IF i = 0 THEN b ELSE g[i - 1] \o e[i]
    <3>1. CASE i = 0
      BY <2>1, <3>1 DEF Joins
    <3>2. CASE i # 0 /\ i # k + 1
      BY <2>1, <3>2 DEF Joins
    <3>3. CASE i = k + 1
      <4>1. g[i - 1] = f[k] /\ i # 0
        BY <3>3
      <4> QED
        BY <3>3, <4>1
    <3> QED
      BY <3>1, <3>2, <3>3
  <2>3. Is(g, k + 1)
    BY <2>2 DEF Joins
  <2> HIDE DEF g, Is
  <2> QED
    BY <2>3
<1> HIDE DEF Is
<1>3. n \in S
  <2> HIDE DEF S
  <2> QED
    BY <1>1, <1>2, NatInd
<1> QED
  BY <1>3 DEF Is
=============================================================================
