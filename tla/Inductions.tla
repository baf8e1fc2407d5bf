----------------------------- MODULE Inductions -----------------------------
(***************************************************************************)
(* Induction over the natural numbers for sets of them, and the existence of *)
(* a function defined by recursion on its argument, both without an operator *)
(* for a parameter.  A recursive definition f[n \in S] == e names a function *)
(* f with f = [n \in S |-> e] if there is one; Recursion says that there is.  *)
(***************************************************************************)
EXTENDS WellFoundedInduction, TLAPS

LEMMA LeastNumber ==
  ASSUME NEW S \in SUBSET Nat, S # {}
  PROVE  \E x \in S : \A y \in S : x <= y
<1> DEFINE R == OpToRel(<, Nat)
<1>1. IsWellFoundedOn(R, Nat)
  BY NatLessThanWellFounded
<1>2. \A x, y \in Nat : <<y, x>> \in R <=> y < x
  BY DEF OpToRel
<1> HIDE DEF R
<1>3. PICK x \in S : \A y \in S : ~(<<y, x>> \in R)
  BY <1>1, WFMin
<1>4. \A y \in S : ~(y < x)
  BY <1>2, <1>3
<1> QED BY <1>4

LEMMA SetInduction ==
  ASSUME NEW S, 0 \in S, \A n \in Nat : n \in S => n + 1 \in S
  PROVE  Nat \subseteq S
<1> SUFFICES ASSUME Nat \ S # {} PROVE FALSE
  OBVIOUS
<1>1. PICK x \in Nat \ S : \A y \in Nat \ S : x <= y
  BY LeastNumber
<1>2. x # 0 /\ x - 1 \in Nat
  BY <1>1
<1>3. x - 1 \in S
  BY <1>1, <1>2
<1> QED BY <1>1, <1>2, <1>3

\* Induction up to m.
LEMMA InductionUpto ==
  ASSUME NEW S, NEW m \in Nat, 0 \in S, \A n \in 1..m : n - 1 \in S => n \in S
  PROVE  0..m \subseteq S
<1> DEFINE T == {n \in Nat : n <= m => n \in S}
<1>1. 0 \in T
  OBVIOUS
<1>2. ASSUME NEW n \in Nat, n \in T PROVE n + 1 \in T
  <2> SUFFICES ASSUME n + 1 <= m PROVE n + 1 \in S
    OBVIOUS
  <2>1. n \in S /\ n + 1 \in 1..m /\ (n + 1) - 1 = n
    BY <1>2
  <2> QED BY <2>1
<1>3. Nat \subseteq T
  <2> HIDE DEF T
  <2> QED BY <1>1, <1>2, SetInduction
<1> QED BY <1>3

-----------------------------------------------------------------------------
\* What makes f[n] of n and f[n - 1], and what that makes of a.
Steps(m, S) == [(1..m) \X S -> S]
Follows(m, G, a, f) == f[0] = a /\ \A n \in 1..m : f[n] = G[<<n, f[n - 1]>>]

\* Each step starting from a given value yields a function on 0..m.
LEMMA Recursion ==
  ASSUME NEW S, NEW a \in S, NEW m \in Nat, NEW G \in Steps(m, S)
  PROVE  \E f \in [0..m -> S] : Follows(m, G, a, f)
<1> DEFINE Made == {n \in 0..m : \E f \in [0..n -> S] : Follows(n, G, a, f)}
<1>1. 0 \in Made
  <2>1. [i \in 0..0 |-> a] \in [0..0 -> S] /\ Follows(0, G, a, [i \in 0..0 |-> a])
    BY DEF Follows
  <2> QED BY <2>1
<1>2. ASSUME NEW n \in 1..m, n - 1 \in Made PROVE n \in Made
  <2>1. PICK g \in [0..(n - 1) -> S] : Follows(n - 1, G, a, g)
    BY <1>2
  <2> DEFINE h == [i \in 0..n |-> IF i = n THEN G[<<n, g[n - 1]>>] ELSE g[i]]
  <2>2. /\ n - 1 \in 0..(n - 1) /\ 0 \in 0..(n - 1) /\ n \in 1..m
        /\ \A i \in 0..n : i # n => i \in 0..(n - 1)
        /\ \A i \in 1..n : i - 1 \in 0..(n - 1) /\ i - 1 # n /\ i - 1 \in 0..n /\ i \in 0..n
        /\ \A i \in 1..n : i # n => i \in 1..(n - 1)
    OBVIOUS
  <2>3. h \in [0..n -> S]
    BY <2>1, <2>2 DEF Steps
  <2>4. h[0] = a
    BY <2>1, <2>2 DEF Follows
  <2>5. ASSUME NEW i \in 1..n PROVE h[i] = G[<<i, h[i - 1]>>]
    <3>1. h[i - 1] = g[i - 1]
      BY <2>2
    <3>2. CASE i = n
      BY <2>2, <3>1, <3>2
    <3>3. CASE i # n
      <4>1. h[i] = g[i] /\ i \in 1..(n - 1)
        BY <2>2, <3>3
      <4> HIDE DEF h
      <4> QED BY <2>1, <3>1, <4>1 DEF Follows
    <3> QED BY <3>2, <3>3
  <2> HIDE DEF h
  <2>6. Follows(n, G, a, h)
    BY <2>4, <2>5 DEF Follows
  <2> QED BY <2>3, <2>6
<1>3. 0..m \subseteq Made
  <2> HIDE DEF Made
  <2> QED BY <1>1, <1>2, InductionUpto
<1>4. m \in Made
  BY <1>3
<1> QED BY <1>4
=============================================================================
