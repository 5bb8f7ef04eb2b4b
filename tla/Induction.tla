------------------------------ MODULE Induction ------------------------------
(***************************************************************************)
(* Induction over the naturals for sets instead of predicates, so that the *)
(* provers can use it: what holds of n is membership in a set.             *)
(***************************************************************************)
EXTENDS Naturals, WellFoundedInduction, TLAPS

\* Every nonempty set of naturals has a least one.
LEMMA LeastNatural ==
  ASSUME NEW T, T \subseteq Nat, T # {}
  PROVE  \E n \in T : \A m \in T : n <= m
<1> DEFINE R == OpToRel(<, Nat)
<1>1. IsWellFoundedOn(R, Nat)
  BY NatLessThanWellFounded
<1>2. R = { p \in Nat \X Nat : p[1] < p[2] }
  BY DEF OpToRel
<1> HIDE DEF R
<1>3. PICK n \in T : \A m \in T : <<m, n>> \notin R
  BY <1>1, WFMin
<1>4. \A m \in T : n <= m
  <2> SUFFICES ASSUME NEW m \in T PROVE n <= m
    OBVIOUS
  <2>1. <<m, n>> \in Nat \X Nat /\ <<m, n>> \notin R
    BY <1>3
  <2>2. ~(m < n)
    BY <1>2, <2>1
  <2> QED  BY <2>1, <2>2
<1> QED  BY <1>4

\* A set that has 0, and n + 1 with every n, has every natural.
LEMMA InductionOverNat ==
  ASSUME NEW S, 0 \in S, \A n \in Nat : n \in S => n + 1 \in S
  PROVE  Nat \subseteq S
<1> DEFINE T == Nat \ S
<1> SUFFICES ASSUME T # {} PROVE FALSE
  OBVIOUS
<1>1. PICK n \in T : \A m \in T : n <= m
  <2> HIDE DEF T
  <2>1. T \subseteq Nat
    BY DEF T
  <2> QED  BY <2>1, LeastNatural
<1>2. n \in Nat /\ n # 0 /\ n - 1 \in Nat /\ n - 1 \notin S
  BY <1>1
<1> QED  BY <1>1, <1>2

\* A function defined from the left: its first value, and each one from the
\* value before it.
Computes(f, n, S, z, g) ==
  f \in [0..n -> S] /\ f[0] = z /\ \A i \in 1..n : f[i] = g[i][f[i - 1]]

LEMMA PrefixFunction ==
  ASSUME NEW n \in Nat, NEW S, NEW z \in S, NEW g \in [1..n -> [S -> S]]
  PROVE  \E f : Computes(f, n, S, z, g)
<1> DEFINE M == { m \in Nat : m <= n => \E f : Computes(f, m, S, z, g) }
<1>1. 0 \in M
  <2> DEFINE f == [i \in 0..0 |-> z]
  <2>1. Computes(f, 0, S, z, g)
    BY DEF Computes
  <2> QED  BY <2>1
<1>2. ASSUME NEW m \in Nat, m \in M PROVE m + 1 \in M
  <2> SUFFICES ASSUME m + 1 <= n PROVE \E f : Computes(f, m + 1, S, z, g)
    OBVIOUS
  <2>1. PICK f : Computes(f, m, S, z, g)
    BY <1>2
  <2> DEFINE h == [i \in 0..(m + 1) |-> IF i = m + 1 THEN g[m + 1][f[m]] ELSE f[i]]
  <2>2. g[m + 1][f[m]] \in S
    BY <2>1 DEF Computes
  <2>3. h \in [0..(m + 1) -> S] /\ h[0] = z
    BY <2>1, <2>2 DEF Computes
  <2>4. ASSUME NEW i \in 1..(m + 1) PROVE h[i] = g[i][h[i - 1]]
    <3>1. h[i - 1] = f[i - 1]
      OBVIOUS
    <3>2. i = m + 1 => i - 1 = m
      OBVIOUS
    <3>3. i # m + 1 => i \in 1..m
      OBVIOUS
    <3>4. h[i] = IF i = m + 1 THEN g[m + 1][f[m]] ELSE f[i]
      OBVIOUS
    <3> HIDE DEF h
    <3> QED  BY <2>1, <3>1, <3>2, <3>3, <3>4 DEF Computes
  <2> HIDE DEF h
  <2> QED  BY <2>3, <2>4 DEF Computes
<1> HIDE DEF M
<1>3. Nat \subseteq M
  BY <1>1, <1>2, InductionOverNat
<1> QED  BY <1>3 DEF M
===============================================================================
