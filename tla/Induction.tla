----------------------------- MODULE Induction -----------------------------
(***************************************************************************)
(* Induction over the natural numbers, stated of sets: that needs no       *)
(* operator as a parameter.  It follows from the pigeonhole principle.     *)
(***************************************************************************)
EXTENDS Integers, FiniteSets, FiniteSetTheorems, TLAPS

\* If n were not in S then adding one would map the members of S below n to
\* themselves without 0, one to one.
LEMMA SetInduction ==
  ASSUME NEW S, 0 \in S, \A n \in Nat : n \in S => n + 1 \in S
  PROVE  Nat \subseteq S
<1>1. SUFFICES ASSUME NEW n \in Nat, n \notin S PROVE FALSE
  OBVIOUS
<1> DEFINE A == {m \in 0 .. n : m \in S}
           f == [m \in A |-> m + 1]
<1>2. IsFiniteSet(A) /\ 0 \in A
  <2>1. IsFiniteSet(0 .. n)
    BY FS_Interval
  <2>2. A \subseteq 0 .. n /\ 0 \in A
    OBVIOUS
  <2> QED
    BY <2>1, <2>2, FS_Subset
<1>3. /\ IsFiniteSet(A \ {0})
      /\ Cardinality(A \ {0}) = Cardinality(A) - 1
      /\ Cardinality(A) \in Nat
  BY <1>2, FS_RemoveElement, FS_CardinalityType
<1>4. f \in [A -> A \ {0}]
  BY <1>1
<1>5. PICK x \in A, y \in A : x # y /\ f[x] = f[y]
  <2>1. Cardinality(A \ {0}) < Cardinality(A)
    BY <1>3
  <2> HIDE DEF f, A
  <2> QED
    BY <1>2, <1>3, <1>4, <2>1, FS_PigeonHole
<1> QED
  BY <1>5

\* A set of natural numbers with a member has a least one.
LEMMA LeastNumber ==
  ASSUME NEW S \in SUBSET Nat, S # {}
  PROVE  \E n \in S : \A m \in S : n <= m
<1>1. SUFFICES ASSUME \A n \in S : \E m \in S : m < n PROVE FALSE
  OBVIOUS
<1> DEFINE Below == {n \in Nat : \A m \in S : n <= m}
<1>2. 0 \in Below
  OBVIOUS
<1>3. \A n \in Nat : n \in Below => n + 1 \in Below
  <2> SUFFICES ASSUME NEW n \in Below PROVE n + 1 \in Below
    OBVIOUS
  <2>1. n \notin S
    BY <1>1
  <2> QED
    BY <2>1
<1>4. Nat \subseteq Below
  <2> HIDE DEF Below
  <2> QED
    BY <1>2, <1>3, SetInduction
<1>5. PICK n \in S : TRUE
  OBVIOUS
<1>6. n \in Nat /\ n + 1 \in Below
  BY <1>4, <1>5
<1> QED
  BY <1>5, <1>6

\* The same up to a number
LEMMA UpTo ==
  ASSUME NEW n \in Nat, NEW S, 0 \in S, \A i \in 1 .. n : i - 1 \in S => i \in S
  PROVE  0 .. n \subseteq S
<1> DEFINE R == {i \in Nat : i <= n => i \in S}
<1>1. 0 \in R
  OBVIOUS
<1>2. \A i \in Nat : i \in R => i + 1 \in R
  <2> SUFFICES ASSUME NEW i \in R, i + 1 <= n PROVE i + 1 \in S
    OBVIOUS
  <2>1. i \in S /\ i + 1 \in 1 .. n /\ (i + 1) - 1 = i
    OBVIOUS
  <2> QED
    BY <2>1
<1>3. Nat \subseteq R
  <2> HIDE DEF R
  <2> QED
    BY <1>1, <1>2, SetInduction
<1> QED
  BY <1>3

\* g begins with b and goes on as T says, n times.
Follows(g, b, T, n) == g[0] = b /\ \A i \in 1 .. n : g[i] = T[i][g[i - 1]]

\* There is such a function.
LEMMA Recursion ==
  ASSUME NEW V, NEW b \in V, NEW T \in [Nat -> [V -> V]], NEW n \in Nat
  PROVE  \E g \in [0 .. n -> V] : Follows(g, b, T, n)
<1> USE DEF Follows
<1> DEFINE Ran(k, g) == Follows(g, b, T, k)
           S == {k \in Nat : \E g \in [0 .. k -> V] : Ran(k, g)}
<1>1. 0 \in S
  <2> DEFINE g == [i \in 0 .. 0 |-> b]
  <2>1. g \in [0 .. 0 -> V] /\ Ran(0, g)
    OBVIOUS
  <2> QED
    BY <2>1
<1>2. \A k \in Nat : k \in S => k + 1 \in S
  <2> SUFFICES ASSUME NEW k \in Nat, k \in S PROVE k + 1 \in S
    OBVIOUS
  <2> PICK g \in [0 .. k -> V] : Ran(k, g)
    OBVIOUS
  <2> DEFINE h == [i \in 0 .. k + 1 |-> IF i <= k THEN g[i] ELSE T[k + 1][g[k]]]
  <2>1. h \in [0 .. k + 1 -> V]
    OBVIOUS
  <2>2. h[0] = b
    OBVIOUS
  <2>3. ASSUME NEW i \in 1 .. k + 1 PROVE h[i] = T[i][h[i - 1]]
    <3>1. CASE i <= k
      <4>1. h[i] = g[i] /\ h[i - 1] = g[i - 1] /\ i \in 1 .. k
        BY <3>1
      <4> QED
        BY <4>1
    <3>2. CASE i = k + 1
      <4>1. h[i] = T[k + 1][g[k]] /\ h[i - 1] = g[k] /\ i - 1 = k
        BY <3>2
      <4> QED
        BY <3>2, <4>1
    <3> QED
      BY <3>1, <3>2
  <2>4. \E r \in [0 .. k + 1 -> V] : Ran(k + 1, r)
    <3> HIDE DEF h
    <3> QED
      BY <2>1, <2>2, <2>3
  <2> HIDE DEF Ran
  <2> QED
    BY <2>4
<1>3. Nat \subseteq S
  <2> HIDE DEF S
  <2> QED
    BY <1>1, <1>2, SetInduction
<1> QED
  BY <1>3

=============================================================================
