--------------------------- MODULE RecursionLemmas ---------------------------
(***************************************************************************)
(* Induction and recursion over natural numbers, stated with sets and      *)
(* functions in place of operators.  What the models say by recursion (the *)
(* loops of handlers, distances in the topology) is a function whose value *)
(* at n is made of its value at n - 1.                                     *)
(***************************************************************************)
EXTENDS Integers, FiniteSetTheorems, TLAPS

\* A nonempty set of natural numbers has a least element: the numbers below all
\* of it would otherwise be a finite set that is mapped into itself without 0.
LEMMA LeastNumber ==
    ASSUME NEW T \in SUBSET Nat, NEW t \in T
    PROVE  \E n \in T : \A m \in T : n <= m
<1> DEFINE below == {k \in Nat : \A m \in T : k < m}
           next  == [k \in below |-> k + 1]
<1> SUFFICES ASSUME \A n \in T : \E m \in T : m < n PROVE FALSE
  OBVIOUS
<1>2. 0 \in below /\ below \in SUBSET (0..t)
  OBVIOUS
<1>3. ASSUME NEW k \in below PROVE k + 1 \in below \ {0}
  OBVIOUS
<1>4. next \in Injection(below, below \ {0})
  BY <1>3 DEF Injection, IsInjective
<1> HIDE DEF below, next
<1>5. IsFiniteSet(below)
  <2>1. IsFiniteSet(0..t)
    BY FS_Interval
  <2> QED BY <1>2, <2>1, FS_Subset
<1>6. /\ IsFiniteSet(below \ {0}) /\ Cardinality(below \ {0}) = Cardinality(below) - 1
      /\ Cardinality(below) \in Nat
  BY <1>2, <1>5, FS_RemoveElement, FS_CardinalityType
<1>7. Cardinality(below) <= Cardinality(below \ {0})
  BY <1>4, <1>6, FS_Injection
<1> QED BY <1>6, <1>7

\* Induction up to a bound.
LEMMA Induction ==
    ASSUME NEW N \in Nat, NEW good,
           0 \in good, \A n \in 1..N : n - 1 \in good => n \in good
    PROVE  0..N \subseteq good /\ N \in good
<1> DEFINE bad == {n \in Nat : n \in 0..N /\ n \notin good}
<1> SUFFICES ASSUME NEW b \in bad PROVE FALSE
  OBVIOUS
<1>1. PICK n \in bad : \A m \in bad : n <= m
  <2> HIDE DEF bad
  <2>1. bad \in SUBSET Nat
    BY DEF bad
  <2> QED BY <2>1, LeastNumber
<1>2. n \in 1..N /\ n - 1 \in good
  BY <1>1
<1> QED BY <1>2

\* The value of f at n is made of its value at n - 1 by step[n].
Recursive(f, N, D, base, step) ==
    f \in [0..N -> D] /\ f[0] = base /\ \A n \in 1..N : f[n] = step[n][f[n - 1]]

\* There is such a function.
LEMMA Recursion ==
    ASSUME NEW N \in Nat, NEW D, NEW base \in D, NEW step \in [1..N -> [D -> D]]
    PROVE  \E f : Recursive(f, N, D, base, step)
<1> DEFINE Solves(f, n) == f[0] = base /\ \A k \in 1..n : f[k] = step[k][f[k - 1]]
           good == {n \in Nat : \E f \in [0..n -> D] : Solves(f, n)}
<1>1. 0 \in good
  <2> DEFINE f == [k \in 0..0 |-> base]
  <2>1. f \in [0..0 -> D] /\ Solves(f, 0)
    OBVIOUS
  <2> QED BY <2>1
<1>2. ASSUME NEW n \in 1..N, n - 1 \in good PROVE n \in good
  <2>1. PICK g \in [0..(n - 1) -> D] : Solves(g, n - 1)
    BY <1>2
  <2>2. n \in Nat /\ g[n - 1] \in D
    OBVIOUS
  <2>3. PICK v \in D : v = step[n][g[n - 1]]
    BY <2>2
  <2> DEFINE f == [k \in 0..n |-> IF k = n THEN v ELSE g[k]]
  <2>4. f \in [0..n -> D] /\ f[0] = base
    <3>1. \A k \in 0..n : k # n => k \in 0..(n - 1) /\ g[k] \in D
      BY <2>2
    <3>2. 0 \in 0..n /\ 0 # n /\ g[0] = base
      BY <2>1, <2>2
    <3> QED BY <3>1, <3>2
  <2>5. ASSUME NEW k \in 1..n PROVE f[k] = step[k][f[k - 1]]
    <3>1. CASE k = n
      <4>1. f[k] = v /\ f[k - 1] = g[n - 1]
        BY <2>2, <3>1
      <4> QED BY <2>3, <3>1, <4>1
    <3>2. CASE k # n
      <4>1. k \in 1..(n - 1) /\ k - 1 \in 0..n /\ k - 1 # n
        BY <3>2
      <4>2. f[k] = g[k] /\ f[k - 1] = g[k - 1]
        BY <4>1
      <4> QED BY <2>1, <4>1, <4>2
    <3> QED BY <3>1, <3>2
  <2>6. Solves(f, n)
    BY <2>4, <2>5
  <2> HIDE DEF f, Solves
  <2> QED BY <2>2, <2>4, <2>6
<1> HIDE DEF good
<1>3. N \in good
  BY <1>1, <1>2, Induction
<1> QED BY <1>3 DEF good, Recursive
=============================================================================
