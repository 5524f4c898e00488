------------------------------ MODULE Iteration ------------------------------
(***************************************************************************)
(* Induction over the natural numbers, and functions defined by recursion  *)
(* on them.  The facts are stated about sets and functions, so that the    *)
(* provers can instantiate them: to show P(n) for every n take S to be the *)
(* set of the n for which P(n) holds.                                      *)
(***************************************************************************)
EXTENDS Integers, WellFoundedInduction, TLAPS

\* A set of natural numbers has a least one.
LEMMA LeastNumber ==
  ASSUME NEW S \in SUBSET Nat, S # {}
  PROVE  \E m \in S : \A k \in S : m <= k
<1>1. \E m \in S : \A k \in S : <<k, m>> \notin OpToRel(<, Nat)
  BY WFMin, NatLessThanWellFounded
<1>2. PICK m \in S : \A k \in S : <<k, m>> \notin OpToRel(<, Nat)
  BY <1>1
<1>3. \A k \in S : ~(k < m)
  <2>1. \A k \in S : <<k, m>> \in OpToRel(<, Nat) <=> k < m
    BY Zenon DEF OpToRel
  <2>. QED
    BY <1>2, <2>1
<1>. QED
  BY <1>3

\* Induction.
LEMMA Induction ==
  ASSUME NEW S, 0 \in S, \A n \in Nat : n \in S => n + 1 \in S
  PROVE  Nat \subseteq S
<1>. SUFFICES ASSUME Nat \ S # {} PROVE FALSE
  OBVIOUS
<1>1. PICK m \in Nat \ S : \A k \in Nat \ S : m <= k
  BY LeastNumber
<1>2. m - 1 \in Nat /\ m - 1 \in S
  BY <1>1
<1>. QED
  BY <1>1, <1>2

(***************************************************************************)
(* A sequence of values each of which is computed from the one before.     *)
(***************************************************************************)
Iterates(f, first, step, n) ==
  f[0] = first /\ \A k \in 0..(n - 1) : f[k + 1] = step[k][f[k]]

\* Up to any number there is one.
LEMMA IteratesExist ==
  ASSUME NEW V, NEW first \in V, NEW step \in [Nat -> [V -> V]]
  PROVE  \A n \in Nat : \E f \in [0..n -> V] : Iterates(f, first, step, n)
<1>. DEFINE S == {n \in Nat : \E f \in [0..n -> V] : Iterates(f, first, step, n)}
<1>1. 0 \in S
  <2>. DEFINE f == [k \in 0..0 |-> first]
  <2>1. f \in [0..0 -> V] /\ Iterates(f, first, step, 0)
    BY DEF Iterates
  <2>. QED
    BY <2>1
<1>2. ASSUME NEW n \in Nat, n \in S PROVE n + 1 \in S
  <2>1. PICK f \in [0..n -> V] : Iterates(f, first, step, n)
    BY <1>2
  <2>. DEFINE g == [k \in 0..(n + 1) |-> IF k = n + 1 THEN step[n][f[n]] ELSE f[k]]
  <2>2. f[n] \in V /\ step[n] \in [V -> V]
    OBVIOUS
  <2>3. g \in [0..(n + 1) -> V]
    BY <2>2
  <2>4. g[0] = first
    BY <2>1 DEF Iterates
  <2>5. ASSUME NEW k \in 0..(n + 1 - 1) PROVE g[k + 1] = step[k][g[k]]
    <3>1. CASE k = n
      BY <3>1
    <3>2. CASE k # n
      <4>1. k \in 0..(n - 1)
        BY <3>2
      <4>. QED
        BY <2>1, <4>1 DEF Iterates
    <3>. QED
      BY <3>1, <3>2
  <2>. HIDE DEF g
  <2>6. Iterates(g, first, step, n + 1)
    BY <2>4, <2>5 DEF Iterates
  <2>. QED
    BY <2>3, <2>6, n + 1 \in Nat
<1>. HIDE DEF S
<1>3. Nat \subseteq S
  BY <1>1, <1>2, Induction
<1>. QED
  BY <1>3 DEF S

\* Two of them agree as far as both go.
LEMMA IteratesAgree ==
  ASSUME NEW first, NEW step, NEW m \in Nat, NEW n \in Nat, NEW f, NEW g,
         Iterates(f, first, step, m), Iterates(g, first, step, n)
  PROVE  \A k \in Nat : k <= m /\ k <= n => f[k] = g[k]
<1>. DEFINE S == {k \in Nat : k <= m /\ k <= n => f[k] = g[k]}
<1>1. 0 \in S
  BY DEF Iterates
<1>2. ASSUME NEW k \in Nat, k \in S PROVE k + 1 \in S
  <2>. SUFFICES ASSUME k + 1 <= m, k + 1 <= n PROVE f[k + 1] = g[k + 1]
    OBVIOUS
  <2>1. k \in 0..(m - 1) /\ k \in 0..(n - 1) /\ f[k] = g[k]
    BY <1>2
  <2>. QED
    BY <2>1 DEF Iterates
<1>. HIDE DEF S
<1>3. Nat \subseteq S
  BY <1>1, <1>2, Induction
<1>. QED
  BY <1>3 DEF S

\* Hence there is one that goes on for ever.
Iteration(f, first, step) ==
  f[0] = first /\ \A n \in Nat : f[n + 1] = step[n][f[n]]

LEMMA IterationExists ==
  ASSUME NEW V, NEW first \in V, NEW step \in [Nat -> [V -> V]]
  PROVE  \E f \in [Nat -> V] : Iteration(f, first, step)
<1>. DEFINE Part(n) == CHOOSE f \in [0..n -> V] : Iterates(f, first, step, n)
            f == [n \in Nat |-> Part(n)[n]]
<1>1. ASSUME NEW n \in Nat PROVE Part(n) \in [0..n -> V] /\ Iterates(Part(n), first, step, n)
  BY IteratesExist
<1>. HIDE DEF Part
<1>2. f \in [Nat -> V]
  <2>1. ASSUME NEW n \in Nat PROVE Part(n)[n] \in V
    BY <1>1
  <2>. QED
    BY <2>1
<1>3. f[0] = first
  BY <1>1 DEF Iterates
<1>4. ASSUME NEW n \in Nat PROVE f[n + 1] = step[n][f[n]]
  <2>1. Part(n + 1)[n + 1] = step[n][Part(n + 1)[n]]
    BY <1>1, n + 1 \in Nat, n \in 0..(n + 1 - 1) DEF Iterates
  <2>2. Part(n + 1)[n] = Part(n)[n]
    BY <1>1, n + 1 \in Nat, n <= n + 1, n <= n, IteratesAgree
  <2>. QED
    BY <2>1, <2>2
<1>. HIDE DEF f
<1>5. Iteration(f, first, step)
  BY <1>3, <1>4 DEF Iteration
<1>. QED
  BY <1>2, <1>5
=============================================================================
