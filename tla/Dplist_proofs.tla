---------------------------- MODULE Dplist_proofs ----------------------------
(***************************************************************************)
(* Theorems about the pointer list, for lists of any length and any        *)
(* elements: the links are always those of a sequence of distinct nodes,   *)
(* and the operations are those of ListSeq on the sequence of their        *)
(* elements.                                                               *)
(***************************************************************************)
EXTENDS Dplist, Iteration, SequenceTheorems, FiniteSetTheorems, TLAPS

(***************************************************************************)
(* The inductive invariant: some sequence p of n different nodes is what   *)
(* both kinds of links describe.                                           *)
(***************************************************************************)
IsPath(n, p) ==
  /\ p \in [1..n -> Node]
  /\ \A j, k \in 1..n : p[j] = p[k] => j = k

Linked(n, p) ==
  /\ IsPath(n, p)
  /\ live = {p[k] : k \in 1..n}
  /\ head = IF n = 0 THEN NULL ELSE p[1]
  /\ \A k \in 1..n : next[p[k]] = IF k = n THEN NULL ELSE p[k + 1]
  /\ \A k \in 1..n : prev[p[k]] = IF k = 1 THEN NULL ELSE p[k - 1]

Types ==
  /\ head \in Pointer
  /\ prev \in [Node -> Pointer] /\ next \in [Node -> Pointer]
  /\ element \in [Node -> Element]
  /\ live \subseteq Node

IInv == Types /\ \E n \in Nat : \E p \in [1..n -> Node] : Linked(n, p)

(***************************************************************************)
(* What the operators of the model are, given the path.                    *)
(***************************************************************************)

\* There are as many nodes on the path as are in use, and at most MaxSize.
LEMMA PathLength ==
  ASSUME Types, NEW n \in Nat, NEW p, Linked(n, p)
  PROVE  /\ Cardinality(live) = n
         /\ n <= MaxSize
         /\ live # Node => n < MaxSize
<1>1. p \in Bijection(1..n, live)
  BY DEF Linked, IsPath, Bijection, Injection, Surjection, IsInjective
<1>2. IsFiniteSet(1..n) /\ Cardinality(1..n) = n
  BY FS_Interval
<1>3. IsFiniteSet(live) /\ Cardinality(live) = n
  BY <1>1, <1>2, FS_Bijection DEF ExistsBijection
<1>4. IsFiniteSet(Node) /\ Cardinality(Node) = MaxSize
  BY DplistAssumption, FS_Interval DEF Node
<1>5. /\ Cardinality(live) <= Cardinality(Node)
      /\ Cardinality(Node) = Cardinality(live) => Node = live
  BY <1>4, FS_Subset DEF Types
<1>. QED
  BY <1>3, <1>4, <1>5, DplistAssumption

\* Walk satisfies the equation of its definition.
LEMMA WalkDefined ==
  ASSUME Types
  PROVE  /\ Walk[0] = head
         /\ \A k \in Nat : Walk[k + 1] = IF Walk[k] = NULL THEN NULL ELSE next[Walk[k]]
<1>. DEFINE step == [k \in Nat |-> [x \in Pointer |-> IF x = NULL THEN NULL ELSE next[x]]]
<1>1. head \in Pointer /\ step \in [Nat -> [Pointer -> Pointer]]
  BY DplistAssumption DEF Types, Pointer, Node, NULL
<1>. HIDE DEF step
<1>2. PICK w \in [Nat -> Pointer] : Iteration(w, head, step)
  BY <1>1, IterationExists
<1>3. ASSUME NEW k \in Nat PROVE w[k + 1] = IF w[k] = NULL THEN NULL ELSE next[w[k]]
  BY <1>2 DEF Iteration, step
<1>4. w = [k \in Nat |-> IF k = 0 THEN head
                         ELSE IF w[k - 1] = NULL THEN NULL ELSE next[w[k - 1]]]
  <2>1. ASSUME NEW k \in Nat, k # 0
        PROVE  w[k] = IF w[k - 1] = NULL THEN NULL ELSE next[w[k - 1]]
    <3>1. k - 1 \in Nat /\ k - 1 + 1 = k
      BY <2>1
    <3>. QED
      BY <1>3, <3>1
  <2>2. w[0] = head
    BY <1>2 DEF Iteration
  <2>. QED
    BY <2>1, <2>2
<1>5. Walk = [k \in Nat |-> IF k = 0 THEN head
                            ELSE IF Walk[k - 1] = NULL THEN NULL ELSE next[Walk[k - 1]]]
  BY <1>4, Zenon DEF Walk
<1>. HIDE DEF Walk
<1>6. ASSUME NEW k \in Nat
      PROVE  Walk[k + 1] = IF Walk[k] = NULL THEN NULL ELSE next[Walk[k]]
  <2>1. k + 1 \in Nat /\ k + 1 # 0 /\ k + 1 - 1 = k
    OBVIOUS
  <2>. QED
    BY <1>5, <2>1
<1>. QED
  BY <1>5, <1>6

\* The walk goes along the path and ends at NULL.
LEMMA WalkIs ==
  ASSUME Types, NEW n \in Nat, NEW p, Linked(n, p)
  PROVE  \A k \in Nat : Walk[k] = IF k < n THEN p[k + 1] ELSE NULL
<1>. DEFINE S == {k \in Nat : Walk[k] = IF k < n THEN p[k + 1] ELSE NULL}
<1>1. 0 \in S
  BY WalkDefined DEF Linked
<1>2. ASSUME NEW k \in Nat, k \in S PROVE k + 1 \in S
  <2>1. Walk[k + 1] = IF Walk[k] = NULL THEN NULL ELSE next[Walk[k]]
    BY WalkDefined
  <2>2. CASE k < n
    <3>1. k + 1 \in 1..n /\ Walk[k] = p[k + 1] /\ p[k + 1] \in Node
      BY <1>2, <2>2 DEF Linked, IsPath
    <3>2. Walk[k + 1] = next[p[k + 1]]
      BY <2>1, <3>1 DEF Node, NULL
    <3>. QED
      BY <2>2, <3>1, <3>2 DEF Linked
  <2>3. CASE ~(k < n)
    BY <1>2, <2>1, <2>3
  <2>. QED
    BY <2>2, <2>3
<1>. HIDE DEF S
<1>3. Nat \subseteq S
  BY <1>1, <1>2, Induction
<1>. QED
  BY <1>3 DEF S

\* dpl_size counts the nodes.
LEMMA SizeIs ==
  ASSUME Types, NEW n \in Nat, NEW p, Linked(n, p)
  PROVE  Size = n
<1>1. CASE n = 0
  BY <1>1 DEF Linked, Size
<1>2. CASE n # 0
  <2>. DEFINE Last(k) == Walk[k] # NULL /\ next[Walk[k]] = NULL
  <2>1. head # NULL
    BY <1>2 DEF Linked, IsPath, Node, NULL
  <2>2. n - 1 \in 0..MaxSize
    BY <1>2, PathLength, DplistAssumption
  <2>3. ASSUME NEW k \in Nat PROVE Last(k) <=> k = n - 1
    <3>1. CASE k < n
      <4>1. k + 1 \in 1..n /\ Walk[k] = p[k + 1] /\ p[k + 1] # NULL
        <5>1. k + 1 \in 1..n
          BY <3>1
        <5>2. Walk[k] = p[k + 1]
          BY <3>1, WalkIs
        <5>. QED
          BY <5>1, <5>2 DEF Linked, IsPath, Node, NULL
      <4>2. next[p[k + 1]] = IF k + 1 = n THEN NULL ELSE p[k + 1 + 1]
        BY <4>1 DEF Linked
      <4>3. k + 1 # n => p[k + 1 + 1] # NULL
        BY <4>1 DEF Linked, IsPath, Node, NULL
      <4>. QED
        BY <4>1, <4>2, <4>3
    <3>2. CASE ~(k < n)
      BY <3>2, WalkIs
    <3>. QED
      BY <3>1, <3>2
  <2>. DEFINE last == CHOOSE k \in 0..MaxSize : Last(k)
  <2>4. Size = 1 + last
    BY <2>1, Zenon DEF Size
  <2>. HIDE DEF Last
  <2>5. last = n - 1
    BY <2>2, <2>3, DplistAssumption
  <2>. HIDE DEF last
  <2>. QED
    BY <2>4, <2>5
<1>. QED
  BY <1>1, <1>2

\* The position on the path of the node that an index i stands for.
Position(n, i) == IF i <= 0 THEN 1 ELSE IF i >= n - 1 THEN n ELSE i + 1

\* dpl_get_reference_at_index returns that node.
LEMMA ReferenceIs ==
  ASSUME Types, NEW n \in Nat \ {0}, NEW p, Linked(n, p), NEW i \in Int
  PROVE  Position(n, i) \in 1..n /\ ReferenceAt(i) = p[Position(n, i)]
<1>1. Size = n
  BY SizeIs
<1>2. \A k \in Nat : Walk[k] = IF k < n THEN p[k + 1] ELSE NULL
  BY WalkIs
<1>3. head = p[1]
  BY DEF Linked
<1>. QED
  BY <1>1, <1>2, <1>3 DEF ReferenceAt, Position

(***************************************************************************)
(* Linking a node in and out, whichever operation does it.                 *)
(***************************************************************************)
PathWith(n, p, q, m) ==
  [k \in 1..(n + 1) |-> IF k < q THEN p[k] ELSE IF k = q THEN m ELSE p[k - 1]]

PathWithout(n, p, q) == [k \in 1..(n - 1) |-> IF k < q THEN p[k] ELSE p[k + 1]]

\* Node m gets between the nodes at q - 1 and q.
LEMMA LinkIn ==
  ASSUME Types, NEW n \in Nat, NEW p, Linked(n, p),
         NEW m \in Node \ live, NEW q \in 1..(n + 1),
         live' = live \cup {m},
         head' = IF q = 1 THEN m ELSE head,
         \A x \in Node : next'[x] = IF x = m THEN IF q = n + 1 THEN NULL ELSE p[q]
                                    ELSE IF q > 1 /\ x = p[q - 1] THEN m ELSE next[x],
         \A x \in Node : prev'[x] = IF x = m THEN IF q = 1 THEN NULL ELSE p[q - 1]
                                    ELSE IF q <= n /\ x = p[q] THEN m ELSE prev[x]
  PROVE  Linked(n + 1, PathWith(n, p, q, m))'
<1>. DEFINE r == PathWith(n, p, q, m)
<1>1. /\ p \in [1..n -> Node]
      /\ \A j, k \in 1..n : p[j] = p[k] => j = k
      /\ \A k \in 1..n : p[k] # m
      /\ live = {p[k] : k \in 1..n}
  BY DEF Linked, IsPath
<1>2. /\ \A k \in 1..(q - 1) : k \in 1..n /\ r[k] = p[k]
      /\ r[q] = m
      /\ \A k \in (q + 1)..(n + 1) : k - 1 \in 1..n /\ r[k] = p[k - 1]
      /\ DOMAIN r = 1..(n + 1)
  BY DEF PathWith
<1>3. \A k \in 1..(n + 1) : k \in 1..(q - 1) \/ k = q \/ k \in (q + 1)..(n + 1)
  OBVIOUS
<1>4. r \in [1..(n + 1) -> Node]
  <2>1. ASSUME NEW k \in 1..(n + 1) PROVE r[k] \in Node
    <3>. HIDE DEF r
    <3>. QED
      BY <1>1, <1>2, <1>3
  <2>. QED
    BY <2>1 DEF PathWith
<1>. HIDE DEF r
<1>5. \A j, k \in 1..(n + 1) : r[j] = r[k] => j = k
  <2>. SUFFICES ASSUME NEW j \in 1..(n + 1), NEW k \in 1..(n + 1), r[j] = r[k] PROVE j = k
    OBVIOUS
  <2>1. CASE j = q \/ k = q
    BY <1>1, <1>2, <1>3, <2>1
  <2>2. CASE j \in 1..(q - 1) /\ k \in 1..(q - 1)
    BY <1>1, <1>2, <2>2
  <2>3. CASE j \in (q + 1)..(n + 1) /\ k \in (q + 1)..(n + 1)
    <3>1. j - 1 = k - 1
      BY <1>1, <1>2, <2>3
    <3>. QED
      BY <3>1
  <2>4. CASE j \in 1..(q - 1) /\ k \in (q + 1)..(n + 1)
    <3>1. j = k - 1
      BY <1>1, <1>2, <2>4
    <3>. QED
      BY <2>4, <3>1
  <2>5. CASE j \in (q + 1)..(n + 1) /\ k \in 1..(q - 1)
    <3>1. j - 1 = k
      BY <1>1, <1>2, <2>5
    <3>. QED
      BY <2>5, <3>1
  <2>. QED
    BY <1>3, <2>1, <2>2, <2>3, <2>4, <2>5
<1>6. live' = {r[k] : k \in 1..(n + 1)}
  <2>1. ASSUME NEW x \in live' PROVE \E k \in 1..(n + 1) : x = r[k]
    <3>1. CASE x = m
      BY <1>2, <3>1
    <3>2. CASE x # m
      <4>1. PICK k \in 1..n : x = p[k]
        BY <1>1, <3>2
      <4>2. k < q => k \in 1..(q - 1) /\ k \in 1..(n + 1)
        OBVIOUS
      <4>3. ~(k < q) => k + 1 \in (q + 1)..(n + 1) /\ k + 1 \in 1..(n + 1) /\ k + 1 - 1 = k
        OBVIOUS
      <4>4. k < q => x = r[k]
        BY <1>2, <4>1, <4>2
      <4>5. ~(k < q) => x = r[k + 1]
        BY <1>2, <4>1, <4>3
      <4>. QED
        BY <4>2, <4>3, <4>4, <4>5
    <3>. QED
      BY <3>1, <3>2
  <2>2. ASSUME NEW k \in 1..(n + 1) PROVE r[k] \in live'
    BY <1>1, <1>2, <1>3
  <2>. QED
    BY <2>1, <2>2
<1>7. head' = IF n + 1 = 0 THEN NULL ELSE r[1]
  <2>1. CASE q = 1
    BY <1>2, <2>1
  <2>2. CASE q # 1
    <3>1. 1 \in 1..(q - 1) /\ n # 0 /\ n + 1 # 0
      BY <2>2
    <3>2. r[1] = p[1]
      BY <1>2, <3>1
    <3>. QED
      BY <2>2, <3>1, <3>2 DEF Linked
  <2>. QED
    BY <2>1, <2>2
<1>8. ASSUME NEW k \in 1..(n + 1) PROVE next'[r[k]] = IF k = n + 1 THEN NULL ELSE r[k + 1]
  <2>1. CASE k = q
    <3>1. next'[m] = IF q = n + 1 THEN NULL ELSE p[q]
      OBVIOUS
    <3>2. q # n + 1 => r[q + 1] = p[q]
      <4>1. q # n + 1 => q + 1 \in (q + 1)..(n + 1) /\ q + 1 - 1 = q
        OBVIOUS
      <4>. QED
        BY <1>2, <4>1
    <3>. QED
      BY <1>2, <2>1, <3>1, <3>2
  <2>2. CASE k \in 1..(q - 1)
    <3>1. k \in 1..n /\ r[k] = p[k] /\ k # n + 1 /\ p[k] \in Node /\ p[k] # m
      BY <1>1, <1>2, <2>2
    <3>2. CASE k = q - 1
      <4>1. next'[p[k]] = m /\ k + 1 = q
        BY <2>2, <3>1, <3>2
      <4>. QED
        BY <1>2, <3>1, <4>1
    <3>3. CASE k # q - 1
      <4>1. k + 1 \in 1..(q - 1) /\ k # n
        BY <2>2, <3>3
      <4>2. q > 1 /\ q - 1 \in 1..n
        BY <2>2
      <4>3. p[k] # p[q - 1]
        BY <1>1, <3>1, <3>3, <4>2
      <4>4. next'[p[k]] = next[p[k]]
        BY <3>1, <4>3
      <4>5. next[p[k]] = p[k + 1]
        BY <3>1, <4>1 DEF Linked
      <4>. QED
        BY <1>2, <3>1, <4>1, <4>4, <4>5
    <3>. QED
      BY <3>2, <3>3
  <2>3. CASE k \in (q + 1)..(n + 1)
    <3>1. k - 1 \in 1..n /\ r[k] = p[k - 1] /\ p[k - 1] \in Node /\ p[k - 1] # m
      BY <1>1, <1>2, <2>3
    <3>2. q > 1 => p[k - 1] # p[q - 1]
      <4>1. q > 1 => q - 1 \in 1..n /\ q - 1 # k - 1
        BY <2>3
      <4>. QED
        BY <1>1, <3>1, <4>1
    <3>3. next'[p[k - 1]] = next[p[k - 1]]
      BY <3>1, <3>2
    <3>4. next[p[k - 1]] = IF k - 1 = n THEN NULL ELSE p[k - 1 + 1]
      BY <3>1 DEF Linked
    <3>5. k # n + 1 => k + 1 \in (q + 1)..(n + 1) /\ k + 1 - 1 = k
      BY <2>3
    <3>6. k - 1 + 1 = k /\ (k - 1 = n <=> k = n + 1)
      BY <2>3
    <3>. QED
      BY <1>2, <3>1, <3>3, <3>4, <3>5, <3>6
  <2>. QED
    BY <1>3, <2>1, <2>2, <2>3
<1>9. ASSUME NEW k \in 1..(n + 1) PROVE prev'[r[k]] = IF k = 1 THEN NULL ELSE r[k - 1]
  <2>1. CASE k = q
    <3>1. prev'[m] = IF q = 1 THEN NULL ELSE p[q - 1]
      OBVIOUS
    <3>2. q # 1 => r[q - 1] = p[q - 1]
      <4>1. q # 1 => q - 1 \in 1..(q - 1)
        OBVIOUS
      <4>. QED
        BY <1>2, <4>1
    <3>. QED
      BY <1>2, <2>1, <3>1, <3>2
  <2>2. CASE k \in 1..(q - 1)
    <3>1. k \in 1..n /\ r[k] = p[k] /\ p[k] \in Node /\ p[k] # m
      BY <1>1, <1>2, <2>2
    <3>2. q <= n => p[k] # p[q]
      <4>1. q <= n => q \in 1..n /\ q # k
        BY <2>2
      <4>. QED
        BY <1>1, <3>1, <4>1
    <3>3. prev'[p[k]] = prev[p[k]]
      BY <3>1, <3>2
    <3>4. prev[p[k]] = IF k = 1 THEN NULL ELSE p[k - 1]
      BY <3>1 DEF Linked
    <3>5. k # 1 => k - 1 \in 1..(q - 1)
      BY <2>2
    <3>. QED
      BY <1>2, <3>1, <3>3, <3>4, <3>5
  <2>3. CASE k \in (q + 1)..(n + 1)
    <3>1. k - 1 \in 1..n /\ r[k] = p[k - 1] /\ p[k - 1] \in Node /\ p[k - 1] # m /\ k # 1
      BY <1>1, <1>2, <2>3
    <3>2. CASE k = q + 1
      <4>1. q <= n /\ k - 1 = q
        BY <2>3, <3>2
      <4>2. prev'[p[k - 1]] = m
        BY <3>1, <4>1
      <4>. QED
        BY <1>2, <3>1, <4>1, <4>2
    <3>3. CASE k # q + 1
      <4>1. k - 1 \in (q + 1)..(n + 1) /\ k - 1 # 1 /\ q \in 1..n /\ q # k - 1
        BY <2>3, <3>3
      <4>2. p[k - 1] # p[q]
        BY <1>1, <3>1, <4>1
      <4>3. prev'[p[k - 1]] = prev[p[k - 1]]
        BY <3>1, <4>2
      <4>4. prev[p[k - 1]] = p[k - 1 - 1]
        BY <3>1, <4>1 DEF Linked
      <4>. QED
        BY <1>2, <3>1, <4>1, <4>3, <4>4
    <3>. QED
      BY <3>2, <3>3
  <2>. QED
    BY <1>3, <2>1, <2>2, <2>3
<1>10. Linked(n + 1, r)'
  BY <1>4, <1>5, <1>6, <1>7, <1>8, <1>9 DEF Linked, IsPath
<1>. QED
  BY <1>10 DEF r

\* The node at q gets out.
LEMMA LinkOut ==
  ASSUME Types, NEW n \in Nat, NEW p, Linked(n, p), NEW q \in 1..n,
         live' = live \ {p[q]},
         head' = IF q = 1 THEN IF n = 1 THEN NULL ELSE p[2] ELSE head,
         \A x \in Node \ {p[q]} :
           next'[x] = IF q > 1 /\ x = p[q - 1] THEN IF q = n THEN NULL ELSE p[q + 1] ELSE next[x],
         \A x \in Node \ {p[q]} :
           prev'[x] = IF q < n /\ x = p[q + 1] THEN IF q = 1 THEN NULL ELSE p[q - 1] ELSE prev[x]
  PROVE  Linked(n - 1, PathWithout(n, p, q))'
<1>. DEFINE r == PathWithout(n, p, q)
<1>1. /\ p \in [1..n -> Node]
      /\ \A j, k \in 1..n : p[j] = p[k] => j = k
      /\ live = {p[k] : k \in 1..n}
  BY DEF Linked, IsPath
<1>2. /\ \A k \in 1..(q - 1) : k \in 1..n /\ k # q /\ r[k] = p[k]
      /\ \A k \in q..(n - 1) : k + 1 \in 1..n /\ k + 1 # q /\ r[k] = p[k + 1]
      /\ DOMAIN r = 1..(n - 1)
  BY DEF PathWithout
<1>3. \A k \in 1..(n - 1) : k \in 1..(q - 1) \/ k \in q..(n - 1)
  OBVIOUS
<1>4. r \in [1..(n - 1) -> Node]
  <2>1. ASSUME NEW k \in 1..(n - 1) PROVE r[k] \in Node
    <3>. HIDE DEF r
    <3>. QED
      BY <1>1, <1>2, <1>3
  <2>. QED
    BY <2>1 DEF PathWithout
<1>. HIDE DEF r
<1>5. \A j, k \in 1..(n - 1) : r[j] = r[k] => j = k
  <2>. SUFFICES ASSUME NEW j \in 1..(n - 1), NEW k \in 1..(n - 1), r[j] = r[k] PROVE j = k
    OBVIOUS
  <2>1. CASE j \in 1..(q - 1) /\ k \in 1..(q - 1)
    BY <1>1, <1>2, <2>1
  <2>2. CASE j \in q..(n - 1) /\ k \in q..(n - 1)
    <3>1. j + 1 = k + 1
      BY <1>1, <1>2, <2>2
    <3>. QED
      BY <3>1
  <2>3. CASE j \in 1..(q - 1) /\ k \in q..(n - 1)
    <3>1. j = k + 1
      BY <1>1, <1>2, <2>3
    <3>. QED
      BY <2>3, <3>1
  <2>4. CASE j \in q..(n - 1) /\ k \in 1..(q - 1)
    <3>1. j + 1 = k
      BY <1>1, <1>2, <2>4
    <3>. QED
      BY <2>4, <3>1
  <2>. QED
    BY <1>3, <2>1, <2>2, <2>3, <2>4
<1>6. live' = {r[k] : k \in 1..(n - 1)}
  <2>1. ASSUME NEW x \in live' PROVE \E k \in 1..(n - 1) : x = r[k]
    <3>1. PICK k \in 1..n : x = p[k] /\ k # q
      BY <1>1
    <3>2. k < q => k \in 1..(q - 1) /\ k \in 1..(n - 1)
      OBVIOUS
    <3>3. ~(k < q) => k - 1 \in q..(n - 1) /\ k - 1 \in 1..(n - 1) /\ k - 1 + 1 = k
      BY <3>1
    <3>4. k < q => x = r[k]
      BY <1>2, <3>1, <3>2
    <3>5. ~(k < q) => x = r[k - 1]
      BY <1>2, <3>1, <3>3
    <3>. QED
      BY <3>2, <3>3, <3>4, <3>5
  <2>2. ASSUME NEW k \in 1..(n - 1) PROVE r[k] \in live'
    <3>1. CASE k \in 1..(q - 1)
      BY <1>1, <1>2, <3>1
    <3>2. CASE k \in q..(n - 1)
      BY <1>1, <1>2, <3>2
    <3>. QED
      BY <1>3, <3>1, <3>2
  <2>. QED
    BY <2>1, <2>2
<1>7. head' = IF n - 1 = 0 THEN NULL ELSE r[1]
  <2>1. CASE q = 1
    <3>1. n # 1 => 1 \in q..(n - 1) /\ 1 + 1 = 2
      BY <2>1
    <3>2. n # 1 => r[1] = p[2]
      BY <1>2, <3>1
    <3>. QED
      BY <2>1, <3>2
  <2>2. CASE q # 1
    <3>1. 1 \in 1..(q - 1) /\ n # 0 /\ n - 1 # 0
      BY <2>2
    <3>2. r[1] = p[1]
      BY <1>2, <3>1
    <3>. QED
      BY <2>2, <3>1, <3>2 DEF Linked
  <2>. QED
    BY <2>1, <2>2
<1>8. ASSUME NEW k \in 1..(n - 1) PROVE next'[r[k]] = IF k = n - 1 THEN NULL ELSE r[k + 1]
  <2>1. CASE k \in 1..(q - 1)
    <3>1. k \in 1..n /\ r[k] = p[k] /\ p[k] \in Node \ {p[q]} /\ k # n
      BY <1>1, <1>2, <2>1
    <3>2. CASE k = q - 1
      <4>1. next'[p[k]] = (IF q = n THEN NULL ELSE p[q + 1]) /\ k + 1 = q
        BY <2>1, <3>1, <3>2
      <4>2. q # n => q \in q..(n - 1)
        OBVIOUS
      <4>3. q # n => r[q] = p[q + 1]
        BY <1>2, <4>2
      <4>. QED
        BY <3>1, <4>1, <4>3
    <3>3. CASE k # q - 1
      <4>1. k + 1 \in 1..(q - 1) /\ k # n - 1
        BY <2>1, <3>3
      <4>2. q > 1 /\ q - 1 \in 1..n
        BY <2>1
      <4>3. p[k] # p[q - 1]
        BY <1>1, <3>1, <3>3, <4>2
      <4>4. next'[p[k]] = next[p[k]]
        BY <3>1, <4>3
      <4>5. next[p[k]] = p[k + 1]
        BY <3>1 DEF Linked
      <4>6. r[k + 1] = p[k + 1]
        BY <1>2, <4>1
      <4>. QED
        BY <3>1, <4>1, <4>4, <4>5, <4>6
    <3>. QED
      BY <3>2, <3>3
  <2>2. CASE k \in q..(n - 1)
    <3>1. k + 1 \in 1..n /\ r[k] = p[k + 1] /\ p[k + 1] \in Node \ {p[q]}
      BY <1>1, <1>2, <2>2
    <3>2. q > 1 => p[k + 1] # p[q - 1]
      <4>1. q > 1 => q - 1 \in 1..n /\ q - 1 # k + 1
        BY <2>2
      <4>. QED
        BY <1>1, <3>1, <4>1
    <3>3. next'[p[k + 1]] = next[p[k + 1]]
      BY <3>1, <3>2
    <3>4. next[p[k + 1]] = IF k + 1 = n THEN NULL ELSE p[k + 1 + 1]
      BY <3>1 DEF Linked
    <3>5. k # n - 1 => k + 1 \in q..(n - 1)
      BY <2>2
    <3>6. k + 1 = n <=> k = n - 1
      OBVIOUS
    <3>7. k # n - 1 => r[k + 1] = p[k + 1 + 1]
      BY <1>2, <3>5
    <3>. QED
      BY <3>1, <3>3, <3>4, <3>6, <3>7
  <2>. QED
    BY <1>3, <2>1, <2>2
<1>9. ASSUME NEW k \in 1..(n - 1) PROVE prev'[r[k]] = IF k = 1 THEN NULL ELSE r[k - 1]
  <2>1. CASE k \in 1..(q - 1)
    <3>1. k \in 1..n /\ r[k] = p[k] /\ p[k] \in Node \ {p[q]}
      BY <1>1, <1>2, <2>1
    <3>2. q < n => p[k] # p[q + 1]
      <4>1. q < n => q + 1 \in 1..n /\ q + 1 # k
        BY <2>1
      <4>. QED
        BY <1>1, <3>1, <4>1
    <3>3. prev'[p[k]] = prev[p[k]]
      BY <3>1, <3>2
    <3>4. prev[p[k]] = IF k = 1 THEN NULL ELSE p[k - 1]
      BY <3>1 DEF Linked
    <3>5. k # 1 => k - 1 \in 1..(q - 1)
      BY <2>1
    <3>. QED
      BY <1>2, <3>1, <3>3, <3>4, <3>5
  <2>2. CASE k \in q..(n - 1)
    <3>1. k + 1 \in 1..n /\ r[k] = p[k + 1] /\ p[k + 1] \in Node \ {p[q]}
      BY <1>1, <1>2, <2>2
    <3>2. CASE k = q
      <4>1. prev'[p[k + 1]] = IF q = 1 THEN NULL ELSE p[q - 1]
        BY <2>2, <3>1, <3>2
      <4>2. q # 1 => q - 1 \in 1..(q - 1)
        OBVIOUS
      <4>3. q # 1 => r[q - 1] = p[q - 1]
        BY <1>2, <4>2
      <4>. QED
        BY <3>1, <3>2, <4>1, <4>3
    <3>3. CASE k # q
      <4>1. k - 1 \in q..(n - 1) /\ k # 1 /\ q < n /\ q + 1 \in 1..n /\ q + 1 # k + 1
        BY <2>2, <3>3
      <4>2. p[k + 1] # p[q + 1]
        BY <1>1, <3>1, <4>1
      <4>3. prev'[p[k + 1]] = prev[p[k + 1]]
        BY <3>1, <4>2
      <4>4. prev[p[k + 1]] = p[k + 1 - 1]
        BY <3>1, <4>1 DEF Linked
      <4>5. r[k - 1] = p[k - 1 + 1]
        BY <1>2, <4>1
      <4>. QED
        BY <3>1, <4>1, <4>3, <4>4, <4>5
    <3>. QED
      BY <3>2, <3>3
  <2>. QED
    BY <1>3, <2>1, <2>2
<1>10. Linked(n - 1, r)'
  BY <1>4, <1>5, <1>6, <1>7, <1>8, <1>9 DEF Linked, IsPath
<1>. QED
  BY <1>10 DEF r

(***************************************************************************)
(* The operations, one lemma for each case of the code.                    *)
(***************************************************************************)

\* Where an insertion at index i puts the new node.
Place(n, i) == IF n = 0 \/ i <= 0 THEN 1 ELSE IF i < n THEN i + 1 ELSE n + 1

\* malloc finds a node that is not in use.
LEMMA FreshIs == ASSUME live \subseteq Node, live # Node PROVE Fresh \in Node \ live
BY DEF Fresh

\* dpl_insert_at_index puts a new node with element x at that place.
LEMMA InsertIs ==
  ASSUME Types, NEW n \in Nat, NEW p, Linked(n, p),
         NEW m \in Node \ live, NEW x \in Element, NEW i \in Int,
         \/ InsertFirst(m, x, i)
         \/ InsertAtHead(m, x, i)
         \/ InsertBefore(m, x, i)
         \/ InsertLast(m, x, i)
  PROVE  /\ Types'
         /\ Linked(n + 1, PathWith(n, p, Place(n, i), m))'
         /\ element' = [element EXCEPT ![m] = x]
<1>. DEFINE q == Place(n, i)
<1>1. /\ prev \in [Node -> Pointer] /\ next \in [Node -> Pointer]
      /\ p \in [1..n -> Node]
      /\ \A k \in 1..n : p[k] \in Node /\ p[k] # m /\ p[k] # NULL
      /\ \A j, k \in 1..n : p[j] = p[k] => j = k
      /\ \A k \in 1..n : prev[p[k]] = IF k = 1 THEN NULL ELSE p[k - 1]
      /\ head = IF n = 0 THEN NULL ELSE p[1]
      /\ Node \subseteq Pointer /\ NULL \in Pointer /\ NULL \notin Node
  <2>1. Node \subseteq Pointer /\ NULL \in Pointer /\ NULL \notin Node
    BY DplistAssumption DEF Node, Pointer, NULL
  <2>. QED
    BY <2>1 DEF Types, Linked, IsPath
<1>2. head = NULL <=> n = 0
  BY <1>1
<1>3. Size = n
  BY SizeIs
<1>4. n # 0 => Position(n, i) \in 1..n /\ ReferenceAt(i) = p[Position(n, i)]
  BY ReferenceIs
<1>5. CASE InsertFirst(m, x, i)
  <2>1. n = 0 /\ q = 1
    BY <1>2, <1>5 DEF InsertFirst, Place
  <2>2. Types' /\ element' = [element EXCEPT ![m] = x] /\ live' = live \cup {m} /\ head' = m
    BY <1>1, <1>5 DEF Types, InsertFirst, Allocate
  <2>3. \A y \in Node : next'[y] = IF y = m THEN NULL ELSE next[y]
    BY <1>1, <1>5 DEF InsertFirst
  <2>4. \A y \in Node : prev'[y] = IF y = m THEN NULL ELSE prev[y]
    BY <1>1, <1>5 DEF InsertFirst
  <2>. HIDE DEF q
  <2>5. Linked(n + 1, PathWith(n, p, q, m))'
    BY <2>1, <2>2, <2>3, <2>4, LinkIn
  <2>. QED
    BY <2>2, <2>5 DEF q
<1>6. CASE InsertAtHead(m, x, i)
  <2>1. n # 0 /\ q = 1 /\ q \in 1..(n + 1) /\ q <= n /\ head = p[1]
    BY <1>1, <1>2, <1>6 DEF InsertAtHead, Place
  <2>2. Types' /\ element' = [element EXCEPT ![m] = x] /\ live' = live \cup {m} /\ head' = m
    BY <1>1, <1>6 DEF Types, InsertAtHead, Allocate
  <2>3. \A y \in Node : next'[y] = IF y = m THEN p[q] ELSE next[y]
    BY <1>1, <1>6, <2>1 DEF InsertAtHead
  <2>4. \A y \in Node : prev'[y] = IF y = m THEN NULL ELSE IF y = p[q] THEN m ELSE prev[y]
    BY <1>1, <1>6, <2>1 DEF InsertAtHead
  <2>. HIDE DEF q
  <2>5. Linked(n + 1, PathWith(n, p, q, m))'
    BY <2>1, <2>2, <2>3, <2>4, LinkIn
  <2>. QED
    BY <2>2, <2>5 DEF q
<1>7. CASE InsertBefore(m, x, i)
  <2>1. /\ n # 0 /\ q = i + 1 /\ q \in 1..(n + 1) /\ q \in 2..n /\ q - 1 \in 1..n
        /\ Position(n, i) = q
    BY <1>2, <1>3, <1>7 DEF InsertBefore, Place, Position
  <2>. HIDE DEF q
  <2>2. ReferenceAt(i) = p[q] /\ prev[p[q]] = p[q - 1] /\ p[q] \in Node /\ p[q - 1] \in Node
    BY <1>1, <1>4, <2>1
  <2>3. /\ prev' = [prev EXCEPT ![m] = p[q - 1], ![p[q]] = m]
        /\ next' = [next EXCEPT ![m] = p[q], ![p[q - 1]] = m]
        /\ live' = live \cup {m} /\ element' = [element EXCEPT ![m] = x] /\ head' = head
    BY <1>7, <2>2 DEF InsertBefore, Allocate
  <2>4. Types'
    BY <1>1, <2>2, <2>3 DEF Types
  <2>5. \A y \in Node : next'[y] = IF y = m THEN IF q = n + 1 THEN NULL ELSE p[q]
                                  ELSE IF q > 1 /\ y = p[q - 1] THEN m ELSE next[y]
    BY <1>1, <2>1, <2>3
  <2>6. \A y \in Node : prev'[y] = IF y = m THEN IF q = 1 THEN NULL ELSE p[q - 1]
                                  ELSE IF q <= n /\ y = p[q] THEN m ELSE prev[y]
    BY <1>1, <2>1, <2>3
  <2>7. live' = live \cup {m} /\ head' = IF q = 1 THEN m ELSE head
    BY <2>1, <2>3
  <2>8. Linked(n + 1, PathWith(n, p, q, m))'
    BY <2>1, <2>5, <2>6, <2>7, LinkIn
  <2>. QED
    BY <2>3, <2>4, <2>8 DEF q
<1>8. CASE InsertLast(m, x, i)
  <2>1. n # 0 /\ q = n + 1 /\ q \in 1..(n + 1) /\ q - 1 \in 1..n /\ Position(n, i) = n
    BY <1>2, <1>3, <1>8 DEF InsertLast, Place, Position
  <2>. HIDE DEF q
  <2>2. ReferenceAt(i) = p[q - 1] /\ p[q - 1] \in Node
    BY <1>1, <1>4, <2>1
  <2>3. /\ prev' = [prev EXCEPT ![m] = p[q - 1]]
        /\ next' = [next EXCEPT ![m] = NULL, ![p[q - 1]] = m]
        /\ live' = live \cup {m} /\ element' = [element EXCEPT ![m] = x] /\ head' = head
    BY <1>8, <2>2 DEF InsertLast, Allocate
  <2>4. Types'
    BY <1>1, <2>2, <2>3 DEF Types
  <2>5. \A y \in Node : next'[y] = IF y = m THEN IF q = n + 1 THEN NULL ELSE p[q]
                                  ELSE IF q > 1 /\ y = p[q - 1] THEN m ELSE next[y]
    BY <1>1, <2>1, <2>3
  <2>6. \A y \in Node : prev'[y] = IF y = m THEN IF q = 1 THEN NULL ELSE p[q - 1]
                                  ELSE IF q <= n /\ y = p[q] THEN m ELSE prev[y]
    BY <1>1, <2>1, <2>3
  <2>7. live' = live \cup {m} /\ head' = IF q = 1 THEN m ELSE head
    BY <2>1, <2>3
  <2>8. Linked(n + 1, PathWith(n, p, q, m))'
    BY <2>1, <2>5, <2>6, <2>7, LinkIn
  <2>. QED
    BY <2>3, <2>4, <2>8 DEF q
<1>. QED
  BY <1>5, <1>6, <1>7, <1>8

\* dpl_remove_at_index takes out and frees the node that the index stands for.
LEMMA RemoveIs ==
  ASSUME Types, NEW n \in Nat \ {0}, NEW p, Linked(n, p), NEW i \in Int,
         RemoveHead(i) \/ RemoveMiddle(i) \/ RemoveLast(i)
  PROVE  /\ Types'
         /\ Linked(n - 1, PathWithout(n, p, Position(n, i)))'
         /\ UNCHANGED element
<1>. DEFINE q == Position(n, i)
<1>1. /\ prev \in [Node -> Pointer] /\ next \in [Node -> Pointer]
      /\ p \in [1..n -> Node]
      /\ \A k \in 1..n : p[k] \in Node /\ p[k] # NULL
      /\ \A j, k \in 1..n : p[j] = p[k] => j = k
      /\ \A k \in 1..n : prev[p[k]] = IF k = 1 THEN NULL ELSE p[k - 1]
      /\ \A k \in 1..n : next[p[k]] = IF k = n THEN NULL ELSE p[k + 1]
      /\ head = p[1]
      /\ Node \subseteq Pointer /\ NULL \in Pointer /\ NULL \notin Node
  <2>1. Node \subseteq Pointer /\ NULL \in Pointer /\ NULL \notin Node
    BY DplistAssumption DEF Node, Pointer, NULL
  <2>. QED
    BY <2>1 DEF Types, Linked, IsPath
<1>2. Size = n
  BY SizeIs
<1>3. q \in 1..n /\ ReferenceAt(i) = p[q]
  BY ReferenceIs
<1>4. CASE RemoveHead(i)
  <2>1. q = 1
    BY <1>4 DEF RemoveHead, Position
  <2>. HIDE DEF q
  <2>2. /\ head' = next[p[1]]
        /\ prev' = IF next[p[1]] # NULL THEN [prev EXCEPT ![next[p[1]]] = NULL] ELSE prev
        /\ next' = next /\ live' = live \ {p[1]} /\ element' = element
    BY <1>1, <1>4 DEF RemoveHead, Release
  <2>3. next[p[1]] = IF n = 1 THEN NULL ELSE p[2]
    BY <1>1
  <2>4. n # 1 => p[2] \in Node /\ p[2] # NULL /\ 1 < n
    BY <1>1
  <2>5. Types'
    BY <1>1, <2>2, <2>3, <2>4 DEF Types
  <2>6. \A x \in Node \ {p[q]} : prev'[x] = IF 1 < n /\ x = p[2] THEN NULL ELSE prev[x]
    BY <1>1, <2>2, <2>3, <2>4
  <2>7. Linked(n - 1, PathWithout(n, p, q))'
    BY <1>3, <2>1, <2>2, <2>3, <2>6, LinkOut
  <2>. QED
    BY <2>2, <2>5, <2>7 DEF q
<1>5. CASE RemoveMiddle(i)
  <2>1. q \in 2..(n - 1) /\ q - 1 \in 1..n /\ q + 1 \in 1..n
    BY <1>2, <1>5 DEF RemoveMiddle, Position
  <2>. HIDE DEF q
  <2>2. /\ prev[p[q]] = p[q - 1] /\ next[p[q]] = p[q + 1]
        /\ p[q - 1] \in Node /\ p[q + 1] \in Node
    BY <1>1, <1>3, <2>1
  <2>3. /\ next' = [next EXCEPT ![p[q - 1]] = p[q + 1]]
        /\ prev' = [prev EXCEPT ![p[q + 1]] = p[q - 1]]
        /\ head' = head /\ live' = live \ {p[q]} /\ element' = element
    BY <1>3, <1>5, <2>2 DEF RemoveMiddle, Release
  <2>4. Types'
    BY <1>1, <2>2, <2>3 DEF Types
  <2>5. \A x \in Node : next'[x] = IF x = p[q - 1] THEN p[q + 1] ELSE next[x]
    BY <1>1, <2>3
  <2>6. \A x \in Node : prev'[x] = IF x = p[q + 1] THEN p[q - 1] ELSE prev[x]
    BY <1>1, <2>3
  <2>7. Linked(n - 1, PathWithout(n, p, q))'
    BY <1>3, <2>1, <2>3, <2>5, <2>6, LinkOut
  <2>. QED
    BY <2>3, <2>4, <2>7 DEF q
<1>6. CASE RemoveLast(i)
  <2>1. q = n
    BY <1>2, <1>6 DEF RemoveLast, Position
  <2>. HIDE DEF q
  <2>2. prev[p[n]] = IF n = 1 THEN NULL ELSE p[n - 1]
    BY <1>1
  <2>3. /\ prev' = prev /\ live' = live \ {p[n]} /\ element' = element
        /\ IF prev[p[n]] # NULL THEN next' = [next EXCEPT ![prev[p[n]]] = NULL] /\ head' = head
           ELSE head' = NULL /\ next' = next
    BY <1>3, <1>6, <2>1 DEF RemoveLast, Release
  <2>4. CASE n = 1
    <3>1. head' = NULL /\ next' = next
      BY <2>2, <2>3, <2>4
    <3>2. Types'
      BY <1>1, <2>3, <3>1 DEF Types
    <3>3. Linked(n - 1, PathWithout(n, p, q))'
      BY <1>3, <2>1, <2>3, <2>4, <3>1, LinkOut
    <3>. QED
      BY <2>3, <3>2, <3>3 DEF q
  <2>5. CASE n # 1
    <3>1. n - 1 \in 1..n /\ n > 1 /\ p[n - 1] \in Node /\ p[n - 1] # NULL
      BY <1>1, <2>5
    <3>2. next' = [next EXCEPT ![p[n - 1]] = NULL] /\ head' = head
      BY <2>2, <2>3, <2>5, <3>1
    <3>3. Types'
      BY <1>1, <2>3, <3>1, <3>2 DEF Types
    <3>4. \A x \in Node : next'[x] = IF x = p[n - 1] THEN NULL ELSE next[x]
      BY <1>1, <3>2
    <3>5. Linked(n - 1, PathWithout(n, p, q))'
      BY <1>3, <2>1, <2>3, <3>1, <3>2, <3>4, LinkOut
    <3>. QED
      BY <2>3, <3>3, <3>5 DEF q
  <2>. QED
    BY <2>4, <2>5
<1>. QED
  BY <1>4, <1>5, <1>6

(***************************************************************************)
(* The sequences of ListSeq, position by position.                         *)
(***************************************************************************)
LEMMA InsertedIs ==
  ASSUME NEW s \in Seq(Element), NEW x \in Element, NEW i \in Int
  PROVE  Abstract!Inserted(s, x, i) =
           [k \in 1..(Len(s) + 1) |->
             IF k < Place(Len(s), i) THEN s[k]
             ELSE IF k = Place(Len(s), i) THEN x ELSE s[k - 1]]
<1>. DEFINE q == Place(Len(s), i)
            a == SubSeq(s, 1, q - 1)
            b == SubSeq(s, q, Len(s))
<1>1. Len(s) \in Nat /\ (s = <<>> <=> Len(s) = 0)
  BY LenProperties, EmptySeq
<1>2. q \in 1..(Len(s) + 1)
  BY <1>1 DEF Place
<1>3. (IF i < Len(s) THEN Abstract!Clamp(s, i) ELSE Len(s) + 1) = q
  BY <1>1 DEF Place, Abstract!Clamp
<1>4. Abstract!Inserted(s, x, i) = (a \o <<x>>) \o b
  <2>. HIDE DEF q
  <2>. QED
    BY <1>3 DEF Abstract!Inserted, Abstract!InsertAt
<1>. HIDE DEF q
<1>5. /\ a \in Seq(Element) /\ Len(a) = q - 1
      /\ \A k \in 1..(q - 1) : a[k] = s[k]
  BY <1>1, <1>2
<1>6. /\ b \in Seq(Element) /\ Len(b) = Len(s) + 1 - q
      /\ \A k \in 1..(Len(s) + 1 - q) : b[k] = s[q + k - 1]
  BY <1>1, <1>2
<1>7. <<x>> \in Seq(Element) /\ Len(<<x>>) = 1 /\ <<x>>[1] = x
  <2>1. <<x>> \in Seq(Element)
    OBVIOUS
  <2>2. Len(<<x>>) = 1 /\ <<x>>[1] = x
    OBVIOUS
  <2>. QED
    BY <2>1, <2>2
<1>. HIDE DEF a, b
<1>. DEFINE c == a \o <<x>>
            t == c \o b
<1>8. /\ c \in Seq(Element) /\ Len(c) = q
      /\ \A k \in 1..q : c[k] = IF k <= q - 1 THEN a[k] ELSE <<x>>[k - (q - 1)]
  BY <1>2, <1>5, <1>7, ConcatProperties
<1>. HIDE DEF c
<1>9. /\ t \in Seq(Element) /\ Len(t) = Len(s) + 1
      /\ \A k \in 1..(Len(s) + 1) : t[k] = IF k <= q THEN c[k] ELSE b[k - q]
  <2>1. /\ t \in Seq(Element) /\ Len(t) = Len(c) + Len(b)
        /\ \A k \in 1..(Len(c) + Len(b)) : t[k] = IF k <= Len(c) THEN c[k] ELSE b[k - Len(c)]
    BY <1>6, <1>8, ConcatProperties
  <2>2. Len(c) + Len(b) = Len(s) + 1 /\ Len(c) = q
    BY <1>1, <1>2, <1>6, <1>8
  <2>. HIDE DEF t
  <2>. QED
    BY <2>1, <2>2
<1>. HIDE DEF t
<1>10. ASSUME NEW k \in 1..(Len(s) + 1)
       PROVE  t[k] = IF k < q THEN s[k] ELSE IF k = q THEN x ELSE s[k - 1]
  <2>1. CASE k < q
    <3>1. k \in 1..q /\ k \in 1..(q - 1) /\ k <= q /\ k <= q - 1
      BY <1>1, <1>2, <2>1
    <3>. QED
      BY <1>5, <1>8, <1>9, <2>1, <3>1
  <2>2. CASE k = q
    <3>1. k \in 1..q /\ k <= q /\ ~(k <= q - 1) /\ k - (q - 1) = 1 /\ ~(k < q)
      BY <1>1, <1>2, <2>2
    <3>2. t[k] = c[k] /\ c[k] = <<x>>[k - (q - 1)]
      BY <1>8, <1>9, <3>1
    <3>3. t[k] = x
      BY <1>7, <3>1, <3>2
    <3>. QED
      BY <2>2, <3>1, <3>3
  <2>3. CASE k > q
    <3>1. k - q \in 1..(Len(s) + 1 - q) /\ q + (k - q) - 1 = k - 1 /\ ~(k <= q)
      BY <1>1, <1>2, <2>3
    <3>2. t[k] = b[k - q] /\ b[k - q] = s[q + (k - q) - 1]
      BY <1>6, <1>9, <3>1
    <3>. QED
      BY <1>2, <2>3, <3>1, <3>2
  <2>. QED
    BY <1>1, <1>2, <2>1, <2>2, <2>3
<1>11. t \in [1..(Len(s) + 1) -> Element]
  BY <1>9, LenProperties
<1>12. t = [k \in 1..(Len(s) + 1) |-> IF k < q THEN s[k] ELSE IF k = q THEN x ELSE s[k - 1]]
  BY <1>10, <1>11
<1>. QED
  BY <1>4, <1>12 DEF t, c, q

LEMMA RemovedIs ==
  ASSUME NEW s \in Seq(Element), s # <<>>, NEW i \in Int
  PROVE  Abstract!Removed(s, i) =
           [k \in 1..(Len(s) - 1) |-> IF k < Position(Len(s), i) THEN s[k] ELSE s[k + 1]]
<1>. DEFINE q == Position(Len(s), i)
            a == SubSeq(s, 1, q - 1)
            b == SubSeq(s, q + 1, Len(s))
            t == a \o b
<1>1. Len(s) \in Nat \ {0}
  BY LenProperties, EmptySeq
<1>2. q \in 1..Len(s) /\ Abstract!Clamp(s, i) = q
  BY <1>1 DEF Position, Abstract!Clamp
<1>3. Abstract!Removed(s, i) = t
  <2>. HIDE DEF q
  <2>. QED
    BY <1>2 DEF Abstract!Removed, Abstract!RemoveAt
<1>. HIDE DEF q
<1>4. /\ a \in Seq(Element) /\ Len(a) = q - 1
      /\ \A k \in 1..(q - 1) : a[k] = s[k]
  BY <1>1, <1>2
<1>5. /\ b \in Seq(Element) /\ Len(b) = Len(s) - q
      /\ \A k \in 1..(Len(s) - q) : b[k] = s[q + k]
  BY <1>1, <1>2
<1>. HIDE DEF a, b
<1>6. /\ t \in Seq(Element) /\ Len(t) = Len(s) - 1
      /\ \A k \in 1..(Len(s) - 1) : t[k] = IF k <= q - 1 THEN a[k] ELSE b[k - (q - 1)]
  <2>1. /\ t \in Seq(Element) /\ Len(t) = Len(a) + Len(b)
        /\ \A k \in 1..(Len(a) + Len(b)) : t[k] = IF k <= Len(a) THEN a[k] ELSE b[k - Len(a)]
    BY <1>4, <1>5, ConcatProperties
  <2>2. Len(a) + Len(b) = Len(s) - 1 /\ Len(a) = q - 1
    BY <1>1, <1>2, <1>4, <1>5
  <2>. HIDE DEF t
  <2>. QED
    BY <2>1, <2>2
<1>. HIDE DEF t
<1>7. ASSUME NEW k \in 1..(Len(s) - 1) PROVE t[k] = IF k < q THEN s[k] ELSE s[k + 1]
  <2>1. CASE k < q
    BY <1>1, <1>2, <1>4, <1>6, <2>1
  <2>2. CASE ~(k < q)
    <3>1. k - (q - 1) \in 1..(Len(s) - q) /\ q + (k - (q - 1)) = k + 1 /\ ~(k <= q - 1)
      BY <1>1, <1>2, <2>2
    <3>2. t[k] = b[k - (q - 1)] /\ b[k - (q - 1)] = s[q + (k - (q - 1))]
      BY <1>5, <1>6, <3>1
    <3>. QED
      BY <2>2, <3>1, <3>2
  <2>. QED
    BY <2>1, <2>2
<1>8. t \in [1..(Len(s) - 1) -> Element]
  BY <1>6, LenProperties
<1>. QED
  BY <1>3, <1>7, <1>8 DEF q

(***************************************************************************)
(* The views of the list that the properties speak of.                     *)
(***************************************************************************)
View(n, p) ==
  /\ Size = n
  /\ Forward = p
  /\ Elements = [k \in 1..n |-> element[p[k]]]

Views == Types => \A n \in Nat : \A p \in [1..n -> Node] : Linked(n, p) => View(n, p)

LEMMA ViewsAre == Views
<1>. SUFFICES ASSUME Types, NEW n \in Nat, NEW p \in [1..n -> Node], Linked(n, p)
              PROVE  View(n, p)
  BY DEF Views
<1>1. Size = n
  BY SizeIs
<1>2. \A k \in 1..n : Walk[k - 1] = p[k]
  <2>1. ASSUME NEW k \in 1..n PROVE Walk[k - 1] = p[k]
    <3>1. k - 1 \in Nat /\ k - 1 < n /\ k - 1 + 1 = k
      OBVIOUS
    <3>2. \A j \in Nat : Walk[j] = IF j < n THEN p[j + 1] ELSE NULL
      BY WalkIs
    <3>. QED
      BY <3>1, <3>2
  <2>. QED
    BY <2>1
<1>3. Forward = p
  BY <1>1, <1>2 DEF Forward
<1>4. Elements = [k \in 1..n |-> element[p[k]]]
  BY <1>1, <1>2 DEF Elements
<1>. QED
  BY <1>1, <1>3, <1>4 DEF View

LEMMA ViewsNext == Views'
BY ViewsAre, PTL

\* An interval from 1 has one upper end.
LEMMA IntervalsEqual == \A m, n \in Nat : 1..m = 1..n => m = n
OBVIOUS

\* The elements are a sequence, empty when the list is.
LEMMA ElementsAre ==
  ASSUME Types, NEW n \in Nat, NEW p \in [1..n -> Node], Linked(n, p)
  PROVE  Elements \in Seq(Element) /\ Len(Elements) = n /\ (Elements = <<>> <=> n = 0)
<1>1. Elements = [k \in 1..n |-> element[p[k]]]
  BY ViewsAre DEF Views, View
<1>2. Elements \in [1..n -> Element]
  BY <1>1 DEF Types
<1>3. Elements \in Seq(Element)
  BY <1>2, SeqDef
<1>4. Len(Elements) \in Nat /\ DOMAIN Elements = 1..Len(Elements)
  BY <1>3, LenProperties
<1>5. Len(Elements) = n
  BY <1>2, <1>4, IntervalsEqual
<1>. QED
  BY <1>3, <1>5, EmptySeq

(***************************************************************************)
(* The inductive invariant, and what a step is for ListSeq.                *)
(***************************************************************************)
LEMMA InitIInv == ASSUME Init PROVE IInv /\ Abstract!Init
<1>. DEFINE p == [k \in 1..0 |-> 1]
<1>1. Types
  <2>1. (CHOOSE x \in Element : TRUE) \in Element
    BY DplistAssumption
  <2>. DEFINE any == CHOOSE x \in Element : TRUE
  <2>2. element \in [Node -> {any}] /\ any \in Element
    BY <2>1 DEF Init
  <2>. HIDE DEF any
  <2>3. element \in [Node -> Element]
    BY <2>2
  <2>4. NULL \in Pointer
    BY DplistAssumption DEF NULL, Pointer
  <2>. QED
    BY <2>3, <2>4 DEF Init, Types
<1>2. p \in [1..0 -> Node] /\ 0 \in Nat
  OBVIOUS
<1>3. Linked(0, p)
  BY <1>2 DEF Init, Linked, IsPath
<1>. HIDE DEF p
<1>4. Elements = <<>>
  BY <1>1, <1>2, <1>3, ElementsAre
<1>. QED
  BY <1>1, <1>2, <1>3, <1>4 DEF IInv, Init, Abstract!Init

LEMMA InsertStep == ASSUME IInv, Insert PROVE IInv' /\ Abstract!Insert
<1>0. PICK n \in Nat : Types /\ \E p \in [1..n -> Node] : Linked(n, p)
  BY DEF IInv
<1>1. PICK p \in [1..n -> Node] : Types /\ Linked(n, p)
  BY <1>0
<1>2. PICK x \in Element, i \in Index :
         /\ live # Node
         /\ call' = <<"insert", x, i>>
         /\ \/ InsertFirst(Fresh, x, i)
            \/ InsertAtHead(Fresh, x, i)
            \/ InsertBefore(Fresh, x, i)
            \/ InsertLast(Fresh, x, i)
  BY DEF Insert
<1>3. i \in Int
  BY <1>2, DplistAssumption DEF Index
<1>4. PICK m \in Node \ live : m = Fresh
  BY <1>1, <1>2, FreshIs DEF Types
<1>. DEFINE q == Place(n, i)
            r == PathWith(n, p, q, m)
<1>5. Types' /\ Linked(n + 1, r)' /\ element' = [element EXCEPT ![m] = x]
  BY <1>1, <1>2, <1>3, <1>4, InsertIs
<1>6. /\ n + 1 \in Nat /\ r \in [1..(n + 1) -> Node]
      /\ p \in [1..n -> Node] /\ \A k \in 1..n : p[k] # m
  <2>1. r \in [1..(n + 1) -> Node]
    <3>. HIDE DEF r
    <3>. QED
      BY <1>5 DEF Linked, IsPath
  <2>2. \A k \in 1..n : p[k] \in live
    BY <1>1 DEF Linked
  <2>. QED
    BY <2>1, <2>2
<1>7. IInv'
  <2>. HIDE DEF r
  <2>. QED
    BY <1>5, <1>6 DEF IInv
<1>8. q \in 1..(n + 1)
  BY <1>3 DEF Place
<1>9. Elements' = [k \in 1..(n + 1) |-> element'[r[k]]]
  <2>. HIDE DEF r
  <2>. QED
    BY <1>5, <1>6, ViewsNext DEF Views, View
<1>10. Elements = [k \in 1..n |-> element[p[k]]] /\ Elements \in Seq(Element) /\ Len(Elements) = n
  BY <1>1, ViewsAre, ElementsAre DEF Views, View
<1>. HIDE DEF q
<1>11. ASSUME NEW k \in 1..(n + 1)
       PROVE  element'[r[k]] = IF k < q THEN Elements[k] ELSE IF k = q THEN x ELSE Elements[k - 1]
  <2>1. r[k] = IF k < q THEN p[k] ELSE IF k = q THEN m ELSE p[k - 1]
    BY DEF PathWith
  <2>2. element'[m] = x /\ \A y \in Node : y # m => element'[y] = element[y]
    BY <1>1, <1>5 DEF Types
  <2>3. CASE k < q
    <3>1. k \in 1..n
      BY <1>8, <2>3
    <3>2. r[k] = p[k] /\ p[k] \in Node /\ p[k] # m
      BY <1>6, <2>1, <2>3, <3>1
    <3>. QED
      BY <1>10, <2>2, <2>3, <3>1, <3>2
  <2>4. CASE k = q
    BY <1>8, <2>1, <2>2, <2>4
  <2>5. CASE k > q
    <3>1. k - 1 \in 1..n /\ ~(k < q) /\ k # q
      BY <1>8, <2>5
    <3>2. r[k] = p[k - 1] /\ p[k - 1] \in Node /\ p[k - 1] # m
      BY <1>6, <2>1, <3>1
    <3>. QED
      BY <1>10, <2>2, <3>1, <3>2
  <2>. QED
    BY <1>8, <2>3, <2>4, <2>5
<1>12. Abstract!Inserted(Elements, x, i)
         = [k \in 1..(n + 1) |->
             IF k < q THEN Elements[k] ELSE IF k = q THEN x ELSE Elements[k - 1]]
  <2>. DEFINE At(l) == [k \in 1..(l + 1) |->
                         IF k < Place(l, i) THEN Elements[k]
                         ELSE IF k = Place(l, i) THEN x ELSE Elements[k - 1]]
  <2>1. Elements \in Seq(Element) /\ Len(Elements) = n
    BY <1>10
  <2>2. Abstract!Inserted(Elements, x, i) = At(Len(Elements))
    BY <1>3, <2>1, InsertedIs, Zenon
  <2>. HIDE DEF At
  <2>3. Abstract!Inserted(Elements, x, i) = At(n)
    BY <2>1, <2>2
  <2>. QED
    BY <2>3 DEF At, q
<1>13. Elements' = Abstract!Inserted(Elements, x, i)
  <2>. HIDE DEF r
  <2>. QED
    BY <1>9, <1>11, <1>12
<1>14. i \in Abstract!Index
  BY DEF Index, Abstract!Index
<1>. QED
  BY <1>2, <1>7, <1>13, <1>14 DEF Abstract!Insert

LEMMA RemoveStep == ASSUME IInv, Remove PROVE IInv' /\ Abstract!Delete
<1>0. PICK n \in Nat : Types /\ \E p \in [1..n -> Node] : Linked(n, p)
  BY DEF IInv
<1>1. PICK p \in [1..n -> Node] : Types /\ Linked(n, p)
  BY <1>0
<1>2. PICK i \in Index :
         /\ call' = <<"remove", i>>
         /\ RemoveNothing \/ RemoveHead(i) \/ RemoveMiddle(i) \/ RemoveLast(i)
  BY DEF Remove
<1>3. i \in Int /\ i \in Abstract!Index
  BY <1>2, DplistAssumption DEF Index, Abstract!Index
<1>4. head = NULL <=> n = 0
  BY <1>1, DplistAssumption DEF Linked, IsPath, Node, NULL
<1>5. /\ Elements = [k \in 1..n |-> element[p[k]]]
      /\ Elements \in Seq(Element) /\ Len(Elements) = n
      /\ Elements = <<>> <=> n = 0
  BY <1>1, ViewsAre, ElementsAre DEF Views, View
<1>6. CASE RemoveNothing
  <2>1. Types' /\ Linked(n, p)' /\ element' = element
    BY <1>1, <1>6 DEF RemoveNothing, Types, Linked, IsPath
  <2>2. Elements' = [k \in 1..n |-> element'[p[k]]]
    BY <1>1, <2>1, ViewsNext DEF Views, View
  <2>3. n = 0
    BY <1>4, <1>6 DEF RemoveNothing
  <2>4. Elements' = Abstract!Removed(Elements, i)
    BY <1>5, <2>1, <2>2, <2>3 DEF Abstract!Removed
  <2>5. IInv'
    BY <2>1 DEF IInv
  <2>. QED
    BY <1>2, <1>3, <2>4, <2>5 DEF Abstract!Delete
<1>7. CASE RemoveHead(i) \/ RemoveMiddle(i) \/ RemoveLast(i)
  <2>. DEFINE q == Position(n, i)
              r == PathWithout(n, p, q)
  <2>1. n \in Nat \ {0}
    BY <1>4, <1>7 DEF RemoveHead, RemoveMiddle, RemoveLast
  <2>2. Types' /\ Linked(n - 1, r)' /\ element' = element
    BY <1>1, <1>3, <1>7, <2>1, RemoveIs
  <2>3. n - 1 \in Nat /\ r \in [1..(n - 1) -> Node]
    <3>. HIDE DEF r
    <3>. QED
      BY <2>1, <2>2 DEF Linked, IsPath
  <2>4. q \in 1..n
    BY <1>1, <1>3, <2>1, ReferenceIs
  <2>5. Elements' = [k \in 1..(n - 1) |-> element'[r[k]]] /\ IInv'
    <3>. HIDE DEF r
    <3>. QED
      BY <2>2, <2>3, ViewsNext DEF Views, View, IInv
  <2>. HIDE DEF q
  <2>6. ASSUME NEW k \in 1..(n - 1)
        PROVE  element'[r[k]] = IF k < q THEN Elements[k] ELSE Elements[k + 1]
    <3>1. r[k] = IF k < q THEN p[k] ELSE p[k + 1]
      BY DEF PathWithout
    <3>2. k \in 1..n /\ k + 1 \in 1..n
      BY <2>1
    <3>. HIDE DEF r
    <3>. QED
      BY <1>5, <2>2, <3>1, <3>2
  <2>7. Abstract!Removed(Elements, i)
          = [k \in 1..(n - 1) |-> IF k < q THEN Elements[k] ELSE Elements[k + 1]]
    <3>. DEFINE At(l) == [k \in 1..(l - 1) |->
                           IF k < Position(l, i) THEN Elements[k] ELSE Elements[k + 1]]
    <3>1. Elements \in Seq(Element) /\ Len(Elements) = n /\ Elements # <<>>
      BY <1>5, <2>1
    <3>2. Abstract!Removed(Elements, i) = At(Len(Elements))
      BY <1>3, <3>1, RemovedIs, Zenon
    <3>. HIDE DEF At
    <3>3. Abstract!Removed(Elements, i) = At(n)
      BY <3>1, <3>2
    <3>. QED
      BY <3>3 DEF At, q
  <2>8. Elements' = Abstract!Removed(Elements, i)
    <3>. HIDE DEF r
    <3>. QED
      BY <2>5, <2>6, <2>7
  <2>. QED
    BY <1>2, <1>3, <2>5, <2>8 DEF Abstract!Delete
<1>. QED
  BY <1>2, <1>6, <1>7

LEMMA FreeStep == ASSUME IInv, Free PROVE IInv' /\ Abstract!Clear
<1>0. PICK n \in Nat : Types /\ \E p \in [1..n -> Node] : Linked(n, p)
  BY DEF IInv
<1>1. PICK p \in [1..n -> Node] : Types /\ Linked(n, p)
  BY <1>0
<1>. DEFINE none == [k \in 1..0 |-> 1]
<1>2. live' = {}
  <2>1. ASSUME NEW x \in live PROVE \E k \in 0..MaxSize : x = Walk[k]
    <3>1. PICK k \in 1..n : x = p[k]
      BY <1>1 DEF Linked
    <3>2. k - 1 \in Nat /\ k - 1 < n /\ k - 1 + 1 = k
      OBVIOUS
    <3>3. k - 1 \in 0..MaxSize
      BY <1>1, PathLength, DplistAssumption
    <3>4. Walk[k - 1] = p[k]
      BY <1>1, <3>2, WalkIs
    <3>. QED
      BY <3>1, <3>3, <3>4
  <2>. QED
    BY <2>1 DEF Free
<1>3. Types'
  <2>1. NULL \in Pointer
    BY DplistAssumption DEF NULL, Pointer
  <2>. QED
    BY <1>1, <1>2, <2>1 DEF Free, Types
<1>4. none \in [1..0 -> Node] /\ 0 \in Nat
  OBVIOUS
<1>5. Linked(0, none)'
  BY <1>2, <1>4 DEF Free, Linked, IsPath
<1>6. Elements' = [k \in 1..0 |-> element'[none[k]]]
  <2>. HIDE DEF none
  <2>. QED
    BY <1>3, <1>4, <1>5, ViewsNext DEF Views, View
<1>7. Elements' = <<>>
  BY <1>6
<1>8. IInv'
  <2>. HIDE DEF none
  <2>. QED
    BY <1>3, <1>4, <1>5 DEF IInv
<1>. QED
  BY <1>7, <1>8 DEF Free, Abstract!Clear

LEMMA StutterStep ==
  ASSUME IInv, UNCHANGED vars
  PROVE  IInv' /\ UNCHANGED <<Elements, call>>
<1>0. PICK n \in Nat : Types /\ \E p \in [1..n -> Node] : Linked(n, p)
  BY DEF IInv
<1>1. PICK p \in [1..n -> Node] : Types /\ Linked(n, p)
  BY <1>0
<1>2. Types' /\ Linked(n, p)'
  BY <1>1 DEF vars, Types, Linked, IsPath
<1>3. Elements = [k \in 1..n |-> element[p[k]]]
  BY <1>1, ViewsAre DEF Views, View
<1>4. Elements' = [k \in 1..n |-> element'[p[k]]]
  BY <1>2, ViewsNext DEF Views, View
<1>. QED
  BY <1>2, <1>3, <1>4 DEF vars, IInv

\* dpl_get_index_of_element finds the index that the sequence gives.
LEMMA IndexOfIs ==
  ASSUME IInv, NEW x \in Element
  PROVE  IndexOf(x) = Abstract!IndexOf(Elements, x)
<1>0. PICK n \in Nat : Types /\ \E p \in [1..n -> Node] : Linked(n, p)
  BY DEF IInv
<1>1. PICK p \in [1..n -> Node] : Types /\ Linked(n, p)
  BY <1>0
<1>2. Elements = [k \in 1..n |-> element[p[k]]] /\ Size = n
  BY <1>1, ViewsAre DEF Views, View
<1>3. DOMAIN Elements = 1..n
  BY <1>2
<1>4. head = NULL <=> n = 0
  BY <1>1, DplistAssumption DEF Linked, IsPath, Node, NULL
<1>5. \A k \in 0..(n - 1) : k + 1 \in 1..n /\ element[Walk[k]] = Elements[k + 1]
  <2>1. ASSUME NEW k \in 0..(n - 1) PROVE k + 1 \in 1..n /\ element[Walk[k]] = Elements[k + 1]
    <3>1. k \in Nat /\ k < n /\ k + 1 \in 1..n
      OBVIOUS
    <3>2. Walk[k] = p[k + 1]
      BY <1>1, <3>1, WalkIs
    <3>. QED
      BY <1>2, <3>1, <3>2
  <2>. QED
    BY <2>1
<1>. DEFINE hits == {k \in 0..(n - 1) : element[Walk[k]] = x}
            Least(k) == \A j \in hits : k <= j
            First(k) == Elements[k] = x /\ \A j \in 1..(k - 1) : Elements[j] # x
<1>6. IndexOf(x) = IF head = NULL \/ hits = {} THEN -1 ELSE CHOOSE k \in hits : Least(k)
  BY <1>2 DEF IndexOf
<1>7. Abstract!IndexOf(Elements, x)
        = IF \E k \in DOMAIN Elements : Elements[k] = x
          THEN (CHOOSE k \in DOMAIN Elements : First(k)) - 1 ELSE -1
  BY DEF Abstract!IndexOf
<1>8. hits \subseteq Nat /\ \A k \in 0..(n - 1) : k \in hits <=> Elements[k + 1] = x
  BY <1>5
<1>. HIDE DEF hits
<1>9. CASE hits = {}
  <2>1. ~ \E k \in DOMAIN Elements : Elements[k] = x
    <3>1. ASSUME NEW k \in 1..n, Elements[k] = x PROVE FALSE
      <4>1. k - 1 \in 0..(n - 1) /\ k - 1 + 1 = k
        OBVIOUS
      <4>. QED
        BY <1>8, <1>9, <3>1, <4>1
    <3>. QED
      BY <1>3, <3>1
  <2>. HIDE DEF First, Least
  <2>. QED
    BY <1>6, <1>7, <1>9, <2>1
<1>10. CASE hits # {}
  <2>1. PICK f \in hits : \A j \in hits : f <= j
    BY <1>8, <1>10, LeastNumber
  <2>2. f \in 0..(n - 1) /\ f \in Nat /\ f + 1 \in 1..n /\ Elements[f + 1] = x
    <3>1. hits \subseteq 0..(n - 1)
      BY DEF hits
    <3>. QED
      BY <1>8, <2>1, <3>1
  <2>3. ASSUME NEW k \in hits PROVE Least(k) <=> k = f
    BY <1>8, <2>1, <2>3
  <2>4. (CHOOSE k \in hits : Least(k)) = f
    <3>. HIDE DEF Least
    <3>. QED
      BY <2>1, <2>3
  <2>5. ASSUME NEW k \in 1..n PROVE First(k) <=> k = f + 1
    <3>1. ASSUME NEW j \in 1..n, Elements[j] = x PROVE f + 1 <= j
      <4>1. j - 1 \in 0..(n - 1) /\ j - 1 + 1 = j
        OBVIOUS
      <4>2. j - 1 \in hits
        BY <1>8, <3>1, <4>1
      <4>. QED
        BY <2>1, <2>2, <4>1, <4>2
    <3>2. First(k) => k = f + 1
      <4>1. ASSUME First(k), k # f + 1 PROVE FALSE
        <5>1. f + 1 <= k
          BY <3>1, <4>1
        <5>2. f + 1 \in 1..(k - 1)
          BY <2>2, <4>1, <5>1
        <5>. QED
          BY <2>2, <4>1, <5>2
      <4>. QED
        BY <4>1
    <3>3. First(f + 1)
      <4>1. ASSUME NEW j \in 1..(f + 1 - 1), Elements[j] = x PROVE FALSE
        <5>1. j \in 1..n /\ ~(f + 1 <= j)
          BY <2>2
        <5>. QED
          BY <3>1, <4>1, <5>1
      <4>. QED
        BY <2>2, <4>1
    <3>. HIDE DEF First
    <3>. QED
      BY <3>2, <3>3
  <2>6. (CHOOSE k \in DOMAIN Elements : First(k)) = f + 1
    <3>. HIDE DEF First
    <3>. QED
      BY <1>3, <2>2, <2>5
  <2>7. \E k \in DOMAIN Elements : Elements[k] = x
    BY <1>3, <2>2
  <2>8. head # NULL
    BY <1>4, <2>2
  <2>. DEFINE least == CHOOSE k \in hits : Least(k)
              first == CHOOSE k \in DOMAIN Elements : First(k)
  <2>9. IndexOf(x) = least
    BY <1>6, <1>10, <2>8, Zenon
  <2>10. Abstract!IndexOf(Elements, x) = first - 1
    BY <1>7, <2>7, Zenon
  <2>11. least = f /\ first = f + 1
    BY <2>4, <2>6
  <2>. HIDE DEF least, first
  <2>. QED
    BY <2>2, <2>9, <2>10, <2>11
<1>. QED
  BY <1>9, <1>10

(***************************************************************************)
(* The theorems.                                                           *)
(***************************************************************************)

\* Whatever sequence of insertions, removals and releases the callers make, the
\* nodes in use form one path that next describes forwards and prev backwards.
THEOREM SpecIInv == Spec => []IInv
<1>1. Init => IInv
  BY InitIInv
<1>2. IInv /\ [Next]_vars => IInv'
  BY InsertStep, RemoveStep, FreeStep, StutterStep DEF Next
<1>. QED
  BY <1>1, <1>2, PTL DEF Spec

\* The pointer code of dplist.c implements the sequence of ListSeq.
THEOREM SpecRefinesSequence == Spec => RefinesSequence
<1>1. Init => Abstract!Init
  BY InitIInv
<1>2. IInv /\ [Next]_vars
        => [Abstract!Insert \/ Abstract!Delete \/ Abstract!Clear]_<<Elements, call>>
  BY InsertStep, RemoveStep, FreeStep, StutterStep DEF Next
<1>. QED
  BY <1>1, <1>2, SpecIInv, PTL DEF Spec, RefinesSequence, Abstract!Spec

\* The head is a node in use or NULL, and all links are pointers.
THEOREM SpecTypeOK == Spec => []TypeOK
<1>1. IInv => TypeOK
  BY DEF IInv, Types, TypeOK, Linked, IsPath
<1>. QED
  BY <1>1, SpecIInv, PTL

\* No operation loses a node, and none leaves a freed node on the list.
THEOREM SpecNoLeak == Spec => []NoLeak
<1>1. ASSUME IInv PROVE NoLeak
  <2>0. PICK n \in Nat : Types /\ \E p \in [1..n -> Node] : Linked(n, p)
    BY <1>1 DEF IInv
  <2>1. PICK p \in [1..n -> Node] : Types /\ Linked(n, p)
    BY <2>0
  <2>2. Size = n /\ Forward = p
    BY <2>1, ViewsAre DEF Views, View
  <2>3. Cardinality(live) = n /\ live = {p[k] : k \in 1..n}
    BY <2>1, PathLength DEF Linked
  <2>. QED
    BY <2>2, <2>3 DEF NoLeak
<1>. QED
  BY <1>1, SpecIInv, PTL

\* Going back over prev undoes going forward over next.
THEOREM SpecDoublyLinked == Spec => []DoublyLinked
<1>1. ASSUME IInv PROVE DoublyLinked
  <2>0. PICK n \in Nat : Types /\ \E p \in [1..n -> Node] : Linked(n, p)
    BY <1>1 DEF IInv
  <2>1. PICK p \in [1..n -> Node] : Types /\ Linked(n, p)
    BY <2>0
  <2>2. Size = n /\ Forward = p
    BY <2>1, ViewsAre DEF Views, View
  <2>. QED
    BY <2>1, <2>2 DEF DoublyLinked, Linked
<1>. QED
  BY <1>1, SpecIInv, PTL

\* For an index that lies on the list or outside, the element that the lookup
\* finds is that of the sequence, and so is the index of an element.
THEOREM SpecLookupsAgree == Spec => []LookupsAgree
<1>1. ASSUME IInv PROVE LookupsAgree
  <2>0. PICK n \in Nat : Types /\ \E p \in [1..n -> Node] : Linked(n, p)
    BY <1>1 DEF IInv
  <2>1. PICK p \in [1..n -> Node] : Types /\ Linked(n, p)
    BY <2>0
  <2>2. Elements = [k \in 1..n |-> element[p[k]]] /\ Size = n
    BY <2>1, ViewsAre DEF Views, View
  <2>3. Elements \in Seq(Element) /\ Len(Elements) = n /\ DOMAIN Elements = 1..n
    BY <2>1, ElementsAre, LenProperties
  <2>4. head = NULL <=> n = 0
    BY <2>1, DplistAssumption DEF Linked, IsPath, Node, NULL
  <2>5. ASSUME head # NULL, NEW i \in Index
        PROVE  element[ReferenceAt(i)] = Abstract!ElementAt(Elements, i)
    <3>1. i \in Int /\ n \in Nat \ {0}
      BY <2>4, <2>5, DplistAssumption DEF Index
    <3>2. Position(n, i) \in 1..n /\ ReferenceAt(i) = p[Position(n, i)]
      BY <2>1, <3>1, ReferenceIs
    <3>3. Abstract!Clamp(Elements, i) = Position(n, i)
      BY <2>3, <3>1 DEF Abstract!Clamp, Position
    <3>. QED
      BY <2>2, <3>2, <3>3 DEF Abstract!ElementAt
  <2>6. ASSUME NEW x \in Element PROVE IndexOf(x) = Abstract!IndexOf(Elements, x)
    BY <1>1, IndexOfIs
  <2>. QED
    BY <2>5, <2>6 DEF LookupsAgree
<1>. QED
  BY <1>1, SpecIInv, PTL
=============================================================================
