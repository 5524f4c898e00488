------------------------------- MODULE Dplist -------------------------------
(***************************************************************************)
(* The doubly linked list of src/lib/dplist.c on a heap of nodes: the      *)
(* pointer assignments of insertion and removal at an index, the traversal *)
(* on which every other operation rests, and the release of the list.  It  *)
(* is used by one thread at a time, so an operation is one step.           *)
(***************************************************************************)
EXTENDS Integers, Sequences, FiniteSets

CONSTANTS
  Element,   \* what the callers store
  MaxSize    \* bound on the number of nodes

ASSUME DplistAssumption == MaxSize \in Nat \ {0} /\ Element # {}

NULL    == 0
Node    == 1..MaxSize
Pointer == 0..MaxSize
Index   == -1..(MaxSize + 1)

VARIABLES
  head,       \* list->head
  prev, next, \* the links of each node
  element,    \* element[n], once node n has been used
  live,       \* the nodes that malloc returned and free has not taken back
  call        \* the call last completed, with its arguments

vars == <<head, prev, next, element, live, call>>

\* Walk[k]: the node reached from head over k links, NULL past the end.
Walk[k \in Nat] ==
  IF k = 0 THEN head ELSE IF Walk[k - 1] = NULL THEN NULL ELSE next[Walk[k - 1]]

\* dpl_size
Size ==
  IF head = NULL THEN 0
  ELSE 1 + (CHOOSE k \in 0..MaxSize : Walk[k] # NULL /\ next[Walk[k]] = NULL)

\* Mutant: the loop makes one step too few.
ReferenceAt_Short(i) ==
  IF i <= 0 THEN head ELSE IF i >= Size - 1 THEN Walk[Size - 1] ELSE Walk[i - 1]

\* dpl_get_reference_at_index
ReferenceAt(i) ==
  IF i <= 0 THEN head ELSE IF i >= Size - 1 THEN Walk[Size - 1] ELSE Walk[i]

\* dpl_get_index_of_element, with a comparison that holds of equal elements
IndexOf(x) ==
  LET hits == {k \in 0..(Size - 1) : element[Walk[k]] = x}
  IN  IF head = NULL \/ hits = {} THEN -1 ELSE CHOOSE k \in hits : \A j \in hits : k <= j

Init ==
  /\ head = NULL
  /\ prev = [n \in Node |-> NULL]
  /\ next = [n \in Node |-> NULL]
  /\ element \in [Node -> {CHOOSE x \in Element : TRUE}]
  /\ live = {}
  /\ call = <<"create">>

(***************************************************************************)
(* dpl_insert_at_index: case 1 (empty), 2 (at the head), 4 (before the     *)
(* node at the index), 3 (after the last node).                            *)
(***************************************************************************)
\* malloc: which free node it returns makes no difference to the operations.
Fresh == CHOOSE n \in Node \ live : TRUE

Allocate(n, x) ==
  /\ live' = live \cup {n}
  /\ element' = [element EXCEPT ![n] = x]

InsertFirst(n, x, i) ==
  /\ head = NULL
  /\ Allocate(n, x)
  /\ prev' = [prev EXCEPT ![n] = NULL]
  /\ next' = [next EXCEPT ![n] = NULL]
  /\ head' = n

\* Mutant: index 1 counts as the head, as if indices began at 1.
InsertAtHead_FromOne(n, x, i) ==
  /\ head # NULL /\ i <= 1
  /\ Allocate(n, x)
  /\ prev' = [prev EXCEPT ![n] = NULL, ![head] = n]
  /\ next' = [next EXCEPT ![n] = head]
  /\ head' = n

InsertAtHead(n, x, i) ==
  /\ head # NULL /\ i <= 0
  /\ Allocate(n, x)
  /\ prev' = [prev EXCEPT ![n] = NULL, ![head] = n]
  /\ next' = [next EXCEPT ![n] = head]
  /\ head' = n

\* Mutant: `ref_at_index->prev = list_node' is missing.
InsertBefore_HalfLinked(n, x, i) ==
  LET ref == ReferenceAt(i) IN
  /\ head # NULL /\ i > 0 /\ i < Size
  /\ Allocate(n, x)
  /\ prev' = [prev EXCEPT ![n] = prev[ref]]
  /\ next' = [next EXCEPT ![n] = ref, ![prev[ref]] = n]
  /\ UNCHANGED head

InsertBefore(n, x, i) ==
  LET ref == ReferenceAt(i) IN
  /\ head # NULL /\ i > 0 /\ i < Size
  /\ Allocate(n, x)
  /\ prev' = [prev EXCEPT ![n] = prev[ref], ![ref] = n]
  /\ next' = [next EXCEPT ![n] = ref, ![prev[ref]] = n]
  /\ UNCHANGED head

InsertLast(n, x, i) ==
  LET ref == ReferenceAt(i) IN
  /\ head # NULL /\ i > 0 /\ i >= Size
  /\ Allocate(n, x)
  /\ prev' = [prev EXCEPT ![n] = ref]
  /\ next' = [next EXCEPT ![n] = NULL, ![ref] = n]
  /\ UNCHANGED head

Insert ==
  \E x \in Element, i \in Index :
    /\ live # Node
    /\ call' = <<"insert", x, i>>
    /\ \/ InsertFirst(Fresh, x, i)
       \/ InsertAtHead(Fresh, x, i)
       \/ InsertBefore(Fresh, x, i)
       \/ InsertLast(Fresh, x, i)

(***************************************************************************)
(* dpl_remove_at_index: case 2 (the head), 4 (in the middle), 3 (the last, *)
(* which may also be the only one).                                        *)
(***************************************************************************)
Release(n) == live' = live \ {n} /\ UNCHANGED element

RemoveHead(i) ==
  /\ head # NULL /\ i <= 0
  /\ head' = next[head]
  /\ prev' = IF next[head] # NULL THEN [prev EXCEPT ![next[head]] = NULL] ELSE prev
  /\ UNCHANGED next
  /\ Release(head)

RemoveMiddle(i) ==
  LET ref == ReferenceAt(i) IN
  /\ head # NULL /\ i > 0 /\ i < Size - 1
  /\ next' = [next EXCEPT ![prev[ref]] = next[ref]]
  /\ prev' = [prev EXCEPT ![next[ref]] = prev[ref]]
  /\ UNCHANGED head
  /\ Release(ref)

\* Mutant: an index past the end unlinks the last node without freeing it.
RemoveLast_Leak(i) ==
  LET ref == ReferenceAt(i) IN
  /\ head # NULL /\ i > 0 /\ i >= Size - 1
  /\ IF prev[ref] # NULL
       THEN next' = [next EXCEPT ![prev[ref]] = NULL] /\ UNCHANGED head
       ELSE head' = NULL /\ UNCHANGED next
  /\ UNCHANGED <<prev, live, element>>

\* Mutant: the head keeps pointing at the only node when that is removed.
RemoveLast_KeepsHead(i) ==
  LET ref == ReferenceAt(i) IN
  /\ head # NULL /\ i > 0 /\ i >= Size - 1
  /\ next' = IF prev[ref] # NULL THEN [next EXCEPT ![prev[ref]] = NULL] ELSE next
  /\ UNCHANGED <<head, prev>>
  /\ Release(ref)

RemoveLast(i) ==
  LET ref == ReferenceAt(i) IN
  /\ head # NULL /\ i > 0 /\ i >= Size - 1
  /\ IF prev[ref] # NULL
       THEN next' = [next EXCEPT ![prev[ref]] = NULL] /\ UNCHANGED head
       ELSE head' = NULL /\ UNCHANGED next
  /\ UNCHANGED prev
  /\ Release(ref)

RemoveNothing == head = NULL /\ UNCHANGED <<head, prev, next, element, live>>

Remove ==
  \E i \in Index :
    /\ call' = <<"remove", i>>
    /\ RemoveNothing \/ RemoveHead(i) \/ RemoveMiddle(i) \/ RemoveLast(i)

\* dpl_free walks the list and frees what it reaches; an empty list follows, as
\* dpl_create makes it.
Free ==
  /\ call' = <<"free">>
  /\ head' = NULL
  /\ live' = live \ {Walk[k] : k \in 0..MaxSize}
  /\ UNCHANGED <<prev, next, element>>

Next == Insert \/ Remove \/ Free

Spec == Init /\ [][Next]_vars

(***************************************************************************)
(* Properties.                                                             *)
(***************************************************************************)
TypeOK ==
  /\ head \in live \cup {NULL}
  /\ prev \in [Node -> Pointer] /\ next \in [Node -> Pointer]
  /\ element \in [Node -> Element]
  /\ live \subseteq Node

\* The nodes in list order, as next gives them.
Forward == [k \in 1..Size |-> Walk[k - 1]]
Elements == [k \in 1..Size |-> element[Walk[k - 1]]]

\* Every allocated node is on the list and every node of the list is allocated:
\* no operation loses a node or leaves a freed one linked.
NoLeak == live = {Forward[k] : k \in 1..Size} /\ Cardinality(live) = Size

\* Going back over prev undoes going forward over next, and ends at the head:
\* removal at the end, which trusts prev, unlinks the right node.
DoublyLinked ==
  \A k \in 1..Size : prev[Forward[k]] = IF k = 1 THEN NULL ELSE Forward[k - 1]

\* The pointer operations implement insertion and removal in a sequence at an
\* index that is clamped to the list.
Abstract == INSTANCE ListSeq WITH list <- Elements
RefinesSequence == Abstract!Spec

\* Lookups agree with the sequence: the same element for any index, however far
\* outside the list, and the first index of an element.
LookupsAgree ==
  /\ head # NULL => \A i \in Index : element[ReferenceAt(i)] = Abstract!ElementAt(Elements, i)
  /\ \A x \in Element : IndexOf(x) = Abstract!IndexOf(Elements, x)
=============================================================================
