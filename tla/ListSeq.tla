------------------------------ MODULE ListSeq ------------------------------
(***************************************************************************)
(* What a dplist_t promises its callers: a sequence of elements, indexed   *)
(* from 0, in which an index that is too small means the first element and *)
(* one that is too large the last.  The connection manager and the data    *)
(* manager see their lists through these operators; Dplist shows that the  *)
(* doubly linked list of src/lib/dplist.c implements them.                 *)
(***************************************************************************)
EXTENDS Integers, SequencesExt

CONSTANTS
  Element,   \* what the callers store
  MaxSize    \* bound on the length of the list

Index == -1..(MaxSize + 1)

\* The position, counted from 1, that index i stands for in a non-empty s.
Clamp(s, i) == IF i <= 0 THEN 1 ELSE IF i >= Len(s) THEN Len(s) ELSE i + 1

ElementAt(s, i)   == s[Clamp(s, i)]
Inserted(s, x, i) == InsertAt(s, IF i < Len(s) THEN Clamp(s, i) ELSE Len(s) + 1, x)
Removed(s, i)     == IF s = <<>> THEN s ELSE RemoveAt(s, Clamp(s, i))

\* The index of the first x, -1 if there is none.
IndexOf(s, x) ==
  IF \E k \in DOMAIN s : s[k] = x
    THEN (CHOOSE k \in DOMAIN s : s[k] = x /\ \A j \in 1..(k - 1) : s[j] # x) - 1
    ELSE -1

VARIABLES
  list,
  call   \* the call last completed, with its arguments

Init == list = <<>> /\ call = <<"create">>

Insert ==
  \E x \in Element, i \in Index :
    list' = Inserted(list, x, i) /\ call' = <<"insert", x, i>>

Delete == \E i \in Index : list' = Removed(list, i) /\ call' = <<"remove", i>>
Clear  == list' = <<>> /\ call' = <<"free">>

Spec == Init /\ [][Insert \/ Delete \/ Clear]_<<list, call>>
=============================================================================
