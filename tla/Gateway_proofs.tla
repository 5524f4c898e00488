--------------------------- MODULE Gateway_proofs ---------------------------
(***************************************************************************)
(* Proofs about the gateway that hold for every number of readings and     *)
(* every timing: whichever insertions, removals and polls overlap, a node  *)
(* is freed only after both readers took it, sbuffer_remove is never run   *)
(* by both, and each reader handles every reading at most once, in order.  *)
(***************************************************************************)
EXTENDS Gateway, TLAPS

First == {"first_tail", "first_reload", "first_head"}

\* Reader c is on its way to the barrier, or waits there.
Met(c) == pc[c] \in {"fresh_last", "complete", "blocked"}

Both == taken["datamgr"] \cap taken["strmgr"]

(***************************************************************************)
(* The inductive invariant.                                                *)
(***************************************************************************)

\* Who holds the mutex, and that removals exclude each other.
Locking ==
  /\ pc["connmgr"] \in Inserting <=> mutex = "connmgr"
  /\ \A c \in Consumer : pc[c] \in {"poll_load", "poll_flags"} <=> mutex = c
  /\ SoleRemover

\* What the insertion in progress has loaded and stored.
Insertion ==
  /\ pc["connmgr"] \in Inserting => arrived # 0
  /\ pc["connmgr"] \in {"ins_test", "link_load"} => tail < arrived
  /\ pc["connmgr"] = "first_tail" => tail = NULL
  /\ pc["connmgr"] = "first_reload" => tail = arrived
  /\ pc["connmgr"] = "first_head" => tail = arrived /\ reg["connmgr"] = arrived
  /\ pc["connmgr"] = "link_store" =>
       reg["connmgr"] < arrived /\ tail \in {reg["connmgr"], NULL}
  /\ pc["connmgr"] = "tail_load" => tail = NULL \/ next[tail] = arrived
  /\ pc["connmgr"] = "tail_next" => reg["connmgr"] = NULL \/ next[reg["connmgr"]] = arrived
  /\ pc["connmgr"] = "tail_store" => reg["connmgr"] = arrived

\* When both readers are on their way to the barrier the head is a node that
\* both have taken, and so is the node that the remover then unlinks.
Agreement ==
  /\ \A c \in Consumer : Met(c) => dummy[c] \in Both
  /\ \A c \in Consumer : pc[c] = "poll_flags" /\ Met(Other(c)) => dummy[c] = head
  /\ (\A c \in Consumer : Met(c)) => head \in Both
  /\ \A c \in Consumer : pc[c] = "remove" => head \in Both
  /\ \A c \in Consumer : pc[c] \in Unlinking \cup {"free"} => dummy[c] \in Both

\* How head and tail may disagree.
Ends ==
  /\ tail = NULL /\ head # NULL => \E c \in Consumer : pc[c] \in {"unlink_reload", "unlink_head"}
  /\ pc["connmgr"] \in First =>
       /\ ~ \A c \in Consumer : Met(c)
       /\ \A c \in Consumer : pc[c] \notin {"remove", "unlink_tail", "unlink_next"}
  /\ \A c \in Consumer : pc[c] \in {"unlink_tail", "unlink_next"} => tail # NULL
  /\ \A c \in Consumer : pc[c] \in Unlinking => head # NULL
  /\ \A c \in Consumer : pc[c] = "unlink_head" /\ pc["connmgr"] \in First =>
       reg[c] \in {NULL, arrived}

\* A thread that is done has seen an empty buffer that stays empty.
Shutdown ==
  /\ listening <=> pc["connmgr"] # "done"
  /\ \A c \in Consumer : pc[c] = "loop_size" => ~listening
  /\ \A c \in Consumer : pc[c] = "done" => ~listening /\ head = NULL

\* The list runs forward in order of arrival, and head never goes back.
Order ==
  /\ head <= arrived /\ tail <= arrived
  /\ \A n \in Node : next[n] # NULL => n < next[n] /\ next[n] <= arrived
  /\ head # NULL /\ tail # NULL => head <= tail
  /\ tail # NULL => \A n \in Node : n < tail => next[n] <= tail
  /\ \A c \in Consumer : pc[c] = "unlink_next" => head < tail
  /\ \A c \in Consumer : pc[c] = "unlink_head" /\ reg[c] # NULL =>
       head <= reg[c] /\ reg[c] <= tail

\* No reader has gone past the head.
Progress ==
  /\ \A c \in Consumer : \A m \in taken[c] : m <= arrived /\ (head # NULL => m <= head)
  /\ \A c \in Consumer : pc[c] = "poll_flags" /\ dummy[c] # NULL =>
       /\ dummy[c] <= arrived
       /\ head # NULL => dummy[c] <= head
       /\ \A m \in taken[c] : m <= dummy[c]

\* What was handled was taken before, and the reading in hand is the newest.
History ==
  \A c \in Consumer :
    /\ \A i \in 1..Len(handled[c]) : handled[c][i] \in taken[c]
    /\ pc[c] \in {"fresh", "fresh_last"} =>
         /\ dummy[c] \in taken[c]
         /\ \A i \in 1..Len(handled[c]) : handled[c][i] < dummy[c]

IInv ==
  /\ TypeOK
  /\ Locking
  /\ Insertion
  /\ Agreement
  /\ Ends
  /\ Shutdown
  /\ Order
  /\ Progress
  /\ History
  /\ FreedAfterBoth
  /\ InOrderOnce

(***************************************************************************)
(* Each action preserves the invariant: one lemma per action, and in it    *)
(* one step per group of conjuncts.                                        *)
(***************************************************************************)

USE DEF NULL, Node, Pointer, Consumer, Thread, Other, Inserting, Unlinking, Removing, First,
        Both, Met

LEMMA TestEmptyStep ==
  ASSUME IInv, TestEmpty, UNCHANGED gatewayVars
  PROVE  IInv'
<1>1. TypeOK'
  BY MaxReadingsAssumption DEF IInv,
     TypeOK, ConnmgrPC, ReaderPC, At, Goto, listVars, gatewayVars, TestEmpty
<1>2. Locking' /\ Shutdown'
  BY MaxReadingsAssumption DEF IInv,
     TypeOK, ConnmgrPC, ReaderPC, At, Goto, listVars, gatewayVars, TestEmpty,
     Locking, SoleRemover, Shutdown, Ends
<1>3. Insertion'
  BY MaxReadingsAssumption DEF IInv,
     TypeOK, ConnmgrPC, ReaderPC, At, Goto, listVars, gatewayVars, TestEmpty,
     Locking, SoleRemover, Insertion
<1>4. Agreement'
  BY MaxReadingsAssumption DEF IInv,
     TypeOK, ConnmgrPC, ReaderPC, At, Goto, listVars, gatewayVars, TestEmpty,
     Locking, SoleRemover, Agreement, Ends
<1>5. Ends'
  <2>1. CASE tail # NULL
    BY <2>1 DEF IInv, TypeOK, ConnmgrPC, ReaderPC, At, Goto, listVars, gatewayVars, TestEmpty, Ends
  <2>2. CASE tail = NULL
    <3>1. ~ \A c \in Consumer : Met(c)
      BY <2>2 DEF IInv, TypeOK, Agreement, Ends
    <3>2. \A c \in Consumer : pc[c] \notin {"remove", "unlink_tail", "unlink_next"}
      BY <2>2 DEF IInv, TypeOK, Agreement, Ends, Locking, SoleRemover
    <3>3. \A c \in Consumer : pc[c] = "unlink_head" => reg[c] = NULL
      BY <2>2, MaxReadingsAssumption DEF IInv, TypeOK, Order
    <3>. QED
      BY <2>2, <3>1, <3>2, <3>3 DEF IInv, TypeOK, ConnmgrPC, ReaderPC, At, Goto, listVars, gatewayVars, TestEmpty, Ends
  <2>. QED BY <2>1, <2>2
<1>6. Order' /\ Progress'
  BY MaxReadingsAssumption DEF IInv,
     TypeOK, ConnmgrPC, ReaderPC, At, Goto, listVars, gatewayVars, TestEmpty,
     Locking, SoleRemover, Insertion, Ends, Order, Progress
<1>7. History' /\ FreedAfterBoth' /\ InOrderOnce'
  BY MaxReadingsAssumption DEF IInv,
     TypeOK, ConnmgrPC, ReaderPC, At, Goto, listVars, gatewayVars, TestEmpty,
     History, FreedAfterBoth, InOrderOnce, Agreement, Shutdown
<1>. QED
  BY <1>1, <1>2, <1>3, <1>4, <1>5, <1>6, <1>7 DEF IInv

LEMMA FirstTailStep ==
  ASSUME IInv, FirstTail, UNCHANGED gatewayVars
  PROVE  IInv'
<1>1. TypeOK'
  BY MaxReadingsAssumption DEF IInv,
     TypeOK, ConnmgrPC, ReaderPC, At, Goto, listVars, gatewayVars, FirstTail
<1>2. Locking' /\ Shutdown'
  BY MaxReadingsAssumption DEF IInv,
     TypeOK, ConnmgrPC, ReaderPC, At, Goto, listVars, gatewayVars, FirstTail,
     Locking, SoleRemover, Shutdown, Ends
<1>3. Insertion'
  BY MaxReadingsAssumption DEF IInv,
     TypeOK, ConnmgrPC, ReaderPC, At, Goto, listVars, gatewayVars, FirstTail,
     Locking, SoleRemover, Insertion
<1>4. Agreement'
  BY MaxReadingsAssumption DEF IInv,
     TypeOK, ConnmgrPC, ReaderPC, At, Goto, listVars, gatewayVars, FirstTail,
     Locking, SoleRemover, Agreement, Ends
<1>5. Ends'
  BY MaxReadingsAssumption DEF IInv,
     TypeOK, ConnmgrPC, ReaderPC, At, Goto, listVars, gatewayVars, FirstTail,
     Locking, SoleRemover, Insertion, Agreement, Ends, Order
<1>6. Order' /\ Progress'
  BY MaxReadingsAssumption DEF IInv,
     TypeOK, ConnmgrPC, ReaderPC, At, Goto, listVars, gatewayVars, FirstTail,
     Locking, SoleRemover, Insertion, Ends, Order, Progress
<1>7. History' /\ FreedAfterBoth' /\ InOrderOnce'
  BY MaxReadingsAssumption DEF IInv,
     TypeOK, ConnmgrPC, ReaderPC, At, Goto, listVars, gatewayVars, FirstTail,
     History, FreedAfterBoth, InOrderOnce, Agreement, Shutdown
<1>. QED
  BY <1>1, <1>2, <1>3, <1>4, <1>5, <1>6, <1>7 DEF IInv

LEMMA FirstReloadStep ==
  ASSUME IInv, FirstReload, UNCHANGED gatewayVars
  PROVE  IInv'
<1>1. TypeOK'
  BY MaxReadingsAssumption DEF IInv,
     TypeOK, ConnmgrPC, ReaderPC, At, Goto, listVars, gatewayVars, FirstReload, Load
<1>2. Locking' /\ Shutdown'
  BY MaxReadingsAssumption DEF IInv,
     TypeOK, ConnmgrPC, ReaderPC, At, Goto, listVars, gatewayVars, FirstReload, Load,
     Locking, SoleRemover, Shutdown, Ends
<1>3. Insertion'
  BY MaxReadingsAssumption DEF IInv,
     TypeOK, ConnmgrPC, ReaderPC, At, Goto, listVars, gatewayVars, FirstReload, Load,
     Locking, SoleRemover, Insertion
<1>4. Agreement'
  BY MaxReadingsAssumption DEF IInv,
     TypeOK, ConnmgrPC, ReaderPC, At, Goto, listVars, gatewayVars, FirstReload, Load,
     Locking, SoleRemover, Agreement, Ends
<1>5. Ends'
  BY MaxReadingsAssumption DEF IInv,
     TypeOK, ConnmgrPC, ReaderPC, At, Goto, listVars, gatewayVars, FirstReload, Load,
     Locking, SoleRemover, Insertion, Agreement, Ends, Order
<1>6. Order' /\ Progress'
  BY MaxReadingsAssumption DEF IInv,
     TypeOK, ConnmgrPC, ReaderPC, At, Goto, listVars, gatewayVars, FirstReload, Load,
     Locking, SoleRemover, Insertion, Ends, Order, Progress
<1>7. History' /\ FreedAfterBoth' /\ InOrderOnce'
  BY MaxReadingsAssumption DEF IInv,
     TypeOK, ConnmgrPC, ReaderPC, At, Goto, listVars, gatewayVars, FirstReload, Load,
     History, FreedAfterBoth, InOrderOnce, Agreement, Shutdown
<1>. QED
  BY <1>1, <1>2, <1>3, <1>4, <1>5, <1>6, <1>7 DEF IInv

LEMMA FirstHeadStep ==
  ASSUME IInv, FirstHead, UNCHANGED gatewayVars
  PROVE  IInv'
<1>1. TypeOK'
  BY MaxReadingsAssumption DEF IInv,
     TypeOK, ConnmgrPC, ReaderPC, At, Goto, listVars, gatewayVars, FirstHead
<1>2. Locking' /\ Shutdown'
  BY MaxReadingsAssumption DEF IInv,
     TypeOK, ConnmgrPC, ReaderPC, At, Goto, listVars, gatewayVars, FirstHead,
     Locking, SoleRemover, Shutdown, Ends
<1>3. Insertion'
  BY MaxReadingsAssumption DEF IInv,
     TypeOK, ConnmgrPC, ReaderPC, At, Goto, listVars, gatewayVars, FirstHead,
     Locking, SoleRemover, Insertion
<1>4. Agreement'
  BY MaxReadingsAssumption DEF IInv,
     TypeOK, ConnmgrPC, ReaderPC, At, Goto, listVars, gatewayVars, FirstHead,
     Locking, SoleRemover, Agreement, Ends
<1>5. Ends'
  BY MaxReadingsAssumption DEF IInv,
     TypeOK, ConnmgrPC, ReaderPC, At, Goto, listVars, gatewayVars, FirstHead,
     Locking, SoleRemover, Insertion, Agreement, Ends, Order
<1>6. Order' /\ Progress'
  BY MaxReadingsAssumption DEF IInv,
     TypeOK, ConnmgrPC, ReaderPC, At, Goto, listVars, gatewayVars, FirstHead,
     Locking, SoleRemover, Insertion, Ends, Order, Progress
<1>7. History' /\ FreedAfterBoth' /\ InOrderOnce'
  BY MaxReadingsAssumption DEF IInv,
     TypeOK, ConnmgrPC, ReaderPC, At, Goto, listVars, gatewayVars, FirstHead,
     History, FreedAfterBoth, InOrderOnce, Agreement, Shutdown
<1>. QED
  BY <1>1, <1>2, <1>3, <1>4, <1>5, <1>6, <1>7 DEF IInv

LEMMA LinkLoadStep ==
  ASSUME IInv, LinkLoad, UNCHANGED gatewayVars
  PROVE  IInv'
<1>1. TypeOK'
  BY MaxReadingsAssumption DEF IInv,
     TypeOK, ConnmgrPC, ReaderPC, At, Goto, listVars, gatewayVars, LinkLoad, Load
<1>2. Locking' /\ Shutdown'
  BY MaxReadingsAssumption DEF IInv,
     TypeOK, ConnmgrPC, ReaderPC, At, Goto, listVars, gatewayVars, LinkLoad, Load,
     Locking, SoleRemover, Shutdown, Ends
<1>3. Insertion'
  BY MaxReadingsAssumption DEF IInv,
     TypeOK, ConnmgrPC, ReaderPC, At, Goto, listVars, gatewayVars, LinkLoad, Load,
     Locking, SoleRemover, Insertion
<1>4. Agreement'
  BY MaxReadingsAssumption DEF IInv,
     TypeOK, ConnmgrPC, ReaderPC, At, Goto, listVars, gatewayVars, LinkLoad, Load,
     Locking, SoleRemover, Agreement, Ends
<1>5. Ends'
  BY MaxReadingsAssumption DEF IInv,
     TypeOK, ConnmgrPC, ReaderPC, At, Goto, listVars, gatewayVars, LinkLoad, Load,
     Locking, SoleRemover, Insertion, Agreement, Ends, Order
<1>6. Order' /\ Progress'
  BY MaxReadingsAssumption DEF IInv,
     TypeOK, ConnmgrPC, ReaderPC, At, Goto, listVars, gatewayVars, LinkLoad, Load,
     Locking, SoleRemover, Insertion, Ends, Order, Progress
<1>7. History' /\ FreedAfterBoth' /\ InOrderOnce'
  BY MaxReadingsAssumption DEF IInv,
     TypeOK, ConnmgrPC, ReaderPC, At, Goto, listVars, gatewayVars, LinkLoad, Load,
     History, FreedAfterBoth, InOrderOnce, Agreement, Shutdown
<1>. QED
  BY <1>1, <1>2, <1>3, <1>4, <1>5, <1>6, <1>7 DEF IInv

LEMMA LinkStoreStep ==
  ASSUME IInv, LinkStore, UNCHANGED gatewayVars
  PROVE  IInv'
<1>1. TypeOK'
  BY MaxReadingsAssumption DEF IInv,
     TypeOK, ConnmgrPC, ReaderPC, At, Goto, listVars, gatewayVars, LinkStore, Bad
<1>2. Locking' /\ Shutdown'
  BY MaxReadingsAssumption DEF IInv,
     TypeOK, ConnmgrPC, ReaderPC, At, Goto, listVars, gatewayVars, LinkStore, Bad,
     Locking, SoleRemover, Shutdown, Ends
<1>3. Insertion'
  BY MaxReadingsAssumption DEF IInv,
     TypeOK, ConnmgrPC, ReaderPC, At, Goto, listVars, gatewayVars, LinkStore, Bad,
     Locking, SoleRemover, Insertion
<1>4. Agreement'
  BY MaxReadingsAssumption DEF IInv,
     TypeOK, ConnmgrPC, ReaderPC, At, Goto, listVars, gatewayVars, LinkStore, Bad,
     Locking, SoleRemover, Agreement, Ends
<1>5. Ends'
  BY MaxReadingsAssumption DEF IInv,
     TypeOK, ConnmgrPC, ReaderPC, At, Goto, listVars, gatewayVars, LinkStore, Bad,
     Locking, SoleRemover, Insertion, Agreement, Ends, Order
<1>6. Order'
  <2>. DEFINE t == reg["connmgr"]
  <2>1. t \in Node /\ tail \in {t, NULL} /\ arrived \in Node /\ t < arrived
    BY MaxReadingsAssumption DEF IInv, TypeOK, LinkStore, Insertion, At, Bad
  <2>2. next' = [next EXCEPT ![t] = arrived] /\ UNCHANGED <<head, tail, arrived, reg>>
    BY DEF LinkStore
  <2>3. \A d \in Consumer : pc'[d] = pc[d]
    BY DEF IInv, TypeOK, LinkStore, Goto
  <2>4. next \in [Node -> Nat]
    BY MaxReadingsAssumption DEF IInv, TypeOK
  <2>5. \A n \in Node : next'[n] # NULL => n < next'[n] /\ next'[n] <= arrived
    BY <2>1, <2>2, <2>4, MaxReadingsAssumption DEF IInv, Order
  <2>6. tail # NULL => \A n \in Node : n < tail => next'[n] <= tail
    BY <2>1, <2>2, <2>4, MaxReadingsAssumption DEF IInv, Order
  <2>. QED
    BY <2>2, <2>3, <2>5, <2>6 DEF IInv, Order
<1>7. Progress'
  BY MaxReadingsAssumption DEF IInv,
     TypeOK, ConnmgrPC, ReaderPC, At, Goto, listVars, gatewayVars, LinkStore, Bad,
     Locking, SoleRemover, Insertion, Ends, Order, Progress
<1>8. History' /\ FreedAfterBoth' /\ InOrderOnce'
  BY MaxReadingsAssumption DEF IInv,
     TypeOK, ConnmgrPC, ReaderPC, At, Goto, listVars, gatewayVars, LinkStore, Bad,
     History, FreedAfterBoth, InOrderOnce, Agreement, Shutdown
<1>. QED
  BY <1>1, <1>2, <1>3, <1>4, <1>5, <1>6, <1>7, <1>8 DEF IInv

LEMMA TailLoadStep ==
  ASSUME IInv, TailLoad, UNCHANGED gatewayVars
  PROVE  IInv'
<1>1. TypeOK'
  BY MaxReadingsAssumption DEF IInv,
     TypeOK, ConnmgrPC, ReaderPC, At, Goto, listVars, gatewayVars, TailLoad, Load
<1>2. Locking' /\ Shutdown'
  BY MaxReadingsAssumption DEF IInv,
     TypeOK, ConnmgrPC, ReaderPC, At, Goto, listVars, gatewayVars, TailLoad, Load,
     Locking, SoleRemover, Shutdown, Ends
<1>3. Insertion'
  BY MaxReadingsAssumption DEF IInv,
     TypeOK, ConnmgrPC, ReaderPC, At, Goto, listVars, gatewayVars, TailLoad, Load,
     Locking, SoleRemover, Insertion
<1>4. Agreement'
  BY MaxReadingsAssumption DEF IInv,
     TypeOK, ConnmgrPC, ReaderPC, At, Goto, listVars, gatewayVars, TailLoad, Load,
     Locking, SoleRemover, Agreement, Ends
<1>5. Ends'
  BY MaxReadingsAssumption DEF IInv,
     TypeOK, ConnmgrPC, ReaderPC, At, Goto, listVars, gatewayVars, TailLoad, Load,
     Locking, SoleRemover, Insertion, Agreement, Ends, Order
<1>6. Order' /\ Progress'
  BY MaxReadingsAssumption DEF IInv,
     TypeOK, ConnmgrPC, ReaderPC, At, Goto, listVars, gatewayVars, TailLoad, Load,
     Locking, SoleRemover, Insertion, Ends, Order, Progress
<1>7. History' /\ FreedAfterBoth' /\ InOrderOnce'
  BY MaxReadingsAssumption DEF IInv,
     TypeOK, ConnmgrPC, ReaderPC, At, Goto, listVars, gatewayVars, TailLoad, Load,
     History, FreedAfterBoth, InOrderOnce, Agreement, Shutdown
<1>. QED
  BY <1>1, <1>2, <1>3, <1>4, <1>5, <1>6, <1>7 DEF IInv

LEMMA TailNextStep ==
  ASSUME IInv, TailNext, UNCHANGED gatewayVars
  PROVE  IInv'
<1>1. TypeOK'
  BY MaxReadingsAssumption DEF IInv,
     TypeOK, ConnmgrPC, ReaderPC, At, Goto, listVars, gatewayVars, TailNext, Load,
     Bad
<1>2. Locking' /\ Shutdown'
  BY MaxReadingsAssumption DEF IInv,
     TypeOK, ConnmgrPC, ReaderPC, At, Goto, listVars, gatewayVars, TailNext, Load,
     Bad, Locking, SoleRemover, Shutdown, Ends
<1>3. Insertion'
  BY MaxReadingsAssumption DEF IInv,
     TypeOK, ConnmgrPC, ReaderPC, At, Goto, listVars, gatewayVars, TailNext, Load,
     Bad, Locking, SoleRemover, Insertion
<1>4. Agreement'
  BY MaxReadingsAssumption DEF IInv,
     TypeOK, ConnmgrPC, ReaderPC, At, Goto, listVars, gatewayVars, TailNext, Load,
     Bad, Locking, SoleRemover, Agreement, Ends
<1>5. Ends'
  BY MaxReadingsAssumption DEF IInv,
     TypeOK, ConnmgrPC, ReaderPC, At, Goto, listVars, gatewayVars, TailNext, Load,
     Bad, Locking, SoleRemover, Insertion, Agreement, Ends, Order
<1>6. Order' /\ Progress'
  BY MaxReadingsAssumption DEF IInv,
     TypeOK, ConnmgrPC, ReaderPC, At, Goto, listVars, gatewayVars, TailNext, Load,
     Bad, Locking, SoleRemover, Insertion, Ends, Order, Progress
<1>7. History' /\ FreedAfterBoth' /\ InOrderOnce'
  BY MaxReadingsAssumption DEF IInv,
     TypeOK, ConnmgrPC, ReaderPC, At, Goto, listVars, gatewayVars, TailNext, Load,
     Bad, History, FreedAfterBoth, InOrderOnce, Agreement, Shutdown
<1>. QED
  BY <1>1, <1>2, <1>3, <1>4, <1>5, <1>6, <1>7 DEF IInv

LEMMA TailStoreStep ==
  ASSUME IInv, TailStore, UNCHANGED gatewayVars
  PROVE  IInv'
<1>1. TypeOK'
  BY MaxReadingsAssumption DEF IInv,
     TypeOK, ConnmgrPC, ReaderPC, At, Goto, listVars, gatewayVars, TailStore
<1>2. Locking' /\ Shutdown'
  BY MaxReadingsAssumption DEF IInv,
     TypeOK, ConnmgrPC, ReaderPC, At, Goto, listVars, gatewayVars, TailStore,
     Locking, SoleRemover, Shutdown, Ends
<1>3. Insertion'
  BY MaxReadingsAssumption DEF IInv,
     TypeOK, ConnmgrPC, ReaderPC, At, Goto, listVars, gatewayVars, TailStore,
     Locking, SoleRemover, Insertion
<1>4. Agreement'
  BY MaxReadingsAssumption DEF IInv,
     TypeOK, ConnmgrPC, ReaderPC, At, Goto, listVars, gatewayVars, TailStore,
     Locking, SoleRemover, Agreement, Ends
<1>5. Ends'
  BY MaxReadingsAssumption DEF IInv,
     TypeOK, ConnmgrPC, ReaderPC, At, Goto, listVars, gatewayVars, TailStore,
     Locking, SoleRemover, Insertion, Agreement, Ends, Order
<1>6. Order'
  <2>1. tail' = arrived /\ head' = head /\ next' = next /\ arrived' = arrived /\ reg' = reg
    BY DEF IInv, TailStore, Insertion, At
  <2>2. \A d \in Consumer : pc'[d] = pc[d]
    BY DEF IInv, TypeOK, TailStore, Goto
  <2>3. /\ head \in Nat /\ tail \in Nat /\ arrived \in Nat /\ next \in [Node -> Nat]
        /\ \A d \in Consumer : reg[d] \in Nat
    BY MaxReadingsAssumption DEF IInv, TypeOK
  <2>4. \A n \in Node : next[n] <= arrived
    BY <2>3 DEF IInv, Order
  <2>5. \A d \in Consumer : pc[d] = "unlink_next" => head < arrived
    BY <2>3 DEF IInv, Order
  <2>6. \A d \in Consumer : pc[d] = "unlink_head" /\ reg[d] # NULL => head <= reg[d] /\ reg[d] <= arrived
    BY <2>3 DEF IInv, Order
  <2>. QED
    BY <2>1, <2>2, <2>3, <2>4, <2>5, <2>6 DEF IInv, Order
<1>7. Progress'
  BY MaxReadingsAssumption DEF IInv,
     TypeOK, ConnmgrPC, ReaderPC, At, Goto, listVars, gatewayVars, TailStore,
     Locking, SoleRemover, Insertion, Ends, Order, Progress
<1>8. History' /\ FreedAfterBoth' /\ InOrderOnce'
  BY MaxReadingsAssumption DEF IInv,
     TypeOK, ConnmgrPC, ReaderPC, At, Goto, listVars, gatewayVars, TailStore,
     History, FreedAfterBoth, InOrderOnce, Agreement, Shutdown
<1>. QED
  BY <1>1, <1>2, <1>3, <1>4, <1>5, <1>6, <1>7, <1>8 DEF IInv

LEMMA PollLockStep ==
  ASSUME IInv, NEW c \in Consumer, PollLock(c), UNCHANGED gatewayVars
  PROVE  IInv'
<1>1. TypeOK'
  BY MaxReadingsAssumption DEF IInv,
     TypeOK, ConnmgrPC, ReaderPC, At, Goto, listVars, gatewayVars, PollLock
<1>2. Locking' /\ Shutdown'
  BY MaxReadingsAssumption DEF IInv,
     TypeOK, ConnmgrPC, ReaderPC, At, Goto, listVars, gatewayVars, PollLock, Locking,
     SoleRemover, Shutdown, Ends
<1>3. Insertion'
  BY MaxReadingsAssumption DEF IInv,
     TypeOK, ConnmgrPC, ReaderPC, At, Goto, listVars, gatewayVars, PollLock, Locking,
     SoleRemover, Insertion
<1>4. Agreement'
  BY MaxReadingsAssumption DEF IInv,
     TypeOK, ConnmgrPC, ReaderPC, At, Goto, listVars, gatewayVars, PollLock, Locking,
     SoleRemover, Agreement, Ends
<1>5. Ends'
  BY MaxReadingsAssumption DEF IInv,
     TypeOK, ConnmgrPC, ReaderPC, At, Goto, listVars, gatewayVars, PollLock, Locking,
     SoleRemover, Insertion, Agreement, Ends, Order
<1>6. Order' /\ Progress'
  BY MaxReadingsAssumption DEF IInv,
     TypeOK, ConnmgrPC, ReaderPC, At, Goto, listVars, gatewayVars, PollLock, Locking,
     SoleRemover, Insertion, Ends, Order, Progress
<1>7. History' /\ FreedAfterBoth' /\ InOrderOnce'
  BY MaxReadingsAssumption DEF IInv,
     TypeOK, ConnmgrPC, ReaderPC, At, Goto, listVars, gatewayVars, PollLock, History,
     FreedAfterBoth, InOrderOnce, Agreement, Shutdown
<1>. QED
  BY <1>1, <1>2, <1>3, <1>4, <1>5, <1>6, <1>7 DEF IInv

LEMMA PollLoadStep ==
  ASSUME IInv, NEW c \in Consumer, PollLoad(c), UNCHANGED gatewayVars
  PROVE  IInv'
<1>1. TypeOK'
  BY MaxReadingsAssumption DEF IInv,
     TypeOK, ConnmgrPC, ReaderPC, At, Goto, listVars, gatewayVars, PollLoad
<1>2. Locking' /\ Shutdown'
  BY MaxReadingsAssumption DEF IInv,
     TypeOK, ConnmgrPC, ReaderPC, At, Goto, listVars, gatewayVars, PollLoad, Locking,
     SoleRemover, Shutdown, Ends
<1>3. Insertion'
  BY MaxReadingsAssumption DEF IInv,
     TypeOK, ConnmgrPC, ReaderPC, At, Goto, listVars, gatewayVars, PollLoad, Locking,
     SoleRemover, Insertion
<1>4. Agreement'
  BY MaxReadingsAssumption DEF IInv,
     TypeOK, ConnmgrPC, ReaderPC, At, Goto, listVars, gatewayVars, PollLoad, Locking,
     SoleRemover, Agreement, Ends
<1>5. Ends'
  BY MaxReadingsAssumption DEF IInv,
     TypeOK, ConnmgrPC, ReaderPC, At, Goto, listVars, gatewayVars, PollLoad, Locking,
     SoleRemover, Insertion, Agreement, Ends, Order
<1>6. Order' /\ Progress'
  BY MaxReadingsAssumption DEF IInv,
     TypeOK, ConnmgrPC, ReaderPC, At, Goto, listVars, gatewayVars, PollLoad, Locking,
     SoleRemover, Insertion, Ends, Order, Progress
<1>7. History' /\ FreedAfterBoth' /\ InOrderOnce'
  BY MaxReadingsAssumption DEF IInv,
     TypeOK, ConnmgrPC, ReaderPC, At, Goto, listVars, gatewayVars, PollLoad, History,
     FreedAfterBoth, InOrderOnce, Agreement, Shutdown
<1>. QED
  BY <1>1, <1>2, <1>3, <1>4, <1>5, <1>6, <1>7 DEF IInv

LEMMA PollFlagsStep ==
  ASSUME IInv, NEW c \in Consumer, PollFlags(c), UNCHANGED gatewayVars
  PROVE  IInv'
<1>1. TypeOK'
  BY MaxReadingsAssumption DEF IInv,
     TypeOK, ConnmgrPC, ReaderPC, At, Goto, listVars, gatewayVars, PollFlags,
     PollResult, Mark, Bad
<1>2. Locking' /\ Shutdown'
  BY MaxReadingsAssumption DEF IInv,
     TypeOK, ConnmgrPC, ReaderPC, At, Goto, listVars, gatewayVars, PollFlags,
     PollResult, Mark, Bad, Locking, SoleRemover, Shutdown, Ends
<1>3. Insertion'
  BY MaxReadingsAssumption DEF IInv,
     TypeOK, ConnmgrPC, ReaderPC, At, Goto, listVars, gatewayVars, PollFlags,
     PollResult, Mark, Bad, Locking, SoleRemover, Insertion
<1>4. Agreement'
  BY MaxReadingsAssumption DEF IInv,
     TypeOK, ConnmgrPC, ReaderPC, At, Goto, listVars, gatewayVars, PollFlags,
     PollResult, Mark, Bad, Locking, SoleRemover, Agreement, Ends
<1>5. Ends'
  BY MaxReadingsAssumption DEF IInv,
     TypeOK, ConnmgrPC, ReaderPC, At, Goto, listVars, gatewayVars, PollFlags,
     PollResult, Mark, Bad, Locking, SoleRemover, Insertion, Agreement, Ends, Order
<1>6. Order' /\ Progress'
  BY MaxReadingsAssumption DEF IInv,
     TypeOK, ConnmgrPC, ReaderPC, At, Goto, listVars, gatewayVars, PollFlags,
     PollResult, Mark, Bad, Locking, SoleRemover, Insertion, Ends, Order, Progress
<1>7. History'
  <2>1. dummy[c] \in Node /\ pc[c] = "poll_flags" /\ dummy' = dummy /\ handled' = handled
    BY MaxReadingsAssumption DEF IInv, TypeOK, PollFlags, Bad, At, gatewayVars
  <2>2. \A d \in Consumer : taken[d] \subseteq taken'[d]
    BY DEF IInv, TypeOK, PollFlags, Mark
  <2>3. \A d \in Consumer : d # c => pc'[d] = pc[d] /\ taken'[d] = taken[d]
    BY DEF IInv, TypeOK, PollFlags, Mark, Goto
  <2>4. dummy[c] \in taken'[c]
    BY DEF IInv, TypeOK, PollFlags, Mark
  <2>5. pc'[c] \in {"fresh", "fresh_last"} => dummy[c] \notin taken[c]
    BY DEF IInv, TypeOK, PollFlags, PollResult, Goto
  <2>6. \A i \in 1..Len(handled[c]) : handled[c][i] \in taken[c] /\ handled[c][i] \in Node
                                      /\ handled[c][i] <= dummy[c]
    <3>1. \A m \in taken[c] : m \in Node /\ m <= dummy[c]
      BY <2>1 DEF IInv, TypeOK, Progress
    <3>. QED
      BY <3>1 DEF IInv, History
  <2>7. pc'[c] \in {"fresh", "fresh_last"} =>
          \A i \in 1..Len(handled[c]) : handled[c][i] < dummy[c]
    BY <2>1, <2>5, <2>6, MaxReadingsAssumption
  <2>. QED
    BY <2>1, <2>2, <2>3, <2>4, <2>6, <2>7 DEF IInv, History
<1>8. FreedAfterBoth'
  BY MaxReadingsAssumption DEF IInv,
     TypeOK, ConnmgrPC, ReaderPC, At, Goto, listVars, gatewayVars, PollFlags,
     PollResult, Mark, Bad, FreedAfterBoth, Agreement, Shutdown
<1>9. InOrderOnce'
  BY MaxReadingsAssumption DEF IInv,
     TypeOK, ConnmgrPC, ReaderPC, At, Goto, listVars, gatewayVars, PollFlags,
     PollResult, Mark, Bad, InOrderOnce, History
<1>. QED
  BY <1>1, <1>2, <1>3, <1>4, <1>5, <1>6, <1>7, <1>8, <1>9 DEF IInv

LEMMA UnlinkTailStep ==
  ASSUME IInv, NEW c \in Consumer, UnlinkTail(c), UNCHANGED gatewayVars
  PROVE  IInv'
<1>1. TypeOK'
  <2>1. tail' \in Pointer
    BY MaxReadingsAssumption DEF UnlinkTail
  <2>. QED
    BY <2>1 DEF IInv, TypeOK, ConnmgrPC, ReaderPC, At, Goto, listVars, gatewayVars, UnlinkTail
<1>2. Locking' /\ Shutdown'
  BY MaxReadingsAssumption DEF IInv,
     TypeOK, ConnmgrPC, ReaderPC, At, Goto, listVars, gatewayVars, UnlinkTail,
     Locking, SoleRemover, Shutdown, Ends
<1>3. Insertion'
  <2>1. pc["connmgr"] \notin First
    BY DEF IInv, Ends, UnlinkTail, At
  <2>. QED
    BY <2>1, MaxReadingsAssumption DEF IInv, TypeOK, ConnmgrPC, ReaderPC, At, Goto, listVars,
       gatewayVars, UnlinkTail, Insertion
<1>4. Agreement'
  BY MaxReadingsAssumption DEF IInv,
     TypeOK, ConnmgrPC, ReaderPC, At, Goto, listVars, gatewayVars, UnlinkTail,
     Locking, SoleRemover, Agreement, Ends
<1>5. Ends'
  BY MaxReadingsAssumption DEF IInv,
     TypeOK, ConnmgrPC, ReaderPC, At, Goto, listVars, gatewayVars, UnlinkTail,
     Locking, SoleRemover, Insertion, Agreement, Ends, Order
<1>6. Order'
  BY MaxReadingsAssumption DEF IInv,
     TypeOK, ConnmgrPC, ReaderPC, At, Goto, listVars, gatewayVars, UnlinkTail,
     Locking, SoleRemover, Insertion, Ends, Order
<1>7. Progress'
  BY MaxReadingsAssumption DEF IInv,
     TypeOK, ConnmgrPC, ReaderPC, At, Goto, listVars, gatewayVars, UnlinkTail,
     Locking, SoleRemover, Insertion, Ends, Order, Progress
<1>8. History' /\ FreedAfterBoth' /\ InOrderOnce'
  BY MaxReadingsAssumption DEF IInv,
     TypeOK, ConnmgrPC, ReaderPC, At, Goto, listVars, gatewayVars, UnlinkTail,
     History, FreedAfterBoth, InOrderOnce, Agreement, Shutdown
<1>. QED
  BY <1>1, <1>2, <1>3, <1>4, <1>5, <1>6, <1>7, <1>8 DEF IInv

LEMMA UnlinkReloadStep ==
  ASSUME IInv, NEW c \in Consumer, UnlinkReload(c), UNCHANGED gatewayVars
  PROVE  IInv'
<1>1. TypeOK'
  BY MaxReadingsAssumption DEF IInv,
     TypeOK, ConnmgrPC, ReaderPC, At, Goto, listVars, gatewayVars, UnlinkReload,
     Load
<1>2. Locking' /\ Shutdown'
  BY MaxReadingsAssumption DEF IInv,
     TypeOK, ConnmgrPC, ReaderPC, At, Goto, listVars, gatewayVars, UnlinkReload,
     Load, Locking, SoleRemover, Shutdown, Ends
<1>3. Insertion'
  BY MaxReadingsAssumption DEF IInv,
     TypeOK, ConnmgrPC, ReaderPC, At, Goto, listVars, gatewayVars, UnlinkReload,
     Load, Locking, SoleRemover, Insertion
<1>4. Agreement'
  BY MaxReadingsAssumption DEF IInv,
     TypeOK, ConnmgrPC, ReaderPC, At, Goto, listVars, gatewayVars, UnlinkReload,
     Load, Locking, SoleRemover, Agreement, Ends
<1>5. Ends'
  BY MaxReadingsAssumption DEF IInv,
     TypeOK, ConnmgrPC, ReaderPC, At, Goto, listVars, gatewayVars, UnlinkReload,
     Load, Locking, SoleRemover, Insertion, Agreement, Ends, Order
<1>6. Order' /\ Progress'
  BY MaxReadingsAssumption DEF IInv,
     TypeOK, ConnmgrPC, ReaderPC, At, Goto, listVars, gatewayVars, UnlinkReload,
     Load, Locking, SoleRemover, Insertion, Ends, Order, Progress
<1>7. History' /\ FreedAfterBoth' /\ InOrderOnce'
  BY MaxReadingsAssumption DEF IInv,
     TypeOK, ConnmgrPC, ReaderPC, At, Goto, listVars, gatewayVars, UnlinkReload,
     Load, History, FreedAfterBoth, InOrderOnce, Agreement, Shutdown
<1>. QED
  BY <1>1, <1>2, <1>3, <1>4, <1>5, <1>6, <1>7 DEF IInv

LEMMA UnlinkHeadStep ==
  ASSUME IInv, NEW c \in Consumer, UnlinkHead(c), UNCHANGED gatewayVars
  PROVE  IInv'
<1>1. TypeOK'
  BY MaxReadingsAssumption DEF IInv,
     TypeOK, ConnmgrPC, ReaderPC, At, Goto, listVars, gatewayVars, UnlinkHead
<1>2. Locking' /\ Shutdown'
  BY MaxReadingsAssumption DEF IInv,
     TypeOK, ConnmgrPC, ReaderPC, At, Goto, listVars, gatewayVars, UnlinkHead,
     Locking, SoleRemover, Shutdown, Ends
<1>3. Insertion'
  BY MaxReadingsAssumption DEF IInv,
     TypeOK, ConnmgrPC, ReaderPC, At, Goto, listVars, gatewayVars, UnlinkHead,
     Locking, SoleRemover, Insertion
<1>4. Agreement'
  BY MaxReadingsAssumption DEF IInv,
     TypeOK, ConnmgrPC, ReaderPC, At, Goto, listVars, gatewayVars, UnlinkHead,
     Locking, SoleRemover, Agreement, Ends
<1>5. Ends'
  BY MaxReadingsAssumption DEF IInv,
     TypeOK, ConnmgrPC, ReaderPC, At, Goto, listVars, gatewayVars, UnlinkHead,
     Locking, SoleRemover, Insertion, Agreement, Ends, Order
<1>6. Order'
  BY MaxReadingsAssumption DEF IInv,
     TypeOK, ConnmgrPC, ReaderPC, At, Goto, listVars, gatewayVars, UnlinkHead,
     Locking, SoleRemover, Insertion, Ends, Order
<1>7. Progress'
  <2>1. head \in Node /\ head' \in Pointer /\ (head' # NULL => head <= head')
    BY MaxReadingsAssumption DEF IInv, TypeOK, UnlinkHead, Ends, Order, At
  <2>2. \A d \in Consumer : \A m \in taken[d] : m \in Node
    BY DEF IInv, TypeOK
  <2>3. arrived \in Nat /\ dummy \in [Consumer -> Pointer]
    BY MaxReadingsAssumption DEF IInv, TypeOK
  <2>4. \A d \in Consumer : pc'[d] = "poll_flags" => pc[d] = "poll_flags"
    BY DEF IInv, TypeOK, UnlinkHead, Goto
  <2>. QED
    BY <2>1, <2>2, <2>3, <2>4, MaxReadingsAssumption DEF IInv, UnlinkHead, Progress
<1>8. History' /\ FreedAfterBoth' /\ InOrderOnce'
  BY MaxReadingsAssumption DEF IInv,
     TypeOK, ConnmgrPC, ReaderPC, At, Goto, listVars, gatewayVars, UnlinkHead,
     History, FreedAfterBoth, InOrderOnce, Agreement, Shutdown
<1>. QED
  BY <1>1, <1>2, <1>3, <1>4, <1>5, <1>6, <1>7, <1>8 DEF IInv

LEMMA UnlinkNextStep ==
  ASSUME IInv, NEW c \in Consumer, UnlinkNext(c), UNCHANGED gatewayVars
  PROVE  IInv'
<1>1. TypeOK'
  <2>1. head' \in Pointer
    BY MaxReadingsAssumption DEF IInv, TypeOK, UnlinkNext, Bad
  <2>. QED
    BY <2>1 DEF IInv, TypeOK, ConnmgrPC, ReaderPC, At, Goto, listVars, gatewayVars, UnlinkNext
<1>2. Locking' /\ Shutdown'
  BY MaxReadingsAssumption DEF IInv,
     TypeOK, ConnmgrPC, ReaderPC, At, Goto, listVars, gatewayVars, UnlinkNext, Bad,
     Locking, SoleRemover, Shutdown, Ends
<1>3. Insertion'
  BY MaxReadingsAssumption DEF IInv,
     TypeOK, ConnmgrPC, ReaderPC, At, Goto, listVars, gatewayVars, UnlinkNext, Bad,
     Locking, SoleRemover, Insertion
<1>4. Agreement'
  BY MaxReadingsAssumption DEF IInv,
     TypeOK, ConnmgrPC, ReaderPC, At, Goto, listVars, gatewayVars, UnlinkNext, Bad,
     Locking, SoleRemover, Agreement, Ends
<1>5. Ends'
  BY MaxReadingsAssumption DEF IInv,
     TypeOK, ConnmgrPC, ReaderPC, At, Goto, listVars, gatewayVars, UnlinkNext, Bad,
     Locking, SoleRemover, Insertion, Agreement, Ends, Order
<1>6. Order'
  BY MaxReadingsAssumption DEF IInv,
     TypeOK, ConnmgrPC, ReaderPC, At, Goto, listVars, gatewayVars, UnlinkNext, Bad,
     Locking, SoleRemover, Insertion, Ends, Order
<1>7. Progress'
  <2>1. head \in Node /\ head' \in Pointer /\ (head' # NULL => head < head')
    BY MaxReadingsAssumption DEF IInv, TypeOK, UnlinkNext, Bad, Order
  <2>2. \A d \in Consumer : \A m \in taken[d] : m \in Node
    BY DEF IInv, TypeOK
  <2>3. arrived \in Nat /\ dummy \in [Consumer -> Pointer]
    BY MaxReadingsAssumption DEF IInv, TypeOK
  <2>4. \A d \in Consumer : pc'[d] = "poll_flags" => pc[d] = "poll_flags"
    BY DEF IInv, TypeOK, UnlinkNext, Goto
  <2>. QED
    BY <2>1, <2>2, <2>3, <2>4, MaxReadingsAssumption DEF IInv, UnlinkNext, Progress
<1>8. History' /\ FreedAfterBoth' /\ InOrderOnce'
  BY MaxReadingsAssumption DEF IInv,
     TypeOK, ConnmgrPC, ReaderPC, At, Goto, listVars, gatewayVars, UnlinkNext, Bad,
     History, FreedAfterBoth, InOrderOnce, Agreement, Shutdown
<1>. QED
  BY <1>1, <1>2, <1>3, <1>4, <1>5, <1>6, <1>7, <1>8 DEF IInv

LEMMA FreeNodeStep ==
  ASSUME IInv, NEW c \in Consumer, FreeNode(c), UNCHANGED gatewayVars
  PROVE  IInv'
<1>1. TypeOK'
  <2>1. dummy[c] \in Node
    BY MaxReadingsAssumption DEF IInv, TypeOK, FreeNode, Bad
  <2>. QED
    BY <2>1, MaxReadingsAssumption DEF IInv, TypeOK, ConnmgrPC, ReaderPC, At, Goto, listVars,
       gatewayVars, FreeNode
<1>2. Locking' /\ Shutdown'
  BY MaxReadingsAssumption DEF IInv,
     TypeOK, ConnmgrPC, ReaderPC, At, Goto, listVars, gatewayVars, FreeNode, Bad,
     Locking, SoleRemover, Shutdown, Ends
<1>3. Insertion'
  BY MaxReadingsAssumption DEF IInv,
     TypeOK, ConnmgrPC, ReaderPC, At, Goto, listVars, gatewayVars, FreeNode, Bad,
     Locking, SoleRemover, Insertion
<1>4. Agreement'
  BY MaxReadingsAssumption DEF IInv,
     TypeOK, ConnmgrPC, ReaderPC, At, Goto, listVars, gatewayVars, FreeNode, Bad,
     Locking, SoleRemover, Agreement, Ends
<1>5. Ends'
  BY MaxReadingsAssumption DEF IInv,
     TypeOK, ConnmgrPC, ReaderPC, At, Goto, listVars, gatewayVars, FreeNode, Bad,
     Locking, SoleRemover, Insertion, Agreement, Ends, Order
<1>6. Order' /\ Progress'
  BY MaxReadingsAssumption DEF IInv,
     TypeOK, ConnmgrPC, ReaderPC, At, Goto, listVars, gatewayVars, FreeNode, Bad,
     Locking, SoleRemover, Insertion, Ends, Order, Progress
<1>7. History' /\ FreedAfterBoth' /\ InOrderOnce'
  BY MaxReadingsAssumption DEF IInv,
     TypeOK, ConnmgrPC, ReaderPC, At, Goto, listVars, gatewayVars, FreeNode, Bad,
     History, FreedAfterBoth, InOrderOnce, Agreement, Shutdown
<1>. QED
  BY <1>1, <1>2, <1>3, <1>4, <1>5, <1>6, <1>7 DEF IInv

LEMMA ReadFlagStep ==
  ASSUME IInv, NEW c \in Consumer, ReadFlag(c)
  PROVE  IInv'
<1>1. TypeOK'
  BY MaxReadingsAssumption DEF IInv,
     TypeOK, ConnmgrPC, ReaderPC, At, Goto, listVars, gatewayVars, ReadFlag, Enter
<1>2. Locking' /\ Shutdown'
  BY MaxReadingsAssumption DEF IInv,
     TypeOK, ConnmgrPC, ReaderPC, At, Goto, listVars, gatewayVars, ReadFlag, Enter,
     Locking, SoleRemover, Shutdown, Ends
<1>3. Insertion'
  BY MaxReadingsAssumption DEF IInv,
     TypeOK, ConnmgrPC, ReaderPC, At, Goto, listVars, gatewayVars, ReadFlag, Enter,
     Locking, SoleRemover, Insertion
<1>4. Agreement'
  BY MaxReadingsAssumption DEF IInv,
     TypeOK, ConnmgrPC, ReaderPC, At, Goto, listVars, gatewayVars, ReadFlag, Enter,
     Locking, SoleRemover, Agreement, Ends
<1>5. Ends'
  BY MaxReadingsAssumption DEF IInv,
     TypeOK, ConnmgrPC, ReaderPC, At, Goto, listVars, gatewayVars, ReadFlag, Enter,
     Locking, SoleRemover, Insertion, Agreement, Ends, Order
<1>6. Order' /\ Progress'
  BY MaxReadingsAssumption DEF IInv,
     TypeOK, ConnmgrPC, ReaderPC, At, Goto, listVars, gatewayVars, ReadFlag, Enter,
     Locking, SoleRemover, Insertion, Ends, Order, Progress
<1>7. History' /\ FreedAfterBoth' /\ InOrderOnce'
  BY MaxReadingsAssumption DEF IInv,
     TypeOK, ConnmgrPC, ReaderPC, At, Goto, listVars, gatewayVars, ReadFlag, Enter,
     History, FreedAfterBoth, InOrderOnce, Agreement, Shutdown
<1>. QED
  BY <1>1, <1>2, <1>3, <1>4, <1>5, <1>6, <1>7 DEF IInv

LEMMA ReadSizeStep ==
  ASSUME IInv, NEW c \in Consumer, ReadSize(c)
  PROVE  IInv'
<1>1. TypeOK'
  BY MaxReadingsAssumption DEF IInv,
     TypeOK, ConnmgrPC, ReaderPC, At, Goto, listVars, gatewayVars, ReadSize, Enter,
     SizeIsZero, SizeIsPositive
<1>2. Locking' /\ Shutdown'
  BY MaxReadingsAssumption DEF IInv,
     TypeOK, ConnmgrPC, ReaderPC, At, Goto, listVars, gatewayVars, ReadSize, Enter,
     SizeIsZero, SizeIsPositive, Locking, SoleRemover, Shutdown, Ends
<1>3. Insertion'
  BY MaxReadingsAssumption DEF IInv,
     TypeOK, ConnmgrPC, ReaderPC, At, Goto, listVars, gatewayVars, ReadSize, Enter,
     SizeIsZero, SizeIsPositive, Locking, SoleRemover, Insertion
<1>4. Agreement'
  BY DEF IInv, TypeOK, At, Goto, Enter, listVars, gatewayVars, ReadSize, Agreement
<1>5. Ends'
  BY MaxReadingsAssumption DEF IInv,
     TypeOK, ConnmgrPC, ReaderPC, At, Goto, listVars, gatewayVars, ReadSize, Enter,
     SizeIsZero, SizeIsPositive, Locking, SoleRemover, Insertion, Agreement, Ends,
     Order
<1>6. Order' /\ Progress'
  BY MaxReadingsAssumption DEF IInv,
     TypeOK, ConnmgrPC, ReaderPC, At, Goto, listVars, gatewayVars, ReadSize, Enter,
     SizeIsZero, SizeIsPositive, Locking, SoleRemover, Insertion, Ends, Order,
     Progress
<1>7. History' /\ FreedAfterBoth' /\ InOrderOnce'
  BY MaxReadingsAssumption DEF IInv,
     TypeOK, ConnmgrPC, ReaderPC, At, Goto, listVars, gatewayVars, ReadSize, Enter,
     SizeIsZero, SizeIsPositive, History, FreedAfterBoth, InOrderOnce, Agreement,
     Shutdown
<1>. QED
  BY <1>1, <1>2, <1>3, <1>4, <1>5, <1>6, <1>7 DEF IInv

LEMMA HandleStep ==
  ASSUME IInv, NEW c \in Consumer, Handle(c)
  PROVE  IInv'
<1>. DEFINE old == handled[c]
            new == handled'[c]
<1>1. /\ Met(c)' => Met(c)
      /\ \A d \in Consumer : d # c => pc'[d] = pc[d] /\ handled'[d] = handled[d]
      /\ pc'["connmgr"] = pc["connmgr"]
      /\ pc'[c] \in {"complete", "retry"}
  BY DEF IInv, TypeOK, Handle, Goto
<1>2. /\ Len(new) = Len(old) + 1
      /\ Len(old) \in Nat
      /\ \A i \in 1..Len(old) : new[i] = old[i]
      /\ new[Len(new)] = dummy[c]
  BY DEF IInv, TypeOK, Handle
<1>3. /\ dummy[c] \in taken[c] /\ taken' = taken /\ dummy' = dummy
      /\ \A i \in 1..Len(old) : old[i] \in taken[c] /\ old[i] < dummy[c]
  BY DEF IInv, History, Handle, listVars
<1>4. TypeOK'
  BY MaxReadingsAssumption DEF IInv,
     TypeOK, ConnmgrPC, ReaderPC, At, Goto, listVars, gatewayVars, Handle, Accepts
<1>5. Locking' /\ Shutdown'
  BY MaxReadingsAssumption DEF IInv,
     TypeOK, ConnmgrPC, ReaderPC, At, Goto, listVars, gatewayVars, Handle, Accepts,
     Locking, SoleRemover, Shutdown, Ends
<1>6. Insertion'
  BY MaxReadingsAssumption DEF IInv,
     TypeOK, ConnmgrPC, ReaderPC, At, Goto, listVars, gatewayVars, Handle, Accepts,
     Locking, SoleRemover, Insertion
<1>7. Agreement'
  BY MaxReadingsAssumption DEF IInv,
     TypeOK, ConnmgrPC, ReaderPC, At, Goto, listVars, gatewayVars, Handle, Accepts,
     Locking, SoleRemover, Agreement, Ends
<1>8. Ends'
  BY <1>1 DEF IInv, TypeOK, Handle, Goto, Ends, listVars
<1>9. Order' /\ Progress'
  BY MaxReadingsAssumption DEF IInv,
     TypeOK, ConnmgrPC, ReaderPC, At, Goto, listVars, gatewayVars, Handle, Accepts,
     Locking, SoleRemover, Insertion, Ends, Order, Progress
<1>10. History'
  <2>1. \A i \in 1..Len(new) : new[i] \in taken[c]
    BY <1>2, <1>3
  <2>. QED
    BY <2>1, <1>1, <1>3 DEF IInv, History
<1>11. FreedAfterBoth'
  BY MaxReadingsAssumption DEF IInv,
     TypeOK, ConnmgrPC, ReaderPC, At, Goto, listVars, gatewayVars, Handle, Accepts,
     FreedAfterBoth, Agreement, Shutdown
<1>12. InOrderOnce'
  <2>1. ASSUME NEW i \in 1..Len(new), NEW j \in 1..Len(new), i < j
        PROVE  new[i] < new[j]
    <3>1. i \in 1..Len(old)
      BY <1>2, <2>1
    <3>2. CASE j = Len(new)
      BY <3>1, <3>2, <1>2, <1>3
    <3>3. CASE j # Len(new)
      <4>1. j \in 1..Len(old)
        BY <1>2, <3>3
      <4>. QED
        BY <2>1, <3>1, <4>1, <1>2 DEF IInv, InOrderOnce
    <3>. QED
      BY <3>2, <3>3
  <2>. QED
    BY <2>1, <1>1 DEF IInv, InOrderOnce
<1>. QED
  BY <1>4, <1>5, <1>6, <1>7, <1>8, <1>9, <1>10, <1>11, <1>12 DEF IInv

LEMMA RejectStep ==
  ASSUME IInv, NEW c \in Consumer, Reject(c)
  PROVE  IInv'
<1>1. TypeOK'
  BY MaxReadingsAssumption DEF IInv,
     TypeOK, ConnmgrPC, ReaderPC, At, Goto, listVars, gatewayVars, Reject, Rejects
<1>2. Locking' /\ Shutdown'
  BY MaxReadingsAssumption DEF IInv,
     TypeOK, ConnmgrPC, ReaderPC, At, Goto, listVars, gatewayVars, Reject, Rejects,
     Locking, SoleRemover, Shutdown, Ends
<1>3. Insertion'
  BY MaxReadingsAssumption DEF IInv,
     TypeOK, ConnmgrPC, ReaderPC, At, Goto, listVars, gatewayVars, Reject, Rejects,
     Locking, SoleRemover, Insertion
<1>4. Agreement'
  BY MaxReadingsAssumption DEF IInv,
     TypeOK, ConnmgrPC, ReaderPC, At, Goto, listVars, gatewayVars, Reject, Rejects,
     Locking, SoleRemover, Agreement, Ends
<1>5. Ends'
  BY MaxReadingsAssumption DEF IInv,
     TypeOK, ConnmgrPC, ReaderPC, At, Goto, listVars, gatewayVars, Reject, Rejects,
     Locking, SoleRemover, Insertion, Agreement, Ends, Order
<1>6. Order' /\ Progress'
  BY MaxReadingsAssumption DEF IInv,
     TypeOK, ConnmgrPC, ReaderPC, At, Goto, listVars, gatewayVars, Reject, Rejects,
     Locking, SoleRemover, Insertion, Ends, Order, Progress
<1>7. History' /\ FreedAfterBoth' /\ InOrderOnce'
  BY MaxReadingsAssumption DEF IInv,
     TypeOK, ConnmgrPC, ReaderPC, At, Goto, listVars, gatewayVars, Reject, Rejects,
     History, FreedAfterBoth, InOrderOnce, Agreement, Shutdown
<1>. QED
  BY <1>1, <1>2, <1>3, <1>4, <1>5, <1>6, <1>7 DEF IInv

LEMMA RetryStep ==
  ASSUME IInv, NEW c \in Consumer, Retry(c)
  PROVE  IInv'
<1>1. TypeOK'
  BY MaxReadingsAssumption DEF IInv,
     TypeOK, ConnmgrPC, ReaderPC, At, Goto, listVars, gatewayVars, Retry, Again
<1>2. Locking' /\ Shutdown'
  BY MaxReadingsAssumption DEF IInv,
     TypeOK, ConnmgrPC, ReaderPC, At, Goto, listVars, gatewayVars, Retry, Again,
     Locking, SoleRemover, Shutdown, Ends
<1>3. Insertion'
  BY MaxReadingsAssumption DEF IInv,
     TypeOK, ConnmgrPC, ReaderPC, At, Goto, listVars, gatewayVars, Retry, Again,
     Locking, SoleRemover, Insertion
<1>4. Agreement'
  BY MaxReadingsAssumption DEF IInv,
     TypeOK, ConnmgrPC, ReaderPC, At, Goto, listVars, gatewayVars, Retry, Again,
     Locking, SoleRemover, Agreement, Ends
<1>5. Ends'
  BY MaxReadingsAssumption DEF IInv,
     TypeOK, ConnmgrPC, ReaderPC, At, Goto, listVars, gatewayVars, Retry, Again,
     Locking, SoleRemover, Insertion, Agreement, Ends, Order
<1>6. Order' /\ Progress'
  BY MaxReadingsAssumption DEF IInv,
     TypeOK, ConnmgrPC, ReaderPC, At, Goto, listVars, gatewayVars, Retry, Again,
     Locking, SoleRemover, Insertion, Ends, Order, Progress
<1>7. History' /\ FreedAfterBoth' /\ InOrderOnce'
  BY MaxReadingsAssumption DEF IInv,
     TypeOK, ConnmgrPC, ReaderPC, At, Goto, listVars, gatewayVars, Retry, Again,
     History, FreedAfterBoth, InOrderOnce, Agreement, Shutdown
<1>. QED
  BY <1>1, <1>2, <1>3, <1>4, <1>5, <1>6, <1>7 DEF IInv

LEMMA WaitAtBarrierStep ==
  ASSUME IInv, NEW c \in Consumer, WaitAtBarrier(c)
  PROVE  IInv'
<1>1. TypeOK'
  BY MaxReadingsAssumption DEF IInv,
     TypeOK, ConnmgrPC, ReaderPC, At, Goto, listVars, gatewayVars, WaitAtBarrier
<1>2. Locking' /\ Shutdown'
  BY MaxReadingsAssumption DEF IInv,
     TypeOK, ConnmgrPC, ReaderPC, At, Goto, listVars, gatewayVars, WaitAtBarrier,
     Locking, SoleRemover, Shutdown, Ends
<1>3. Insertion'
  BY MaxReadingsAssumption DEF IInv,
     TypeOK, ConnmgrPC, ReaderPC, At, Goto, listVars, gatewayVars, WaitAtBarrier,
     Locking, SoleRemover, Insertion
<1>4. Agreement'
  BY MaxReadingsAssumption DEF IInv,
     TypeOK, ConnmgrPC, ReaderPC, At, Goto, listVars, gatewayVars, WaitAtBarrier,
     Locking, SoleRemover, Agreement, Ends
<1>5. Ends'
  BY MaxReadingsAssumption DEF IInv,
     TypeOK, ConnmgrPC, ReaderPC, At, Goto, listVars, gatewayVars, WaitAtBarrier,
     Locking, SoleRemover, Insertion, Agreement, Ends, Order
<1>6. Order' /\ Progress'
  BY MaxReadingsAssumption DEF IInv,
     TypeOK, ConnmgrPC, ReaderPC, At, Goto, listVars, gatewayVars, WaitAtBarrier,
     Locking, SoleRemover, Insertion, Ends, Order, Progress
<1>7. History' /\ FreedAfterBoth' /\ InOrderOnce'
  BY MaxReadingsAssumption DEF IInv,
     TypeOK, ConnmgrPC, ReaderPC, At, Goto, listVars, gatewayVars, WaitAtBarrier,
     History, FreedAfterBoth, InOrderOnce, Agreement, Shutdown
<1>. QED
  BY <1>1, <1>2, <1>3, <1>4, <1>5, <1>6, <1>7 DEF IInv

LEMMA OpenBarrierStep ==
  ASSUME IInv, NEW c \in Consumer, OpenBarrier(c)
  PROVE  IInv'
<1>1. TypeOK'
  BY MaxReadingsAssumption DEF IInv,
     TypeOK, ConnmgrPC, ReaderPC, At, Goto, listVars, gatewayVars, OpenBarrier
<1>2. Locking' /\ Shutdown'
  BY MaxReadingsAssumption DEF IInv,
     TypeOK, ConnmgrPC, ReaderPC, At, Goto, listVars, gatewayVars, OpenBarrier,
     Locking, SoleRemover, Shutdown, Ends
<1>3. Insertion'
  BY MaxReadingsAssumption DEF IInv,
     TypeOK, ConnmgrPC, ReaderPC, At, Goto, listVars, gatewayVars, OpenBarrier,
     Locking, SoleRemover, Insertion
<1>4. Agreement'
  BY MaxReadingsAssumption DEF IInv,
     TypeOK, ConnmgrPC, ReaderPC, At, Goto, listVars, gatewayVars, OpenBarrier,
     Locking, SoleRemover, Agreement, Ends
<1>5. Ends'
  <2>1. pc["connmgr"] \notin First
    BY DEF IInv, Ends, OpenBarrier, At
  <2>2. \A d \in Consumer : pc'[d] \in {"remove", "sleep"}
    BY DEF IInv, TypeOK, OpenBarrier, At
  <2>. QED
    BY <2>1, <2>2 DEF IInv, TypeOK, ConnmgrPC, ReaderPC, At, Goto, listVars, gatewayVars,
       OpenBarrier, Ends
<1>6. Order' /\ Progress'
  BY MaxReadingsAssumption DEF IInv,
     TypeOK, ConnmgrPC, ReaderPC, At, Goto, listVars, gatewayVars, OpenBarrier,
     Locking, SoleRemover, Insertion, Ends, Order, Progress
<1>7. History' /\ FreedAfterBoth' /\ InOrderOnce'
  BY MaxReadingsAssumption DEF IInv,
     TypeOK, ConnmgrPC, ReaderPC, At, Goto, listVars, gatewayVars, OpenBarrier,
     History, FreedAfterBoth, InOrderOnce, Agreement, Shutdown
<1>. QED
  BY <1>1, <1>2, <1>3, <1>4, <1>5, <1>6, <1>7 DEF IInv

LEMMA StartRemovalStep ==
  ASSUME IInv, NEW c \in Consumer, StartRemoval(c)
  PROVE  IInv'
<1>1. TypeOK'
  BY MaxReadingsAssumption DEF IInv,
     TypeOK, ConnmgrPC, ReaderPC, At, Goto, listVars, gatewayVars, StartRemoval,
     RemoveTest
<1>2. Locking' /\ Shutdown'
  BY MaxReadingsAssumption DEF IInv,
     TypeOK, ConnmgrPC, ReaderPC, At, Goto, listVars, gatewayVars, StartRemoval,
     RemoveTest, Locking, SoleRemover, Shutdown, Ends
<1>3. Insertion'
  BY MaxReadingsAssumption DEF IInv,
     TypeOK, ConnmgrPC, ReaderPC, At, Goto, listVars, gatewayVars, StartRemoval,
     RemoveTest, Locking, SoleRemover, Insertion
<1>4. Agreement'
  BY MaxReadingsAssumption DEF IInv,
     TypeOK, ConnmgrPC, ReaderPC, At, Goto, listVars, gatewayVars, StartRemoval,
     RemoveTest, Locking, SoleRemover, Agreement, Ends
<1>5. Ends'
  BY MaxReadingsAssumption DEF IInv,
     TypeOK, ConnmgrPC, ReaderPC, At, Goto, listVars, gatewayVars, StartRemoval,
     RemoveTest, Locking, SoleRemover, Insertion, Agreement, Ends, Order
<1>6. Order'
  BY MaxReadingsAssumption DEF IInv,
     TypeOK, ConnmgrPC, ReaderPC, At, Goto, listVars, gatewayVars, StartRemoval,
     RemoveTest, Locking, SoleRemover, Insertion, Ends, Order
<1>7. Progress'
  BY MaxReadingsAssumption DEF IInv,
     TypeOK, ConnmgrPC, ReaderPC, At, Goto, listVars, gatewayVars, StartRemoval,
     RemoveTest, Locking, SoleRemover, Insertion, Ends, Order, Progress
<1>8. History' /\ FreedAfterBoth' /\ InOrderOnce'
  BY MaxReadingsAssumption DEF IInv,
     TypeOK, ConnmgrPC, ReaderPC, At, Goto, listVars, gatewayVars, StartRemoval,
     RemoveTest, History, FreedAfterBoth, InOrderOnce, Agreement, Shutdown
<1>. QED
  BY <1>1, <1>2, <1>3, <1>4, <1>5, <1>6, <1>7, <1>8 DEF IInv

LEMMA WakeStep ==
  ASSUME IInv, NEW c \in Consumer, Wake(c)
  PROVE  IInv'
<1>1. TypeOK'
  BY MaxReadingsAssumption DEF IInv,
     TypeOK, ConnmgrPC, ReaderPC, At, Goto, listVars, gatewayVars, Wake, Again
<1>2. Locking' /\ Shutdown'
  BY MaxReadingsAssumption DEF IInv,
     TypeOK, ConnmgrPC, ReaderPC, At, Goto, listVars, gatewayVars, Wake, Again,
     Locking, SoleRemover, Shutdown, Ends
<1>3. Insertion'
  BY MaxReadingsAssumption DEF IInv,
     TypeOK, ConnmgrPC, ReaderPC, At, Goto, listVars, gatewayVars, Wake, Again,
     Locking, SoleRemover, Insertion
<1>4. Agreement'
  BY MaxReadingsAssumption DEF IInv,
     TypeOK, ConnmgrPC, ReaderPC, At, Goto, listVars, gatewayVars, Wake, Again,
     Locking, SoleRemover, Agreement, Ends
<1>5. Ends'
  BY MaxReadingsAssumption DEF IInv,
     TypeOK, ConnmgrPC, ReaderPC, At, Goto, listVars, gatewayVars, Wake, Again,
     Locking, SoleRemover, Insertion, Agreement, Ends, Order
<1>6. Order' /\ Progress'
  BY MaxReadingsAssumption DEF IInv,
     TypeOK, ConnmgrPC, ReaderPC, At, Goto, listVars, gatewayVars, Wake, Again,
     Locking, SoleRemover, Insertion, Ends, Order, Progress
<1>7. History' /\ FreedAfterBoth' /\ InOrderOnce'
  BY MaxReadingsAssumption DEF IInv,
     TypeOK, ConnmgrPC, ReaderPC, At, Goto, listVars, gatewayVars, Wake, Again,
     History, FreedAfterBoth, InOrderOnce, Agreement, Shutdown
<1>. QED
  BY <1>1, <1>2, <1>3, <1>4, <1>5, <1>6, <1>7 DEF IInv

LEMMA ParseSizeStep ==
  ASSUME IInv, ParseSize
  PROVE  IInv'
<1>1. TypeOK'
  BY MaxReadingsAssumption DEF IInv,
     TypeOK, ConnmgrPC, ReaderPC, At, Goto, listVars, gatewayVars, ParseSize,
     SizeIsZero, SizeIsPositive
<1>2. Locking' /\ Shutdown'
  BY MaxReadingsAssumption DEF IInv,
     TypeOK, ConnmgrPC, ReaderPC, At, Goto, listVars, gatewayVars, ParseSize,
     SizeIsZero, SizeIsPositive, Locking, SoleRemover, Shutdown, Ends
<1>3. Insertion'
  BY MaxReadingsAssumption DEF IInv,
     TypeOK, ConnmgrPC, ReaderPC, At, Goto, listVars, gatewayVars, ParseSize,
     SizeIsZero, SizeIsPositive, Locking, SoleRemover, Insertion
<1>4. Agreement'
  BY DEF IInv, TypeOK, At, Goto, Enter, listVars, gatewayVars, ParseSize, Agreement
<1>5. Ends'
  BY MaxReadingsAssumption DEF IInv,
     TypeOK, ConnmgrPC, ReaderPC, At, Goto, listVars, gatewayVars, ParseSize,
     SizeIsZero, SizeIsPositive, Locking, SoleRemover, Insertion, Agreement, Ends,
     Order
<1>6. Order' /\ Progress'
  BY MaxReadingsAssumption DEF IInv,
     TypeOK, ConnmgrPC, ReaderPC, At, Goto, listVars, gatewayVars, ParseSize,
     SizeIsZero, SizeIsPositive, Locking, SoleRemover, Insertion, Ends, Order,
     Progress
<1>7. History' /\ FreedAfterBoth' /\ InOrderOnce'
  BY MaxReadingsAssumption DEF IInv,
     TypeOK, ConnmgrPC, ReaderPC, At, Goto, listVars, gatewayVars, ParseSize,
     SizeIsZero, SizeIsPositive, History, FreedAfterBoth, InOrderOnce, Agreement,
     Shutdown
<1>. QED
  BY <1>1, <1>2, <1>3, <1>4, <1>5, <1>6, <1>7 DEF IInv

LEMMA ReceiveStep ==
  ASSUME IInv, Receive
  PROVE  IInv'
<1>1. TypeOK'
  BY MaxReadingsAssumption DEF IInv,
     TypeOK, ConnmgrPC, ReaderPC, At, Goto, listVars, gatewayVars, Receive,
     LockAndAllocate
<1>2. Locking' /\ Shutdown'
  BY MaxReadingsAssumption DEF IInv,
     TypeOK, ConnmgrPC, ReaderPC, At, Goto, listVars, gatewayVars, Receive,
     LockAndAllocate, Locking, SoleRemover, Shutdown, Ends
<1>3. Insertion'
  BY MaxReadingsAssumption DEF IInv,
     TypeOK, ConnmgrPC, ReaderPC, At, Goto, listVars, gatewayVars, Receive,
     LockAndAllocate, Locking, SoleRemover, Insertion, Order
<1>4. Agreement'
  BY MaxReadingsAssumption DEF IInv,
     TypeOK, ConnmgrPC, ReaderPC, At, Goto, listVars, gatewayVars, Receive,
     LockAndAllocate, Locking, SoleRemover, Agreement, Ends
<1>5. Ends'
  BY MaxReadingsAssumption DEF IInv,
     TypeOK, ConnmgrPC, ReaderPC, At, Goto, listVars, gatewayVars, Receive,
     LockAndAllocate, Locking, SoleRemover, Insertion, Agreement, Ends, Order
<1>6. Order' /\ Progress'
  BY MaxReadingsAssumption DEF IInv,
     TypeOK, ConnmgrPC, ReaderPC, At, Goto, listVars, gatewayVars, Receive,
     LockAndAllocate, Locking, SoleRemover, Insertion, Ends, Order, Progress
<1>7. History' /\ FreedAfterBoth' /\ InOrderOnce'
  BY MaxReadingsAssumption DEF IInv,
     TypeOK, ConnmgrPC, ReaderPC, At, Goto, listVars, gatewayVars, Receive,
     LockAndAllocate, History, FreedAfterBoth, InOrderOnce, Agreement, Shutdown
<1>. QED
  BY <1>1, <1>2, <1>3, <1>4, <1>5, <1>6, <1>7 DEF IInv

LEMMA StopListeningStep ==
  ASSUME IInv, StopListening
  PROVE  IInv'
<1>1. TypeOK'
  BY MaxReadingsAssumption DEF IInv,
     TypeOK, ConnmgrPC, ReaderPC, At, Goto, listVars, gatewayVars, StopListening
<1>2. Locking' /\ Shutdown'
  BY MaxReadingsAssumption DEF IInv,
     TypeOK, ConnmgrPC, ReaderPC, At, Goto, listVars, gatewayVars, StopListening,
     Locking, SoleRemover, Shutdown, Ends
<1>3. Insertion'
  BY MaxReadingsAssumption DEF IInv,
     TypeOK, ConnmgrPC, ReaderPC, At, Goto, listVars, gatewayVars, StopListening,
     Locking, SoleRemover, Insertion
<1>4. Agreement'
  BY MaxReadingsAssumption DEF IInv,
     TypeOK, ConnmgrPC, ReaderPC, At, Goto, listVars, gatewayVars, StopListening,
     Locking, SoleRemover, Agreement, Ends
<1>5. Ends'
  BY MaxReadingsAssumption DEF IInv,
     TypeOK, ConnmgrPC, ReaderPC, At, Goto, listVars, gatewayVars, StopListening,
     Locking, SoleRemover, Insertion, Agreement, Ends, Order
<1>6. Order' /\ Progress'
  BY MaxReadingsAssumption DEF IInv,
     TypeOK, ConnmgrPC, ReaderPC, At, Goto, listVars, gatewayVars, StopListening,
     Locking, SoleRemover, Insertion, Ends, Order, Progress
<1>7. History' /\ FreedAfterBoth' /\ InOrderOnce'
  BY MaxReadingsAssumption DEF IInv,
     TypeOK, ConnmgrPC, ReaderPC, At, Goto, listVars, gatewayVars, StopListening,
     History, FreedAfterBoth, InOrderOnce, Agreement, Shutdown
<1>. QED
  BY <1>1, <1>2, <1>3, <1>4, <1>5, <1>6, <1>7 DEF IInv

LEMMA JoinAndFreeStep ==
  ASSUME IInv, JoinAndFree
  PROVE  IInv'
<1>1. TypeOK'
  <2>1. Linked \subseteq Node
    BY DEF Linked
  <2>. QED
    BY <2>1, MaxReadingsAssumption DEF IInv, TypeOK, ConnmgrPC, ReaderPC, At, Goto, listVars,
       gatewayVars, JoinAndFree
<1>2. Locking' /\ Shutdown'
  BY MaxReadingsAssumption DEF IInv,
     TypeOK, ConnmgrPC, ReaderPC, At, Goto, listVars, gatewayVars, JoinAndFree,
     Linked, Locking, SoleRemover, Shutdown, Ends
<1>3. Insertion'
  BY MaxReadingsAssumption DEF IInv,
     TypeOK, ConnmgrPC, ReaderPC, At, Goto, listVars, gatewayVars, JoinAndFree,
     Linked, Locking, SoleRemover, Insertion
<1>4. Agreement'
  BY MaxReadingsAssumption DEF IInv,
     TypeOK, ConnmgrPC, ReaderPC, At, Goto, listVars, gatewayVars, JoinAndFree,
     Linked, Locking, SoleRemover, Agreement, Ends
<1>5. Ends'
  BY MaxReadingsAssumption DEF IInv,
     TypeOK, ConnmgrPC, ReaderPC, At, Goto, listVars, gatewayVars, JoinAndFree,
     Linked, Locking, SoleRemover, Insertion, Agreement, Ends, Order
<1>6. Order' /\ Progress'
  BY MaxReadingsAssumption DEF IInv,
     TypeOK, ConnmgrPC, ReaderPC, At, Goto, listVars, gatewayVars, JoinAndFree,
     Linked, Locking, SoleRemover, Insertion, Ends, Order, Progress
<1>7. History' /\ FreedAfterBoth' /\ InOrderOnce'
  BY MaxReadingsAssumption DEF IInv,
     TypeOK, ConnmgrPC, ReaderPC, At, Goto, listVars, gatewayVars, JoinAndFree,
     Linked, History, FreedAfterBoth, InOrderOnce, Agreement, Shutdown
<1>. QED
  BY <1>1, <1>2, <1>3, <1>4, <1>5, <1>6, <1>7 DEF IInv

LEMMA InitIInv == Init => IInv
<1>. SUFFICES ASSUME Init PROVE IInv
  OBVIOUS
<1>1. TypeOK
  BY MaxReadingsAssumption DEF Init, TypeOK, ConnmgrPC, ReaderPC
<1>2. /\ Locking /\ Insertion /\ Agreement /\ Ends /\ Shutdown
  BY DEF Init, Locking, SoleRemover, Insertion, Agreement, Ends, Shutdown
<1>3. Order /\ Progress
  BY MaxReadingsAssumption DEF Init, Order, Progress
<1>4. History /\ FreedAfterBoth /\ InOrderOnce
  BY DEF Init, History, FreedAfterBoth, InOrderOnce
<1>. QED
  BY <1>1, <1>2, <1>3, <1>4 DEF IInv

LEMMA NextIInv == IInv /\ [Next]_vars => IInv'
<1>. SUFFICES ASSUME IInv, [Next]_vars PROVE IInv'
  OBVIOUS
<1>1. CASE Receive
  BY <1>1, ReceiveStep
<1>2. CASE Insert
  BY <1>2, TestEmptyStep, FirstTailStep, FirstReloadStep, FirstHeadStep, LinkLoadStep,
     LinkStoreStep, TailLoadStep, TailNextStep, TailStoreStep DEF Insert, InsertStep
<1>3. CASE StopListening
  BY <1>3, StopListeningStep
<1>4. ASSUME NEW c \in Consumer, Read(c) PROVE IInv'
  <2>1. CASE Poll(c)
    BY <2>1, PollLockStep, PollLoadStep, PollFlagsStep DEF Poll, PollStep
  <2>2. CASE Remove(c)
    BY <2>2, UnlinkTailStep, UnlinkReloadStep, UnlinkHeadStep, UnlinkNextStep, FreeNodeStep
       DEF Remove, RemoveStep
  <2>3. CASE ReadFlag(c) \/ ReadSize(c) \/ ParseSize \/ Retry(c) \/ Wake(c)
    BY <2>3, ReadFlagStep, ReadSizeStep, ParseSizeStep, RetryStep, WakeStep
  <2>4. CASE Handle(c) \/ Reject(c)
    BY <2>4, HandleStep, RejectStep
  <2>5. CASE WaitAtBarrier(c) \/ OpenBarrier(c) \/ StartRemoval(c)
    BY <2>5, WaitAtBarrierStep, OpenBarrierStep, StartRemovalStep
  <2>. QED
    BY <1>4, <2>1, <2>2, <2>3, <2>4, <2>5 DEF Read
<1>5. CASE JoinAndFree
  BY <1>5, JoinAndFreeStep
<1>6. CASE UNCHANGED vars \/ Fault \/ Finished
  <2>1. /\ UNCHANGED <<listVars, mutex, pc, reg, dummy, gatewayVars>>
        /\ fault' \in Thread \cup {"none"}
    BY <1>6 DEF IInv, TypeOK, Fault, Finished, Crash, vars, threadVars
  <2>2. TypeOK'
    BY <2>1 DEF IInv, TypeOK, listVars, gatewayVars
  <2>3. Locking' /\ Insertion' /\ Agreement' /\ Ends' /\ Shutdown'
    BY <2>1 DEF IInv, Locking, SoleRemover, Insertion, Agreement, Ends, Shutdown,
       listVars, gatewayVars
  <2>4. Order' /\ Progress' /\ History' /\ FreedAfterBoth' /\ InOrderOnce'
    BY <2>1 DEF IInv, Order, Progress, History, FreedAfterBoth, InOrderOnce,
       listVars, gatewayVars
  <2>. QED
    BY <2>2, <2>3, <2>4 DEF IInv
<1>. QED
  BY <1>1, <1>2, <1>3, <1>4, <1>5, <1>6 DEF Next

(***************************************************************************)
(* What holds in every state, for every number of readings and every       *)
(* timing of sleeps, insertions and removals.                              *)
(***************************************************************************)

\* The invariant above is inductive.
THEOREM SpecIInv == Spec => []IInv
<1>1. Init => IInv
  BY InitIInv
<1>2. IInv /\ [Next]_vars => IInv'
  BY NextIInv
<1>. QED
  BY <1>1, <1>2, PTL DEF Spec

\* Every variable keeps its type: no pointer, label or counter leaves its range.
THEOREM SpecTypeOK == Spec => []TypeOK
<1>1. IInv => TypeOK
  BY DEF IInv
<1>. QED
  BY <1>1, SpecIInv, PTL

\* A node is freed by sbuffer_remove or sbuffer_free only after both readers
\* took it, although neither the removal nor the choice of the remover is locked.
THEOREM SpecFreedAfterBoth == Spec => []FreedAfterBoth
<1>1. IInv => FreedAfterBoth
  BY DEF IInv
<1>. QED
  BY <1>1, SpecIInv, PTL

\* Averages and rows are made from each reading at most once, in order of arrival.
THEOREM SpecInOrderOnce == Spec => []InOrderOnce
<1>1. IInv => InOrderOnce
  BY DEF IInv
<1>. QED
  BY <1>1, SpecIInv, PTL

\* sbuffer_remove, which takes no lock, is never run by both readers at once.
THEOREM SpecSoleRemover == Spec => []SoleRemover
<1>1. IInv => SoleRemover
  BY DEF IInv, Locking
<1>. QED
  BY <1>1, SpecIInv, PTL

=============================================================================
