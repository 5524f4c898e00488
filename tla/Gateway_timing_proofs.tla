------------------------ MODULE Gateway_timing_proofs ------------------------
(***************************************************************************)
(* Proofs about the gateway under its two timing constants, for every      *)
(* number of readings: whatever the timing the list is whole when nothing  *)
(* changes it; when the sleep at the barrier outlasts the removal the      *)
(* readers are memory safe and the buffer implements Broadcast; when,      *)
(* besides, no insertion overlaps a removal, nothing faults and nothing is *)
(* left behind.                                                            *)
(***************************************************************************)
EXTENDS Gateway_proofs, Iteration

USE DEF NULL, Node, Pointer, Consumer, Thread, Other, Inserting, Unlinking, Removing, First,
        Both, Met

\* Reader c has the node it removes in its hands.
Unlinks(c) == pc[c] \in Unlinking \cup {"free"}

(***************************************************************************)
(* The invariant when the sleep outlasts the removal.                      *)
(***************************************************************************)

\* The other reader sleeps as long as one removes.
Alone == \A c \in Consumer : pc[c] \in Removing => pc[Other(c)] = "sleep"

\* A node that is being inserted has not been taken.
Fresh == pc["connmgr"] \in Inserting => \A c \in Consumer : arrived \notin taken[c]

\* What the readers hold is the head, or the node that one unlinks.
Hold ==
  /\ \A c \in Consumer : pc[c] \in {"poll_load", "poll_flags"} => head # NULL
  /\ \A c \in Consumer : pc[c] \in {"poll_flags", "unlink_tail", "unlink_next"} => dummy[c] = head

\* Neither the head nor the node being unlinked is freed, and they part before it is.
Unfreed ==
  /\ head \notin freed
  /\ \A c \in Consumer : Unlinks(c) => dummy[c] \notin freed
  /\ \A c \in Consumer : pc[c] = "unlink_reload" => tail # dummy[c]
  /\ \A c \in Consumer : pc[c] = "unlink_head" => reg[c] # dummy[c]
  /\ \A c \in Consumer : pc[c] = "free" => head # dummy[c]

Safety == Alone /\ Fresh /\ Hold /\ Unfreed /\ ReadersSafe

\* What is taken and not freed is the head, or the node being unlinked.
Window ==
  /\ pc["connmgr"] \in First =>
       head \in {NULL, arrived} \/ \E c \in Consumer : pc[c] \in {"unlink_reload", "unlink_head"}
  /\ \A c, d \in Consumer : Unlinks(d) => taken[c] \ freed \subseteq {dummy[d]}
  /\ (\A d \in Consumer : ~Unlinks(d)) => \A c \in Consumer : taken[c] \ freed \subseteq {head}

(***************************************************************************)
(* The invariant when, besides, insertions avoid removals.                 *)
(***************************************************************************)
Appending == {"link_load", "link_store", "tail_load", "tail_next", "tail_store"}

\* The last reading whose insertion is complete.
Prior == IF pc["connmgr"] \in Inserting THEN arrived - 1 ELSE arrived

\* No insertion overlaps an unlinking.
Apart == pc["connmgr"] \in Inserting => \A c \in Consumer : ~Unlinks(c)

\* Head and tail are both there or both not, but for the steps that set them.
Paired ==
  /\ pc["connmgr"] \in First => head = NULL
  /\ pc["connmgr"] \in Appending => head # NULL /\ tail # NULL
  /\ pc["connmgr"] \notin First /\ (\A c \in Consumer : pc[c] \notin {"unlink_reload", "unlink_head"})
       => (head = NULL <=> tail = NULL)
  /\ \A c \in Consumer : pc[c] \in {"unlink_reload", "unlink_head"} => tail = NULL
  /\ \A c \in Consumer : pc[c] = "unlink_head" => reg[c] = NULL
  /\ pc["connmgr"] \in {"link_store", "tail_next"} => reg["connmgr"] = tail

\* The list holds the nodes from head to tail without gap, and tail is the
\* last that has been inserted.
Chain ==
  /\ head # NULL /\ tail # NULL => \A n \in Node : head <= n /\ n < tail => next[n] = n + 1
  /\ pc["connmgr"] \notin First /\ tail # NULL => tail = Prior
  /\ pc["connmgr"] \in {"tail_load", "tail_next", "tail_store"} => next[tail] = arrived
  /\ \A c \in Consumer : pc[c] \in {"unlink_tail", "unlink_reload", "unlink_head"} => dummy[c] = arrived
  /\ \A c \in Consumer : pc[c] = "free" => head = IF dummy[c] = arrived THEN NULL ELSE dummy[c] + 1

\* All nodes before the list are freed.
Given ==
  /\ \A c \in Consumer : Unlinks(c) => \A n \in Node : n < dummy[c] => n \in freed
  /\ (\A c \in Consumer : ~Unlinks(c)) =>
       \A n \in Node : (IF head = NULL THEN n <= Prior ELSE n < head) => n \in freed

Calm == Apart /\ Paired /\ Chain /\ Given /\ NoFault

(***************************************************************************)
(* Steps that preserve the invariant of the first constant.                *)
(***************************************************************************)

\* Reader c moves on without touching the list, and is neither in a removal
\* nor about to follow a pointer.
Quiet(c, l) ==
  /\ UNCHANGED <<listVars, reg, dummy, fault>>
  /\ pc' = [pc EXCEPT ![c] = l]
  /\ pc[c] \notin Removing \cup {"poll_flags"}
  /\ l \notin Removing \cup {"poll_flags"}
  /\ l = "poll_load" => head # NULL
  /\ pc[c] = "sleep" => pc[Other(c)] \notin Removing

LEMMA QuietSafe ==
  ASSUME IInv, Safety, Window, NEW c \in Consumer, NEW l \in ReaderPC, Quiet(c, l)
  PROVE  Safety' /\ Window'
<1>1. Alone' /\ Fresh'
  BY DEF IInv, listVars, Quiet, Safety, Alone, Fresh
<1>2. Hold'
  BY DEF IInv, listVars, Quiet, Safety, Hold
<1>3. \A d \in Consumer : Unlinks(d)' <=> Unlinks(d)
  BY DEF IInv, Quiet, Unlinks
<1>4. Unfreed' /\ ReadersSafe'
  BY <1>3 DEF IInv, listVars, Quiet, Safety, Unfreed, ReadersSafe
<1>5. Window'
  <2>1. pc'["connmgr"] = pc["connmgr"]
    BY DEF IInv, Quiet
  <2>2. \A d \in Consumer : pc'[d] \in {"unlink_reload", "unlink_head"}
                            <=> pc[d] \in {"unlink_reload", "unlink_head"}
    BY DEF IInv, Quiet
  <2>. QED
    BY <1>3, <2>1, <2>2 DEF listVars, Quiet, Window
<1>. QED
  BY <1>1, <1>2, <1>4, <1>5 DEF Safety

LEMMA TestEmptySafe ==
  ASSUME IInv, Safety, Window, TestEmpty, UNCHANGED gatewayVars
  PROVE  Safety' /\ Window'
<1>1. Alone' /\ Fresh'
  BY DEF IInv, At, Goto, listVars, TestEmpty, Safety, Alone, Fresh
<1>2. Hold'
  BY DEF IInv, Goto, listVars, TestEmpty, Safety, Hold
<1>3. Unfreed'
  BY DEF IInv, Goto, listVars, TestEmpty, Safety, Unfreed, Unlinks
<1>4. ReadersSafe'
  BY DEF TestEmpty, Safety, ReadersSafe
<1>5. Window'
  BY DEF IInv, Ends, Goto, listVars, TestEmpty, Window, Unlinks
<1>. QED
  BY <1>1, <1>2, <1>3, <1>4, <1>5 DEF Safety

LEMMA FirstTailSafe ==
  ASSUME IInv, Safety, Window, FirstTail, UNCHANGED gatewayVars
  PROVE  Safety' /\ Window'
<1>1. Alone' /\ Fresh'
  BY DEF IInv, At, Goto, FirstTail, Safety, Alone, Fresh
<1>2. Hold'
  BY DEF IInv, Goto, FirstTail, Safety, Hold
<1>3. Unfreed'
  BY DEF IInv, Agreement, At, Goto, FirstTail, Safety, Fresh, Unfreed, Unlinks
<1>4. ReadersSafe'
  BY DEF FirstTail, Safety, ReadersSafe
<1>5. Window'
  BY DEF IInv, At, Goto, FirstTail, Window, Unlinks
<1>. QED
  BY <1>1, <1>2, <1>3, <1>4, <1>5 DEF Safety

LEMMA FirstReloadSafe ==
  ASSUME IInv, Safety, Window, FirstReload, UNCHANGED gatewayVars
  PROVE  Safety' /\ Window'
<1>1. Alone' /\ Fresh'
  BY DEF IInv, At, Goto, listVars, FirstReload, Safety, Alone, Fresh
<1>2. Hold'
  BY DEF IInv, Goto, listVars, FirstReload, Safety, Hold
<1>3. Unfreed'
  BY DEF IInv, Goto, listVars, FirstReload, Load, Safety, Unfreed, Unlinks
<1>4. ReadersSafe'
  BY DEF FirstReload, Safety, ReadersSafe
<1>5. Window'
  BY DEF IInv, At, Goto, listVars, FirstReload, Window, Unlinks
<1>. QED
  BY <1>1, <1>2, <1>3, <1>4, <1>5 DEF Safety

LEMMA FirstHeadSafe ==
  ASSUME IInv, Safety, Window, FirstHead, UNCHANGED gatewayVars
  PROVE  Safety' /\ Window'
<1>1. Alone' /\ Fresh'
  BY DEF IInv, Goto, FirstHead, Safety, Alone, Fresh
<1>2. Hold'
  BY DEF IInv, Locking, Ends, At, Goto, FirstHead, Hold
<1>3. Unfreed'
  BY DEF IInv, Insertion, Agreement, FreedAfterBoth, At, Goto, FirstHead, Safety, Fresh,
     Unfreed, Unlinks
<1>4. ReadersSafe'
  BY DEF FirstHead, Safety, ReadersSafe
<1>5. Window'
  BY DEF IInv, Ends, TypeOK, At, Goto, FirstHead, Safety, Fresh, Window, Unlinks
<1>. QED
  BY <1>1, <1>2, <1>3, <1>4, <1>5 DEF Safety

LEMMA LinkLoadSafe ==
  ASSUME IInv, Safety, Window, LinkLoad, UNCHANGED gatewayVars
  PROVE  Safety' /\ Window'
<1>1. Alone' /\ Fresh'
  BY DEF IInv, At, Goto, listVars, LinkLoad, Safety, Alone, Fresh
<1>2. Hold'
  BY DEF IInv, Goto, listVars, LinkLoad, Safety, Hold
<1>3. Unfreed'
  BY DEF IInv, Goto, listVars, LinkLoad, Load, Safety, Unfreed, Unlinks
<1>4. ReadersSafe'
  BY DEF LinkLoad, Safety, ReadersSafe
<1>5. Window'
  BY DEF IInv, Goto, listVars, LinkLoad, Window, Unlinks
<1>. QED
  BY <1>1, <1>2, <1>3, <1>4, <1>5 DEF Safety

LEMMA LinkStoreSafe ==
  ASSUME IInv, Safety, Window, LinkStore, UNCHANGED gatewayVars
  PROVE  Safety' /\ Window'
<1>1. Alone' /\ Fresh'
  BY DEF IInv, At, Goto, LinkStore, Safety, Alone, Fresh
<1>2. Hold'
  BY DEF IInv, Goto, LinkStore, Safety, Hold
<1>3. Unfreed'
  BY DEF IInv, Goto, LinkStore, Safety, Unfreed, Unlinks
<1>4. ReadersSafe'
  BY DEF LinkStore, Safety, ReadersSafe
<1>5. Window'
  BY DEF IInv, Goto, LinkStore, Window, Unlinks
<1>. QED
  BY <1>1, <1>2, <1>3, <1>4, <1>5 DEF Safety

LEMMA TailLoadSafe ==
  ASSUME IInv, Safety, Window, TailLoad, UNCHANGED gatewayVars
  PROVE  Safety' /\ Window'
<1>1. Alone' /\ Fresh'
  BY DEF IInv, At, Goto, listVars, TailLoad, Safety, Alone, Fresh
<1>2. Hold'
  BY DEF IInv, Goto, listVars, TailLoad, Safety, Hold
<1>3. Unfreed'
  BY DEF IInv, Goto, listVars, TailLoad, Load, Safety, Unfreed, Unlinks
<1>4. ReadersSafe'
  BY DEF TailLoad, Safety, ReadersSafe
<1>5. Window'
  BY DEF IInv, Goto, listVars, TailLoad, Window, Unlinks
<1>. QED
  BY <1>1, <1>2, <1>3, <1>4, <1>5 DEF Safety

LEMMA TailNextSafe ==
  ASSUME IInv, Safety, Window, TailNext, UNCHANGED gatewayVars
  PROVE  Safety' /\ Window'
<1>1. Alone' /\ Fresh'
  BY DEF IInv, At, Goto, listVars, TailNext, Safety, Alone, Fresh
<1>2. Hold'
  BY DEF IInv, Goto, listVars, TailNext, Safety, Hold
<1>3. Unfreed'
  BY DEF IInv, Goto, listVars, TailNext, Load, Safety, Unfreed, Unlinks
<1>4. ReadersSafe'
  BY DEF TailNext, Safety, ReadersSafe
<1>5. Window'
  BY DEF IInv, Goto, listVars, TailNext, Window, Unlinks
<1>. QED
  BY <1>1, <1>2, <1>3, <1>4, <1>5 DEF Safety

LEMMA TailStoreSafe ==
  ASSUME IInv, Safety, Window, TailStore, UNCHANGED gatewayVars
  PROVE  Safety' /\ Window'
<1>1. Alone' /\ Fresh'
  BY DEF IInv, Goto, TailStore, Safety, Alone, Fresh
<1>2. Hold'
  BY DEF IInv, Goto, TailStore, Safety, Hold
<1>3. Unfreed'
  BY DEF IInv, Insertion, Agreement, At, Goto, TailStore, Safety, Fresh, Unfreed, Unlinks
<1>4. ReadersSafe'
  BY DEF TailStore, Safety, ReadersSafe
<1>5. Window'
  BY DEF IInv, Goto, TailStore, Window, Unlinks
<1>. QED
  BY <1>1, <1>2, <1>3, <1>4, <1>5 DEF Safety

LEMMA PollLoadSafe ==
  ASSUME IInv, Safety, Window, NEW c \in Consumer, PollLoad(c), UNCHANGED gatewayVars
  PROVE  Safety' /\ Window'
<1>1. Alone' /\ Fresh'
  BY DEF IInv, At, Goto, listVars, PollLoad, Safety, Alone, Fresh
<1>2. Hold'
  BY DEF IInv, TypeOK, At, Goto, listVars, PollLoad, Safety, Hold
<1>3. Unfreed'
  BY DEF IInv, TypeOK, Goto, listVars, PollLoad, Safety, Unfreed, Unlinks
<1>4. ReadersSafe'
  BY DEF PollLoad, Safety, ReadersSafe
<1>5. Window'
  BY DEF IInv, At, Goto, listVars, PollLoad, Window, Unlinks
<1>. QED
  BY <1>1, <1>2, <1>3, <1>4, <1>5 DEF Safety

LEMMA PollFlagsSafe ==
  ASSUME IInv, Safety, Window, NEW c \in Consumer, PollFlags(c), UNCHANGED gatewayVars
  PROVE  Safety' /\ Window'
<1>1. Alone' /\ Fresh'
  BY DEF IInv, Locking, At, Goto, PollFlags, PollResult, Mark, Safety, Alone, Fresh
<1>2. Hold'
  BY DEF IInv, Goto, PollFlags, PollResult, Mark, Safety, Hold
<1>3. Unfreed'
  BY DEF IInv, Goto, PollFlags, PollResult, Mark, Safety, Unfreed, Unlinks
<1>4. ReadersSafe'
  BY DEF PollFlags, PollResult, Mark, Safety, ReadersSafe
<1>5. Window'
  BY DEF IInv, At, Goto, PollFlags, PollResult, Mark, Safety, Alone, Hold, Window, Unlinks
<1>. QED
  BY <1>1, <1>2, <1>3, <1>4, <1>5 DEF Safety

LEMMA UnlinkTailSafe ==
  ASSUME IInv, Safety, Window, NEW c \in Consumer, UnlinkTail(c), UNCHANGED gatewayVars
  PROVE  Safety' /\ Window'
<1>1. Alone' /\ Fresh'
  BY DEF IInv, At, Goto, UnlinkTail, Safety, Alone, Fresh
<1>2. Hold'
  BY DEF IInv, Goto, UnlinkTail, Safety, Hold
<1>3. Unfreed'
  BY DEF IInv, Agreement, TypeOK, At, Goto, UnlinkTail, Safety, Unfreed, Unlinks
<1>4. ReadersSafe'
  BY DEF UnlinkTail, Safety, ReadersSafe
<1>5. Window'
  BY DEF IInv, At, Goto, UnlinkTail, Window, Unlinks
<1>. QED
  BY <1>1, <1>2, <1>3, <1>4, <1>5 DEF Safety

LEMMA UnlinkReloadSafe ==
  ASSUME IInv, Safety, Window, NEW c \in Consumer, UnlinkReload(c), UNCHANGED gatewayVars
  PROVE  Safety' /\ Window'
<1>1. Alone' /\ Fresh'
  BY DEF IInv, At, Goto, listVars, UnlinkReload, Safety, Alone, Fresh
<1>2. Hold'
  BY DEF IInv, Goto, listVars, UnlinkReload, Safety, Hold
<1>3. Unfreed'
  BY DEF IInv, TypeOK, At, Goto, listVars, UnlinkReload, Load, Safety, Unfreed, Unlinks
<1>4. ReadersSafe'
  BY DEF UnlinkReload, Safety, ReadersSafe
<1>5. Window'
  BY DEF IInv, At, Goto, listVars, UnlinkReload, Window, Unlinks
<1>. QED
  BY <1>1, <1>2, <1>3, <1>4, <1>5 DEF Safety

LEMMA UnlinkHeadSafe ==
  ASSUME IInv, Safety, Window, NEW c \in Consumer, UnlinkHead(c), UNCHANGED gatewayVars
  PROVE  Safety' /\ Window'
<1>1. Alone' /\ Fresh'
  BY DEF IInv, At, Goto, UnlinkHead, Safety, Alone, Fresh
<1>2. Hold'
  BY DEF IInv, At, Goto, UnlinkHead, Safety, Alone, Hold
<1>3. Unfreed'
  <2>1. /\ head \in Node /\ reg[c] \in Pointer /\ dummy[c] \notin freed /\ reg[c] # dummy[c]
        /\ reg[c] # NULL => head <= reg[c]
    BY DEF IInv, TypeOK, UnlinkHead, At, Ends, Order, Safety, Unfreed, Unlinks
  <2>2. \A m \in freed : m \in Node /\ m <= head /\ m # head
    BY <2>1 DEF IInv, TypeOK, Progress, FreedAfterBoth, Safety, Unfreed
  <2>3. reg[c] \notin freed
    BY <2>1, <2>2
  <2>. QED
    BY <2>1, <2>3 DEF IInv, Locking, SoleRemover, At, Goto, UnlinkHead, Unfreed, Unlinks
<1>4. ReadersSafe'
  BY DEF UnlinkHead, Safety, ReadersSafe
<1>5. Window'
  <2>1. \A d \in Consumer : Unlinks(d)' <=> Unlinks(d)
    BY DEF IInv, UnlinkHead, At, Goto, Unlinks
  <2>2. pc'["connmgr"] = pc["connmgr"] /\ Unlinks(c) /\ head' = reg[c]
    BY DEF IInv, UnlinkHead, At, Goto, Unlinks
  <2>3. pc["connmgr"] \in First => reg[c] \in {NULL, arrived}
    BY DEF IInv, Ends, UnlinkHead, At
  <2>. QED
    BY <2>1, <2>2, <2>3 DEF UnlinkHead, Window
<1>. QED
  BY <1>1, <1>2, <1>3, <1>4, <1>5 DEF Safety

LEMMA UnlinkNextSafe ==
  ASSUME IInv, Safety, Window, NEW c \in Consumer, UnlinkNext(c), UNCHANGED gatewayVars
  PROVE  Safety' /\ Window'
<1>1. Alone' /\ Fresh'
  BY DEF IInv, At, Goto, UnlinkNext, Safety, Alone, Fresh
<1>2. Hold'
  BY DEF IInv, TypeOK, At, Goto, UnlinkNext, Safety, Alone, Hold
<1>3. Unfreed'
  <2>1. /\ head \in Node /\ next[head] \in Pointer /\ dummy[c] = head
        /\ next[head] # NULL => head < next[head]
    BY DEF IInv, TypeOK, UnlinkNext, At, Bad, Order, Safety, Hold
  <2>2. \A m \in freed : m \in Node /\ m <= head /\ m # head
    BY <2>1 DEF IInv, TypeOK, Progress, FreedAfterBoth, Safety, Unfreed
  <2>3. next[head] \notin freed /\ head \notin freed /\ next[head] # head
    BY <2>1, <2>2
  <2>. QED
    BY <2>1, <2>3 DEF IInv, Locking, SoleRemover, At, Goto, UnlinkNext, Unfreed, Unlinks
<1>4. ReadersSafe'
  BY DEF UnlinkNext, Safety, ReadersSafe
<1>5. Window'
  BY DEF IInv, Order, TypeOK, At, Goto, gatewayVars, UnlinkNext, Bad, Unfreed, Window,
     Unlinks
<1>. QED
  BY <1>1, <1>2, <1>3, <1>4, <1>5 DEF Safety

LEMMA FreeNodeSafe ==
  ASSUME IInv, Safety, Window, NEW c \in Consumer, FreeNode(c), UNCHANGED gatewayVars
  PROVE  Safety' /\ Window'
<1>1. Alone' /\ Fresh'
  BY DEF IInv, At, Goto, FreeNode, Safety, Alone, Fresh
<1>2. Hold'
  BY DEF IInv, Goto, FreeNode, Safety, Hold
<1>3. Unfreed'
  BY DEF IInv, TypeOK, At, Goto, FreeNode, Safety, Alone, Unfreed, Unlinks
<1>4. ReadersSafe'
  BY DEF FreeNode, Safety, ReadersSafe
<1>5. Window'
  BY DEF IInv, At, Goto, FreeNode, Window, Unlinks
<1>. QED
  BY <1>1, <1>2, <1>3, <1>4, <1>5 DEF Safety

LEMMA OpenBarrierSafe ==
  ASSUME IInv, Safety, Window, NEW c \in Consumer, OpenBarrier(c)
  PROVE  Safety' /\ Window'
<1>1. Alone' /\ Fresh'
  BY DEF IInv, TypeOK, listVars, OpenBarrier, Safety, Alone, Fresh
<1>2. Hold'
  BY DEF IInv, TypeOK, OpenBarrier, Hold
<1>3. Unfreed'
  <2>1. \A d \in Consumer : pc'[d] \in {"remove", "sleep"}
    BY DEF IInv, TypeOK, OpenBarrier
  <2>. QED
    BY <2>1 DEF OpenBarrier, listVars, Safety, Unfreed, Unlinks
<1>4. ReadersSafe'
  BY DEF OpenBarrier, Safety, ReadersSafe
<1>5. Window'
  <2>1. \A d \in Consumer : pc'[d] \in {"remove", "sleep"} /\ pc[d] \in {"complete", "blocked"}
    BY DEF IInv, TypeOK, OpenBarrier, At
  <2>2. pc["connmgr"] = pc'["connmgr"]
    BY DEF IInv, TypeOK, OpenBarrier
  <2>. QED
    BY <2>1, <2>2 DEF OpenBarrier, listVars, Window, Unlinks
<1>. QED
  BY <1>1, <1>2, <1>3, <1>4, <1>5 DEF Safety

LEMMA StartRemovalSafe ==
  ASSUME IInv, Safety, Window, NEW c \in Consumer, StartRemoval(c)
  PROVE  Safety' /\ Window'
<1>1. Alone' /\ Fresh'
  BY DEF IInv, At, Goto, listVars, StartRemoval, RemoveTest, Safety, Alone, Fresh
<1>2. Hold'
  BY DEF IInv, TypeOK, Goto, listVars, StartRemoval, RemoveTest, Safety, Hold
<1>3. Unfreed'
  BY DEF IInv, TypeOK, Goto, listVars, StartRemoval, RemoveTest, Safety, Unfreed, Unlinks
<1>4. ReadersSafe'
  BY DEF StartRemoval, RemoveTest, Safety, ReadersSafe
<1>5. Window'
  BY DEF IInv, TypeOK, At, Goto, listVars, StartRemoval, RemoveTest, Safety, Alone, Window,
     Unlinks
<1>. QED
  BY <1>1, <1>2, <1>3, <1>4, <1>5 DEF Safety

LEMMA ReceiveSafe ==
  ASSUME IInv, Safety, Window, Receive
  PROVE  Safety' /\ Window'
<1>1. Alone' /\ Fresh'
  BY DEF IInv, Progress, TypeOK, Goto, Receive, LockAndAllocate, Safety, Alone, Fresh
<1>2. Hold'
  BY DEF IInv, Goto, Receive, LockAndAllocate, Safety, Hold
<1>3. Unfreed'
  BY DEF IInv, Goto, Receive, LockAndAllocate, Safety, Unfreed, Unlinks
<1>4. ReadersSafe'
  BY DEF Receive, LockAndAllocate, Safety, ReadersSafe
<1>5. Window'
  BY DEF IInv, TypeOK, Goto, Receive, LockAndAllocate, Window, Unlinks
<1>. QED
  BY <1>1, <1>2, <1>3, <1>4, <1>5 DEF Safety

LEMMA StopListeningSafe ==
  ASSUME IInv, Safety, Window, StopListening
  PROVE  Safety' /\ Window'
<1>1. Alone' /\ Fresh'
  BY DEF IInv, TypeOK, Goto, StopListening, Safety, Alone, Fresh
<1>2. Hold'
  BY DEF IInv, Goto, listVars, StopListening, Safety, Hold
<1>3. Unfreed'
  BY DEF IInv, Goto, listVars, StopListening, Safety, Unfreed, Unlinks
<1>4. ReadersSafe'
  BY DEF StopListening, Safety, ReadersSafe
<1>5. Window'
  BY DEF IInv, Goto, listVars, StopListening, Window, Unlinks
<1>. QED
  BY <1>1, <1>2, <1>3, <1>4, <1>5 DEF Safety

LEMMA JoinAndFreeSafe ==
  ASSUME IInv, Safety, Window, JoinAndFree
  PROVE  Safety' /\ Window'
<1>1. Alone' /\ Fresh'
  BY DEF IInv, Goto, JoinAndFree, Linked, Alone, Fresh
<1>2. Hold'
  BY DEF IInv, Goto, JoinAndFree, Linked, Hold
<1>3. Unfreed'
  BY DEF IInv, TypeOK, Goto, gatewayVars, JoinAndFree, Linked, Unfreed, Unlinks
<1>4. ReadersSafe'
  BY DEF JoinAndFree, Linked, Safety, ReadersSafe
<1>5. Window'
  BY DEF IInv, Shutdown, TypeOK, JoinAndFree, Linked, Window, Unlinks
<1>. QED
  BY <1>1, <1>2, <1>3, <1>4, <1>5 DEF Safety

LEMMA InitSafe == Init => Safety /\ Window
  BY DEF Init, Safety, Alone, Fresh, Hold, Unfreed, ReadersSafe, Window

\* The steps of a reader that are not quiet.
LEMMA ReadSteps ==
  ASSUME SleepOutlastsRemoval, NEW c \in Consumer, Read(c)
  PROVE  \/ PollLoad(c) /\ UNCHANGED gatewayVars
         \/ PollFlags(c) /\ UNCHANGED gatewayVars
         \/ Remove(c) \/ OpenBarrier(c) \/ StartRemoval(c)
         \/ \E d \in Consumer, l \in ReaderPC : Quiet(d, l)
<1>1. CASE ReadFlag(c)
  BY <1>1 DEF ReadFlag, Enter, At, Goto, Quiet, ReaderPC
<1>2. CASE ReadSize(c)
  BY <1>2 DEF ReadSize, Enter, At, Goto, Quiet, ReaderPC
<1>3. CASE ParseSize
  BY <1>3 DEF ParseSize, At, Goto, Quiet, ReaderPC
<1>4. CASE Handle(c)
  BY <1>4 DEF Handle, Goto, Quiet, ReaderPC
<1>5. CASE Reject(c)
  BY <1>5 DEF Reject, Goto, Quiet, ReaderPC
<1>6. CASE Retry(c)
  BY <1>6 DEF Retry, Again, At, Goto, Quiet, ReaderPC
<1>7. CASE WaitAtBarrier(c)
  BY <1>7 DEF WaitAtBarrier, At, Goto, Quiet, ReaderPC
<1>8. CASE Wake(c)
  BY <1>8, SleepOutlastsRemoval DEF Wake, Again, At, Goto, Quiet, ReaderPC
<1>9. CASE PollLock(c) /\ UNCHANGED gatewayVars
  BY <1>9 DEF PollLock, At, Goto, Quiet, listVars, ReaderPC
<1>. QED
  BY <1>1, <1>2, <1>3, <1>4, <1>5, <1>6, <1>7, <1>8, <1>9 DEF Read, Poll, PollStep

LEMMA ReadersNotDangling ==
  ASSUME IInv, Safety
  PROVE  \A c \in Consumer : ~Dangling(c)
  BY DEF IInv, TypeOK, Agreement, Ends, Safety, Alone, Hold, Unfreed, Dangling, Bad,
     WalkIsUnsafe, Unlinks

LEMMA NextSafe ==
  ASSUME SleepOutlastsRemoval, IInv, Safety, Window, [Next]_vars
  PROVE  Safety' /\ Window'
<1>1. CASE Receive
  BY <1>1, ReceiveSafe
<1>2. CASE Insert
  BY <1>2, TestEmptySafe, FirstTailSafe, FirstReloadSafe, FirstHeadSafe, LinkLoadSafe,
     LinkStoreSafe, TailLoadSafe, TailNextSafe, TailStoreSafe DEF Insert, InsertStep
<1>3. CASE StopListening
  BY <1>3, StopListeningSafe
<1>4. ASSUME NEW c \in Consumer, Read(c) PROVE Safety' /\ Window'
  <2>1. CASE PollLoad(c) /\ UNCHANGED gatewayVars
    BY <2>1, PollLoadSafe
  <2>2. CASE PollFlags(c) /\ UNCHANGED gatewayVars
    BY <2>2, PollFlagsSafe
  <2>3. CASE Remove(c)
    BY <2>3, UnlinkTailSafe, UnlinkReloadSafe, UnlinkHeadSafe, UnlinkNextSafe, FreeNodeSafe
       DEF Remove, RemoveStep
  <2>4. CASE OpenBarrier(c) \/ StartRemoval(c)
    BY <2>4, OpenBarrierSafe, StartRemovalSafe
  <2>5. CASE \E d \in Consumer, l \in ReaderPC : Quiet(d, l)
    BY <2>5, QuietSafe
  <2>. QED
    BY <1>4, <2>1, <2>2, <2>3, <2>4, <2>5, ReadSteps, SleepOutlastsRemoval
<1>5. CASE JoinAndFree
  BY <1>5, JoinAndFreeSafe
<1>6. CASE Fault
  <2>1. \A c \in Consumer : ~Dangling(c)
    BY ReadersNotDangling
  <2>2. fault' = "connmgr" /\ UNCHANGED <<listVars, mutex, pc, reg, dummy, gatewayVars>>
    BY <1>6, <2>1 DEF Fault, Crash
  <2>. QED
    BY <2>2 DEF listVars, Safety, Alone, Fresh, Hold, Unfreed, Unlinks, ReadersSafe, Window
<1>7. CASE UNCHANGED vars
  BY <1>7 DEF vars, listVars, threadVars, Safety, Alone, Fresh, Hold, Unfreed, Unlinks,
     ReadersSafe, Window
<1>. QED
  BY <1>1, <1>2, <1>3, <1>4, <1>5, <1>6, <1>7 DEF Next, Finished

(***************************************************************************)
(* Steps that preserve the invariant of both constants.                    *)
(***************************************************************************)
LEMMA QuietCalm ==
  ASSUME IInv, Calm, NEW c \in Consumer, NEW l \in ReaderPC, Quiet(c, l)
  PROVE  Calm'
<1>1. \A d \in Consumer : Unlinks(d)' <=> Unlinks(d)
  BY DEF IInv, Quiet, Unlinks
<1>2. pc'["connmgr"] = pc["connmgr"] /\ Prior' = Prior
  BY DEF IInv, listVars, Quiet, Prior
<1>3. \A d \in Consumer : \A k \in Unlinking \cup {"free"} : pc'[d] = k <=> pc[d] = k
  BY DEF IInv, Quiet
<1>4. UNCHANGED <<head, tail, next, taken, arrived, freed, reg, dummy, fault>>
  BY DEF Quiet, listVars
<1>5. Apart' /\ Given' /\ NoFault'
  BY <1>1, <1>2, <1>4 DEF Calm, Apart, Given, NoFault
<1>6. Paired' /\ Chain'
  BY <1>2, <1>3, <1>4 DEF Calm, Paired, Chain
<1>. QED
  BY <1>5, <1>6 DEF Calm

LEMMA TestEmptyCalm ==
  ASSUME IInv, Safety, Calm, TestEmpty, UNCHANGED gatewayVars
  PROVE  Calm'
<1>1. Apart' /\ NoFault'
  BY DEF IInv, Unlinks, At, Goto, TestEmpty, Calm, Apart, NoFault
<1>2. Paired'
  BY DEF IInv, Unlinks, At, Goto, listVars, TestEmpty, Calm, Apart, Paired, Appending
<1>3. Chain'
  BY DEF IInv, At, Goto, listVars, TestEmpty, Calm, Chain, Prior
<1>4. Given'
  BY DEF IInv, Unlinks, TypeOK, Goto, listVars, TestEmpty, Calm, Given, Prior
<1>. QED
  BY <1>1, <1>2, <1>3, <1>4 DEF Calm

LEMMA FirstTailCalm ==
  ASSUME IInv, Safety, Calm, FirstTail, UNCHANGED gatewayVars
  PROVE  Calm'
<1>1. Apart' /\ NoFault'
  BY DEF IInv, Unlinks, At, Goto, FirstTail, Calm, Apart, NoFault
<1>2. Paired'
  BY DEF IInv, Unlinks, At, Goto, FirstTail, Calm, Apart, Paired, Appending
<1>3. Chain'
  BY DEF IInv, At, Goto, FirstTail, Calm, Paired, Chain
<1>4. Given'
  BY DEF IInv, Unlinks, TypeOK, Goto, FirstTail, Calm, Given, Prior
<1>. QED
  BY <1>1, <1>2, <1>3, <1>4 DEF Calm

LEMMA FirstReloadCalm ==
  ASSUME IInv, Safety, Calm, FirstReload, UNCHANGED gatewayVars
  PROVE  Calm'
<1>1. Apart' /\ NoFault'
  BY DEF IInv, Unlinks, At, Goto, FirstReload, Calm, Apart, NoFault
<1>2. Paired'
  BY DEF IInv, At, Goto, listVars, FirstReload, Load, Calm, Paired, Appending
<1>3. Chain'
  BY DEF IInv, TypeOK, Goto, listVars, FirstReload, Calm, Chain
<1>4. Given'
  BY DEF IInv, Unlinks, TypeOK, Goto, listVars, FirstReload, Calm, Given, Prior
<1>. QED
  BY <1>1, <1>2, <1>3, <1>4 DEF Calm

LEMMA FirstHeadCalm ==
  ASSUME IInv, Safety, Calm, FirstHead, UNCHANGED gatewayVars
  PROVE  Calm'
<1>1. Apart' /\ NoFault'
  BY DEF IInv, TypeOK, Goto, FirstHead, Calm, Apart, NoFault
<1>2. Paired'
  BY DEF IInv, Insertion, TypeOK, At, Goto, FirstHead, Calm, Paired
<1>3. Chain'
  BY DEF IInv, Insertion, Unlinks, TypeOK, At, Goto, FirstHead, Calm, Apart, Chain, Prior
<1>4. Given'
  BY DEF IInv, Insertion, Unlinks, TypeOK, At, Goto, FirstHead, Calm, Paired, Given, Prior
<1>. QED
  BY <1>1, <1>2, <1>3, <1>4 DEF Calm

LEMMA LinkLoadCalm ==
  ASSUME IInv, Safety, Calm, LinkLoad, UNCHANGED gatewayVars
  PROVE  Calm'
<1>1. Apart' /\ NoFault'
  BY DEF IInv, Unlinks, At, Goto, LinkLoad, Calm, Apart, NoFault
<1>2. Paired'
  BY DEF IInv, TypeOK, At, Goto, listVars, LinkLoad, Load, Calm, Paired, Appending
<1>3. Chain'
  BY DEF IInv, At, Goto, listVars, LinkLoad, Calm, Chain, Prior
<1>4. Given'
  BY DEF IInv, Unlinks, TypeOK, Goto, listVars, LinkLoad, Calm, Given, Prior
<1>. QED
  BY <1>1, <1>2, <1>3, <1>4 DEF Calm

LEMMA LinkStoreCalm ==
  ASSUME IInv, Safety, Calm, LinkStore, UNCHANGED gatewayVars
  PROVE  Calm'
<1>1. Apart' /\ NoFault'
  BY DEF IInv, Unlinks, At, Goto, LinkStore, Calm, Apart, NoFault
<1>2. Paired'
  BY DEF IInv, At, Goto, LinkStore, Bad, Calm, Paired
<1>3. Chain'
  BY DEF IInv, TypeOK, At, Goto, LinkStore, Bad, Calm, Paired, Chain, Prior
<1>4. Given'
  BY DEF IInv, Unlinks, TypeOK, Goto, LinkStore, Calm, Given, Prior
<1>. QED
  BY <1>1, <1>2, <1>3, <1>4 DEF Calm

LEMMA TailLoadCalm ==
  ASSUME IInv, Safety, Calm, TailLoad, UNCHANGED gatewayVars
  PROVE  Calm'
<1>1. Apart' /\ NoFault'
  BY DEF IInv, Unlinks, At, Goto, TailLoad, Calm, Apart, NoFault
<1>2. Paired'
  BY DEF IInv, TypeOK, At, Goto, listVars, TailLoad, Load, Calm, Paired, Appending
<1>3. Chain'
  BY DEF IInv, At, Goto, listVars, TailLoad, Calm, Chain, Prior
<1>4. Given'
  BY DEF IInv, Unlinks, TypeOK, Goto, listVars, TailLoad, Calm, Given, Prior
<1>. QED
  BY <1>1, <1>2, <1>3, <1>4 DEF Calm

LEMMA TailNextCalm ==
  ASSUME IInv, Safety, Calm, TailNext, UNCHANGED gatewayVars
  PROVE  Calm'
<1>1. Apart' /\ NoFault'
  BY DEF IInv, Unlinks, At, Goto, TailNext, Calm, Apart, NoFault
<1>2. Paired'
  BY DEF IInv, TypeOK, At, Goto, listVars, TailNext, Bad, Calm, Paired
<1>3. Chain'
  BY DEF IInv, At, Goto, listVars, TailNext, Calm, Chain, Prior
<1>4. Given'
  BY DEF IInv, Unlinks, TypeOK, Goto, listVars, TailNext, Calm, Given, Prior
<1>. QED
  BY <1>1, <1>2, <1>3, <1>4 DEF Calm

LEMMA TailStoreCalm ==
  ASSUME IInv, Safety, Calm, TailStore, UNCHANGED gatewayVars
  PROVE  Calm'
<1>1. Apart' /\ NoFault'
  BY DEF IInv, TypeOK, Goto, TailStore, Calm, Apart, NoFault
<1>2. Paired'
  BY DEF IInv, Insertion, At, Goto, TailStore, Calm, Paired, Appending
<1>3. Chain'
  <2>1. pc["connmgr"] = "tail_store" /\ pc' = [pc EXCEPT !["connmgr"] = "listen"]
    BY DEF TailStore, At, Goto
  <2>2. \A d \in Consumer : ~Unlinks(d) /\ pc'[d] = pc[d]
    BY <2>1 DEF IInv, Calm, Apart
  <2>3. tail' = arrived /\ head # NULL /\ tail \in Node /\ tail = arrived - 1 /\ arrived \in Node
    BY <2>1 DEF IInv, TypeOK, Insertion, TailStore, Calm, Paired, Appending, Chain, Prior
  <2>4. pc'["connmgr"] = "listen" /\ Prior = arrived - 1 /\ Prior' = arrived
    BY <2>1 DEF IInv, TypeOK, TailStore, Prior
  <2>5. \A n \in Node : head <= n /\ n < arrived => next[n] = n + 1
    <3>. SUFFICES ASSUME NEW n \in Node, head <= n, n < arrived PROVE next[n] = n + 1
      OBVIOUS
    <3>1. CASE n < tail
      BY <3>1, <2>3 DEF Calm, Chain
    <3>2. CASE n = tail
      BY <3>2, <2>1, <2>3 DEF Calm, Chain
    <3>. QED
      BY <3>1, <3>2, <2>3
  <2>. QED
    BY <2>2, <2>3, <2>4, <2>5 DEF TailStore, Chain, Unlinks
<1>4. Given'
  <2>1. pc["connmgr"] = "tail_store" /\ pc' = [pc EXCEPT !["connmgr"] = "listen"]
    BY DEF TailStore, At, Goto
  <2>2. \A d \in Consumer : ~Unlinks(d) /\ pc'[d] = pc[d]
    BY <2>1 DEF IInv, Calm, Apart
  <2>3. tail' = arrived /\ head # NULL /\ tail \in Node /\ tail = arrived - 1 /\ arrived \in Node
    BY <2>1 DEF IInv, TypeOK, Insertion, TailStore, Calm, Paired, Appending, Chain, Prior
  <2>4. pc'["connmgr"] = "listen" /\ Prior = arrived - 1 /\ Prior' = arrived
    BY <2>1 DEF IInv, TypeOK, TailStore, Prior
  <2>. QED
    BY <2>2, <2>3, <2>4 DEF TailStore, Calm, Given, Unlinks
<1>. QED
  BY <1>1, <1>2, <1>3, <1>4 DEF Calm

LEMMA PollLoadCalm ==
  ASSUME IInv, Safety, Calm, NEW c \in Consumer, PollLoad(c), UNCHANGED gatewayVars
  PROVE  Calm'
<1>1. Apart' /\ NoFault'
  BY DEF IInv, Unlinks, Goto, PollLoad, Calm, Apart, NoFault
<1>2. Paired'
  BY DEF IInv, At, Goto, listVars, PollLoad, Calm, Paired
<1>3. Chain'
  BY DEF IInv, TypeOK, Goto, listVars, PollLoad, Calm, Chain, Prior
<1>4. Given'
  BY DEF IInv, Unlinks, At, Goto, listVars, PollLoad, Calm, Given, Prior
<1>. QED
  BY <1>1, <1>2, <1>3, <1>4 DEF Calm

LEMMA PollFlagsCalm ==
  ASSUME IInv, Safety, Calm, NEW c \in Consumer, PollFlags(c), UNCHANGED gatewayVars
  PROVE  Calm'
<1>1. Apart' /\ NoFault'
  BY DEF IInv, Unlinks, Goto, PollFlags, PollResult, Mark, Calm, Apart, NoFault
<1>2. Paired'
  BY DEF IInv, At, Goto, PollFlags, PollResult, Mark, Calm, Paired
<1>3. Chain'
  BY DEF IInv, Goto, PollFlags, PollResult, Mark, Calm, Chain, Prior
<1>4. Given'
  BY DEF IInv, Unlinks, At, Goto, PollFlags, PollResult, Mark, Calm, Given, Prior
<1>. QED
  BY <1>1, <1>2, <1>3, <1>4 DEF Calm

LEMMA UnlinkTailCalm ==
  ASSUME IInv, Safety, Calm, NEW c \in Consumer, UnlinkTail(c), UNCHANGED gatewayVars
  PROVE  Calm'
<1>1. Apart' /\ NoFault'
  BY DEF IInv, Unlinks, At, Goto, UnlinkTail, Calm, Apart, NoFault
<1>2. Paired'
  <2>1. pc[c] = "unlink_tail" /\ pc'[c] = "unlink_reload" /\ pc'["connmgr"] = pc["connmgr"]
    BY DEF IInv, TypeOK, UnlinkTail, At, Goto
  <2>2. \A d \in Consumer \ {c} : pc[d] = "sleep" /\ pc'[d] = "sleep"
    BY <2>1 DEF IInv, UnlinkTail, Goto, Safety, Alone
  <2>3. pc["connmgr"] \notin Inserting
    BY <2>1 DEF Calm, Apart, Unlinks
  <2>. QED
    BY <2>1, <2>2, <2>3 DEF UnlinkTail, Paired, Appending
<1>3. Chain'
  BY DEF IInv, Unlinks, At, Goto, UnlinkTail, Calm, Apart, Chain
<1>4. Given'
  BY DEF IInv, Unlinks, At, Goto, UnlinkTail, Calm, Given
<1>. QED
  BY <1>1, <1>2, <1>3, <1>4 DEF Calm

LEMMA UnlinkReloadCalm ==
  ASSUME IInv, Safety, Calm, NEW c \in Consumer, UnlinkReload(c), UNCHANGED gatewayVars
  PROVE  Calm'
<1>1. Apart' /\ NoFault'
  BY DEF IInv, Unlinks, At, Goto, UnlinkReload, Calm, Apart, NoFault
<1>2. Paired'
  BY DEF IInv, TypeOK, At, Goto, listVars, UnlinkReload, Load, Calm, Paired
<1>3. Chain'
  BY DEF IInv, At, Goto, listVars, UnlinkReload, Calm, Chain, Prior
<1>4. Given'
  BY DEF IInv, Unlinks, At, Goto, listVars, UnlinkReload, Calm, Given
<1>. QED
  BY <1>1, <1>2, <1>3, <1>4 DEF Calm

LEMMA UnlinkHeadCalm ==
  ASSUME IInv, Safety, Calm, NEW c \in Consumer, UnlinkHead(c), UNCHANGED gatewayVars
  PROVE  Calm'
<1>1. Apart' /\ NoFault'
  BY DEF IInv, Unlinks, At, Goto, UnlinkHead, Calm, Apart, NoFault
<1>2. Paired'
  BY DEF IInv, At, Goto, UnlinkHead, Calm, Paired
<1>3. Chain'
  BY DEF IInv, Safety, Alone, At, Goto, UnlinkHead, Calm, Paired, Chain
<1>4. Given'
  BY DEF IInv, Unlinks, At, Goto, UnlinkHead, Calm, Given
<1>. QED
  BY <1>1, <1>2, <1>3, <1>4 DEF Calm

LEMMA UnlinkNextCalm ==
  ASSUME IInv, Safety, Calm, NEW c \in Consumer, UnlinkNext(c), UNCHANGED gatewayVars
  PROVE  Calm'
<1>1. Apart' /\ NoFault'
  BY DEF IInv, Unlinks, At, Goto, UnlinkNext, Calm, Apart, NoFault
<1>2. Paired'
  <2>1. pc[c] = "unlink_next" /\ pc'[c] = "free" /\ pc'["connmgr"] = pc["connmgr"]
    BY DEF IInv, TypeOK, UnlinkNext, At, Goto
  <2>2. \A d \in Consumer \ {c} : pc[d] = "sleep" /\ pc'[d] = "sleep"
    BY <2>1 DEF IInv, UnlinkNext, Goto, Safety, Alone
  <2>3. pc["connmgr"] \notin Inserting
    BY <2>1 DEF Calm, Apart, Unlinks
  <2>4. tail # NULL /\ head \in Node /\ head < tail
    BY <2>1 DEF IInv, TypeOK, Order, UnlinkNext, Bad
  <2>5. next[head] = head + 1
    BY <2>4 DEF Calm, Chain
  <2>. QED
    BY <2>1, <2>2, <2>3, <2>4, <2>5 DEF UnlinkNext, Paired
<1>3. Chain'
  <2>1. pc[c] = "unlink_next" /\ pc'[c] = "free" /\ pc'["connmgr"] = pc["connmgr"]
    BY DEF IInv, TypeOK, UnlinkNext, At, Goto
  <2>2. \A d \in Consumer \ {c} : pc[d] = "sleep" /\ pc'[d] = "sleep"
    BY <2>1 DEF IInv, UnlinkNext, Goto, Safety, Alone
  <2>3. pc["connmgr"] \notin Inserting
    BY <2>1 DEF Calm, Apart, Unlinks
  <2>4. tail \in Node /\ head \in Node /\ head < tail /\ dummy[c] = head /\ tail = arrived
    BY <2>1, <2>3 DEF IInv, TypeOK, Order, UnlinkNext, Bad, Safety, Hold, Calm, Chain, Prior
  <2>5. next[head] = head + 1
    BY <2>4 DEF Calm, Chain
  <2>6. \A n \in Node : head' <= n /\ n < tail => next[n] = n + 1
    BY <2>4, <2>5 DEF UnlinkNext, Calm, Chain
  <2>7. Prior' = tail
    BY <2>1, <2>3, <2>4 DEF UnlinkNext, Prior
  <2>. QED
    BY <2>1, <2>2, <2>3, <2>4, <2>5, <2>6, <2>7 DEF UnlinkNext, Chain
<1>4. Given'
  BY DEF IInv, Unlinks, At, Goto, UnlinkNext, Calm, Given
<1>. QED
  BY <1>1, <1>2, <1>3, <1>4 DEF Calm

LEMMA FreeNodeCalm ==
  ASSUME IInv, Safety, Calm, NEW c \in Consumer, FreeNode(c), UNCHANGED gatewayVars
  PROVE  Calm'
<1>1. Apart' /\ NoFault'
  BY DEF IInv, Unlinks, Goto, FreeNode, Calm, Apart, NoFault
<1>2. Paired'
  BY DEF IInv, At, Goto, FreeNode, Calm, Paired
<1>3. Chain'
  BY DEF IInv, Goto, FreeNode, Calm, Chain, Prior
<1>4. Given'
  BY DEF IInv, Alone, Hold, Unfreed, Unlinks, TypeOK, At, Goto, FreeNode, Calm, Chain,
     Given, Prior
<1>. QED
  BY <1>1, <1>2, <1>3, <1>4 DEF Calm

LEMMA OpenBarrierCalm ==
  ASSUME IInv, Safety, Calm, NEW c \in Consumer, OpenBarrier(c)
  PROVE  Calm'
<1>1. Apart' /\ NoFault'
  <2>1. \A d \in Consumer : pc'[d] \in {"remove", "sleep"}
    BY DEF IInv, TypeOK, OpenBarrier
  <2>. QED
    BY <2>1 DEF OpenBarrier, Calm, Apart, NoFault, Unlinks
<1>2. Paired'
  <2>1. \A d \in Consumer : pc'[d] \in {"remove", "sleep"} /\ pc[d] \in {"complete", "blocked"}
    BY DEF IInv, TypeOK, OpenBarrier, At
  <2>2. pc'["connmgr"] = pc["connmgr"]
    BY DEF IInv, TypeOK, OpenBarrier
  <2>. QED
    BY <2>1, <2>2 DEF OpenBarrier, listVars, Calm, Paired
<1>3. Chain'
  <2>1. \A d \in Consumer : pc'[d] \in {"remove", "sleep"} /\ pc[d] \in {"complete", "blocked"}
    BY DEF IInv, TypeOK, OpenBarrier, At
  <2>2. pc'["connmgr"] = pc["connmgr"]
    BY DEF IInv, TypeOK, OpenBarrier
  <2>. QED
    BY <2>1, <2>2 DEF OpenBarrier, listVars, Calm, Chain, Prior
<1>4. Given'
  BY DEF IInv, Progress, FreedAfterBoth, Unlinks, TypeOK, At, listVars, OpenBarrier, Calm,
     Given, Prior
<1>. QED
  BY <1>1, <1>2, <1>3, <1>4 DEF Calm

LEMMA StartRemovalCalm ==
  ASSUME InsertsAvoidRemoval, IInv, Safety, Calm, NEW c \in Consumer, StartRemoval(c)
  PROVE  Calm'
<1>1. Apart' /\ NoFault'
  BY DEF IInv, Goto, StartRemoval, RemoveTest, Calm, Apart, NoFault
<1>2. Paired'
  BY DEF IInv, At, Goto, listVars, StartRemoval, RemoveTest, Calm, Paired
<1>3. Chain'
  BY DEF IInv, TypeOK, Goto, listVars, StartRemoval, RemoveTest, Calm, Chain, Prior
<1>4. Given'
  BY DEF IInv, Safety, Alone, Unlinks, TypeOK, At, Goto, listVars, StartRemoval, RemoveTest,
     Calm, Given, Prior
<1>. QED
  BY <1>1, <1>2, <1>3, <1>4 DEF Calm

LEMMA ReceiveCalm ==
  ASSUME InsertsAvoidRemoval, IInv, Safety, Calm, Receive
  PROVE  Calm'
<1>1. Apart' /\ NoFault'
  <2>1. \A d \in Consumer : ~Unlinks(d) /\ pc'[d] = pc[d]
    BY InsertsAvoidRemoval DEF IInv, Receive, Removers, LockAndAllocate, Goto, Unlinks
  <2>. QED
    BY <2>1 DEF Receive, LockAndAllocate, Calm, Apart, NoFault, Unlinks
<1>2. Paired'
  <2>1. \A d \in Consumer : ~Unlinks(d) /\ pc'[d] = pc[d]
    BY InsertsAvoidRemoval DEF IInv, Receive, Removers, LockAndAllocate, Goto, Unlinks
  <2>2. pc["connmgr"] = "listen" /\ pc'["connmgr"] = "ins_test"
    BY DEF IInv, TypeOK, Receive, LockAndAllocate, At, Goto
  <2>. QED
    BY <2>1, <2>2 DEF Receive, LockAndAllocate, Calm, Paired, Appending
<1>3. Chain'
  <2>1. \A d \in Consumer : ~Unlinks(d) /\ pc'[d] = pc[d]
    BY InsertsAvoidRemoval DEF IInv, Receive, Removers, LockAndAllocate, Goto, Unlinks
  <2>2. pc["connmgr"] = "listen" /\ pc'["connmgr"] = "ins_test"
    BY DEF IInv, TypeOK, Receive, LockAndAllocate, At, Goto
  <2>3. Prior' = Prior
    BY <2>2 DEF IInv, TypeOK, Receive, LockAndAllocate, Prior
  <2>. QED
    BY <2>1, <2>2, <2>3 DEF Receive, LockAndAllocate, Calm, Chain, Unlinks
<1>4. Given'
  BY DEF IInv, Unlinks, TypeOK, At, Goto, Receive, LockAndAllocate, Calm, Given, Prior
<1>. QED
  BY <1>1, <1>2, <1>3, <1>4 DEF Calm

LEMMA StopListeningCalm ==
  ASSUME IInv, Safety, Calm, StopListening
  PROVE  Calm'
<1>1. Apart' /\ NoFault'
  BY DEF IInv, TypeOK, Goto, StopListening, Calm, Apart, NoFault
<1>2. Paired'
  BY DEF IInv, At, Goto, listVars, StopListening, Calm, Paired, Appending
<1>3. Chain'
  BY DEF IInv, At, Goto, listVars, StopListening, Calm, Chain, Prior
<1>4. Given'
  BY DEF IInv, Unlinks, At, Goto, listVars, StopListening, Calm, Given, Prior
<1>. QED
  BY <1>1, <1>2, <1>3, <1>4 DEF Calm

LEMMA JoinAndFreeCalm ==
  ASSUME IInv, Safety, Calm, JoinAndFree
  PROVE  Calm'
<1>1. Apart' /\ NoFault'
  BY DEF IInv, Goto, JoinAndFree, Linked, Calm, Apart, NoFault
<1>2. Paired'
  BY DEF IInv, Shutdown, Goto, JoinAndFree, Linked, Calm, Paired
<1>3. Chain'
  BY DEF IInv, Goto, JoinAndFree, Linked, Calm, Chain, Prior
<1>4. Given'
  BY DEF IInv, Shutdown, Unlinks, Goto, JoinAndFree, Linked, Calm, Given, Prior
<1>. QED
  BY <1>1, <1>2, <1>3, <1>4 DEF Calm

LEMMA InitCalm == Init => Calm
  BY DEF Init, Calm, Apart, Paired, Appending, Chain, Given, NoFault, Prior

LEMMA NextCalm ==
  ASSUME SleepOutlastsRemoval, InsertsAvoidRemoval, IInv, Safety, Calm, [Next]_vars
  PROVE  Calm'
<1>1. CASE Receive
  BY <1>1, ReceiveCalm, InsertsAvoidRemoval
<1>2. CASE Insert
  BY <1>2, TestEmptyCalm, FirstTailCalm, FirstReloadCalm, FirstHeadCalm, LinkLoadCalm,
     LinkStoreCalm, TailLoadCalm, TailNextCalm, TailStoreCalm DEF Insert, InsertStep
<1>3. CASE StopListening
  BY <1>3, StopListeningCalm
<1>4. ASSUME NEW c \in Consumer, Read(c) PROVE Calm'
  <2>1. CASE PollLoad(c) /\ UNCHANGED gatewayVars
    BY <2>1, PollLoadCalm
  <2>2. CASE PollFlags(c) /\ UNCHANGED gatewayVars
    BY <2>2, PollFlagsCalm
  <2>3. CASE Remove(c)
    BY <2>3, UnlinkTailCalm, UnlinkReloadCalm, UnlinkHeadCalm, UnlinkNextCalm, FreeNodeCalm
       DEF Remove, RemoveStep
  <2>4. CASE OpenBarrier(c) \/ StartRemoval(c)
    BY <2>4, OpenBarrierCalm, StartRemovalCalm, InsertsAvoidRemoval
  <2>5. CASE \E d \in Consumer, l \in ReaderPC : Quiet(d, l)
    BY <2>5, QuietCalm
  <2>. QED
    BY <1>4, <2>1, <2>2, <2>3, <2>4, <2>5, ReadSteps, SleepOutlastsRemoval
<1>5. CASE JoinAndFree
  BY <1>5, JoinAndFreeCalm
<1>6. CASE Fault
  <2>1. \A c \in Consumer : ~Dangling(c)
    BY ReadersNotDangling
  <2>2. ~Dangling("connmgr")
    <3>1. CASE pc["connmgr"] \in {"link_store", "tail_next"}
      <4>1. reg["connmgr"] = tail /\ head \in Node /\ tail \in Node /\ head <= tail
        BY <3>1 DEF IInv, TypeOK, Order, Calm, Paired, Appending
      <4>2. \A m \in freed : m \in Node /\ m <= head /\ m # head
        BY <4>1 DEF IInv, TypeOK, Progress, FreedAfterBoth, Safety, Unfreed
      <4>3. tail \notin freed
        BY <4>1, <4>2
      <4>. QED
        BY <4>1, <4>3 DEF Dangling, Bad
    <3>. QED
      BY <3>1 DEF Dangling
  <2>. QED
    BY <1>6, <2>1, <2>2 DEF Fault, Crash
<1>7. CASE UNCHANGED vars
  BY <1>7 DEF vars, listVars, threadVars, Calm, Apart, Paired, Chain, Given, NoFault, Prior,
     Unlinks
<1>. QED
  BY <1>1, <1>2, <1>3, <1>4, <1>5, <1>6, <1>7 DEF Next, Finished

(***************************************************************************)
(* Every step of the gateway is a step of Broadcast, or leaves it alone.   *)
(***************************************************************************)
LEMMA PollFlagsTakes ==
  ASSUME IInv, Safety, Window, InsertsAvoidRemoval => Calm, NEW c \in Consumer, PollFlags(c)
  PROVE  Abstract!TakeSome(c) \/ UNCHANGED Abstract!vars
<1>. DEFINE n == dummy[c]
<1>1. /\ pc[c] = "poll_flags" /\ n = head /\ head \in Node
      /\ taken' = [taken EXCEPT ![c] = @ \cup {n}]
      /\ UNCHANGED <<arrived, freed>>
  BY DEF IInv, TypeOK, Safety, Hold, PollFlags, At, Mark
<1>2. CASE n \in taken[c]
  BY <1>1, <1>2 DEF IInv, TypeOK, Abstract!vars
<1>3. CASE n \notin taken[c]
  <2>1. \A d \in Consumer : ~Unlinks(d)
    BY <1>1 DEF IInv, TypeOK, Safety, Alone, Unlinks
  <2>2. \A d \in Consumer : taken[d] \ freed \subseteq {n}
    BY <1>1, <2>1 DEF Window
  <2>3. taken[c] \subseteq freed
    BY <1>3, <2>2
  <2>4. \A m \in freed : m < n
    <3>1. \A m \in freed : m \in Node /\ m <= head /\ m # head
      BY <1>1, MaxReadingsAssumption DEF IInv, TypeOK, Progress, FreedAfterBoth, Safety,
         Unfreed
    <3>. QED
      BY <1>1, <3>1, MaxReadingsAssumption
  <2>5. InsertsAvoidRemoval => 1..(n - 1) \subseteq freed
    BY <1>1, <2>1, MaxReadingsAssumption DEF Calm, Given
  <2>6. n \in 1..arrived
    BY <1>1, MaxReadingsAssumption DEF IInv, TypeOK, Order
  <2>7. Abstract!Take(c, n)
    BY <1>1, <1>3, <2>2, <2>3, <2>4, <2>5 DEF Abstract!Take, Abstract!Consumer
  <2>. QED
    BY <2>6, <2>7 DEF Abstract!TakeSome
<1>. QED
  BY <1>2, <1>3

LEMMA NextBroadcast ==
  ASSUME SleepOutlastsRemoval, IInv, Safety, Window, InsertsAvoidRemoval => Calm, [Next]_vars
  PROVE  [Abstract!Next]_(Abstract!vars)
<1>1. CASE Receive
  BY <1>1 DEF Receive, LockAndAllocate, Abstract!Next, Abstract!Arrive
<1>2. CASE Insert
  BY <1>2 DEF Insert, InsertStep, TestEmpty, FirstTail, FirstReload, FirstHead, LinkLoad,
     LinkStore, TailLoad, TailNext, TailStore, listVars, Abstract!vars
<1>3. ASSUME NEW c \in Consumer, Read(c) PROVE [Abstract!Next]_(Abstract!vars)
  <2>1. CASE PollFlags(c)
    BY <2>1, PollFlagsTakes DEF Abstract!Next, Abstract!Consumer
  <2>2. CASE FreeNode(c)
    <3>1. /\ dummy[c] \in Both /\ dummy[c] \notin freed /\ dummy[c] \in 1..arrived
          /\ freed' = freed \cup {dummy[c]} /\ UNCHANGED <<arrived, taken>>
      BY <2>2, MaxReadingsAssumption DEF FreeNode, At, Bad, IInv, TypeOK, Agreement,
         Progress
    <3>2. Abstract!GiveUp(dummy[c])
      BY <3>1 DEF Abstract!GiveUp, Abstract!Consumer
    <3>. QED
      BY <3>1, <3>2 DEF Abstract!GiveUpSome, Abstract!Next
  <2>3. CASE ~PollFlags(c) /\ ~FreeNode(c)
    BY <1>3, <2>3 DEF Read, ReadFlag, ReadSize, ParseSize, Poll, PollStep, PollLock,
       PollLoad, Handle, Reject, Retry, WaitAtBarrier, OpenBarrier, StartRemoval,
       RemoveTest, Remove, RemoveStep, UnlinkTail, UnlinkReload, UnlinkHead, UnlinkNext,
       Wake, listVars, Abstract!vars
  <2>. QED
    BY <2>1, <2>2, <2>3
<1>4. CASE JoinAndFree
  <2>1. head = NULL
    BY <1>4 DEF IInv, Shutdown, JoinAndFree
  <2>. QED
    BY <1>4, <2>1 DEF JoinAndFree, Linked, Abstract!vars
<1>5. CASE StopListening \/ Fault \/ UNCHANGED vars
  BY <1>5 DEF StopListening, Fault, Crash, vars, listVars, Abstract!vars
<1>. QED
  BY <1>1, <1>2, <1>3, <1>4, <1>5 DEF Next, Finished

(***************************************************************************)
(* The list from head to tail, whatever the timing: how an insertion and a *)
(* removal that overlap leave it.                                          *)
(***************************************************************************)

\* From node n on, each node points to the one that arrived after it, up to tail.
Joined(n) == \A m \in Node : n <= m /\ m < tail => next[m] = m + 1

\* tail is the last node inserted, or NULL; the list is joined from head on, and
\* from the node that will be head once the store in progress is made.
Links ==
  /\ tail \in {NULL, IF pc["connmgr"] \in {"first_reload", "first_head"} THEN arrived ELSE Prior}
  /\ head # NULL /\ (\A c \in Consumer : pc[c] \notin {"unlink_reload", "unlink_head"}) => Joined(head)
  /\ \A c \in Consumer : pc[c] = "unlink_head" /\ reg[c] # NULL => Joined(reg[c])
  /\ pc["connmgr"] \in {"tail_load", "tail_next", "tail_store"} /\ tail # NULL => next[tail] = arrived

\* Steps that move no pointer of the list.
LEMMA LinksStay ==
  ASSUME Links, UNCHANGED <<head, tail, next, arrived>>,
         \A c \in Consumer : reg'[c] = reg[c],
         \A S \in {Inserting, {"first_reload", "first_head"}, {"tail_load", "tail_next", "tail_store"}} :
           pc'["connmgr"] \in S <=> pc["connmgr"] \in S,
         \A c \in Consumer : \A l \in {"unlink_reload", "unlink_head"} : pc'[c] = l <=> pc[c] = l
  PROVE  Links'
<1>1. \A n : Joined(n)' <=> Joined(n)
  BY DEF Joined
<1>2. Prior' = Prior
  BY DEF Prior
<1>3. \A c \in Consumer : pc'[c] \in {"unlink_reload", "unlink_head"}
                          <=> pc[c] \in {"unlink_reload", "unlink_head"}
  OBVIOUS
<1>. QED
  BY <1>1, <1>2, <1>3 DEF Links, Joined

LEMMA ReceiveLinks ==
  ASSUME IInv, Links, Receive
  PROVE  Links'
BY DEF IInv, TypeOK, Links, Joined, Prior, Receive, LockAndAllocate, At, Goto

LEMMA FirstTailLinks ==
  ASSUME IInv, Links, FirstTail
  PROVE  Links'
<1>1. tail = NULL /\ tail' = arrived /\ UNCHANGED <<head, next, arrived, reg>>
  BY DEF IInv, Insertion, FirstTail, At
<1>2. /\ pc["connmgr"] = "first_tail" /\ pc'["connmgr"] = "first_reload"
      /\ \A c \in Consumer : pc'[c] = pc[c]
  BY DEF IInv, TypeOK, FirstTail, At, Goto
<1>3. head # NULL => \E c \in Consumer : pc[c] \in {"unlink_reload", "unlink_head"}
  BY <1>1 DEF IInv, Ends
<1>4. \A c \in Consumer : ~(pc[c] = "unlink_head" /\ reg[c] # NULL)
  BY <1>1 DEF IInv, TypeOK, Order
<1>. QED
  BY <1>1, <1>2, <1>3, <1>4 DEF Links

LEMMA FirstHeadLinks ==
  ASSUME IInv, Links, FirstHead
  PROVE  Links'
<1>1. /\ tail = arrived /\ head' = arrived /\ arrived # 0
      /\ UNCHANGED <<tail, next, arrived, reg>>
  BY DEF IInv, Insertion, FirstHead, At
<1>2. /\ pc'["connmgr"] = "listen" /\ \A c \in Consumer : pc'[c] = pc[c]
  BY DEF IInv, TypeOK, FirstHead, At, Goto
<1>3. Joined(head)'
  BY <1>1 DEF IInv, TypeOK, Joined
<1>. QED
  BY <1>1, <1>2, <1>3 DEF Links, Joined, Prior

LEMMA LinkStoreLinks ==
  ASSUME IInv, Links, LinkStore
  PROVE  Links'
<1>1. /\ tail \in {reg["connmgr"], NULL} /\ next' = [next EXCEPT ![reg["connmgr"]] = arrived]
      /\ UNCHANGED <<head, tail, arrived, reg>>
  BY DEF IInv, Insertion, LinkStore, At
<1>2. /\ pc["connmgr"] = "link_store" /\ pc'["connmgr"] = "tail_load"
      /\ \A c \in Consumer : pc'[c] = pc[c]
  BY DEF IInv, TypeOK, LinkStore, At, Goto
<1>3. ASSUME NEW n, Joined(n) PROVE Joined(n)'
  BY <1>1, <1>3 DEF IInv, TypeOK, Joined
<1>4. tail # NULL => next'[tail] = arrived
  BY <1>1 DEF IInv, TypeOK
<1>. QED
  BY <1>1, <1>2, <1>3, <1>4 DEF Links, Prior

LEMMA TailStoreLinks ==
  ASSUME IInv, Links, TailStore
  PROVE  Links'
<1>1. tail' = arrived /\ UNCHANGED <<head, next, arrived, reg>>
  BY DEF IInv, Insertion, TailStore, At
<1>2. /\ pc["connmgr"] = "tail_store" /\ pc'["connmgr"] = "listen"
      /\ \A c \in Consumer : pc'[c] = pc[c]
  BY DEF IInv, TypeOK, TailStore, At, Goto
<1>3. CASE tail = NULL
  <2>1. head # NULL => \E c \in Consumer : pc[c] \in {"unlink_reload", "unlink_head"}
    BY <1>3 DEF IInv, Ends
  <2>2. \A c \in Consumer : ~(pc[c] = "unlink_head" /\ reg[c] # NULL)
    BY <1>3 DEF IInv, TypeOK, Order
  <2>. QED
    BY <1>1, <1>2, <2>1, <2>2 DEF Links, Prior
<1>4. CASE tail # NULL
  <2>1. tail = arrived - 1 /\ next[tail] = arrived
    BY <1>2, <1>4 DEF Links, Prior
  <2>2. ASSUME NEW n \in Pointer, Joined(n) PROVE Joined(n)'
    BY <1>1, <2>1, <2>2 DEF IInv, TypeOK, Joined
  <2>. QED
    BY <1>1, <1>2, <2>2 DEF IInv, TypeOK, Links, Prior
<1>. QED
  BY <1>3, <1>4

LEMMA UnlinkTailLinks ==
  ASSUME IInv, Links, NEW c \in Consumer, UnlinkTail(c)
  PROVE  Links'
<1>1. tail' = NULL /\ UNCHANGED <<head, next, arrived, reg>>
  BY DEF UnlinkTail
<1>2. /\ pc["connmgr"] = pc'["connmgr"] /\ \A d \in Consumer : pc'[d] # "unlink_head"
      /\ pc'[c] = "unlink_reload"
  BY DEF IInv, TypeOK, Locking, SoleRemover, UnlinkTail, At, Goto
<1>. QED
  BY <1>1, <1>2 DEF Links, Prior

LEMMA UnlinkReloadLinks ==
  ASSUME IInv, Links, NEW c \in Consumer, UnlinkReload(c)
  PROVE  Links'
<1>1. /\ UNCHANGED <<head, tail, next, arrived>>
      /\ reg'[c] = tail
  BY DEF IInv, TypeOK, UnlinkReload, Load, listVars
<1>2. /\ pc["connmgr"] = pc'["connmgr"] /\ pc'[c] = "unlink_head"
      /\ \A d \in Consumer : d # c => pc'[d] # "unlink_head"
  BY DEF IInv, TypeOK, Locking, SoleRemover, UnlinkReload, At, Goto
<1>3. Joined(reg[c])'
  BY <1>1 DEF IInv, TypeOK, Joined
<1>. QED
  BY <1>1, <1>2, <1>3 DEF Links, Prior

LEMMA UnlinkHeadLinks ==
  ASSUME IInv, Links, NEW c \in Consumer, UnlinkHead(c)
  PROVE  Links'
<1>1. head' = reg[c] /\ UNCHANGED <<tail, next, arrived, reg>>
  BY DEF UnlinkHead
<1>2. /\ pc["connmgr"] = pc'["connmgr"] /\ pc[c] = "unlink_head"
      /\ \A d \in Consumer : pc'[d] # "unlink_head"
  BY DEF IInv, TypeOK, Locking, SoleRemover, UnlinkHead, At, Goto
<1>3. head' # NULL => Joined(head)'
  BY <1>1, <1>2 DEF Links, Joined
<1>. QED
  BY <1>1, <1>2, <1>3 DEF Links, Prior

LEMMA UnlinkNextLinks ==
  ASSUME IInv, Links, NEW c \in Consumer, UnlinkNext(c)
  PROVE  Links'
<1>1. head # NULL /\ head' = next[head] /\ UNCHANGED <<tail, next, arrived, reg>>
  BY DEF UnlinkNext, Bad
<1>2. /\ pc["connmgr"] = pc'["connmgr"] /\ pc[c] = "unlink_next"
      /\ \A d \in Consumer : pc[d] \notin {"unlink_reload", "unlink_head"}
      /\ \A d \in Consumer : pc'[d] # "unlink_head"
  BY DEF IInv, TypeOK, Locking, SoleRemover, UnlinkNext, At, Goto
<1>3. Joined(head) /\ head < tail
  BY <1>1, <1>2 DEF Links, IInv, Order
<1>4. Joined(head)'
  BY <1>1, <1>3 DEF IInv, TypeOK, Joined
<1>. QED
  BY <1>1, <1>2, <1>4 DEF Links, Prior

LEMMA JoinAndFreeLinks ==
  ASSUME IInv, Links, JoinAndFree
  PROVE  Links'
<1>1. head' = NULL /\ UNCHANGED <<tail, next, arrived, reg>>
  BY DEF JoinAndFree
<1>2. \A t \in Thread : pc'[t] = pc[t]
  BY DEF IInv, TypeOK, JoinAndFree, Goto
<1>. QED
  BY <1>1, <1>2 DEF Links, Joined, Prior

LEMMA NextLinks ==
  ASSUME IInv, Links, [Next]_vars
  PROVE  Links'
<1>1. CASE TestEmpty \/ FirstReload \/ LinkLoad \/ TailLoad \/ TailNext
  BY <1>1, LinksStay DEF IInv, TypeOK, TestEmpty, FirstReload, LinkLoad, TailLoad, TailNext,
     At, Goto, Load, listVars
<1>2. CASE StopListening
  BY <1>2, LinksStay DEF IInv, TypeOK, StopListening, At, Goto, listVars
<1>3. ASSUME NEW c \in Consumer, Read(c), ~UnlinkTail(c), ~UnlinkReload(c), ~UnlinkHead(c),
             ~UnlinkNext(c)
      PROVE  Links'
  <2>1. UNCHANGED <<head, tail, next, arrived, reg>>
    BY <1>3 DEF Read, ReadFlag, ReadSize, ParseSize, Poll, PollStep, PollLock, PollLoad, PollFlags, Mark,
       Handle, Reject, Retry, WaitAtBarrier, OpenBarrier, StartRemoval, RemoveTest, Remove, RemoveStep,
       FreeNode, Wake, listVars
  <2>2. pc'["connmgr"] = pc["connmgr"]
    BY <1>3 DEF IInv, TypeOK, Goto, Read, ReadFlag, ReadSize, ParseSize, Poll, PollStep, PollLock, PollLoad,
       PollFlags, Handle, Reject, Retry, WaitAtBarrier, OpenBarrier, StartRemoval, RemoveTest, Remove,
       RemoveStep, FreeNode, Wake
  <2>3. \A d \in Consumer : \A l \in {"unlink_reload", "unlink_head"} : pc'[d] = l <=> pc[d] = l
    BY <1>3 DEF IInv, TypeOK, At, Goto, Enter, Again, PollResult, Read, ReadFlag, ReadSize, ParseSize, Poll,
       PollStep, PollLock, PollLoad, PollFlags, Handle, Reject, Retry, WaitAtBarrier, OpenBarrier,
       StartRemoval, RemoveTest, Remove, RemoveStep, FreeNode, Wake
  <2>. QED
    BY <2>1, <2>2, <2>3, LinksStay
<1>4. CASE Fault \/ UNCHANGED vars
  BY <1>4, LinksStay DEF Fault, Crash, vars, listVars, threadVars
<1>5. CASE Insert
  BY <1>1, <1>5, FirstTailLinks, FirstHeadLinks, LinkStoreLinks, TailStoreLinks DEF Insert, InsertStep
<1>6. CASE \E c \in Consumer : Read(c)
  BY <1>3, <1>6, UnlinkTailLinks, UnlinkReloadLinks, UnlinkHeadLinks, UnlinkNextLinks
<1>. QED
  BY <1>2, <1>4, <1>5, <1>6, ReceiveLinks, JoinAndFreeLinks DEF Next, Finished

(***************************************************************************)
(* The walk along the list.                                                *)
(***************************************************************************)

\* The nodes of S and their successors.
WithNext(S) == S \cup {next[n] : n \in S \ {NULL}}

\* Reach is what its defining equation says, for a list in memory.
LEMMA ReachDefined ==
  ASSUME head \in Pointer, next \in [Node -> Pointer]
  PROVE  Reach[0] = {head} /\ \A k \in Nat : Reach[k + 1] = WithNext(Reach[k])
<1>. DEFINE V == SUBSET Pointer
            Step == [k \in Nat |-> [S \in V |-> WithNext(S)]]
            E(f) == f = [k \in Nat |-> IF k = 0 THEN {head} ELSE WithNext(f[k - 1])]
<1>1. ASSUME NEW S \in V PROVE WithNext(S) \in V
  <2>1. \A n \in S \ {NULL} : n \in Node
    BY MaxReadingsAssumption
  <2>2. \A n \in S \ {NULL} : next[n] \in Pointer
    BY <2>1
  <2>. QED
    BY <2>2 DEF WithNext
<1>2. Step \in [Nat -> [V -> V]] /\ {head} \in V
  BY <1>1
<1>3. ASSUME NEW k \in Nat, NEW S \in V PROVE Step[k][S] = WithNext(S)
  OBVIOUS
<1>. HIDE DEF V, Step
<1>4. PICK f \in [Nat -> V] : Iteration(f, {head}, Step)
  BY <1>2, IterationExists
<1>5. f[0] = {head} /\ \A k \in Nat : f[k + 1] = WithNext(f[k])
  BY <1>3, <1>4 DEF Iteration
<1>6. ASSUME NEW k \in Nat, k # 0 PROVE f[k] = WithNext(f[k - 1])
  <2>1. k - 1 \in Nat /\ k - 1 + 1 = k
    BY <1>6
  <2>. QED
    BY <1>5, <2>1
<1>7. E(f)
  BY <1>4, <1>5, <1>6
<1>. HIDE DEF E
<1>8. E(CHOOSE g : E(g))
  BY <1>7, Zenon
<1>9. Reach = CHOOSE g : E(g)
  BY Zenon DEF Reach, E, WithNext
<1>10. E(Reach)
  BY <1>8, <1>9
<1>11. ASSUME NEW k \in Nat PROVE Reach[k] = IF k = 0 THEN {head} ELSE WithNext(Reach[k - 1])
  BY <1>10 DEF E
<1>12. ASSUME NEW k \in Nat PROVE Reach[k + 1] = WithNext(Reach[k])
  <2>1. k + 1 \in Nat /\ k + 1 # 0 /\ k + 1 - 1 = k
    OBVIOUS
  <2>. QED
    BY <1>11, <2>1
<1>. QED
  BY <1>11, <1>12

\* A list that is joined from head to a tail without successor is walked from
\* the one to the other, over the nodes between them.
LEMMA JoinedIsLinked ==
  ASSUME head \in Node, tail \in Node, head <= tail, next \in [Node -> Pointer],
         Joined(head), next[tail] = NULL
  PROVE  Linked = head..tail
<1>. head \in Pointer
  BY MaxReadingsAssumption
<1>1. Reach[0] = {head}
  BY ReachDefined, Zenon
<1>2. ASSUME NEW k \in Nat PROVE Reach[k + 1] = WithNext(Reach[k])
  BY ReachDefined, Zenon
<1>3. \A n \in head..tail : n \in Node /\ next[n] = IF n = tail THEN NULL ELSE n + 1
  BY MaxReadingsAssumption DEF Joined
<1>. DEFINE Inside == {k \in Nat : Reach[k] \subseteq {NULL} \cup (head..tail)}
            Far    == {k \in Nat : \A m \in head..tail : m <= head + k => m \in Reach[k]}
<1>4. Nat \subseteq Inside
  <2>1. 0 \in Inside
    BY <1>1
  <2>2. ASSUME NEW k \in Nat, k \in Inside PROVE k + 1 \in Inside
    <3>1. \A n \in Reach[k] \ {NULL} : n \in head..tail
      BY <2>2
    <3>2. \A n \in Reach[k] \ {NULL} : next[n] \in {NULL} \cup (head..tail)
      BY <1>3, <3>1
    <3>3. WithNext(Reach[k]) \subseteq {NULL} \cup (head..tail)
      BY <2>2, <3>2 DEF WithNext
    <3>4. k + 1 \in Nat
      OBVIOUS
    <3>5. Reach[k + 1] = WithNext(Reach[k])
      BY <1>2, Zenon
    <3>6. Reach[k + 1] \subseteq {NULL} \cup (head..tail)
      BY <3>3, <3>5, Zenon
    <3>. QED
      BY <3>4, <3>6, Zenon
  <2>. HIDE DEF Inside
  <2>. QED
    BY <2>1, <2>2, Induction
<1>5. Nat \subseteq Far
  <2>1. 0 \in Far
    BY <1>1
  <2>2. ASSUME NEW k \in Nat, k \in Far, NEW m \in head..tail, m <= head + (k + 1) PROVE m \in Reach[k + 1]
    <3>1. CASE m <= head + k
      <4>1. m \in WithNext(Reach[k])
        BY <2>2, <3>1 DEF WithNext
      <4>. QED
        BY <1>2, <4>1, Zenon
    <3>2. CASE m = head + (k + 1)
      <4>1. m - 1 \in head..tail /\ m - 1 <= head + k /\ m - 1 # tail /\ m - 1 # NULL
        BY <3>2
      <4>2. m - 1 \in Reach[k] \ {NULL}
        BY <2>2, <4>1
      <4>3. next[m - 1] = m
        BY <1>3, <4>1
      <4>4. next[m - 1] \in WithNext(Reach[k])
        BY <4>2 DEF WithNext
      <4>. QED
        BY <1>2, <4>3, <4>4, Zenon
    <3>. QED
      BY <2>2, <3>1, <3>2
  <2>3. \A k \in Nat : k \in Far => k + 1 \in Far
    BY <2>2
  <2>. HIDE DEF Far
  <2>. QED
    BY <2>1, <2>3, Induction
<1>6. MaxReadings \in Inside /\ MaxReadings \in Far
  BY <1>4, <1>5, MaxReadingsAssumption
<1>7. \A m \in head..tail : m <= head + MaxReadings
  BY MaxReadingsAssumption
<1>8. NULL \notin Node
  OBVIOUS
<1>9. Reach[MaxReadings] \subseteq {NULL} \cup (head..tail) /\ head..tail \subseteq Reach[MaxReadings]
  BY <1>6, <1>7
<1>10. Linked = Reach[MaxReadings] \cap Node
  BY <1>8 DEF Linked
<1>. QED
  BY <1>3, <1>8, <1>9, <1>10

(***************************************************************************)
(* What holds for every number of readings, given the timing.              *)
(***************************************************************************)

\* The invariant of the first constant is inductive.
THEOREM SpecSafety ==
  ASSUME SleepOutlastsRemoval
  PROVE  Spec => [](IInv /\ Safety /\ Window)
<1>1. Init => IInv /\ Safety /\ Window
  BY InitIInv, InitSafe
<1>2. IInv /\ Safety /\ Window /\ [Next]_vars => (IInv /\ Safety /\ Window)'
  BY NextIInv, NextSafe, SleepOutlastsRemoval
<1>. QED
  BY <1>1, <1>2, PTL DEF Spec

\* datamgr and strmgr never follow a NULL or a freed pointer as long as the
\* usleep at the barrier outlasts the other's sbuffer_remove, whatever
\* insertions overlap it.
THEOREM SpecReadersSafe ==
  ASSUME SleepOutlastsRemoval
  PROVE  Spec => []ReadersSafe
<1>1. Safety => ReadersSafe
  BY DEF Safety
<1>. QED
  BY <1>1, SpecSafety, SleepOutlastsRemoval, PTL

\* Whatever the timing: whenever neither an insertion nor a removal is under way,
\* what is linked from head is every node from head to tail, and nothing else.
\* An insertion that overlapped a removal leaves a whole list or an empty one.
Whole ==
  mutex = "none" /\ Removers = {} /\ head # NULL =>
    /\ head \in Node /\ tail \in Node /\ head <= tail
    /\ Linked = head..tail /\ next[tail] = NULL

THEOREM SpecWhole == Spec => []Whole
<1>1. Init => Links
  BY DEF Init, Links, Joined
<1>2. IInv /\ Links /\ [Next]_vars => Links'
  BY NextLinks
<1>3. ASSUME IInv, Links PROVE Whole
  <2>. SUFFICES ASSUME mutex = "none", Removers = {}, head # NULL
                PROVE  /\ head \in Node /\ tail \in Node /\ head <= tail
                       /\ Linked = head..tail /\ next[tail] = NULL
    BY DEF Whole
  <2>1. pc["connmgr"] \notin Inserting /\ \A c \in Consumer : pc[c] \notin Removing
    BY <1>3 DEF IInv, Locking, Removers
  <2>2. head \in Node /\ tail \in Node /\ head <= tail
    BY <1>3, <2>1 DEF IInv, TypeOK, Ends, Order
  <2>3. tail = arrived /\ Joined(head)
    BY <1>3, <2>1, <2>2 DEF Links, Prior
  <2>4. next \in [Node -> Pointer] /\ next[tail] = NULL
    <3>1. next \in [Node -> Pointer] /\ (next[tail] # NULL => tail < next[tail] /\ next[tail] <= arrived)
      BY <1>3, <2>2 DEF IInv, TypeOK, Order
    <3>2. next[tail] \in Nat /\ tail \in Nat
      BY <2>2, <3>1, MaxReadingsAssumption
    <3>. QED
      BY <2>3, <3>1, <3>2
  <2>5. Linked = head..tail
    BY <2>2, <2>3, <2>4, JoinedIsLinked
  <2>. QED
    BY <2>2, <2>4, <2>5
<1>. QED
  BY <1>1, <1>2, <1>3, SpecIInv, PTL DEF Spec

\* The walk of sbuffer_size then comes to an end at tail, over memory that is not
\* freed, if the sleep outlasts the removal (sbuffer.c:233-252).
THEOREM SpecWalkTerminates ==
  ASSUME SleepOutlastsRemoval
  PROVE  Spec => []WalkTerminates
<1>1. ASSUME IInv, Safety, Whole PROVE WalkTerminates
  <2>. SUFFICES ASSUME mutex = "none", Removers = {}, head # NULL
                PROVE  tail \in Linked /\ Linked \cap freed = {} /\ next[tail] = NULL
    BY DEF WalkTerminates
  <2>1. /\ head \in Node /\ tail \in Node /\ head <= tail
        /\ Linked = head..tail /\ next[tail] = NULL
    BY <1>1 DEF Whole
  <2>2. ASSUME NEW n \in freed PROVE n \notin head..tail
    <3>1. n \in Node /\ n <= head
      BY <1>1, <2>1 DEF IInv, TypeOK, FreedAfterBoth, Progress
    <3>2. n # head
      BY <1>1 DEF Safety, Unfreed
    <3>. QED
      BY <2>1, <3>1, <3>2
  <2>. QED
    BY <2>1, <2>2
<1>. QED
  BY <1>1, SpecWhole, SpecSafety, SleepOutlastsRemoval, PTL

\* The invariant of both constants is inductive.
LEMMA SpecCalm ==
  ASSUME SleepOutlastsRemoval, InsertsAvoidRemoval
  PROVE  Spec => [](IInv /\ Safety /\ Window /\ Calm)
<1>1. Init => IInv /\ Safety /\ Window /\ Calm
  BY InitIInv, InitSafe, InitCalm
<1>2. IInv /\ Safety /\ Window /\ Calm /\ [Next]_vars => (IInv /\ Safety /\ Window /\ Calm)'
  BY NextIInv, NextSafe, NextCalm, SleepOutlastsRemoval, InsertsAvoidRemoval
<1>. QED
  BY <1>1, <1>2, PTL DEF Spec

\* The list, the flags and the barrier implement Broadcast: every reading is
\* taken once by each reader, in order, and given up after both; and none is
\* skipped if insertions avoid removals.
THEOREM SpecBroadcastSafe ==
  ASSUME SleepOutlastsRemoval
  PROVE  Spec => BroadcastSafe
<1>1. Init => Abstract!Init
  BY DEF Init, Abstract!Init, Abstract!Consumer
<1>2. CASE InsertsAvoidRemoval
  <2>1. IInv /\ Safety /\ Window /\ Calm /\ [Next]_vars => [Abstract!Next]_(Abstract!vars)
    BY NextBroadcast, SleepOutlastsRemoval
  <2>. QED
    BY <1>1, <1>2, <2>1, SpecCalm, SleepOutlastsRemoval, PTL DEF Spec, BroadcastSafe,
       Abstract!Spec
<1>3. CASE ~InsertsAvoidRemoval
  <2>1. IInv /\ Safety /\ Window /\ [Next]_vars => [Abstract!Next]_(Abstract!vars)
    BY <1>3, NextBroadcast, SleepOutlastsRemoval
  <2>. QED
    BY <1>1, <2>1, SpecSafety, SleepOutlastsRemoval, PTL DEF Spec, BroadcastSafe,
       Abstract!Spec
<1>. QED
  BY <1>2, <1>3

\* With no insertion overlapping a removal no thread follows a NULL or a freed
\* pointer.
THEOREM SpecNoFault ==
  ASSUME SleepOutlastsRemoval, InsertsAvoidRemoval
  PROVE  Spec => []NoFault
<1>1. Calm => NoFault
  BY DEF Calm
<1>. QED
  BY <1>1, SpecCalm, SleepOutlastsRemoval, InsertsAvoidRemoval, PTL

\* A reader whose loop has ended has left no reading in the buffer: all that
\* arrived were taken by both and freed.
THEOREM SpecNothingLeftBehind ==
  ASSUME SleepOutlastsRemoval, InsertsAvoidRemoval
  PROVE  Spec => []NothingLeftBehind
<1>1. IInv /\ Safety /\ Calm => NothingLeftBehind
  <2>. SUFFICES ASSUME IInv, Safety, Calm, NEW c \in Consumer, pc[c] = "done"
                PROVE  freed = 1..arrived
    BY DEF NothingLeftBehind
  <2>1. head = NULL /\ pc["connmgr"] = "done"
    BY DEF IInv, Shutdown
  <2>2. \A d \in Consumer : ~Unlinks(d)
    BY DEF IInv, TypeOK, Safety, Alone, Unlinks
  <2>3. \A n \in Node : n <= arrived => n \in freed
    BY <2>1, <2>2 DEF Calm, Given, Prior
  <2>4. \A n \in freed : n \in Node /\ n <= arrived
    BY DEF IInv, TypeOK, FreedAfterBoth, Progress
  <2>5. arrived \in Nat /\ 1..arrived \subseteq Node
    BY MaxReadingsAssumption DEF IInv, TypeOK
  <2>6. 1..arrived \subseteq freed
    BY <2>3, <2>5
  <2>7. freed \subseteq 1..arrived
    BY <2>4, <2>5
  <2>. QED
    BY <2>6, <2>7
<1>. QED
  BY <1>1, SpecCalm, SleepOutlastsRemoval, InsertsAvoidRemoval, PTL
=============================================================================
