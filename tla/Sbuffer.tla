------------------------------ MODULE Sbuffer ------------------------------
(***************************************************************************)
(* The shared buffer (src/sbuffer.c): a singly linked list that connmgr    *)
(* fills and that datamgr and strmgr both read.  Insert, poll and size run *)
(* under the mutex `threads`; sbuffer_remove does not take it.  Removal is *)
(* therefore split into the loads and stores the -O0 build of the Makefile *)
(* issues (`head = tail = NULL' stores tail, reloads tail, stores head),   *)
(* and so are the parts of an insertion that it can race with.             *)
(*                                                                         *)
(* The k-th node that is malloc'ed is the number k, so the order of nodes  *)
(* is the order of arrival; payloads are left out.                         *)
(***************************************************************************)
EXTENDS Naturals

CONSTANT MaxReadings    \* bound: how many readings arrive before TLC stops

ASSUME MaxReadingsAssumption == MaxReadings \in Nat \ {0}

NULL    == 0
Node    == 1..MaxReadings
Pointer == 0..MaxReadings

Consumer == {"datamgr", "strmgr"}
Thread   == Consumer \cup {"connmgr"}
Other(c) == IF c = "datamgr" THEN "strmgr" ELSE "datamgr"

VARIABLES
  head, tail,   \* struct sbuffer
  next,         \* next[n]: the `next' field of node n
  taken,        \* taken[c]: the nodes whose datamgr_complete / strmgr_complete is 1
  arrived,      \* number of nodes malloc'ed; also the `dummy' of the last insert
  freed,        \* nodes given back with free()
  mutex,        \* owner of `threads', or "none"
  pc,           \* pc[t]: where thread t stands
  reg,          \* reg[t]: the pointer thread t loaded last
  dummy,        \* dummy[c]: the local of sbuffer_datamgr / strmgr / remove
  fault         \* "none", or the thread that followed a NULL or freed pointer

listVars   == <<head, tail, next, taken, arrived, freed>>
threadVars == <<mutex, pc, reg, dummy, fault>>

Goto(t, l) == pc' = [pc EXCEPT ![t] = l]
At(t, l)   == pc[t] = l /\ fault = "none"
Load(t, p) == reg' = [reg EXCEPT ![t] = p]

Inserting == {"ins_test", "first_tail", "first_reload", "first_head", "link_load",
              "link_store", "tail_load", "tail_next", "tail_store"}
Unlinking == {"unlink_tail", "unlink_reload", "unlink_head", "unlink_next"}
Removing  == {"remove", "free"} \cup Unlinking

Bad(p) == p = NULL \/ p \in freed

(***************************************************************************)
(* sbuffer_insert, called by connmgr only.                                 *)
(***************************************************************************)
LockAndAllocate ==
  /\ At("connmgr", "listen")
  /\ mutex = "none"
  /\ arrived < MaxReadings
  /\ mutex' = "connmgr"
  /\ arrived' = arrived + 1
  /\ Goto("connmgr", "ins_test")
  /\ UNCHANGED <<head, tail, next, taken, freed, reg, dummy, fault>>

\* if (buffer->tail == NULL)
TestEmpty ==
  /\ At("connmgr", "ins_test")
  /\ Goto("connmgr", IF tail = NULL THEN "first_tail" ELSE "link_load")
  /\ UNCHANGED <<listVars, mutex, reg, dummy, fault>>

\* buffer->head = buffer->tail = dummy, as three memory accesses
FirstTail ==
  /\ At("connmgr", "first_tail")
  /\ tail' = arrived
  /\ Goto("connmgr", "first_reload")
  /\ UNCHANGED <<head, next, taken, arrived, freed, mutex, reg, dummy, fault>>

FirstReload ==
  /\ At("connmgr", "first_reload")
  /\ Load("connmgr", tail)
  /\ Goto("connmgr", "first_head")
  /\ UNCHANGED <<listVars, mutex, dummy, fault>>

FirstHead ==
  /\ At("connmgr", "first_head")
  /\ head' = reg["connmgr"]
  /\ mutex' = "none"
  /\ Goto("connmgr", "listen")
  /\ UNCHANGED <<tail, next, taken, arrived, freed, reg, dummy, fault>>

\* buffer->tail->next = dummy
LinkLoad ==
  /\ At("connmgr", "link_load")
  /\ Load("connmgr", tail)
  /\ Goto("connmgr", "link_store")
  /\ UNCHANGED <<listVars, mutex, dummy, fault>>

\* Mutant: `buffer->tail->next = dummy' is missing.
LinkStore_NoLink ==
  /\ At("connmgr", "link_store")
  /\ ~Bad(reg["connmgr"])
  /\ Goto("connmgr", "tail_load")
  /\ UNCHANGED <<listVars, mutex, reg, dummy, fault>>

LinkStore ==
  /\ At("connmgr", "link_store")
  /\ ~Bad(reg["connmgr"])
  /\ next' = [next EXCEPT ![reg["connmgr"]] = arrived]
  /\ Goto("connmgr", "tail_load")
  /\ UNCHANGED <<head, tail, taken, arrived, freed, mutex, reg, dummy, fault>>

\* buffer->tail = buffer->tail->next
TailLoad ==
  /\ At("connmgr", "tail_load")
  /\ Load("connmgr", tail)
  /\ Goto("connmgr", "tail_next")
  /\ UNCHANGED <<listVars, mutex, dummy, fault>>

TailNext ==
  /\ At("connmgr", "tail_next")
  /\ ~Bad(reg["connmgr"])
  /\ Load("connmgr", next[reg["connmgr"]])
  /\ Goto("connmgr", "tail_store")
  /\ UNCHANGED <<listVars, mutex, dummy, fault>>

TailStore ==
  /\ At("connmgr", "tail_store")
  /\ tail' = reg["connmgr"]
  /\ mutex' = "none"
  /\ Goto("connmgr", "listen")
  /\ UNCHANGED <<head, next, taken, arrived, freed, reg, dummy, fault>>

InsertStep ==
  \/ TestEmpty
  \/ FirstTail
  \/ FirstReload
  \/ FirstHead
  \/ LinkLoad
  \/ LinkStore
  \/ TailLoad
  \/ TailNext
  \/ TailStore

(***************************************************************************)
(* sbuffer_datamgr (c = "datamgr") and sbuffer_strmgr (c = "strmgr").  The *)
(* label reached stands for the result code: "retry" for                   *)
(* SBUFFER_FAILURE_OR_NO_DATA and SBUFFER_DATANON_READ, "fresh" for        *)
(* DATASUC_STRFAL / STRSUC_DATAFAL, "fresh_last" for DATA_SUCCESS /        *)
(* STR_SUCCESS, "complete" for SBUFFER_DELETE_ONE.                         *)
(***************************************************************************)
PollLock(c) ==
  /\ At(c, "poll")
  /\ mutex = "none"
  /\ IF head = NULL
       THEN Goto(c, "retry") /\ UNCHANGED mutex
       ELSE Goto(c, "poll_load") /\ mutex' = c
  /\ UNCHANGED <<listVars, reg, dummy, fault>>

\* Mutant: the newest node is polled instead of the oldest.
PollLoad_Tail(c) ==
  /\ At(c, "poll_load")
  /\ dummy' = [dummy EXCEPT ![c] = tail]
  /\ Goto(c, "poll_flags")
  /\ UNCHANGED <<listVars, mutex, reg, fault>>

PollLoad(c) ==
  /\ At(c, "poll_load")
  /\ dummy' = [dummy EXCEPT ![c] = head]
  /\ Goto(c, "poll_flags")
  /\ UNCHANGED <<listVars, mutex, reg, fault>>

\* Mutant: SBUFFER_DELETE_ONE is never returned.
PollResult_NoDelete(mine, others) ==
  CASE ~mine /\ ~others -> "fresh"
    [] ~mine /\  others -> "fresh_last"
    [] OTHER -> "retry"

PollResult(mine, others) ==
  CASE ~mine /\ ~others -> "fresh"
    [] ~mine /\  others -> "fresh_last"
    []  mine /\ ~others -> "retry"
    []  mine /\  others -> "complete"

\* Mutant: sbuffer_strmgr does not set strmgr_complete.
Mark_NotByStrmgr(c, n) ==
  taken' = [taken EXCEPT ![c] = IF c = "strmgr" THEN @ ELSE @ \cup {n}]

\* Mutant: the flag is set in the node after the head.
Mark_NextNode(c, n) == taken' = [taken EXCEPT ![c] = @ \cup {next[n]}]

Mark(c, n) == taken' = [taken EXCEPT ![c] = @ \cup {n}]

PollFlags(c) ==
  /\ At(c, "poll_flags")
  /\ ~Bad(dummy[c])
  /\ Goto(c, PollResult(dummy[c] \in taken[c], dummy[c] \in taken[Other(c)]))
  /\ Mark(c, dummy[c])
  /\ mutex' = "none"
  /\ UNCHANGED <<head, tail, next, arrived, freed, reg, dummy, fault>>

PollStep(c) == PollLock(c) \/ PollLoad(c) \/ PollFlags(c)

(***************************************************************************)
(* sbuffer_remove, called without the mutex.  The first two loads of head  *)
(* and the comparison with tail are one step: only the load of tail can    *)
(* differ from one interleaving to the next.                               *)
(***************************************************************************)
\* Mutant: the case of a single node is forgotten, tail is left as it is.
RemoveTest_NoLastNode(c) ==
  /\ At(c, "remove")
  /\ dummy' = [dummy EXCEPT ![c] = head]
  /\ Goto(c, IF head = NULL THEN "retry" ELSE "unlink_next")
  /\ UNCHANGED <<listVars, mutex, reg, fault>>

RemoveTest(c) ==
  /\ At(c, "remove")
  /\ dummy' = [dummy EXCEPT ![c] = head]
  /\ Goto(c, CASE head = NULL -> "retry"
               [] head # NULL /\ head = tail -> "unlink_tail"
               [] OTHER -> "unlink_next")
  /\ UNCHANGED <<listVars, mutex, reg, fault>>

\* buffer->head = buffer->tail = NULL, as three memory accesses
UnlinkTail(c) ==
  /\ At(c, "unlink_tail")
  /\ tail' = NULL
  /\ Goto(c, "unlink_reload")
  /\ UNCHANGED <<head, next, taken, arrived, freed, mutex, reg, dummy, fault>>

UnlinkReload(c) ==
  /\ At(c, "unlink_reload")
  /\ Load(c, tail)
  /\ Goto(c, "unlink_head")
  /\ UNCHANGED <<listVars, mutex, dummy, fault>>

UnlinkHead(c) ==
  /\ At(c, "unlink_head")
  /\ head' = reg[c]
  /\ Goto(c, "free")
  /\ UNCHANGED <<tail, next, taken, arrived, freed, mutex, reg, dummy, fault>>

\* buffer->head = buffer->head->next
UnlinkNext(c) ==
  /\ At(c, "unlink_next")
  /\ ~Bad(head)
  /\ head' = next[head]
  /\ Goto(c, "free")
  /\ UNCHANGED <<tail, next, taken, arrived, freed, mutex, reg, dummy, fault>>

FreeNode(c) ==
  /\ At(c, "free")
  /\ ~Bad(dummy[c])
  /\ freed' = freed \cup {dummy[c]}
  /\ Goto(c, "retry")
  /\ UNCHANGED <<head, tail, next, taken, arrived, mutex, reg, dummy, fault>>

RemoveStep(c) ==
  \/ UnlinkTail(c)
  \/ UnlinkReload(c)
  \/ UnlinkHead(c)
  \/ UnlinkNext(c)
  \/ FreeNode(c)

(***************************************************************************)
(* sbuffer_size(buffer) under the mutex: zero exactly when head is NULL;   *)
(* otherwise it walks from head to tail, which a removal in progress can   *)
(* send through a node that is being freed.                                *)
(***************************************************************************)
\* Mutant: the count starts at 0, so a single node counts for nothing.
SizeIsZero_OffByOne == mutex = "none" /\ head \in {NULL, tail}

SizeIsZero     == mutex = "none" /\ head = NULL
SizeIsPositive == mutex = "none" /\ head # NULL
WalkIsUnsafe(c) == SizeIsPositive /\ pc[Other(c)] \in Removing

\* The next access of thread t goes through a NULL or a freed pointer.
Dangling(t) ==
  \/ t = "connmgr" /\ pc[t] \in {"link_store", "tail_next"} /\ Bad(reg[t])
  \/ t \in Consumer /\ pc[t] \in {"poll_flags", "free"} /\ Bad(dummy[t])
  \/ t \in Consumer /\ pc[t] = "unlink_next" /\ Bad(head)
  \/ t \in Consumer /\ pc[t] \in {"size", "loop_size"} /\ WalkIsUnsafe(t)

\* What follows undefined behaviour is not modelled: the run ends there.
Crash(t) ==
  /\ fault = "none"
  /\ Dangling(t)
  /\ fault' = t
  /\ UNCHANGED <<listVars, mutex, pc, reg, dummy>>

=============================================================================
