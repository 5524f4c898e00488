------------------------------ MODULE Gateway ------------------------------
(***************************************************************************)
(* The gateway process: the threads of src/main.c around the shared buffer. *)
(*                                                                         *)
(*   connmgr   inserts the readings it receives, then clears               *)
(*             connmgr_listening (method_connmgr);                         *)
(*   datamgr   polls the head of the buffer and keeps running averages     *)
(*             (method_datamgr, datamgr_parse_sensor_files);               *)
(*   strmgr    polls the head and writes it to the database                *)
(*             (method_strmgr, insert_sensor);                             *)
(*   main      joins the three and frees the buffer.                       *)
(*                                                                         *)
(* When both readers have taken the head they meet at a pthread_barrier of *)
(* two: the serial thread of that round removes the node, the other sleeps *)
(* (500 ms in datamgr, 50 ms in strmgr).  Nothing but that sleep keeps the *)
(* other reader away from the list while the node is being unlinked, and   *)
(* nothing at all keeps connmgr away.  Two constants say which of these    *)
(* overlaps a run allows; the code guarantees neither.                     *)
(***************************************************************************)
EXTENDS Sbuffer, Sequences

CONSTANTS
  Unknown,               \* readings whose sensor id is not in room_sensor.map
  SleepOutlastsRemoval,  \* the usleep at the barrier outlasts the other's sbuffer_remove
  InsertsAvoidRemoval    \* no sbuffer_insert overlaps an sbuffer_remove

ASSUME UnknownAssumption == Unknown \subseteq Node

ASSUME TimingAssumption ==
  SleepOutlastsRemoval \in BOOLEAN /\ InsertsAvoidRemoval \in BOOLEAN

VARIABLES
  listening,   \* the flag connmgr_listening
  handled      \* handled[c]: what reader c did with readings, in order: rows
               \* written (strmgr), measurements averaged (datamgr)

gatewayVars == <<listening, handled>>
vars == <<listVars, threadVars, gatewayVars>>

Removers == {c \in Consumer : pc[c] \in Removing}

Init ==
  /\ head = NULL
  /\ tail = NULL
  /\ next = [n \in Node |-> NULL]
  /\ taken = [c \in Consumer |-> {}]
  /\ arrived = 0
  /\ freed = {}
  /\ mutex = "none"
  /\ pc = [t \in Thread \cup {"main"} |->
             CASE t = "connmgr" -> "listen" [] t = "main" -> "join" [] OTHER -> "loop"]
  /\ reg = [t \in Thread |-> NULL]
  /\ dummy = [c \in Consumer |-> NULL]
  /\ fault = "none"
  /\ listening = TRUE
  /\ handled = [c \in Consumer |-> <<>>]

(***************************************************************************)
(* connmgr                                                                 *)
(***************************************************************************)
Receive ==
  /\ InsertsAvoidRemoval => Removers = {}
  /\ LockAndAllocate
  /\ UNCHANGED gatewayVars

Insert == InsertStep /\ UNCHANGED gatewayVars

\* connmgr_listen returned
StopListening ==
  /\ At("connmgr", "listen")
  /\ listening' = FALSE
  /\ Goto("connmgr", "done")
  /\ UNCHANGED <<listVars, mutex, reg, dummy, fault, handled>>

(***************************************************************************)
(* The loops of the two readers.  datamgr asks for the size before every   *)
(* poll, strmgr polls directly.                                            *)
(***************************************************************************)
Enter(c) == IF c = "datamgr" THEN "size" ELSE "poll"
Again(c) == IF c = "datamgr" THEN "size" ELSE "loop"

\* Mutant: the loop ends with the flag, whatever is left in the buffer.
ReadFlag_NoDrain(c) ==
  /\ At(c, "loop")
  /\ Goto(c, IF listening THEN Enter(c) ELSE "done")
  /\ UNCHANGED <<listVars, mutex, reg, dummy, fault, gatewayVars>>

\* while (connmgr_listening != 0 || sbuffer_size(shared_buffer) > 0)
ReadFlag(c) ==
  /\ At(c, "loop")
  /\ Goto(c, IF listening THEN Enter(c) ELSE "loop_size")
  /\ UNCHANGED <<listVars, mutex, reg, dummy, fault, gatewayVars>>

ReadSize(c) ==
  /\ At(c, "loop_size")
  /\ \/ SizeIsPositive /\ Goto(c, Enter(c))
     \/ SizeIsZero /\ Goto(c, "done")
  /\ UNCHANGED <<listVars, mutex, reg, dummy, fault, gatewayVars>>

\* while (sbuffer_size(sbuffer) > 0)
ParseSize ==
  /\ At("datamgr", "size")
  /\ \/ SizeIsPositive /\ Goto("datamgr", "poll")
     \/ SizeIsZero /\ Goto("datamgr", "loop")
  /\ UNCHANGED <<listVars, mutex, reg, dummy, fault, gatewayVars>>

Poll(c) == PollStep(c) /\ UNCHANGED gatewayVars

\* What a reader did with the reading it took: datamgr skips a sensor it does
\* not know, and an INSERT may fail.
Accepts(c, n) == c = "datamgr" => n \notin Unknown
Rejects(c, n) == c = "datamgr" => n \in Unknown

\* The reading is averaged / its row is written; then to the barrier if the
\* other reader had taken it already.
Handle(c) ==
  /\ pc[c] \in {"fresh", "fresh_last"} /\ fault = "none"
  /\ Accepts(c, dummy[c])
  /\ handled' = [handled EXCEPT ![c] = Append(@, dummy[c])]
  /\ Goto(c, IF pc[c] = "fresh_last" THEN "complete" ELSE "retry")
  /\ UNCHANGED <<listVars, mutex, reg, dummy, fault, listening>>

\* `continue' / `return -1': no barrier in this round of the loop.
Reject(c) ==
  /\ pc[c] \in {"fresh", "fresh_last"} /\ fault = "none"
  /\ Rejects(c, dummy[c])
  /\ Goto(c, "retry")
  /\ UNCHANGED <<listVars, mutex, reg, dummy, fault, gatewayVars>>

Retry(c) ==
  /\ At(c, "retry")
  /\ Goto(c, Again(c))
  /\ UNCHANGED <<listVars, mutex, reg, dummy, fault, gatewayVars>>

(***************************************************************************)
(* The barrier of two, and what each side does when it opens.              *)
(***************************************************************************)
\* Mutant: a barrier of one lets each thread through on its own.
WaitAtBarrier_OfOne(c) ==
  /\ At(c, "complete")
  /\ Goto(c, "remove")
  /\ UNCHANGED <<listVars, mutex, reg, dummy, fault, gatewayVars>>

WaitAtBarrier(c) ==
  /\ At(c, "complete")
  /\ pc[Other(c)] # "blocked"
  /\ Goto(c, "blocked")
  /\ UNCHANGED <<listVars, mutex, reg, dummy, fault, gatewayVars>>

\* Mutant: both threads remove, the returned value is not looked at.
OpenBarrier_BothRemove(c) ==
  /\ At(c, "complete")
  /\ pc[Other(c)] = "blocked"
  /\ pc' = [t \in Thread \cup {"main"} |-> IF t \in Consumer THEN "remove" ELSE pc[t]]
  /\ UNCHANGED <<listVars, mutex, reg, dummy, fault, gatewayVars>>

\* PTHREAD_BARRIER_SERIAL_THREAD is returned to an unspecified one of the two.
OpenBarrier(c) ==
  /\ At(c, "complete")
  /\ pc[Other(c)] = "blocked"
  /\ \E s \in Consumer :
       pc' = [pc EXCEPT ![s] = "remove", ![Other(s)] = "sleep"]
  /\ UNCHANGED <<listVars, mutex, reg, dummy, fault, gatewayVars>>

StartRemoval(c) ==
  /\ InsertsAvoidRemoval => pc["connmgr"] \notin Inserting
  /\ RemoveTest(c)
  /\ UNCHANGED gatewayVars

Remove(c) == RemoveStep(c) /\ UNCHANGED gatewayVars

\* usleep returns
Wake(c) ==
  /\ At(c, "sleep")
  /\ SleepOutlastsRemoval => pc[Other(c)] \notin Removing
  /\ Goto(c, Again(c))
  /\ UNCHANGED <<listVars, mutex, reg, dummy, fault, gatewayVars>>

Read(c) ==
  \/ ReadFlag(c)
  \/ ReadSize(c)
  \/ c = "datamgr" /\ ParseSize
  \/ Poll(c)
  \/ Handle(c)
  \/ Reject(c)
  \/ Retry(c)
  \/ WaitAtBarrier(c)
  \/ OpenBarrier(c)
  \/ StartRemoval(c)
  \/ Remove(c)
  \/ Wake(c)

(***************************************************************************)
(* main joins the threads and frees what is left in the buffer.            *)
(***************************************************************************)
Reach[k \in Nat] ==
  IF k = 0 THEN {head} ELSE Reach[k - 1] \cup {next[n] : n \in Reach[k - 1] \ {NULL}}

Linked == IF head = NULL THEN {} ELSE Reach[MaxReadings] \cap Node

JoinAndFree ==
  /\ At("main", "join")
  /\ \A t \in Thread : pc[t] = "done"
  /\ freed' = freed \cup Linked
  /\ head' = NULL
  /\ Goto("main", "exit")
  /\ UNCHANGED <<tail, next, taken, arrived, mutex, reg, dummy, fault, gatewayVars>>

Fault == \E t \in Thread : Crash(t) /\ UNCHANGED gatewayVars

Finished == (pc["main"] = "exit" \/ fault # "none") /\ UNCHANGED vars

Next ==
  \/ Receive
  \/ Insert
  \/ StopListening
  \/ \E c \in Consumer : Read(c)
  \/ JoinAndFree
  \/ Fault
  \/ Finished

(***************************************************************************)
(* The scheduler runs every thread, and the mutex, released every few      *)
(* milliseconds, is granted again and again: strong fairness for the       *)
(* readers, weak for an insertion, which holds the mutex.  Nothing says    *)
(* that sensors send or that connmgr ever stops.                           *)
(***************************************************************************)
Fairness ==
  /\ WF_vars(Insert)
  /\ \A c \in Consumer : SF_vars(Read(c))
  /\ WF_vars(JoinAndFree)

Spec     == Init /\ [][Next]_vars
FairSpec == Spec /\ Fairness

(***************************************************************************)
(* Type invariant.                                                         *)
(***************************************************************************)
ConnmgrPC == {"listen", "done"} \cup Inserting
ReaderPC  == {"loop", "loop_size", "size", "poll", "poll_load", "poll_flags", "fresh",
              "fresh_last", "retry", "complete", "blocked", "sleep", "done"} \cup Removing

TypeOK ==
  /\ head \in Pointer /\ tail \in Pointer
  /\ next \in [Node -> Pointer]
  /\ taken \in [Consumer -> SUBSET Node]
  /\ arrived \in Pointer
  /\ freed \subseteq Node
  /\ mutex \in Thread \cup {"none"}
  /\ pc \in [Thread \cup {"main"} -> ConnmgrPC \cup ReaderPC \cup {"join", "exit"}]
  /\ pc["connmgr"] \in ConnmgrPC
  /\ \A c \in Consumer : pc[c] \in ReaderPC
  /\ reg \in [Thread -> Pointer]
  /\ dummy \in [Consumer -> Pointer]
  /\ fault \in Thread \cup {"none"}
  /\ listening \in BOOLEAN
  /\ handled \in [Consumer -> Seq(Pointer)]

(***************************************************************************)
(* Properties under every timing.                                          *)
(***************************************************************************)

\* No reading is averaged or stored twice, and each reader handles readings
\* in the order of their arrival: the *_complete flags, the barrier and the
\* unlocked removal together never hand a node out again.
InOrderOnce ==
  \A c \in Consumer : \A i, j \in 1..Len(handled[c]) :
    i < j => handled[c][i] < handled[c][j]

\* A node is freed only after datamgr and strmgr have both taken it, whoever
\* was chosen to run sbuffer_remove.
FreedAfterBoth == \A c \in Consumer : freed \subseteq taken[c]

\* sbuffer_remove takes no lock; the barrier alone keeps two threads from
\* running it at the same time.
SoleRemover == \A c \in Consumer : pc[c] \in Removing => pc[Other(c)] \notin Removing

(***************************************************************************)
(* Properties when the sleep at the barrier outlasts the removal.          *)
(***************************************************************************)

\* The readers then never touch freed memory, whatever connmgr does; only an
\* insertion caught between the stores of a removal can.
ReadersSafe == fault \in {"none", "connmgr"}

\* Whenever the mutex is free and no removal is under way, following `next'
\* from head leads to tail, without a freed node on the way: the walk in
\* sbuffer_size terminates.
WalkTerminates ==
  (mutex = "none" /\ Removers = {} /\ head # NULL) =>
     tail \in Linked /\ Linked \cap freed = {} /\ next[tail] = NULL

\* The buffer implements the broadcast it stands for; lossless when no
\* insertion overlaps a removal.
Abstract == INSTANCE Broadcast WITH Lossless <- InsertsAvoidRemoval

BroadcastSafe == Abstract!Spec
BroadcastFair == Abstract!FairSpec

\* Once connmgr has stopped listening, the process exits or crashes: no
\* reader waits at the barrier, on the mutex or for a reading for ever.
ShutdownEnds == ~listening ~> (pc["main"] = "exit" \/ fault # "none")

(***************************************************************************)
(* Properties when, besides, no insertion overlaps a removal.              *)
(***************************************************************************)
NoFault == fault = "none"

\* A thread that has decided to finish leaves nothing behind: every reading
\* that ever arrived has been taken by both readers and freed.
NothingLeftBehind ==
  \A c \in Consumer : pc[c] = "done" => freed = 1..arrived

\* Every reading that arrives is read by both readers and given back.
Reclaimed == \A n \in Node : arrived >= n ~> n \in freed

(***************************************************************************)
(* Statements of comments in the source that the code does not keep.       *)
(***************************************************************************)

\* sbuffer.c:109 "buffer empty (buffer->head should also be NULL": whenever an
\* insertion tests tail, a NULL tail comes with a NULL head.
EmptyTailMeansEmptyHead == (pc["connmgr"] = "ins_test" /\ tail = NULL) => head = NULL

\* sbuffer.c:24 "a structure determine if the element is stored, 0 means writen
\* not complete, 1 means writen complete": a node given up with
\* strmgr_complete = 1 has its row in the database.
CompleteMeansStored ==
  \A n \in freed : \E i \in 1..Len(handled["strmgr"]) : handled["strmgr"][i] = n
=============================================================================
