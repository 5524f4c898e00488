-------------------------- MODULE Lifecycle_proofs --------------------------
(***************************************************************************)
(* Theorems about Lifecycle, for any number of lines that the threads have *)
(* to write and whatever an earlier run has left behind.                   *)
(***************************************************************************)
EXTENDS Lifecycle, TLAPS

Starting == {"access", "mkfifo", "args", "open"}

\* TypeOK with the registers of write_to_logfile, without fp_FIFO.
Types ==
  /\ fifo \in {"none", "fifo", "file"}
  /\ main \in Starting \cup {"join", "exiting", "wait", "exit", "failed"}
  /\ log \in {"access", "mkfifo", "open", "read", "close", "remove", "exit", "failed"}
  /\ pc \in [Thread -> {"work", "number", "load", "store", "flush", "done"}]
  /\ db \in {"none", "connected", "closed"}

Counters ==
  /\ todo \in [Thread -> Nat]
  /\ lines \in Nat /\ sequence_number \in Nat
  /\ reg \in [Thread -> Nat]
  /\ times \in 0..(Retries + 1)

\* The gateway frees the buffer after its threads, which have nothing left to say.
Joined ==
  /\ \A t \in Thread : pc[t] = "done" => todo[t] = 0
  /\ main \in {"wait", "exit"} => \A t \in Thread : pc[t] = "done"

\* It removes the name as the last thing, after the log process has ended.
Gone == main = "exit" => fifo = "none" /\ log \in {"exit", "failed"}

\* Without a regular file to begin with, the two processes are on the same side
\* of their meeting, and the FIFO and its write end outlast the threads.
Meeting ==
  ~stale =>
    /\ main \in Starting => ~Met
    /\ main \in {"join", "exiting", "wait", "exit"} => Met
    /\ ~Met => fifo # "file"
    /\ main \in {"args", "open"} \/ log = "open" => fifo = "fifo"
    /\ main = "join" => log = "read" /\ fp_FIFO /\ fifo = "fifo"
    /\ main = "wait" => fifo # "file"

IInv == Types /\ Counters /\ fp_FIFO \in BOOLEAN /\ Joined /\ Gone /\ Meeting

LEMMA InitIInv == Init => IInv
<1>. SUFFICES ASSUME Init PROVE IInv
  OBVIOUS
<1>1. Types /\ (fp_FIFO \in BOOLEAN)
  BY DEF Init, Types, Starting
<1>2. Counters
  BY MaxLinesAssumption DEF Init, Counters, Retries
<1>3. Joined /\ Gone
  BY DEF Init, Joined, Gone
<1>4. Meeting
  BY DEF Init, Meeting, Met, Starting
<1>. QED
  BY <1>1, <1>2, <1>3, <1>4 DEF IInv

(***************************************************************************)
(* One lemma for each group of actions in Next, in it one step for each    *)
(* part of the invariant.                                                  *)
(***************************************************************************)

\* Up to the meeting at the FIFO.
LEMMA StartIInv == ASSUME IInv, UNCHANGED stale, Start PROVE IInv'
<1>1. Types'
  BY DEF IInv, Types, Counters, Starting, Start, MainAccess, MainMkfifo, MainArgs, Meet, MainOpenFile, processVars, lineVars, dbVars
<1>2. Counters'
  BY DEF IInv, Types, Counters, Thread, Retries, Start, MainAccess, MainMkfifo, MainArgs, Meet, MainOpenFile, processVars, lineVars, dbVars
<1>3. (fp_FIFO \in BOOLEAN)'
  BY DEF IInv, Start, MainAccess, MainMkfifo, MainArgs, Meet, MainOpenFile, processVars, lineVars, dbVars
<1>4. Joined'
  BY DEF IInv, Types, Counters, Joined, Thread, Start, MainAccess, MainMkfifo, MainArgs, Meet, MainOpenFile, processVars, lineVars, dbVars
<1>5. Gone'
  BY DEF IInv, Types, Joined, Gone, Start, MainAccess, MainMkfifo, MainArgs, Meet, MainOpenFile, processVars, lineVars, dbVars
<1>6. Meeting'
  BY DEF IInv, Types, Joined, Gone, Meeting, Met, Starting, Start, MainAccess, MainMkfifo, MainArgs, Meet, MainOpenFile, processVars, lineVars, dbVars
<1>. QED
  BY <1>1, <1>2, <1>3, <1>4, <1>5, <1>6 DEF IInv

\* The log process.
LEMMA LogIInv == ASSUME IInv, UNCHANGED stale, Log PROVE IInv'
<1>1. Types'
  BY DEF IInv, Types, Counters, Starting, Log, LogAccess, LogMkfifo, LogOpenFile, EndOfFile, CloseLog, RemoveFifo, processVars, lineVars, dbVars
<1>2. Counters'
  BY DEF IInv, Types, Counters, Thread, Retries, Log, LogAccess, LogMkfifo, LogOpenFile, EndOfFile, CloseLog, RemoveFifo, processVars, lineVars, dbVars
<1>3. (fp_FIFO \in BOOLEAN)'
  BY DEF IInv, Log, LogAccess, LogMkfifo, LogOpenFile, EndOfFile, CloseLog, RemoveFifo, processVars, lineVars, dbVars
<1>4. Joined'
  BY DEF IInv, Types, Counters, Joined, Thread, Log, LogAccess, LogMkfifo, LogOpenFile, EndOfFile, CloseLog, RemoveFifo, processVars, lineVars, dbVars
<1>5. Gone'
  BY DEF IInv, Types, Joined, Gone, Log, LogAccess, LogMkfifo, LogOpenFile, EndOfFile, CloseLog, RemoveFifo, processVars, lineVars, dbVars
<1>6. Meeting'
  BY DEF IInv, Types, Joined, Gone, Meeting, Met, Starting, Log, LogAccess, LogMkfifo, LogOpenFile, EndOfFile, CloseLog, RemoveFifo, processVars, lineVars, dbVars, WriteEndOpen
<1>. QED
  BY <1>1, <1>2, <1>3, <1>4, <1>5, <1>6 DEF IInv

\* A thread writes a line or returns.
LEMMA WorkIInv == ASSUME IInv, UNCHANGED stale, NEW t \in Thread, Work(t) PROVE IInv'
<1>1. Types'
  BY DEF IInv, Types, Counters, Starting, Running, Goto, Idle, Alive, Work, WriteLine, OpenLog, PrintNumber, LoadNumber, StoreNumber, FlushLine, Return, processVars, lineVars, dbVars
<1>2. Counters'
  BY DEF IInv, Types, Counters, Running, Goto, Idle, Alive, Thread, Retries, Work, WriteLine, OpenLog, PrintNumber, LoadNumber, StoreNumber, FlushLine, Return, processVars, lineVars, dbVars
<1>3. (fp_FIFO \in BOOLEAN)'
  BY DEF IInv, Work, WriteLine, OpenLog, PrintNumber, LoadNumber, StoreNumber, FlushLine, Return, processVars, lineVars, dbVars
<1>4. Joined'
  BY DEF IInv, Types, Counters, Joined, Running, Goto, Idle, Alive, Thread, Work, WriteLine, OpenLog, PrintNumber, LoadNumber, StoreNumber, FlushLine, Return, processVars, lineVars, dbVars
<1>5. Gone'
  BY DEF IInv, Types, Joined, Gone, Running, Goto, Idle, Alive, Work, WriteLine, OpenLog, PrintNumber, LoadNumber, StoreNumber, FlushLine, Return, processVars, lineVars, dbVars
<1>6. Meeting'
  BY DEF IInv, Types, Joined, Gone, Meeting, Met, Starting, Running, Goto, Idle, Alive, Work, WriteLine, OpenLog, PrintNumber, LoadNumber, StoreNumber, FlushLine, Return, processVars, lineVars, dbVars
<1>. QED
  BY <1>1, <1>2, <1>3, <1>4, <1>5, <1>6 DEF IInv

\* strmgr connects, disconnects or gives up.
LEMMA StoreIInv == ASSUME IInv, UNCHANGED stale, Store PROVE IInv'
<1>1. Types'
  BY DEF IInv, Types, Counters, Starting, Running, Goto, Idle, Alive, Store, Connect, Disconnect, GiveUp, processVars, lineVars, dbVars
<1>2. Counters'
  BY DEF IInv, Types, Counters, Running, Goto, Idle, Alive, Thread, Retries, Store, Connect, Disconnect, GiveUp, processVars, lineVars, dbVars
<1>3. (fp_FIFO \in BOOLEAN)'
  BY DEF IInv, Store, Connect, Disconnect, GiveUp, processVars, lineVars, dbVars
<1>4. Joined'
  BY DEF IInv, Types, Counters, Joined, Running, Goto, Idle, Alive, Thread, Store, Connect, Disconnect, GiveUp, processVars, lineVars, dbVars
<1>5. Gone'
  BY DEF IInv, Types, Joined, Gone, Running, Goto, Idle, Alive, Store, Connect, Disconnect, GiveUp, processVars, lineVars, dbVars
<1>6. Meeting'
  BY DEF IInv, Types, Joined, Gone, Meeting, Met, Starting, Running, Goto, Idle, Alive, Store, Connect, Disconnect, GiveUp, processVars, lineVars, dbVars
<1>. QED
  BY <1>1, <1>2, <1>3, <1>4, <1>5, <1>6 DEF IInv

\* The gateway ends.
LEMMA StopIInv == ASSUME IInv, UNCHANGED stale, Stop PROVE IInv'
<1>1. Types'
  BY DEF IInv, Types, Counters, Starting, Stop, FreeBuffer, WaitLog, Exit, processVars, lineVars, dbVars
<1>2. Counters'
  BY DEF IInv, Types, Counters, Thread, Retries, Stop, FreeBuffer, WaitLog, Exit, processVars, lineVars, dbVars
<1>3. (fp_FIFO \in BOOLEAN)'
  BY DEF IInv, Stop, FreeBuffer, WaitLog, Exit, processVars, lineVars, dbVars
<1>4. Joined'
  BY DEF IInv, Types, Counters, Joined, Thread, Stop, FreeBuffer, WaitLog, Exit, processVars, lineVars, dbVars
<1>5. Gone'
  BY DEF IInv, Types, Joined, Gone, Stop, FreeBuffer, WaitLog, Exit, processVars, lineVars, dbVars
<1>6. Meeting'
  BY DEF IInv, Types, Joined, Gone, Meeting, Met, Starting, Stop, FreeBuffer, WaitLog, Exit, processVars, lineVars, dbVars
<1>. QED
  BY <1>1, <1>2, <1>3, <1>4, <1>5, <1>6 DEF IInv

LEMMA NextIInv == IInv /\ [Next]_vars => IInv'
<1>. SUFFICES ASSUME IInv, [Next]_vars PROVE IInv'
  OBVIOUS
<1>1. CASE UNCHANGED vars
  BY <1>1 DEF IInv, Types, Counters, Joined, Gone, Meeting, Met, vars, processVars, lineVars, dbVars
<1>. QED
  BY <1>1, StartIInv, LogIInv, WorkIInv, StoreIInv, StopIInv DEF Next

(***************************************************************************)
(* What holds in every state, whichever process is faster and whatever     *)
(* fails.                                                                  *)
(***************************************************************************)

\* The invariant above is inductive.
THEOREM SpecIInv == Spec => []IInv
<1>. QED
  BY InitIInv, NextIInv, PTL DEF Spec

\* Every variable keeps its type; there are four attempts at the database at most.
THEOREM SpecTypeOK == Spec => []TypeOK
<1>1. IInv => TypeOK
  BY DEF IInv, Types, Counters, Starting, TypeOK
<1>. QED
  BY <1>1, SpecIInv, PTL

\* The log process does not take a pause between two lines for the end.
THEOREM SpecLogComplete == Spec => []LogComplete
<1>1. IInv => LogComplete
  BY DEF IInv, Types, Joined, Meeting, Met, Starting, GaveUp, LogComplete
<1>. QED
  BY <1>1, SpecIInv, PTL

\* The name logFIFO goes with the two processes, and without a failure at the
\* database or an earlier one it never stands for a regular file.
THEOREM SpecNameRemoved == Spec => []NameRemoved
<1>1. IInv => NameRemoved
  BY DEF IInv, Types, Joined, Gone, Meeting, Met, Starting, GaveUp, NameRemoved
<1>. QED
  BY <1>1, SpecIInv, PTL

(***************************************************************************)
(* The numbers of the lines.                                               *)
(***************************************************************************)

\* Lines reach the FIFO, as all have since the processes met there.
Flowing == fifo = "fifo" /\ log \in {"read", "close"}

\* One if t has counted the line that it has not yet flushed.
Counted(t) == IF pc[t] = "flush" THEN 1 ELSE 0
Ahead      == Counted("connmgr") + Counted("datamgr") + Counted("strmgr")

\* sequence_number is never ahead of the lines by more than those counted; the
\* number of a line was printed before the line itself was counted.
Bounded ==
  /\ sequence_number <= lines + 1 + Ahead
  /\ \A t \in Thread :
       /\ pc[t] = "store" => reg[t] <= lines + 1 + Ahead
       /\ pc[t] \in {"load", "store", "flush"} => number[t] <= lines + 1 + Ahead - Counted(t)

\* As long as no two threads write at the same time, all is exact.
InTurn ==
  /\ \A t, u \in Writing : t = u
  /\ sequence_number = lines + 1 + Ahead
  /\ \A t \in Thread :
       /\ pc[t] = "store" => reg[t] = lines + 1
       /\ pc[t] \in {"load", "store", "flush"} => number[t] = lines + 1

Numbers ==
  /\ number \in [Thread -> Nat]
  /\ main \in Starting =>
       lines = 0 /\ sequence_number = 1 /\ \A t \in Thread : pc[t] = "work"
  /\ Flowing => Bounded
  /\ ~overlapped /\ Flowing => InTurn

LEMMA InitNumbers == Init => Numbers
  BY DEF Init, Numbers, Flowing, Thread

\* Only the meeting opens the flow, and it does so before the first line.
LEMMA OthersNumbers ==
  ASSUME IInv, Numbers, UNCHANGED <<pc, lineVars>>,
         Flowing' => Flowing \/ main \in Starting,
         main' \in Starting => main \in Starting
  PROVE  Numbers'
<1>1. Ahead' = Ahead /\ Writing' = Writing /\ \A t \in Thread : Counted(t)' = Counted(t)
  BY DEF Ahead, Counted, Writing
<1>2. Bounded' <=> Bounded
  BY <1>1 DEF Bounded, lineVars
<1>3. InTurn' <=> InTurn
  BY <1>1 DEF InTurn, lineVars
<1>4. main \in Starting => Bounded /\ InTurn
  BY DEF IInv, Types, Numbers, Bounded, InTurn, Writing, Ahead, Counted, Thread
<1>. QED
  BY <1>2, <1>3, <1>4 DEF Numbers, lineVars

\* In all steps of a thread: what they leave alone.
LEMMA WorkNumbers ==
  ASSUME IInv, Numbers, NEW t \in Thread, WriteLine(t)
  PROVE  Numbers'
<1>1. /\ pc \in [Thread -> {"work", "number", "load", "store", "flush", "done"}]
      /\ number \in [Thread -> Nat] /\ reg \in [Thread -> Nat]
      /\ sequence_number \in Nat /\ lines \in Nat
      /\ main \notin Starting
  BY DEF IInv, Types, Counters, Numbers, WriteLine, OpenLog, PrintNumber, LoadNumber, StoreNumber,
     FlushLine, Running, Alive, Starting
<1>2. CASE OpenLog(t)
  <2>1. pc[t] = "work" /\ pc' = [pc EXCEPT ![t] = "number"]
    BY <1>2 DEF OpenLog, Running, Goto
  <2>2. /\ UNCHANGED <<main, log, number, reg, sequence_number, lines>> /\ (Flowing' => Flowing)
        /\ overlapped' = (overlapped \/ Writing # {})
    BY <1>2 DEF OpenLog, Flowing
  <2>3. Ahead' = Ahead /\ \A u \in Thread : Counted(u)' = Counted(u)
    BY <1>1, <2>1 DEF Ahead, Counted, Thread
  <2>4. Bounded => Bounded'
    BY <1>1, <2>1, <2>2, <2>3 DEF Bounded
  <2>5. InTurn /\ ~overlapped' => InTurn'
    BY <1>1, <2>1, <2>2, <2>3 DEF InTurn, Writing
  <2>. QED
    BY <1>1, <2>2, <2>4, <2>5 DEF Numbers
<1>3. CASE PrintNumber(t)
  <2>1. pc[t] = "number" /\ pc' = [pc EXCEPT ![t] = "load"]
    BY <1>3 DEF PrintNumber, Running, Goto
  <2>2. /\ UNCHANGED <<processVars, reg, sequence_number, lines, overlapped>>
        /\ number' = [number EXCEPT ![t] = sequence_number]
    BY <1>3 DEF PrintNumber
  <2>3. Ahead' = Ahead /\ (\A u \in Thread : Counted(u)' = Counted(u)) /\ Writing' = Writing
    BY <1>1, <2>1 DEF Ahead, Counted, Thread, Writing
  <2>4. Bounded => Bounded'
    BY <1>1, <2>1, <2>2, <2>3 DEF Bounded, Counted, Ahead
  <2>5. InTurn => InTurn'
    <3>. SUFFICES ASSUME InTurn PROVE InTurn'
      OBVIOUS
    <3>1. Ahead = 0
      BY <1>1, <2>1 DEF InTurn, Writing, Ahead, Counted, Thread
    <3>. QED
      BY <1>1, <2>1, <2>2, <2>3, <3>1 DEF InTurn
  <2>. QED
    BY <1>1, <2>2, <2>4, <2>5 DEF Numbers, Flowing, processVars
<1>4. CASE LoadNumber(t)
  <2>1. pc[t] = "load" /\ pc' = [pc EXCEPT ![t] = "store"]
    BY <1>4 DEF LoadNumber, Running, Goto
  <2>2. /\ UNCHANGED <<processVars, number, sequence_number, lines, overlapped>>
        /\ reg' = [reg EXCEPT ![t] = sequence_number]
    BY <1>4 DEF LoadNumber
  <2>3. Ahead' = Ahead /\ (\A u \in Thread : Counted(u)' = Counted(u)) /\ Writing' = Writing
    BY <1>1, <2>1 DEF Ahead, Counted, Thread, Writing
  <2>4. Bounded => Bounded'
    BY <1>1, <2>1, <2>2, <2>3 DEF Bounded
  <2>5. InTurn => InTurn'
    <3>. SUFFICES ASSUME InTurn PROVE InTurn'
      OBVIOUS
    <3>1. Ahead = 0
      BY <1>1, <2>1 DEF InTurn, Writing, Ahead, Counted, Thread
    <3>. QED
      BY <1>1, <2>1, <2>2, <2>3, <3>1 DEF InTurn
  <2>. QED
    BY <1>1, <2>2, <2>4, <2>5 DEF Numbers, Flowing, processVars
<1>5. CASE StoreNumber(t)
  <2>1. pc[t] = "store" /\ pc' = [pc EXCEPT ![t] = "flush"]
    BY <1>5 DEF StoreNumber, Running, Goto
  <2>2. /\ UNCHANGED <<processVars, number, reg, lines, overlapped>>
        /\ sequence_number' = reg[t] + 1
    BY <1>5 DEF StoreNumber
  <2>3. /\ Ahead' = Ahead + 1 /\ Writing' = Writing /\ Ahead \in Nat
        /\ Counted(t) = 0 /\ Counted(t)' = 1
        /\ \A u \in Thread \ {t} : Counted(u)' = Counted(u)
    BY <1>1, <2>1 DEF Ahead, Counted, Thread, Writing
  <2>4. Bounded => Bounded'
    BY <1>1, <2>1, <2>2, <2>3 DEF Bounded, Counted
  <2>5. InTurn => InTurn'
    <3>. SUFFICES ASSUME InTurn PROVE InTurn'
      OBVIOUS
    <3>1. Ahead = 0
      BY <1>1, <2>1 DEF InTurn, Writing, Ahead, Counted, Thread
    <3>. QED
      BY <1>1, <2>1, <2>2, <2>3, <3>1 DEF InTurn
  <2>. QED
    BY <1>1, <2>2, <2>4, <2>5 DEF Numbers, Flowing, processVars
<1>6. CASE FlushLine(t)
  <2>1. pc[t] = "flush" /\ pc' = [pc EXCEPT ![t] = "work"]
    BY <1>6 DEF FlushLine, Running, Goto
  <2>2. /\ UNCHANGED <<processVars, sequence_number, overlapped>>
        /\ number' = [number EXCEPT ![t] = 0] /\ reg' = [reg EXCEPT ![t] = 0]
        /\ Flowing => lines' = lines + 1
        /\ lines' \in Nat
    BY <1>1, <1>6 DEF FlushLine, Flowing
  <2>3. /\ Ahead' = Ahead - 1 /\ Ahead \in Nat /\ Writing' = Writing \ {t}
        /\ Counted(t) = 1 /\ Counted(t)' = 0
        /\ \A u \in Thread \ {t} : Counted(u)' = Counted(u)
    BY <1>1, <2>1 DEF Ahead, Counted, Thread, Writing
  <2>4. Flowing /\ Bounded => Bounded'
    BY <1>1, <2>1, <2>2, <2>3 DEF Bounded, Counted
  <2>5. Flowing /\ InTurn => InTurn'
    <3>. SUFFICES ASSUME Flowing, InTurn PROVE InTurn'
      OBVIOUS
    <3>1. \A u \in Thread \ {t} : pc[u] \in {"work", "done"}
      BY <1>1, <2>1 DEF InTurn, Writing
    <3>2. \A u \in Thread : pc'[u] \in {"work", "done"}
      BY <1>1, <2>1, <3>1
    <3>. QED
      BY <1>1, <2>2, <2>3, <3>2 DEF InTurn, Writing
  <2>. QED
    BY <1>1, <2>2, <2>4, <2>5 DEF Numbers, Flowing, processVars
<1>. QED
  BY <1>2, <1>3, <1>4, <1>5, <1>6 DEF WriteLine

LEMMA NextNumbers == IInv /\ Numbers /\ [Next]_vars => Numbers'
<1>. SUFFICES ASSUME IInv, Numbers, [Next]_vars PROVE Numbers'
  OBVIOUS
<1>1. CASE Start
  BY <1>1, OthersNumbers DEF Start, MainAccess, MainMkfifo, MainArgs, Meet, MainOpenFile, Starting,
     Flowing
<1>2. CASE Log
  BY <1>2, OthersNumbers DEF Log, LogAccess, LogMkfifo, LogOpenFile, EndOfFile, CloseLog,
     RemoveFifo, Flowing
<1>3. ASSUME NEW t \in Thread, Work(t) PROVE Numbers'
  <2>1. CASE Return(t)
    <3>1. pc \in [Thread -> {"work", "number", "load", "store", "flush", "done"}]
      BY DEF IInv, Types
    <3>2. pc[t] = "work" /\ pc' = [pc EXCEPT ![t] = "done"] /\ main \notin Starting
      BY <2>1 DEF Return, Idle, Running, Alive, Goto, Starting
    <3>3. UNCHANGED <<processVars, lineVars>>
      BY <2>1 DEF Return
    <3>4. Ahead' = Ahead /\ (\A u \in Thread : Counted(u)' = Counted(u)) /\ Writing' = Writing
      BY <3>1, <3>2 DEF Ahead, Counted, Thread, Writing
    <3>5. (Bounded => Bounded') /\ (InTurn => InTurn')
      BY <3>1, <3>2, <3>3, <3>4 DEF Bounded, InTurn, lineVars
    <3>. QED
      BY <3>2, <3>3, <3>5 DEF Numbers, Flowing, processVars, lineVars
  <2>. QED
    BY <1>3, <2>1, WorkNumbers DEF Work
<1>4. CASE Store
  BY <1>4, OthersNumbers DEF Store, Connect, Disconnect, GiveUp, Idle, Running, Alive, Starting,
     Flowing, processVars
<1>5. CASE Stop
  BY <1>5, OthersNumbers DEF Stop, FreeBuffer, WaitLog, Exit, Starting, Flowing
<1>6. CASE UNCHANGED vars
  BY <1>6, OthersNumbers DEF vars, processVars, Flowing
<1>. QED
  BY <1>1, <1>2, <1>3, <1>4, <1>5, <1>6 DEF Next

\* Lines are numbered in order while threads take turns; when they overlap, the
\* unlocked sequence_number never runs ahead by more than the two others.
THEOREM SpecLogNumbers == Spec => LogNumbers
<1>1. IInv /\ Numbers /\ [Next]_vars =>
        [\A t \in Thread : lines' > lines /\ number[t] # 0 /\ number'[t] = 0 =>
           IF overlapped THEN number[t] <= lines' + 2 ELSE number[t] = lines']_vars
  <2>. SUFFICES ASSUME IInv, Numbers, [Next]_vars,
                       NEW t \in Thread, lines' > lines, number[t] # 0, number'[t] = 0
                PROVE  IF overlapped THEN number[t] <= lines' + 2 ELSE number[t] = lines'
    OBVIOUS
  <2>1. lines \in Nat /\ number \in [Thread -> Nat]
    BY DEF IInv, Counters, Numbers
  <2>2. PICK u \in Thread : FlushLine(u)
    <3>1. lines' # lines
      BY <2>1
    <3>. QED
      BY <3>1 DEF Next, Start, MainAccess, MainMkfifo, MainArgs, Meet, MainOpenFile, Log, LogAccess,
         LogMkfifo, LogOpenFile, EndOfFile, CloseLog, RemoveFifo, Work, WriteLine, OpenLog,
         PrintNumber, LoadNumber, StoreNumber, Return, Store, Connect, Disconnect, GiveUp, Stop,
         FreeBuffer, WaitLog, Exit, lineVars, vars
  <2>3. u = t /\ pc[t] = "flush" /\ Flowing /\ lines' = lines + 1
    BY <2>1, <2>2 DEF FlushLine, Running, Flowing
  <2>4. Bounded /\ (~overlapped => InTurn)
    BY <2>3 DEF Numbers
  <2>5. Ahead - Counted(t) <= 2
    BY DEF Ahead, Counted, Thread
  <2>6. number[t] <= lines + 1 + (Ahead - Counted(t))
    BY <2>1, <2>3, <2>4 DEF Bounded, Ahead, Counted
  <2>7. number[t] <= lines' + 2
    BY <2>1, <2>3, <2>5, <2>6 DEF Ahead, Counted
  <2>8. ~overlapped => number[t] = lines'
    BY <2>1, <2>3, <2>4 DEF InTurn
  <2>. QED
    BY <2>7, <2>8
<1>. QED
  BY <1>1, InitNumbers, NextNumbers, SpecIInv, PTL DEF Spec, LogNumbers
=============================================================================
