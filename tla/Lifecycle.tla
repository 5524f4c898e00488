----------------------------- MODULE Lifecycle -----------------------------
(***************************************************************************)
(* The two processes of src/main.c from fork to exit: who creates, opens   *)
(* and removes the FIFO logFIFO, how strmgr connects to the database or    *)
(* gives up, and how write_to_logfile of three threads, which shares       *)
(* sequence_number without a lock, gets its lines to the log process.      *)
(*                                                                         *)
(* What the threads do between two lines of the log is left to Gateway and *)
(* Connmgr; here a thread has a number of lines to write, then returns.    *)
(***************************************************************************)
EXTENDS Naturals

CONSTANT MaxLines   \* bound: lines that connmgr and datamgr have to write, each

ASSUME MaxLinesAssumption == MaxLines \in Nat

Thread  == {"connmgr", "datamgr", "strmgr"}
Retries == 3   \* `if (times <= 3)' in method_strmgr

VARIABLES
  fifo,      \* what the name logFIFO stands for: "none", "fifo", "file"
  main,      \* where the gateway process stands
  log,       \* where the log process stands
  fp_FIFO,   \* the gateway holds the write end that sbuffer_init opened
  pc,        \* pc[t]: where thread t stands
  todo,      \* todo[t]: lines that t has still to write (bound: none but those of
             \* strmgr in a run that found a regular file)
  number,    \* number[t]: the number t printed into its line
  reg,       \* reg[t]: sequence_number as t loaded it to increment it
             \* (number and reg are 0 outside write_to_logfile)
  sequence_number,
  lines,     \* how many lines have been written to the FIFO
  db,        \* "none", "connected", "closed"
  times,     \* calls of init_connection
  overlapped, \* two threads have been inside write_to_logfile at the same time
  stale      \* this run found a regular file under the name logFIFO

processVars == <<fifo, main, log, fp_FIFO>>
lineVars    == <<number, reg, sequence_number, lines, overlapped>>
dbVars      == <<db, times>>
vars == <<processVars, pc, todo, lineVars, dbVars, stale>>

Writing == {t \in Thread : pc[t] \in {"number", "load", "store", "flush"}}

Init ==
  /\ fifo \in {"none", "fifo", "file"}   \* what an earlier run has left
  /\ stale = (fifo = "file")
  /\ main = "access" /\ log = "access"
  /\ fp_FIFO = FALSE
  /\ pc = [t \in Thread |-> "work"]
  /\ todo \in {f \in [Thread -> 0..MaxLines] :
                \A t \in Thread : t = "strmgr" \/ stale => f[t] = 0}
  /\ number = [t \in Thread |-> 0] /\ reg = [t \in Thread |-> 0]
  /\ sequence_number = 1
  /\ lines = 0
  /\ db = "none" /\ times = 0
  /\ overlapped = FALSE

(***************************************************************************)
(* Start: both processes test for the FIFO, then create it, then open it.  *)
(* The open for reading and the open for writing wait for each other, but  *)
(* neither waits if a regular file stands in the place of the FIFO: a run  *)
(* that gave up can leave one, see OpenLog.                                *)
(***************************************************************************)
MainAccess ==
  /\ main = "access"
  /\ main' = IF fifo = "none" THEN "mkfifo" ELSE "args"
  /\ UNCHANGED <<fifo, log, fp_FIFO, pc, todo, lineVars, dbVars>>

\* mkfifo fails when the other process was faster, and CHECK_MKFIFO exits.
MainMkfifo ==
  /\ main = "mkfifo"
  /\ main' = IF fifo = "none" THEN "args" ELSE "failed"
  /\ fifo' = IF fifo = "none" THEN "fifo" ELSE fifo
  /\ UNCHANGED <<log, fp_FIFO, pc, todo, lineVars, dbVars>>

MainArgs ==
  /\ main = "args"
  /\ main' \in {"open", "failed"}
  /\ UNCHANGED <<fifo, log, fp_FIFO, pc, todo, lineVars, dbVars>>

LogAccess ==
  /\ log = "access"
  /\ log' = IF fifo = "none" THEN "mkfifo" ELSE "open"
  /\ UNCHANGED <<fifo, main, fp_FIFO, pc, todo, lineVars, dbVars>>

LogMkfifo ==
  /\ log = "mkfifo"
  /\ log' = IF fifo = "none" THEN "open" ELSE "failed"
  /\ fifo' = IF fifo = "none" THEN "fifo" ELSE fifo
  /\ UNCHANGED <<main, fp_FIFO, pc, todo, lineVars, dbVars>>

\* Mutant: the stream is closed again in sbuffer_init.
Meet_Closes ==
  /\ main = "open" /\ log = "open"
  /\ main' = "join" /\ log' = "read"
  /\ UNCHANGED <<fifo, fp_FIFO, pc, todo, lineVars, dbVars>>

\* sbuffer_init keeps its write end open until sbuffer_free.
Meet ==
  /\ main = "open" /\ log = "open" /\ fifo = "fifo"
  /\ main' = "join" /\ log' = "read"
  /\ fp_FIFO' = TRUE
  /\ UNCHANGED <<fifo, pc, todo, lineVars, dbVars>>

MainOpenFile ==
  /\ main = "open" /\ fifo # "fifo"
  /\ main' = "join"
  /\ fp_FIFO' = TRUE
  /\ fifo' = "file"
  /\ UNCHANGED <<log, pc, todo, lineVars, dbVars>>

LogOpenFile ==
  /\ log = "open" /\ fifo = "file"
  /\ log' = "read"
  /\ UNCHANGED <<fifo, main, fp_FIFO, pc, todo, lineVars, dbVars>>

(***************************************************************************)
(* write_to_logfile.                                                       *)
(***************************************************************************)
Alive         == main \in {"join", "exiting", "wait"}
Running(t, l) == Alive /\ pc[t] = l
Goto(t, l)    == pc' = [pc EXCEPT ![t] = l]

\* fopen(FIFO_NAME, "w") waits for a reader, and creates a regular file once
\* the FIFO has been removed.
OpenLog(t) ==
  /\ Running(t, "work") /\ todo[t] > 0
  /\ fifo = "fifo" => log \in {"read", "close"}
  /\ fifo' = IF fifo = "none" THEN "file" ELSE fifo
  /\ todo' = [todo EXCEPT ![t] = @ - 1]
  /\ overlapped' = (overlapped \/ Writing # {})
  /\ Goto(t, "number")
  /\ UNCHANGED <<main, log, fp_FIFO, number, reg, sequence_number, lines, dbVars>>

PrintNumber(t) ==
  /\ Running(t, "number")
  /\ number' = [number EXCEPT ![t] = sequence_number]
  /\ Goto(t, "load")
  /\ UNCHANGED <<processVars, todo, reg, sequence_number, lines, overlapped, dbVars>>

\* sequence_number++
LoadNumber(t) ==
  /\ Running(t, "load")
  /\ reg' = [reg EXCEPT ![t] = sequence_number]
  /\ Goto(t, "store")
  /\ UNCHANGED <<processVars, todo, number, sequence_number, lines, overlapped, dbVars>>

\* Mutant: the number is counted twice.
StoreNumber_Twice(t) ==
  /\ Running(t, "store")
  /\ sequence_number' = reg[t] + 2
  /\ Goto(t, "flush")
  /\ UNCHANGED <<processVars, todo, number, reg, lines, overlapped, dbVars>>

StoreNumber(t) ==
  /\ Running(t, "store")
  /\ sequence_number' = reg[t] + 1
  /\ Goto(t, "flush")
  /\ UNCHANGED <<processVars, todo, number, reg, lines, overlapped, dbVars>>

\* fflush and fclose: the line reaches the FIFO in one piece, unless its
\* reader is gone or the stream leads to a file.
FlushLine(t) ==
  /\ Running(t, "flush")
  /\ lines' = IF fifo = "fifo" /\ log \in {"read", "close"} THEN lines + 1 ELSE lines
  /\ number' = [number EXCEPT ![t] = 0] /\ reg' = [reg EXCEPT ![t] = 0]
  /\ Goto(t, "work")
  /\ UNCHANGED <<processVars, todo, sequence_number, overlapped, dbVars>>

WriteLine(t) ==
  \/ OpenLog(t)
  \/ PrintNumber(t)
  \/ LoadNumber(t)
  \/ StoreNumber(t)
  \/ FlushLine(t)

(***************************************************************************)
(* strmgr: init_connection up to four times, with the table cleared only   *)
(* by the first call, then rows, then disconnect.                          *)
(***************************************************************************)
Idle(t) == Running(t, "work") /\ todo[t] = 0

\* sqlite3_open refuses ("lost"), the statement fails after "established", or
\* both succeed ("established", and "New table" if it was the first call).
\* Mutant: the number of attempts is never compared.
Connect_ForEver ==
  /\ Idle("strmgr") /\ main = "join"
  /\ db = "none"
  /\ times' = times + 1
  /\ \/ db' = "none"      /\ todo' = [todo EXCEPT !["strmgr"] = 1]
     \/ db' = "connected" /\ todo' = [todo EXCEPT !["strmgr"] = IF times = 0 THEN 2 ELSE 1]
  /\ UNCHANGED <<processVars, pc, lineVars>>

Connect ==
  /\ Idle("strmgr") /\ main = "join"
  /\ db = "none" /\ times <= Retries
  /\ times' = times + 1
  /\ \/ db' = "none"      /\ todo' = [todo EXCEPT !["strmgr"] = 1]
     \/ db' = "connected" /\ todo' = [todo EXCEPT !["strmgr"] = IF times = 0 THEN 2 ELSE 1]
  /\ UNCHANGED <<processVars, pc, lineVars>>

\* connmgr_listening is 0 and the buffer empty: "lost" by disconnect, "Unable
\* to connect" after the loop.
Disconnect ==
  /\ Idle("strmgr")
  /\ db = "connected"
  /\ pc["connmgr"] = "done"
  /\ db' = "closed"
  /\ todo' = [todo EXCEPT !["strmgr"] = 2]
  /\ UNCHANGED <<processVars, pc, lineVars, times>>

\* The fourth failure: strmgr frees the lists and the buffer, which closes
\* fp_FIFO, while the other threads run.
GiveUp ==
  /\ Idle("strmgr") /\ main = "join"
  /\ db = "none" /\ times > Retries
  /\ fp_FIFO' = FALSE
  /\ main' = "exiting"
  /\ UNCHANGED <<fifo, log, pc, todo, lineVars, dbVars>>

\* exit(EXIT_FAILURE) by strmgr, or by a thread that misses what was freed.
Exit ==
  /\ main = "exiting"
  /\ main' = "failed"
  /\ UNCHANGED <<fifo, log, fp_FIFO, pc, todo, lineVars, dbVars>>

\* A thread returns: datamgr not before connmgr_listening is 0.
Return(t) ==
  /\ Idle(t)
  /\ t = "datamgr" => pc["connmgr"] = "done"
  /\ t = "strmgr" => db = "closed"
  /\ Goto(t, "done")
  /\ UNCHANGED <<processVars, todo, lineVars, dbVars>>

(***************************************************************************)
(* The end: join, sbuffer_free, wait for the log process, remove the FIFO. *)
(***************************************************************************)
\* Mutant: strmgr is not joined.
FreeBuffer_Early ==
  /\ main = "join"
  /\ pc["connmgr"] = "done" /\ pc["datamgr"] = "done"
  /\ fp_FIFO' = FALSE
  /\ main' = "wait"
  /\ UNCHANGED <<fifo, log, pc, todo, lineVars, dbVars>>

\* Mutant: sbuffer_free does not close fp_FIFO.
FreeBuffer_KeepsStream ==
  /\ main = "join"
  /\ \A t \in Thread : pc[t] = "done"
  /\ main' = "wait"
  /\ UNCHANGED <<fifo, log, fp_FIFO, pc, todo, lineVars, dbVars>>

FreeBuffer ==
  /\ main = "join"
  /\ \A t \in Thread : pc[t] = "done"
  /\ fp_FIFO' = FALSE
  /\ main' = "wait"
  /\ UNCHANGED <<fifo, log, pc, todo, lineVars, dbVars>>

WaitLog ==
  /\ main = "wait"
  /\ log \in {"exit", "failed"}
  /\ fifo' = "none"
  /\ main' = "exit"
  /\ UNCHANGED <<log, fp_FIFO, pc, todo, lineVars, dbVars>>

WriteEndOpen == fp_FIFO \/ (Alive /\ Writing # {})

\* fgets returns, and fprintf copies, every line of the FIFO; then NULL, which
\* ends the loop, when nobody has the FIFO open for writing; in a file, when
\* it has come to what is the end at that moment.
EndOfFile ==
  /\ log = "read"
  /\ fifo = "file" \/ ~WriteEndOpen
  /\ log' = "close"
  /\ UNCHANGED <<fifo, main, fp_FIFO, pc, todo, lineVars, dbVars>>

\* fclose(logfile), fclose(fb)
CloseLog ==
  /\ log = "close"
  /\ log' = "remove"
  /\ UNCHANGED <<fifo, main, fp_FIFO, pc, todo, lineVars, dbVars>>

RemoveFifo ==
  /\ log = "remove"
  /\ log' = "exit"
  /\ fifo' = "none"
  /\ UNCHANGED <<main, fp_FIFO, pc, todo, lineVars, dbVars>>

Start   == MainAccess \/ MainMkfifo \/ MainArgs \/ Meet \/ MainOpenFile
Stop    == FreeBuffer \/ WaitLog \/ Exit
Log     == LogAccess \/ LogMkfifo \/ LogOpenFile \/ EndOfFile \/ CloseLog \/ RemoveFifo
Work(t) == WriteLine(t) \/ Return(t)
Store   == Connect \/ Disconnect \/ GiveUp

Next ==
  /\ \/ Start
     \/ Log
     \/ \E t \in Thread : Work(t)
     \/ Store
     \/ Stop
  /\ UNCHANGED stale

\* Both processes and all threads are scheduled; connmgr returns because its
\* server ends (ServerEnds of Connmgr).
Fairness ==
  /\ WF_vars(Start /\ UNCHANGED stale)
  /\ WF_vars(Log /\ UNCHANGED stale)
  /\ WF_vars(Stop /\ UNCHANGED stale)
  /\ WF_vars((Store \/ Work("strmgr")) /\ UNCHANGED stale)
  /\ \A t \in {"connmgr", "datamgr"} : WF_vars(Work(t) /\ UNCHANGED stale)

Spec == Init /\ [][Next]_vars /\ Fairness

(***************************************************************************)
(* Properties.                                                             *)
(***************************************************************************)
TypeOK ==
  /\ fifo \in {"none", "fifo", "file"}
  /\ main \in {"access", "mkfifo", "args", "open", "join", "exiting", "wait", "exit", "failed"}
  /\ log \in {"access", "mkfifo", "open", "read", "close", "remove", "exit", "failed"}
  /\ fp_FIFO \in BOOLEAN
  /\ pc \in [Thread -> {"work", "number", "load", "store", "flush", "done"}]
  /\ todo \in [Thread -> Nat]
  /\ lines \in Nat /\ sequence_number \in Nat
  /\ db \in {"none", "connected", "closed"} /\ times \in 0..(Retries + 1)

Met    == log \in {"read", "close", "remove", "exit"}
GaveUp == main \in {"exiting", "failed"} /\ Met

\* The log process ends only after the last thread has written its last line:
\* no moment between two lines, in which no thread has the FIFO open, looks to
\* it like the end, so every line of the gateway is in gateway.log (of a run
\* that did not start with a regular file in the place of the FIFO).
LogComplete ==
  log \in {"close", "remove", "exit"} /\ ~GaveUp /\ ~stale =>
    \A t \in Thread : pc[t] = "done" /\ todo[t] = 0

\* As long as the threads take turns, line k has number k; when they write at
\* the same time numbers are doubled and skipped, but none runs ahead of the
\* lines by more than the two others that may be under way.
LogNumbers ==
  [][\A t \in Thread : lines' > lines /\ number[t] # 0 /\ number'[t] = 0 =>
       IF overlapped THEN number[t] <= lines' + 2 ELSE number[t] = lines']_vars

\* Whatever an earlier run has left under the name logFIFO, it is gone when
\* both processes have come to their end; and unless strmgr gave up, a run that
\* did not find a regular file there never makes one.
NameRemoved ==
  /\ main = "exit" /\ log = "exit" => fifo = "none"
  /\ ~GaveUp /\ ~stale => fifo # "file"

\* If the two processes meet at the FIFO, both end, also when the database
\* cannot be reached; they meet unless one has failed before.  (A regular file
\* in its place may end the log process before the gateway makes a FIFO, which
\* then waits for a reader for ever.)
BothEnd ==
  ~stale =>
    /\ <>(Met \/ main = "failed" \/ log = "failed")
    /\ Met ~> main \in {"exit", "failed"} /\ log = "exit"
=============================================================================
