------------------------------ MODULE Storage ------------------------------
(***************************************************************************)
(* The database (src/sensor_db.c) and strmgr, its only writer, over several *)
(* runs of the gateway.  The file outlives the process, which may be killed *)
(* between any two statements.  Another program may hold a lock on it, so   *)
(* that opening it and every statement may fail.  Each statement is a      *)
(* transaction of its own: one that fails or is cut off leaves nothing     *)
(* behind, but DROP TABLE and CREATE TABLE are two.                        *)
(*                                                                         *)
(* Values are integers, in units of 10^-7: `%f' keeps six decimal places.  *)
(***************************************************************************)
EXTENDS Integers, Sequences

CONSTANTS
  MaxRuns,       \* bound: how often the gateway is started
  MaxReadings,   \* bound: readings that strmgr takes from the buffer in a run
  Value,         \* the values of readings and queries, below zero too
  RoundedUp,     \* those half way between two prints that `%f' rounds up
  Timestamp      \* the times of readings and queries

ASSUME StorageAssumption ==
  /\ MaxRuns \in Nat /\ MaxReadings \in Nat
  /\ Value \subseteq Int /\ Timestamp \subseteq Int

VARIABLES
  exists,    \* the table exists
  rows,      \* its rows by Id; <<>> if it does not exist
  run,       \* how often the gateway has been started
  pc,        \* where strmgr stands; "down" if there is no process
  times,     \* attempts that have failed in this run (set to 0, unread, at the end)
  handles,   \* database handles that the process holds
  polled     \* readings taken from the buffer in this run

tableVars == <<exists, rows>>
vars == <<tableVars, run, pc, times, handles, polled>>

Init ==
  /\ exists = FALSE /\ rows = <<>>
  /\ run = 0 /\ pc = "down"
  /\ times = 0 /\ handles = 0 /\ polled = 0

(***************************************************************************)
(* method_strmgr around init_connection.                                   *)
(***************************************************************************)
Start ==
  /\ pc = "down" /\ run < MaxRuns
  /\ run' = run + 1
  /\ pc' = "open"
  /\ times' = 0 /\ polled' = 0
  /\ UNCHANGED <<tableVars, handles>>

\* Mutant: the fifth failure is the last.
Failed_OneMore(left) ==
  /\ times' = times + 1
  /\ IF times' <= 4
       THEN pc' = "open" /\ handles' = left
       ELSE pc' = "down" /\ handles' = 0

\* init_connection has returned NULL with that many handles left open: another
\* attempt, or exit after the fourth.
Failed(left) ==
  /\ times' = times + 1
  /\ IF times' <= 3
       THEN pc' = "open" /\ handles' = left
       ELSE pc' = "down" /\ handles' = 0

\* Mutant: every attempt clears the table.
clear_up_flag_One == 1

\* init_connection(1) first, init_connection(0) from then on
clear_up_flag == IF times = 0 THEN 1 ELSE 0

(***************************************************************************)
(* init_connection.                                                        *)
(***************************************************************************)
Open ==
  /\ pc = "open"
  /\ \/ pc' = (IF clear_up_flag = 1 THEN "drop" ELSE "ensure")
        /\ handles' = handles + 1
        /\ UNCHANGED times
     \/ Failed(handles)
  /\ UNCHANGED <<tableVars, run, polled>>

DropTable ==
  /\ pc = "drop"
  /\ \/ exists' = FALSE /\ rows' = <<>>
        /\ pc' = "create"
        /\ UNCHANGED <<times, handles>>
     \/ Failed(handles - 1) /\ UNCHANGED tableVars
  /\ UNCHANGED <<run, polled>>

\* Mutant: the handle is not closed either.
CreateTable_KeepsHandle ==
  /\ pc = "create"
  /\ \/ exists' = TRUE
        /\ pc' = "connected"
        /\ UNCHANGED <<times, handles>>
     \/ Failed(handles) /\ UNCHANGED exists
  /\ UNCHANGED <<rows, run, polled>>

CreateTable ==
  /\ pc = "create"
  /\ \/ exists' = TRUE
        /\ pc' = "connected"
        /\ UNCHANGED <<times, handles>>
     \/ Failed(handles - 1) /\ UNCHANGED exists
  /\ UNCHANGED <<rows, run, polled>>

\* Mutant: the retry only opens the file.
EnsureTable_OpenOnly ==
  /\ pc = "ensure"
  /\ pc' = "connected"
  /\ UNCHANGED <<tableVars, run, times, handles, polled>>

\* CREATE TABLE IF NOT EXISTS; if it fails the handle is not closed.
EnsureTable ==
  /\ pc = "ensure"
  /\ \/ exists' = TRUE
        /\ pc' = "connected"
        /\ UNCHANGED <<times, handles>>
     \/ Failed(handles) /\ UNCHANGED exists
  /\ UNCHANGED <<rows, run, polled>>

(***************************************************************************)
(* insert_sensor.  A reading whose INSERT fails is gone.                   *)
(***************************************************************************)
\* A value half way goes up or down, always the same way (how depends on the
\* double); of the others neither 4 nor 5 changes the nearest place.
Printed(v) == ((v + (IF v \in RoundedUp THEN 5 ELSE 4)) \div 10) * 10

Row(v, t) == [run |-> run, sent |-> v, value |-> Printed(v), ts |-> t]

Insert ==
  /\ pc = "connected" /\ polled < MaxReadings
  /\ polled' = polled + 1
  /\ \/ \E v \in Value, t \in Timestamp : exists /\ rows' = Append(rows, Row(v, t))
     \/ UNCHANGED rows
  /\ UNCHANGED <<exists, run, pc, times, handles>>

disconnect ==
  /\ pc = "connected"
  /\ handles' = handles - 1
  /\ pc' = "closed"
  /\ UNCHANGED <<tableVars, run, times, polled>>

\* The process ends, by itself or because it is killed.
Down ==
  /\ handles' = 0
  /\ pc' = "down"
  /\ UNCHANGED <<tableVars, run, times, polled>>

Exit == pc = "closed" /\ Down
Kill == pc \in {"open", "drop", "create", "ensure", "connected"} /\ Down

Next ==
  \/ Start
  \/ Open \/ DropTable \/ CreateTable \/ EnsureTable
  \/ Insert
  \/ disconnect
  \/ Exit
  \/ Kill

Spec == Init /\ [][Next]_vars

(***************************************************************************)
(* The queries: the Ids of the rows the callback gets.                     *)
(***************************************************************************)
Id == DOMAIN rows

find_sensor_all                == Id
find_sensor_by_value_Exact(v)  == {k \in Id : rows[k].value = v}
find_sensor_by_value(v)        == {k \in Id : rows[k].value = Printed(v)}
find_sensor_exceed_value(v)    == {k \in Id : rows[k].value > Printed(v)}
find_sensor_by_timestamp(t)    == {k \in Id : rows[k].ts = t}
find_sensor_after_timestamp(t) == {k \in Id : rows[k].ts > t}

(***************************************************************************)
(* Properties.                                                             *)
(***************************************************************************)
TypeOK ==
  /\ exists \in BOOLEAN
  /\ rows \in Seq([run : 1..MaxRuns, sent : Value, value : Int, ts : Timestamp])
  /\ run \in 0..MaxRuns
  /\ pc \in {"down", "open", "drop", "create", "ensure", "connected", "closed"}
  /\ times \in 0..4
  /\ handles \in Nat
  /\ polled \in 0..MaxReadings

\* Whatever was interrupted between DROP and CREATE, in this run or an earlier
\* one: once strmgr is connected the table is there, so an INSERT fails only
\* for a reason of its own; and rows of an earlier run are in it only if the
\* first attempt of this run failed.
ConnectedTable ==
  pc = "connected" =>
    /\ exists
    /\ (\E k \in Id : rows[k].run < run) => times > 0

\* A row once written survives failures, retries and the end or death of the
\* process, up to the first attempt of a later run.
RowsKept ==
  [][\A k \in Id :
       \/ k \in DOMAIN rows' /\ rows'[k] = rows[k]
       \/ pc = "drop" /\ times = 0 /\ rows[k].run < run]_vars

\* Attempts that fail after the database was opened leave handles behind, but
\* never more than three are open, and disconnect leaves two at most.
HandlesBounded == handles <= IF pc = "closed" THEN 2 ELSE 3

\* The table keeps six places of a value, and so do the queries: a reading is
\* found by the value and by the time it was sent with; what is found by a value
\* was sent with it or differs from it by no more than one place; what is found
\* to exceed a value exceeds it, and what exceeds it by more than one place is
\* found; and just the readings after a time are found to be so.
QueriesSound ==
  /\ \A k \in Id : k \in find_sensor_by_value(rows[k].sent) \cap find_sensor_by_timestamp(rows[k].ts)
  /\ \A v \in Value : \A k \in find_sensor_by_value(v) :
       v - 10 <= rows[k].sent /\ rows[k].sent <= v + 10
  /\ \A v \in Value : \A k \in find_sensor_exceed_value(v) : rows[k].sent > v
  /\ \A v \in Value : \A k \in Id :
       rows[k].sent > v + 10 => k \in find_sensor_exceed_value(v)
  /\ \A t \in Timestamp :
       find_sensor_after_timestamp(t) = find_sensor_all \ {k \in Id : rows[k].ts <= t}
=============================================================================
