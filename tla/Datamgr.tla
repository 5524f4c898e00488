------------------------------ MODULE Datamgr ------------------------------
(***************************************************************************)
(* The data manager (src/datamgr.c): the list of sensors it builds from    *)
(* room_sensor.map and the running average it keeps of each.  One thread   *)
(* uses it; when a reading comes is decided by Gateway.                    *)
(*                                                                         *)
(* A value is an integer; an average is the pair of total and count, as    *)
(* the code divides them, so that no rounding is modelled.                 *)
(***************************************************************************)
EXTENDS Integers, Sequences, FiniteSets, Functions

CONSTANTS
  Sensor, Room,          \* ids that occur in the map file and in readings
  Value,                 \* values measured
  RUN_AVG_LENGTH,
  SET_MIN_TEMP, SET_MAX_TEMP,
  MaxFile,               \* bound: lines of the map file
  MaxReadings            \* bound: readings, of all sensors together

ASSUME DatamgrAssumption ==
  /\ IsFiniteSet(Sensor) /\ Room # {}
  /\ Value \subseteq Int
  /\ RUN_AVG_LENGTH \in Nat \ {0}
  /\ SET_MIN_TEMP \in Int /\ SET_MAX_TEMP \in Int
  /\ MaxFile \in Nat /\ MaxReadings \in Nat

Slot == 1..RUN_AVG_LENGTH

List == INSTANCE ListSeq WITH
          Element <- Sensor, MaxSize <- MaxFile, list <- <<>>, call <- <<>>

VARIABLES
  phase,     \* "map" while the map file is read, then "parse", then "freed"
  file,      \* the lines of the map file read so far: <<room, sensor>>
  list,      \* the sensors, in the order of the list
  room,      \* room[s]: room_id of a sensor on the list
  data,      \* data[s]: the last values; 0 in a slot means that it is empty
  value,     \* value[s]: the average, <<total, count>>
  readings,  \* readings[s]: the values received of s
  logged     \* what the last reading made the log say

vars == <<phase, file, list, room, data, value, readings, logged>>

Known == {list[k] : k \in DOMAIN list}

Init ==
  /\ phase = "map"
  /\ file = <<>>
  /\ list = <<>>
  /\ room = [s \in Sensor |-> CHOOSE r \in Room : TRUE]
  /\ data = [s \in Sensor |-> [k \in Slot |-> 0]]
  /\ value = [s \in Sensor |-> <<0, 1>>]
  /\ readings = [s \in Sensor |-> <<>>]
  /\ logged = "nothing"

(***************************************************************************)
(* datamgr_read_room_file                                                  *)
(***************************************************************************)
\* Mutant: a sensor that is on the list already is inserted again.
ReadLine_NoCheck(r, s) ==
  /\ phase = "map" /\ Len(file) < MaxFile
  /\ file' = Append(file, <<r, s>>)
  /\ list' = List!Inserted(list, s, 0)
  /\ room' = [room EXCEPT ![s] = r]
  /\ UNCHANGED <<phase, data, value, readings, logged>>

\* Mutant: a second line for a sensor changes its room.
ReadLine_NewRoom(r, s) ==
  /\ phase = "map" /\ Len(file) < MaxFile
  /\ file' = Append(file, <<r, s>>)
  /\ list' = IF List!IndexOf(list, s) # -1 THEN list ELSE List!Inserted(list, s, 0)
  /\ room' = [room EXCEPT ![s] = r]
  /\ UNCHANGED <<phase, data, value, readings, logged>>

\* A line that names a sensor again is skipped; a new sensor goes to index 0.
ReadLine(r, s) ==
  /\ phase = "map" /\ Len(file) < MaxFile
  /\ file' = Append(file, <<r, s>>)
  /\ IF List!IndexOf(list, s) # -1
       THEN UNCHANGED <<list, room>>
       ELSE /\ list' = List!Inserted(list, s, 0)
            /\ room' = [room EXCEPT ![s] = r]
  /\ UNCHANGED <<phase, data, value, readings, logged>>

EndOfMap ==
  /\ phase = "map"
  /\ phase' = "parse"
  /\ UNCHANGED <<file, list, room, data, value, readings, logged>>

(***************************************************************************)
(* datamgr_parse_sensor_files                                              *)
(***************************************************************************)
\* Mutant: the values are not moved, the last slot alone is replaced.
modifyData_NoShift(d, v) ==
  IF \E k \in Slot : d[k] = 0
    THEN [d EXCEPT ![CHOOSE k \in Slot : d[k] = 0 /\ \A j \in 1..(k - 1) : d[j] # 0] = v]
    ELSE [d EXCEPT ![RUN_AVG_LENGTH] = v]

\* Into the first slot that holds 0, or, if none does, at the end of the others.
modifyData(d, v) ==
  IF \E k \in Slot : d[k] = 0
    THEN [d EXCEPT ![CHOOSE k \in Slot : d[k] = 0 /\ \A j \in 1..(k - 1) : d[j] # 0] = v]
    ELSE [k \in Slot |-> IF k < RUN_AVG_LENGTH THEN d[k + 1] ELSE v]

Total(d) ==
  LET sum[k \in 0..RUN_AVG_LENGTH] == IF k = 0 THEN 0 ELSE sum[k - 1] + d[k]
  IN  sum[RUN_AVG_LENGTH]

\* Mutant: divided by RUN_AVG_LENGTH, however few values there are.
getAverage_ByLength(d) == <<Total(d), RUN_AVG_LENGTH>>

getAverage(d) == <<Total(d), Cardinality({k \in Slot : d[k] # 0})>>

\* Without any value other than 0 the average is 0.0 / 0, which compares false.
Verdict(avg) ==
  CASE avg[2] > 0 /\ avg[1] >= SET_MAX_TEMP * avg[2] -> "hot"
    [] avg[2] > 0 /\ avg[1] < SET_MAX_TEMP * avg[2]
                  /\ avg[1] <= SET_MIN_TEMP * avg[2] -> "cold"
    [] OTHER -> "nothing"

Unknown(s, v) ==
  /\ phase = "parse"
  /\ s \notin Known
  /\ logged' = "invalid"
  /\ UNCHANGED <<phase, file, list, room, data, value, readings>>

Parse(s, v) ==
  /\ phase = "parse"
  /\ s \in Known
  /\ FoldFunction(LAMBDA seq, n : Len(seq) + n, 0, readings) < MaxReadings
  /\ readings' = [readings EXCEPT ![s] = Append(@, v)]
  /\ data' = [data EXCEPT ![s] = modifyData(@, v)]
  /\ value' = [value EXCEPT ![s] = getAverage(data'[s])]
  /\ logged' = Verdict(value'[s])
  /\ UNCHANGED <<phase, file, list, room>>

\* datamgr_free
Free ==
  /\ phase = "parse"
  /\ phase' = "freed"
  /\ list' = <<>>
  /\ UNCHANGED <<file, room, data, value, readings, logged>>

Next ==
  \/ \E r \in Room, s \in Sensor : ReadLine(r, s)
  \/ EndOfMap
  \/ \E s \in Sensor, v \in Value : Unknown(s, v) \/ Parse(s, v)
  \/ Free

Spec == Init /\ [][Next]_vars

(***************************************************************************)
(* Properties.                                                             *)
(***************************************************************************)
TypeOK ==
  /\ phase \in {"map", "parse", "freed"}
  /\ file \in Seq(Room \X Sensor)
  /\ list \in Seq(Sensor) /\ Len(list) <= Cardinality(Sensor)
  /\ room \in [Sensor -> Room]
  /\ data \in [Sensor -> [Slot -> Value \cup {0}]]
  /\ value \in [Sensor -> Int \X (0..RUN_AVG_LENGTH)]
  /\ logged \in {"nothing", "hot", "cold", "invalid"}

\* Each sensor of the file is on the list once, with the room of the first line
\* that names it, although every line is inserted at the front.
FirstLineWins ==
  phase # "freed" =>
    /\ Known = {file[k][2] : k \in DOMAIN file}
    /\ Cardinality(Known) = Len(list)
    /\ \A k \in DOMAIN file :
         (\A j \in 1..(k - 1) : file[j][2] # file[k][2]) => room[file[k][2]] = file[k][1]

NonZero(seq) ==
  LET kept[k \in 0..Len(seq)] ==
        IF k = 0 THEN <<>>
        ELSE IF seq[k] # 0 THEN Append(kept[k - 1], seq[k]) ELSE kept[k - 1]
  IN  kept[Len(seq)]
Latest(n, seq) == SubSeq(seq, Len(seq) - n + 1, Len(seq))

\* However readings of 0, which look like empty slots, are mixed in: the slots
\* in use hold the latest readings other than 0, in the order of arrival, all
\* RUN_AVG_LENGTH of them unless there were fewer or one has given way to a 0.
WindowIsRecent ==
  \A s \in Sensor :
    LET kept == NonZero(data[s])
        all  == NonZero(readings[s])
    IN  /\ Len(kept) <= Len(all) /\ kept = Latest(Len(kept), all)
        /\ Len(kept) < RUN_AVG_LENGTH - 1 => kept = all
        /\ all = readings[s] /\ Len(all) >= RUN_AVG_LENGTH => Len(kept) = RUN_AVG_LENGTH

\* The log calls a sensor too hot only if a recent reading is that hot and too
\* cold only if one is that cold: readings of 0 do not drag the average down.
\* It does so from the first reading on: the average of fewer than RUN_AVG_LENGTH
\* readings is theirs, and not 0 as the comment at datamgr.c:245 has it.
VerdictHasCause ==
  [][\A s \in Sensor : readings'[s] # readings[s] =>
       LET recent == {data'[s][k] : k \in Slot} \ {0} IN
       /\ logged' = "hot"  => \E v \in recent : v >= SET_MAX_TEMP
       /\ logged' = "cold" => \E v \in recent : v <= SET_MIN_TEMP
       /\ recent # {} /\ (\A v \in recent : v >= SET_MAX_TEMP) => logged' = "hot"]_vars
=============================================================================
