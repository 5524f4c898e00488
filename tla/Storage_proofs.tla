--------------------------- MODULE Storage_proofs ---------------------------
(***************************************************************************)
(* Theorems about Storage, for any number of runs and readings and any set *)
(* of values and timestamps.                                               *)
(***************************************************************************)
EXTENDS Storage, TLAPS

RowSet == [run : 1..MaxRuns, sent : Value, value : Int, ts : Timestamp]

\* TypeOK without the table.
Scalars ==
  /\ run \in 0..MaxRuns
  /\ pc \in {"down", "open", "drop", "create", "ensure", "connected", "closed"}
  /\ times \in 0..4
  /\ handles \in Nat
  /\ polled \in 0..MaxReadings

\* What Row builds: the printed value, no run that is still to come.
RowsSound ==
  /\ rows \in Seq(RowSet)
  /\ \A k \in DOMAIN rows : rows[k].value = Printed(rows[k].sent) /\ rows[k].run <= run

\* How far init_connection gets, and after how many failed attempts.
Stage ==
  /\ run = 0 => pc = "down"
  /\ pc \in {"drop", "create"} => times = 0
  /\ pc = "ensure" => times > 0
  /\ pc # "down" => times <= 3

\* strmgr is not connected without a table.
Table == exists \in BOOLEAN /\ (pc = "connected" => exists)

\* What the table may hold then: before the first attempt has dropped it only
\* rows of earlier runs, after that only rows of this run.
Contents ==
  /\ pc = "create" => rows = <<>>
  /\ pc \in {"open", "drop"} /\ times = 0 => \A k \in DOMAIN rows : rows[k].run < run
  /\ pc = "connected" /\ times = 0 => \A k \in DOMAIN rows : rows[k].run = run

\* Only an attempt that is not the first, and had opened the database, leaves
\* its handle behind.
Left == IF times = 0 THEN 0 ELSE times - 1

HandlesExact ==
  /\ pc = "down" => handles = 0
  /\ pc \in {"open", "closed"} => handles <= Left
  /\ pc \in {"drop", "create"} => handles = 1
  /\ pc \in {"ensure", "connected"} => handles \in 1..(Left + 1)

IInv == Scalars /\ Table /\ RowsSound /\ Stage /\ Contents /\ HandlesExact

\* The six decimal places that %f keeps: the print is within half a place of the
\* value, and of two values the greater one is never printed as the smaller.
LEMMA PrintedNear ==
  ASSUME NEW v \in Value
  PROVE  Printed(v) \in Int /\ v - 5 <= Printed(v) /\ Printed(v) <= v + 5
BY StorageAssumption DEF Printed

LEMMA PrintedMonotonic ==
  ASSUME NEW v \in Value, NEW w \in Value, v <= w
  PROVE  Printed(v) <= Printed(w)
BY StorageAssumption DEF Printed

LEMMA InitIInv == Init => IInv
<1>. SUFFICES ASSUME Init PROVE IInv
  OBVIOUS
<1>1. Scalars /\ Stage /\ HandlesExact
  BY StorageAssumption DEF Init, Scalars, Stage, HandlesExact, Left
<1>2. RowsSound /\ Contents
  BY DEF Init, RowsSound, Contents
<1>3. Table
  BY DEF Init, Table
<1>. QED
  BY <1>1, <1>2, <1>3 DEF IInv

\* Rows stay sound as long as no run is taken back and none is added.
LEMMA RowsStay ==
  ASSUME IInv, rows' \in {rows, <<>>}, run <= run', Scalars'
  PROVE  RowsSound'
<1>1. rows' \in Seq(RowSet)
  <2>1. rows \in Seq(RowSet) /\ <<>> \in Seq(RowSet)
    BY DEF IInv, RowsSound
  <2>. QED
    BY <2>1
<1>2. \A k \in DOMAIN rows :
        rows[k] \in RowSet /\ rows[k].value = Printed(rows[k].sent) /\ rows[k].run <= run
  BY DEF IInv, RowsSound
<1>3. \A k \in DOMAIN rows : rows[k].run <= run'
  BY <1>2, StorageAssumption DEF RowSet, IInv, Scalars
<1>. QED
  BY <1>1, <1>2, <1>3 DEF RowsSound

LEMMA NextIInv == IInv /\ [Next]_vars => IInv'
<1>. SUFFICES ASSUME IInv, [Next]_vars PROVE IInv'
  OBVIOUS
<1>. USE StorageAssumption
<1>a. Scalars /\ Table /\ RowsSound /\ Stage /\ Contents /\ HandlesExact
  BY DEF IInv
<1>b. \A k \in DOMAIN rows : rows[k].run \in Nat
  <2>1. \A k \in DOMAIN rows : rows[k] \in RowSet
    BY <1>a DEF RowsSound
  <2>. QED
    BY <2>1 DEF RowSet
<1>1. CASE Start
  <2>1. rows' \in {rows, <<>>} /\ (rows' = rows \/ pc = "drop")
    BY <1>1 DEF Start, tableVars
  <2>2. Scalars' /\ Stage' /\ run <= run'
    BY <1>1, <1>a DEF Start, Scalars, tableVars, Stage, HandlesExact, Left
  <2>3. RowsSound'
    BY <2>1, <2>2, RowsStay
  <2>4. Contents'
    BY <1>1, <1>a, <1>b DEF Start, Scalars, RowsSound, Stage, Contents, tableVars
  <2>5. HandlesExact'
    BY <1>1, <1>a DEF Start, Scalars, Stage, HandlesExact, Left, tableVars
  <2>6. Table'
    BY <1>1, <1>a DEF Start, Table, tableVars
  <2>. QED
    BY <2>2, <2>3, <2>4, <2>5, <2>6 DEF IInv
<1>2. CASE Open
  <2>1. rows' \in {rows, <<>>} /\ (rows' = rows \/ pc = "drop")
    BY <1>2 DEF Open, Failed, clear_up_flag, tableVars
  <2>2. Scalars' /\ Stage' /\ run <= run'
    BY <1>2, <1>a DEF Open, Failed, clear_up_flag, Scalars, tableVars, Stage, HandlesExact, Left
  <2>3. RowsSound'
    BY <2>1, <2>2, RowsStay
  <2>4. Contents'
    BY <1>2, <1>a, <1>b DEF Open, Failed, clear_up_flag, Scalars, RowsSound, Stage, Contents, tableVars
  <2>5. HandlesExact'
    BY <1>2, <1>a DEF Open, Failed, clear_up_flag, Scalars, Stage, HandlesExact, Left, tableVars
  <2>6. Table'
    BY <1>2, <1>a DEF Open, Failed, clear_up_flag, Table, tableVars
  <2>. QED
    BY <2>2, <2>3, <2>4, <2>5, <2>6 DEF IInv
<1>3. CASE DropTable
  <2>1. rows' \in {rows, <<>>} /\ (rows' = rows \/ pc = "drop")
    BY <1>3 DEF DropTable, Failed, tableVars
  <2>2. Scalars' /\ Stage' /\ run <= run'
    BY <1>3, <1>a DEF DropTable, Failed, Scalars, tableVars, Stage, HandlesExact, Left
  <2>3. RowsSound'
    BY <2>1, <2>2, RowsStay
  <2>4. Contents'
    BY <1>3, <1>a, <1>b DEF DropTable, Failed, Scalars, RowsSound, Stage, Contents, tableVars
  <2>5. HandlesExact'
    BY <1>3, <1>a DEF DropTable, Failed, Scalars, Stage, HandlesExact, Left, tableVars
  <2>6. Table'
    BY <1>3, <1>a DEF DropTable, Failed, Table, tableVars
  <2>. QED
    BY <2>2, <2>3, <2>4, <2>5, <2>6 DEF IInv
<1>4. CASE CreateTable
  <2>1. rows' \in {rows, <<>>} /\ (rows' = rows \/ pc = "drop")
    BY <1>4 DEF CreateTable, Failed, tableVars
  <2>2. Scalars' /\ Stage' /\ run <= run'
    BY <1>4, <1>a DEF CreateTable, Failed, Scalars, tableVars, Stage, HandlesExact, Left
  <2>3. RowsSound'
    BY <2>1, <2>2, RowsStay
  <2>4. Contents'
    BY <1>4, <1>a, <1>b DEF CreateTable, Failed, Scalars, RowsSound, Stage, Contents, tableVars
  <2>5. HandlesExact'
    BY <1>4, <1>a DEF CreateTable, Failed, Scalars, Stage, HandlesExact, Left, tableVars
  <2>6. Table'
    BY <1>4, <1>a DEF CreateTable, Failed, Table, tableVars
  <2>. QED
    BY <2>2, <2>3, <2>4, <2>5, <2>6 DEF IInv
<1>5. CASE EnsureTable
  <2>1. rows' \in {rows, <<>>} /\ (rows' = rows \/ pc = "drop")
    BY <1>5 DEF EnsureTable, Failed, tableVars
  <2>2. Scalars' /\ Stage' /\ run <= run'
    BY <1>5, <1>a DEF EnsureTable, Failed, Scalars, tableVars, Stage, HandlesExact, Left
  <2>3. RowsSound'
    BY <2>1, <2>2, RowsStay
  <2>4. Contents'
    BY <1>5, <1>a, <1>b DEF EnsureTable, Failed, Scalars, RowsSound, Stage, Contents, tableVars
  <2>5. HandlesExact'
    BY <1>5, <1>a DEF EnsureTable, Failed, Scalars, Stage, HandlesExact, Left, tableVars
  <2>6. Table'
    BY <1>5, <1>a DEF EnsureTable, Failed, Table, tableVars
  <2>. QED
    BY <2>2, <2>3, <2>4, <2>5, <2>6 DEF IInv
<1>6. CASE Insert
  <2>1. /\ pc = "connected" /\ polled < MaxReadings /\ polled' = polled + 1
        /\ UNCHANGED <<exists, run, pc, times, handles>>
    BY <1>6 DEF Insert
  <2>2. run \in 1..MaxRuns
    BY <2>1 DEF IInv, Scalars, Stage
  <2>3. /\ rows' \in Seq(RowSet)
        /\ \A k \in DOMAIN rows' :
             rows'[k].value = Printed(rows'[k].sent) /\ rows'[k].run <= run
        /\ times = 0 => \A k \in DOMAIN rows' : rows'[k].run = run
    <3>1. CASE UNCHANGED rows
      BY <3>1, <2>1 DEF IInv, RowsSound, Stage, Contents
    <3>2. ASSUME NEW v \in Value, NEW t \in Timestamp, rows' = Append(rows, Row(v, t))
          PROVE  <2>3!1 /\ <2>3!2 /\ <2>3!3
      <4>1. /\ Row(v, t) \in RowSet /\ Row(v, t).run = run
            /\ Row(v, t).value = Printed(Row(v, t).sent)
        BY <2>2, PrintedNear DEF Row, RowSet
      <4>2. rows \in Seq(RowSet)
        BY DEF IInv, RowsSound
      <4>. DEFINE r == Row(v, t)
      <4>3. /\ rows' \in Seq(RowSet) /\ DOMAIN rows' = 1..(Len(rows) + 1)
            /\ \A k \in 1..Len(rows) : k \in DOMAIN rows /\ rows'[k] = rows[k]
            /\ rows'[Len(rows) + 1] = r /\ Len(rows) \in Nat
        <5>. HIDE DEF r
        <5>. QED BY <3>2, <4>1, <4>2 DEF r
      <4>4. \A k \in DOMAIN rows' : rows'[k] = r \/ (k \in DOMAIN rows /\ rows'[k] = rows[k])
        BY <4>3
      <4>. HIDE DEF r
      <4>5. r.run = run /\ r.value = Printed(r.sent) /\ run <= run
        BY <4>1, <2>2 DEF r
      <4>. QED
        BY <4>3, <4>4, <4>5, <2>1 DEF IInv, RowsSound, Stage, Contents
    <3>. QED
      BY <1>6, <3>1, <3>2 DEF Insert
  <2>4. Scalars'
    BY <2>1 DEF IInv, Scalars
  <2>5. RowsSound'
    BY <2>1, <2>3 DEF RowsSound
  <2>6. Stage' /\ Contents'
    BY <2>1, <2>3 DEF IInv, Stage, Contents
  <2>7. HandlesExact'
    BY <2>1 DEF IInv, HandlesExact, Left
  <2>8. Table'
    BY <2>1 DEF IInv, Table
  <2>. QED
    BY <2>4, <2>5, <2>6, <2>7, <2>8 DEF IInv
<1>7. CASE disconnect
  <2>1. rows' \in {rows, <<>>} /\ (rows' = rows \/ pc = "drop")
    BY <1>7 DEF disconnect, tableVars
  <2>2. Scalars' /\ Stage' /\ run <= run'
    BY <1>7, <1>a DEF disconnect, Scalars, tableVars, Stage, HandlesExact, Left
  <2>3. RowsSound'
    BY <2>1, <2>2, RowsStay
  <2>4. Contents'
    BY <1>7, <1>a, <1>b DEF disconnect, Scalars, RowsSound, Stage, Contents, tableVars
  <2>5. HandlesExact'
    BY <1>7, <1>a DEF disconnect, Scalars, Stage, HandlesExact, Left, tableVars
  <2>6. Table'
    BY <1>7, <1>a DEF disconnect, Table, tableVars
  <2>. QED
    BY <2>2, <2>3, <2>4, <2>5, <2>6 DEF IInv
<1>8. CASE Exit \/ Kill
  <2>1. rows' \in {rows, <<>>} /\ (rows' = rows \/ pc = "drop")
    BY <1>8 DEF Exit, Kill, Down, tableVars
  <2>2. Scalars' /\ Stage' /\ run <= run'
    BY <1>8, <1>a DEF Exit, Kill, Down, Scalars, tableVars, Stage, HandlesExact, Left
  <2>3. RowsSound'
    BY <2>1, <2>2, RowsStay
  <2>4. Contents'
    BY <1>8, <1>a, <1>b DEF Exit, Kill, Down, Scalars, RowsSound, Stage, Contents, tableVars
  <2>5. HandlesExact'
    BY <1>8, <1>a DEF Exit, Kill, Down, Scalars, Stage, HandlesExact, Left, tableVars
  <2>6. Table'
    BY <1>8, <1>a DEF Exit, Kill, Down, Table, tableVars
  <2>. QED
    BY <2>2, <2>3, <2>4, <2>5, <2>6 DEF IInv
<1>9. CASE UNCHANGED vars
  <2>1. rows' \in {rows, <<>>} /\ (rows' = rows \/ pc = "drop")
    BY <1>9 DEF vars, tableVars
  <2>2. Scalars' /\ Stage' /\ run <= run'
    BY <1>9, <1>a DEF vars, Scalars, tableVars, Stage, HandlesExact, Left
  <2>3. RowsSound'
    BY <2>1, <2>2, RowsStay
  <2>4. Contents'
    BY <1>9, <1>a, <1>b DEF vars, Scalars, RowsSound, Stage, Contents, tableVars
  <2>5. HandlesExact'
    BY <1>9, <1>a DEF vars, Scalars, Stage, HandlesExact, Left, tableVars
  <2>6. Table'
    BY <1>9, <1>a DEF vars, Table, tableVars
  <2>. QED
    BY <2>2, <2>3, <2>4, <2>5, <2>6 DEF IInv
<1>. QED
  BY <1>1, <1>2, <1>3, <1>4, <1>5, <1>6, <1>7, <1>8, <1>9 DEF Next

\* The invariant has all of TypeOK.
LEMMA IInvTypeOK == IInv => TypeOK
BY DEF IInv, Scalars, Table, RowsSound, RowSet, TypeOK

(***************************************************************************)
(* What holds in every state and every step, however often the gateway is  *)
(* killed and started and whichever statements fail.                       *)
(***************************************************************************)

\* The invariant above is inductive.
THEOREM SpecIInv == Spec => []IInv
<1>. QED
  BY InitIInv, NextIInv, PTL DEF Spec

\* Every variable keeps its type.
THEOREM SpecTypeOK == Spec => []TypeOK
<1>. QED
  BY IInvTypeOK, SpecIInv, PTL

\* Once strmgr is connected the table is there, with rows of an earlier run only
\* if the first attempt of this run failed.
THEOREM SpecConnectedTable == Spec => []ConnectedTable
<1>1. IInv => ConnectedTable
  BY DEF IInv, Scalars, Stage, Table, Contents, ConnectedTable, Id
<1>. QED
  BY <1>1, SpecIInv, PTL

\* Failed attempts never hold more than three handles of the database.
THEOREM SpecHandlesBounded == Spec => []HandlesBounded
<1>1. IInv => HandlesBounded
  BY DEF IInv, Scalars, Stage, HandlesExact, Left, HandlesBounded
<1>. QED
  BY <1>1, SpecIInv, PTL

\* The queries find what insert_sensor wrote, rounded as it was: off by one
\* place at most, and never on the wrong side of the value that is asked for.
THEOREM SpecQueriesSound == Spec => []QueriesSound
<1>1. ASSUME IInv PROVE QueriesSound
  <2>1. \A k \in Id : /\ rows[k].sent \in Value /\ rows[k].ts \in Int
                      /\ rows[k].value = Printed(rows[k].sent)
    <3>1. \A k \in Id : rows[k] \in RowSet
      BY <1>1 DEF IInv, RowsSound, Id
    <3>. QED
      BY <1>1, <3>1, StorageAssumption DEF IInv, RowsSound, RowSet, Id
  <2>2. \A k \in Id : k \in find_sensor_by_value(rows[k].sent)
                        \cap find_sensor_by_timestamp(rows[k].ts)
    BY <2>1 DEF find_sensor_by_value, find_sensor_by_timestamp
  <2>3. ASSUME NEW v \in Value, NEW k \in Id
        PROVE  /\ k \in find_sensor_by_value(v) => v - 10 <= rows[k].sent /\ rows[k].sent <= v + 10
               /\ k \in find_sensor_exceed_value(v) => rows[k].sent > v
               /\ rows[k].sent > v + 10 => k \in find_sensor_exceed_value(v)
    <3>. DEFINE w == rows[k].sent
    <3>1. w \in Value /\ rows[k].value = Printed(w) /\ w \in Int /\ v \in Int
      BY <2>1, StorageAssumption
    <3>. HIDE DEF w
    <3>2. /\ Printed(v) \in Int /\ v - 5 <= Printed(v) /\ Printed(v) <= v + 5
          /\ Printed(w) \in Int /\ w - 5 <= Printed(w) /\ Printed(w) <= w + 5
      BY <3>1, PrintedNear
    <3>3. Printed(w) = Printed(v) => v - 10 <= w /\ w <= v + 10
      BY <3>1, <3>2
    <3>4. Printed(w) > Printed(v) => w > v
      BY <3>1, <3>2, PrintedMonotonic
    <3>5. w > v + 10 => Printed(w) > Printed(v)
      BY <3>1, <3>2
    <3>. QED
      BY <3>1, <3>3, <3>4, <3>5 DEF find_sensor_by_value, find_sensor_exceed_value, w
  <2>4. \A t \in Timestamp :
          find_sensor_after_timestamp(t) = find_sensor_all \ {k \in Id : rows[k].ts <= t}
    <3>1. ASSUME NEW t \in Timestamp, NEW k \in Id
          PROVE  rows[k].ts > t <=> ~(rows[k].ts <= t)
      BY <2>1, StorageAssumption
    <3>. QED
      BY <3>1 DEF find_sensor_after_timestamp, find_sensor_all
  <2>5. \A v \in Value : find_sensor_by_value(v) \subseteq Id /\ find_sensor_exceed_value(v) \subseteq Id
    BY DEF find_sensor_by_value, find_sensor_exceed_value
  <2>. QED
    BY <2>2, <2>3, <2>4, <2>5 DEF QueriesSound
<1>. QED
  BY <1>1, SpecIInv, PTL

\* Only the first attempt of a later run takes a row away.
THEOREM SpecRowsKept == Spec => RowsKept
<1>. DEFINE Kept == \A k \in Id :
                      \/ k \in DOMAIN rows' /\ rows'[k] = rows[k]
                      \/ pc = "drop" /\ times = 0 /\ rows[k].run < run
<1>1. ASSUME IInv, [Next]_vars PROVE [Kept]_vars
  <2>1. CASE UNCHANGED rows
    BY <2>1 DEF Id
  <2>2. CASE DropTable
    BY <1>1, <2>2 DEF DropTable, IInv, Stage, Contents, Id, tableVars
  <2>3. CASE Insert
    <3>1. ASSUME NEW v \in Value, NEW t \in Timestamp, rows' = Append(rows, Row(v, t))
          PROVE  Kept
      BY <1>1, <3>1 DEF IInv, RowsSound, Id
    <3>. QED
      BY <2>1, <2>3, <3>1 DEF Insert
  <2>. QED
    BY <1>1, <2>1, <2>2, <2>3
       DEF Next, vars, tableVars, Start, Open, CreateTable, EnsureTable, disconnect, Exit, Kill, Down
<1>. QED
  BY <1>1, SpecIInv, PTL DEF Spec, RowsKept
=============================================================================
