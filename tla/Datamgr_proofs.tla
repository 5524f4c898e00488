--------------------------- MODULE Datamgr_proofs ---------------------------
(***************************************************************************)
(* The list of sensors that datamgr_read_room_file builds is right for a   *)
(* map file of any length, and the windows, averages and verdicts of       *)
(* datamgr_parse_sensor_files for any values, in a window of any length.   *)
(***************************************************************************)
EXTENDS Datamgr, Iteration, SequenceTheorems, FiniteSetTheorems, TLAPS

(***************************************************************************)
(* Lemmas about the list.                                                  *)
(***************************************************************************)

\* An element that is somewhere in a sequence is somewhere first.
LEMMA FirstExists ==
  ASSUME NEW s \in Seq(Sensor), NEW x, \E k \in DOMAIN s : s[k] = x
  PROVE  \E k \in DOMAIN s : s[k] = x /\ \A j \in 1..(k - 1) : s[j] # x
<1>. DEFINE S == {k \in DOMAIN s : s[k] = x}
<1>1. S \in SUBSET Nat /\ S # {} /\ DOMAIN s = 1..Len(s) /\ Len(s) \in Nat
  BY LenProperties
<1>2. PICK k \in S : \A j \in S : k <= j
  <2>. HIDE DEF S
  <2>. QED
    BY <1>1, LeastNumber
<1>3. k \in DOMAIN s /\ s[k] = x
  OBVIOUS
<1>4. ASSUME NEW j \in 1..(k - 1) PROVE s[j] # x
  <2>1. j \in DOMAIN s /\ ~(k <= j)
    BY <1>1, <1>3
  <2>. QED
    BY <1>2, <2>1
<1>. QED
  BY <1>3, <1>4

\* IndexOf finds a sensor if and only if it is on the list.
LEMMA IndexOfFinds ==
  ASSUME NEW s \in Seq(Sensor), NEW x
  PROVE  List!IndexOf(s, x) # -1 <=> \E k \in DOMAIN s : s[k] = x
<1>1. CASE ~ \E k \in DOMAIN s : s[k] = x
  BY <1>1 DEF List!IndexOf
<1>2. CASE \E k \in DOMAIN s : s[k] = x
  <2>. DEFINE First(k) == s[k] = x /\ \A j \in 1..(k - 1) : s[j] # x
              f == CHOOSE k \in DOMAIN s : First(k)
  <2>1. \E k \in DOMAIN s : First(k)
    BY <1>2, FirstExists
  <2>2. f \in DOMAIN s
    <3>. HIDE DEF First
    <3>. QED
      BY <2>1
  <2>3. f \in Nat \ {0}
    <3>1. DOMAIN s = 1..Len(s)
      BY LenProperties
    <3>. HIDE DEF f
    <3>. QED
      BY <2>2, <3>1
  <2>4. List!IndexOf(s, x) = f - 1
    BY <1>2 DEF List!IndexOf
  <2>. HIDE DEF f
  <2>. QED
    BY <1>2, <2>3, <2>4
<1>. QED
  BY <1>1, <1>2

\* An insertion at index 0 puts the element in front.
LEMMA InsertedInFront ==
  ASSUME NEW s \in Seq(Sensor), NEW x \in Sensor
  PROVE  /\ List!Inserted(s, x, 0) \in Seq(Sensor)
         /\ Len(List!Inserted(s, x, 0)) = Len(s) + 1
         /\ List!Inserted(s, x, 0)[1] = x
         /\ \A k \in 1..Len(s) : List!Inserted(s, x, 0)[k + 1] = s[k]
<1>1. Len(s) \in Nat
  BY LenProperties
<1>2. (IF 0 < Len(s) THEN List!Clamp(s, 0) ELSE Len(s) + 1) = 1
  BY <1>1 DEF List!Clamp
<1>3. List!Inserted(s, x, 0) = SubSeq(s, 1, 0) \o <<x>> \o SubSeq(s, 1, Len(s))
  BY <1>2 DEF List!Inserted, List!InsertAt
<1>4. SubSeq(s, 1, 0) = <<>> /\ SubSeq(s, 1, Len(s)) = s
  BY <1>1, SubSeqEmpty, SubSeqFull
<1>5. <<x>> \in Seq(Sensor) /\ Len(<<x>>) = 1 /\ <<x>>[1] = x
  <2>1. <<x>> \in Seq(Sensor)
    OBVIOUS
  <2>2. Len(<<x>>) = 1 /\ <<x>>[1] = x
    OBVIOUS
  <2>. QED
    BY <2>1, <2>2
<1>6. List!Inserted(s, x, 0) = <<x>> \o s
  BY <1>3, <1>4, <1>5, ConcatEmptySeq
<1>. DEFINE t == <<x>> \o s
<1>7. /\ t \in Seq(Sensor) /\ Len(t) = 1 + Len(s)
      /\ \A k \in 1..(1 + Len(s)) : t[k] = IF k <= 1 THEN <<x>>[k] ELSE s[k - 1]
  BY <1>5, ConcatProperties
<1>. HIDE DEF t
<1>8. t[1] = x
  BY <1>1, <1>5, <1>7
<1>9. \A k \in 1..Len(s) : t[k + 1] = s[k]
  BY <1>1, <1>7
<1>10. List!Inserted(s, x, 0) = t
  BY <1>6 DEF t
<1>11. Len(t) = Len(s) + 1
  BY <1>1, <1>7
<1>. QED
  BY <1>7, <1>8, <1>9, <1>10, <1>11

(***************************************************************************)
(* The inductive invariant: while the map file is read, and after, until   *)
(* the list is freed.                                                      *)
(***************************************************************************)
Types ==
  /\ file \in Seq(Room \X Sensor)
  /\ list \in Seq(Sensor)
  /\ phase = "freed" => list = <<>>
  /\ room \in [Sensor -> Room]
  /\ IsFiniteSet(Known)

IInv == Types /\ FirstLineWins

LEMMA InitIInv == Init => IInv
<1>. SUFFICES ASSUME Init PROVE IInv
  OBVIOUS
<1>1. Known = {} /\ {file[k][2] : k \in DOMAIN file} = {} /\ Len(list) = 0
  BY DEF Init, Known
<1>2. Types
  <2>. DEFINE any == CHOOSE r \in Room : TRUE
  <2>1. any \in Room
    BY DatamgrAssumption
  <2>2. room = [s \in Sensor |-> any]
    BY DEF Init
  <2>. HIDE DEF any
  <2>3. room \in [Sensor -> Room]
    BY <2>1, <2>2
  <2>. QED
    BY <1>1, <2>3, FS_EmptySet DEF Init, Types
<1>3. FirstLineWins
  BY <1>1, FS_EmptySet DEF Init, FirstLineWins
<1>. QED
  BY <1>2, <1>3 DEF IInv

\* A line of the map file, whether its sensor is new or not.
LEMMA ReadLineIInv ==
  ASSUME IInv, NEW r \in Room, NEW s \in Sensor, ReadLine(r, s)
  PROVE  IInv'
<1>. DEFINE Named == {file[k][2] : k \in DOMAIN file}
<1>1. /\ Known = Named /\ Cardinality(Known) = Len(list)
      /\ \A k \in DOMAIN file :
           (\A j \in 1..(k - 1) : file[j][2] # file[k][2]) => room[file[k][2]] = file[k][1]
  BY DEF IInv, FirstLineWins, ReadLine
<1>2. /\ file \in Seq(Room \X Sensor) /\ list \in Seq(Sensor)
      /\ room \in [Sensor -> Room] /\ DOMAIN room = Sensor /\ IsFiniteSet(Known)
  BY DEF IInv, Types
<1>3. /\ file' \in Seq(Room \X Sensor)
      /\ Len(file) \in Nat /\ DOMAIN file = 1..Len(file)
      /\ Len(file') = Len(file) + 1 /\ DOMAIN file' = 1..(Len(file) + 1)
      /\ \A k \in DOMAIN file : file'[k] = file[k]
      /\ file'[Len(file) + 1] = <<r, s>>
  BY <1>2, AppendProperties, LenProperties DEF ReadLine
<1>4. {file'[k][2] : k \in DOMAIN file'} = Named \cup {s}
  BY <1>3
<1>5. List!IndexOf(list, s) # -1 <=> s \in Known
  BY <1>2, IndexOfFinds DEF Known
<1>6. /\ list' \in Seq(Sensor) /\ Known' = Known \cup {s}
      /\ Len(list') = IF s \in Known THEN Len(list) ELSE Len(list) + 1
  <2>1. CASE s \in Known
    BY <1>2, <1>5, <2>1 DEF ReadLine, Known
  <2>2. CASE s \notin Known
    <3>1. list' = List!Inserted(list, s, 0)
      BY <1>5, <2>2 DEF ReadLine
    <3>2. /\ list' \in Seq(Sensor) /\ Len(list') = Len(list) + 1 /\ list'[1] = s
          /\ \A k \in 1..Len(list) : list'[k + 1] = list[k]
      BY <1>2, <3>1, InsertedInFront
    <3>3. /\ Len(list) \in Nat /\ DOMAIN list = 1..Len(list)
          /\ DOMAIN list' = 1..(Len(list) + 1)
      BY <1>2, <3>2, LenProperties
    <3>4. ASSUME NEW x \in Known' PROVE x \in Known \cup {s}
      <4>1. PICK k \in DOMAIN list' : x = list'[k]
        BY DEF Known
      <4>2. k = 1 \/ (k - 1 \in 1..Len(list) /\ list'[k] = list[k - 1])
        BY <3>2, <3>3
      <4>. QED
        BY <3>2, <3>3, <4>1, <4>2 DEF Known
    <3>5. ASSUME NEW x \in Known \cup {s} PROVE x \in Known'
      <4>1. CASE x = s
        <5>1. 1 \in DOMAIN list'
          BY <3>3
        <5>. QED
          BY <3>2, <4>1, <5>1 DEF Known
      <4>2. CASE x \in Known
        <5>1. PICK k \in DOMAIN list : x = list[k]
          BY <4>2 DEF Known
        <5>2. k + 1 \in DOMAIN list' /\ list'[k + 1] = x
          BY <3>2, <3>3, <5>1
        <5>. QED
          BY <5>2 DEF Known
      <4>. QED
        BY <4>1, <4>2
    <3>. QED
      BY <2>2, <3>2, <3>4, <3>5
  <2>. QED
    BY <2>1, <2>2
<1>7. IsFiniteSet(Known') /\ Cardinality(Known') = Len(list')
  <2>. DEFINE K == Known
  <2>1. IsFiniteSet(K) /\ Cardinality(K) = Len(list) /\ Known' = K \cup {s}
    BY <1>1, <1>2, <1>6
  <2>2. s \in K <=> s \in Known
    OBVIOUS
  <2>. HIDE DEF K
  <2>3. /\ IsFiniteSet(K \cup {s})
        /\ Cardinality(K \cup {s}) = IF s \in K THEN Cardinality(K) ELSE Cardinality(K) + 1
    BY <2>1, FS_AddElement
  <2>. QED
    BY <1>6, <2>1, <2>2, <2>3
<1>8. room' \in [Sensor -> Room] /\ phase' # "freed"
  BY <1>2 DEF ReadLine
<1>9. ASSUME NEW k \in DOMAIN file', \A j \in 1..(k - 1) : file'[j][2] # file'[k][2]
      PROVE  room'[file'[k][2]] = file'[k][1]
  <2>1. CASE k \in DOMAIN file
    <3>1. \A j \in 1..(k - 1) : j \in DOMAIN file
      BY <1>3, <2>1
    <3>2. room[file[k][2]] = file[k][1]
      BY <1>1, <1>3, <1>9, <2>1, <3>1
    <3>3. file[k][2] \in Known
      BY <1>1, <2>1
    <3>4. room'[file[k][2]] = room[file[k][2]]
      <4>1. CASE s \in Known
        BY <1>5, <4>1 DEF ReadLine
      <4>2. CASE s \notin Known
        <5>1. room' = [room EXCEPT ![s] = r]
          BY <1>5, <4>2 DEF ReadLine
        <5>2. file[k][2] # s
          BY <3>3, <4>2
        <5>. QED
          BY <5>1, <5>2
      <4>. QED
        BY <4>1, <4>2
    <3>. QED
      BY <1>3, <2>1, <3>2, <3>4
  <2>2. CASE k = Len(file) + 1
    <3>1. s \notin Named
      BY <1>3, <1>9, <2>2
    <3>2. room' = [room EXCEPT ![s] = r]
      BY <1>1, <1>5, <3>1 DEF ReadLine
    <3>. QED
      BY <1>2, <1>3, <2>2, <3>2
  <2>. QED
    BY <1>3, <2>1, <2>2
<1>10. Types'
  BY <1>3, <1>6, <1>7, <1>8 DEF Types
<1>11. FirstLineWins'
  BY <1>1, <1>4, <1>6, <1>7, <1>9 DEF FirstLineWins
<1>. QED
  BY <1>10, <1>11 DEF IInv

\* What leaves file, list and rooms alone.
LEMMA KeptIInv ==
  ASSUME IInv, UNCHANGED <<file, list, room>>, phase' = "freed" <=> phase = "freed"
  PROVE  IInv'
BY DEF IInv, Types, FirstLineWins, Known

LEMMA NextIInv == IInv /\ [Next]_vars => IInv'
<1>. SUFFICES ASSUME IInv, [Next]_vars PROVE IInv'
  OBVIOUS
<1>1. ASSUME NEW r \in Room, NEW s \in Sensor, ReadLine(r, s) PROVE IInv'
  BY <1>1, ReadLineIInv
<1>2. CASE EndOfMap
  BY <1>2, KeptIInv DEF EndOfMap
<1>3. ASSUME NEW s \in Sensor, NEW v \in Value, Unknown(s, v) \/ Parse(s, v) PROVE IInv'
  BY <1>3, KeptIInv DEF Unknown, Parse
<1>4. CASE Free
  <2>1. Known' = {} /\ list' \in Seq(Sensor) /\ list' = <<>>
    BY <1>4 DEF Free, Known
  <2>2. Types'
    BY <1>4, <2>1, FS_EmptySet DEF IInv, Types, Free
  <2>3. FirstLineWins'
    BY <1>4 DEF Free, FirstLineWins
  <2>. QED
    BY <2>2, <2>3 DEF IInv
<1>5. CASE UNCHANGED vars
  BY <1>5, KeptIInv DEF vars
<1>. QED
  BY <1>1, <1>2, <1>3, <1>4, <1>5 DEF Next

(***************************************************************************)
(* The average, which getAverage computes in a loop over the slots.        *)
(***************************************************************************)
Sums(d, sum) ==
  /\ sum \in [0..RUN_AVG_LENGTH -> Int]
  /\ sum[0] = 0 /\ \A k \in Slot : sum[k] = sum[k - 1] + d[k]

LEMMA TotalIs ==
  ASSUME NEW d \in [Slot -> Int]
  PROVE  \E sum : Sums(d, sum) /\ Total(d) = sum[RUN_AVG_LENGTH]
<1>. DEFINE L == RUN_AVG_LENGTH
            step == [k \in Nat |-> [x \in Int |-> IF k + 1 \in Slot THEN x + d[k + 1] ELSE x]]
            sum[k \in 0..RUN_AVG_LENGTH] == IF k = 0 THEN 0 ELSE sum[k - 1] + d[k]
<1>1. L \in Nat \ {0} /\ Slot = 1..L
  BY DatamgrAssumption DEF Slot
<1>2. step \in [Nat -> [Int -> Int]]
  OBVIOUS
<1>. HIDE DEF step, L
<1>3. PICK w \in [0..L -> Int] : Iterates(w, 0, step, L)
  BY <1>1, <1>2, 0 \in Int, IteratesExist
<1>4. ASSUME NEW k \in 1..L PROVE w[k] = w[k - 1] + d[k]
  <2>1. k - 1 \in 0..(L - 1) /\ k - 1 \in Nat /\ k - 1 + 1 = k /\ k - 1 \in 0..L
    BY <1>1
  <2>2. w[k] = step[k - 1][w[k - 1]]
    BY <1>3, <2>1 DEF Iterates
  <2>. QED
    BY <1>1, <2>1, <2>2 DEF step
<1>5. w[0] = 0
  BY <1>3 DEF Iterates
<1>6. w = [k \in 0..L |-> IF k = 0 THEN 0 ELSE w[k - 1] + d[k]]
  <2>1. \A k \in 0..L : k # 0 => k \in 1..L
    BY <1>1
  <2>. QED
    BY <1>4, <1>5, <2>1
<1>7. sum = [k \in 0..L |-> IF k = 0 THEN 0 ELSE sum[k - 1] + d[k]]
  BY <1>6, Zenon DEF L
<1>8. Total(d) = sum[L]
  BY Zenon DEF Total, L
<1>. HIDE DEF sum
<1>9. ASSUME NEW k \in 0..L PROVE sum[k] = w[k]
  <2>. DEFINE S == {j \in Nat : j \in 0..L => sum[j] = w[j]}
  <2>1. 0 \in S
    BY <1>1, <1>5, <1>7
  <2>2. ASSUME NEW j \in Nat, j \in S PROVE j + 1 \in S
    <3>. SUFFICES ASSUME j + 1 \in 0..L PROVE sum[j + 1] = w[j + 1]
      OBVIOUS
    <3>1. j \in 0..L /\ j + 1 \in 1..L /\ j + 1 - 1 = j /\ j + 1 # 0
      BY <1>1
    <3>2. sum[j + 1] = sum[j] + d[j + 1]
      BY <1>7, <3>1
    <3>. QED
      BY <1>4, <2>2, <3>1, <3>2
  <2>. HIDE DEF S
  <2>3. Nat \subseteq S
    BY <2>1, <2>2, Induction
  <2>. QED
    BY <1>1, <2>3 DEF S
<1>10. Total(d) = w[L]
  <2>1. L \in 0..L
    BY <1>1
  <2>. QED
    BY <1>8, <1>9, <2>1
<1>11. Sums(d, w)
  BY <1>1, <1>3, <1>4, <1>5 DEF Sums, L
<1>. QED
  BY <1>10, <1>11 DEF L

\* How many slots up to k do not hold 0.
Count(d, k) == Cardinality({j \in 1..k : d[j] # 0})

LEMMA CountIs ==
  ASSUME NEW d, NEW k \in Nat
  PROVE  /\ Count(d, k) \in 0..k
         /\ Count(d, 0) = 0
         /\ Count(d, k + 1) = IF d[k + 1] # 0 THEN Count(d, k) + 1 ELSE Count(d, k)
<1>. DEFINE N(n) == {j \in 1..n : d[j] # 0}
<1>1. IsFiniteSet(1..k) /\ Cardinality(1..k) = k
  BY FS_Interval
<1>2. IsFiniteSet(N(k)) /\ Cardinality(N(k)) \in Nat /\ Cardinality(N(k)) <= k
  BY <1>1, FS_Subset, FS_CardinalityType
<1>3. N(0) = {}
  OBVIOUS
<1>4. N(k + 1) = (IF d[k + 1] # 0 THEN N(k) \cup {k + 1} ELSE N(k)) /\ k + 1 \notin N(k)
  OBVIOUS
<1>. HIDE DEF N
<1>5. Cardinality(N(k) \cup {k + 1}) = Cardinality(N(k)) + 1
  BY <1>2, <1>4, FS_AddElement
<1>6. Cardinality(N(0)) = 0
  BY <1>3, FS_EmptySet
<1>. QED
  BY <1>2, <1>4, <1>5, <1>6 DEF Count, N

\* The sum of values that are at most b is at most b times their number, and
\* the same the other way round.
LEMMA SumBounds ==
  ASSUME NEW d \in [Slot -> Int], NEW b \in Int
  PROVE  /\ (\A k \in Slot : d[k] # 0 => d[k] <= b) => Total(d) <= b * Count(d, RUN_AVG_LENGTH)
         /\ (\A k \in Slot : d[k] # 0 => d[k] >= b) => Total(d) >= b * Count(d, RUN_AVG_LENGTH)
<1>. DEFINE L == RUN_AVG_LENGTH
            Small == \A k \in Slot : d[k] # 0 => d[k] <= b
            Large == \A k \in Slot : d[k] # 0 => d[k] >= b
<1>1. L \in Nat \ {0} /\ Slot = 1..L
  BY DatamgrAssumption DEF Slot
<1>2. PICK sum : Sums(d, sum) /\ Total(d) = sum[L]
  BY TotalIs
<1>. DEFINE S == {k \in Nat : k \in 0..L => /\ Small => sum[k] <= b * Count(d, k)
                                            /\ Large => sum[k] >= b * Count(d, k)}
<1>3. 0 \in S
  BY <1>2, CountIs DEF Sums
<1>4. ASSUME NEW k \in Nat, k \in S PROVE k + 1 \in S
  <2>. SUFFICES ASSUME k + 1 \in 0..L
                PROVE  /\ Small => sum[k + 1] <= b * Count(d, k + 1)
                       /\ Large => sum[k + 1] >= b * Count(d, k + 1)
    OBVIOUS
  <2>1. k \in 0..L /\ k + 1 \in Slot /\ k + 1 - 1 = k
    BY <1>1
  <2>2. sum[k + 1] = sum[k] + d[k + 1] /\ sum[k] \in Int /\ d[k + 1] \in Int
    BY <1>2, <2>1 DEF Sums
  <2>3. /\ Small => sum[k] <= b * Count(d, k)
        /\ Large => sum[k] >= b * Count(d, k)
    BY <1>4, <2>1
  <2>4. /\ Small => (d[k + 1] # 0 => d[k + 1] <= b)
        /\ Large => (d[k + 1] # 0 => d[k + 1] >= b)
    BY <2>1
  <2>. HIDE DEF Small, Large
  <2>. DEFINE c == Count(d, k)
              c1 == Count(d, k + 1)
  <2>5. c \in Nat /\ c1 = IF d[k + 1] # 0 THEN c + 1 ELSE c
    BY CountIs
  <2>6. b * (c + 1) = b * c + b
    <3>. HIDE DEF c
    <3>. QED
      BY <2>5
  <2>7. b * c \in Int
    BY <2>5
  <2>. DEFINE bc == b * c
  <2>8. b * c1 = IF d[k + 1] # 0 THEN bc + b ELSE bc
    BY <2>5, <2>6, Zenon
  <2>9. bc \in Int
    BY <2>7
  <2>10. /\ Small => sum[k] <= bc
         /\ Large => sum[k] >= bc
    BY <2>3
  <2>. DEFINE bc1 == b * c1
  <2>11. bc1 = IF d[k + 1] # 0 THEN bc + b ELSE bc
    BY <2>8
  <2>. HIDE DEF bc, bc1
  <2>12. /\ Small => sum[k + 1] <= bc1
         /\ Large => sum[k + 1] >= bc1
    BY <2>2, <2>4, <2>9, <2>10, <2>11
  <2>. QED
    BY <2>12 DEF bc1
<1>. HIDE DEF S
<1>5. Nat \subseteq S
  BY <1>3, <1>4, Induction
<1>6. L \in 0..L
  BY <1>1
<1>. QED
  BY <1>1, <1>2, <1>5, <1>6 DEF S

\* getAverage: an integer total and a count of slots.
LEMMA AverageIs ==
  ASSUME NEW d \in [Slot -> Int]
  PROVE  /\ getAverage(d) = <<Total(d), Count(d, RUN_AVG_LENGTH)>>
         /\ Total(d) \in Int /\ Count(d, RUN_AVG_LENGTH) \in 0..RUN_AVG_LENGTH
<1>1. RUN_AVG_LENGTH \in Nat
  BY DatamgrAssumption
<1>2. PICK sum : Sums(d, sum) /\ Total(d) = sum[RUN_AVG_LENGTH]
  BY TotalIs
<1>3. Total(d) \in Int
  BY <1>1, <1>2 DEF Sums
<1>4. Count(d, RUN_AVG_LENGTH) \in 0..RUN_AVG_LENGTH
  BY <1>1, CountIs
<1>. QED
  BY <1>3, <1>4, Zenon DEF getAverage, Count, Slot

\* A verdict on an average has its cause in the values.
LEMMA VerdictIs ==
  ASSUME NEW d \in [Slot -> Int]
  PROVE  LET recent == {d[k] : k \in Slot} \ {0}
             verdict == Verdict(getAverage(d))
         IN  /\ verdict = "hot"  => \E v \in recent : v >= SET_MAX_TEMP
             /\ verdict = "cold" => \E v \in recent : v <= SET_MIN_TEMP
             /\ recent # {} /\ (\A v \in recent : v >= SET_MAX_TEMP) => verdict = "hot"
<1>. DEFINE recent == {d[k] : k \in Slot} \ {0}
            verdict == Verdict(getAverage(d))
            total == Total(d)
            count == Count(d, RUN_AVG_LENGTH)
<1>1. /\ SET_MAX_TEMP \in Int /\ SET_MIN_TEMP \in Int
      /\ SET_MAX_TEMP - 1 \in Int /\ SET_MIN_TEMP + 1 \in Int
  BY DatamgrAssumption
<1>2. getAverage(d) = <<total, count>> /\ total \in Int /\ count \in Nat
  BY AverageIs, DatamgrAssumption
<1>3. verdict = CASE count > 0 /\ total >= SET_MAX_TEMP * count -> "hot"
                  [] count > 0 /\ total < SET_MAX_TEMP * count
                               /\ total <= SET_MIN_TEMP * count -> "cold"
                  [] OTHER -> "nothing"
  <2>. DEFINE a == getAverage(d)
  <2>1. a = <<total, count>>
    BY <1>2
  <2>. HIDE DEF a, total, count
  <2>2. a[1] = total /\ a[2] = count
    BY <2>1
  <2>3. Verdict(a) = CASE count > 0 /\ total >= SET_MAX_TEMP * count -> "hot"
                       [] count > 0 /\ total < SET_MAX_TEMP * count
                                    /\ total <= SET_MIN_TEMP * count -> "cold"
                       [] OTHER -> "nothing"
    BY <2>2, Zenon DEF Verdict
  <2>. QED
    BY <2>3 DEF a
<1>4. /\ (SET_MAX_TEMP - 1) * count = SET_MAX_TEMP * count - count
      /\ (SET_MIN_TEMP + 1) * count = SET_MIN_TEMP * count + count
      /\ SET_MAX_TEMP * count \in Int /\ SET_MIN_TEMP * count \in Int
  <2>. HIDE DEF count
  <2>. QED
    BY <1>1, <1>2
<1>. DEFINE hot == SET_MAX_TEMP * count
            cold == SET_MIN_TEMP * count
<1>. DEFINE HotSeen  == \E v \in recent : v >= SET_MAX_TEMP
            ColdSeen == \E v \in recent : v <= SET_MIN_TEMP
            AllHot   == recent # {} /\ \A v \in recent : v >= SET_MAX_TEMP
<1>5. ASSUME ~HotSeen PROVE total <= hot - count
  <2>1. \A k \in Slot : d[k] # 0 => d[k] <= SET_MAX_TEMP - 1
    BY <1>1, <1>5
  <2>2. total <= (SET_MAX_TEMP - 1) * count
    BY <1>1, <2>1, SumBounds
  <2>. QED
    BY <1>4, <2>2
<1>6. ASSUME ~ColdSeen PROVE total >= cold + count
  <2>1. \A k \in Slot : d[k] # 0 => d[k] >= SET_MIN_TEMP + 1
    BY <1>1, <1>6
  <2>2. total >= (SET_MIN_TEMP + 1) * count
    BY <1>1, <2>1, SumBounds
  <2>. QED
    BY <1>4, <2>2
<1>7. ASSUME AllHot PROVE total >= hot
  <2>1. \A k \in Slot : d[k] # 0 => d[k] >= SET_MAX_TEMP
    BY <1>7
  <2>. QED
    BY <1>1, <2>1, SumBounds
<1>8. ASSUME AllHot PROVE count > 0
  <2>1. PICK k \in Slot : d[k] # 0
    BY <1>8
  <2>. DEFINE N == {j \in 1..RUN_AVG_LENGTH : d[j] # 0}
  <2>2. IsFiniteSet(1..RUN_AVG_LENGTH)
    BY FS_Interval, DatamgrAssumption
  <2>3. IsFiniteSet(N)
    BY <2>2, FS_Subset
  <2>4. N # {}
    BY <2>1 DEF Slot
  <2>5. Cardinality(N) # 0
    BY <2>3, <2>4, FS_EmptySet
  <2>. QED
    BY <1>2, <2>5 DEF Count
<1>9. hot \in Int /\ cold \in Int
  BY <1>4
<1>10. verdict = CASE count > 0 /\ total >= hot -> "hot"
                   [] count > 0 /\ total < hot /\ total <= cold -> "cold"
                   [] OTHER -> "nothing"
  BY <1>3
<1>11. total \in Int /\ count \in Nat
  BY <1>2
<1>. HIDE DEF recent, verdict, total, count, hot, cold, HotSeen, ColdSeen, AllHot
<1>12. verdict = "hot" => count > 0 /\ total >= hot
  BY <1>10
<1>13. verdict = "cold" => count > 0 /\ total <= cold
  BY <1>10
<1>14. verdict = "hot" => HotSeen
  BY <1>5, <1>9, <1>11, <1>12
<1>15. verdict = "cold" => ColdSeen
  BY <1>6, <1>9, <1>11, <1>13
<1>16. AllHot => verdict = "hot"
  BY <1>7, <1>8, <1>9, <1>10, <1>11
<1>. QED
  BY <1>14, <1>15, <1>16 DEF recent, verdict, HotSeen, ColdSeen, AllHot

(***************************************************************************)
(* The values other than 0 of a sequence, which WindowIsRecent speaks of.  *)
(***************************************************************************)
Keeps(seq, kept) ==
  /\ kept \in [0..Len(seq) -> Seq(Int)]
  /\ kept[0] = <<>>
  /\ \A k \in 1..Len(seq) :
       kept[k] = IF seq[k] # 0 THEN Append(kept[k - 1], seq[k]) ELSE kept[k - 1]

LEMMA NonZeroIs ==
  ASSUME NEW seq \in Seq(Int)
  PROVE  \E w : Keeps(seq, w) /\ NonZero(seq) = w[Len(seq)]
<1>. DEFINE N == Len(seq)
            step == [k \in Nat |-> [x \in Seq(Int) |->
                      IF k + 1 \in 1..N /\ seq[k + 1] # 0 THEN Append(x, seq[k + 1]) ELSE x]]
            kept[k \in 0..Len(seq)] ==
              IF k = 0 THEN <<>>
              ELSE IF seq[k] # 0 THEN Append(kept[k - 1], seq[k]) ELSE kept[k - 1]
<1>1. N \in Nat /\ \A k \in 1..N : seq[k] \in Int
  BY LenProperties
<1>2. step \in [Nat -> [Seq(Int) -> Seq(Int)]]
  <2>1. ASSUME NEW k \in Nat, NEW x \in Seq(Int), k + 1 \in 1..N
        PROVE  Append(x, seq[k + 1]) \in Seq(Int)
    BY <1>1, <2>1, AppendProperties
  <2>. QED
    BY <2>1
<1>3. <<>> \in Seq(Int)
  BY EmptySeq
<1>. HIDE DEF step, N
<1>4. PICK w \in [0..N -> Seq(Int)] : Iterates(w, <<>>, step, N)
  BY <1>1, <1>2, <1>3, IteratesExist
<1>5. w[0] = <<>>
  BY <1>4 DEF Iterates
<1>6. ASSUME NEW k \in 1..N
      PROVE  w[k] = IF seq[k] # 0 THEN Append(w[k - 1], seq[k]) ELSE w[k - 1]
  <2>1. k - 1 \in 0..(N - 1) /\ k - 1 \in Nat /\ k - 1 + 1 = k /\ k - 1 \in 0..N
    BY <1>1
  <2>2. w[k] = step[k - 1][w[k - 1]]
    BY <1>4, <2>1 DEF Iterates
  <2>3. w[k - 1] \in Seq(Int)
    BY <2>1
  <2>. QED
    BY <2>1, <2>2, <2>3 DEF step
<1>7. w = [k \in 0..N |-> IF k = 0 THEN <<>>
                          ELSE IF seq[k] # 0 THEN Append(w[k - 1], seq[k]) ELSE w[k - 1]]
  <2>1. \A k \in 0..N : k # 0 => k \in 1..N
    BY <1>1
  <2>. QED
    BY <1>5, <1>6, <2>1, Zenon
<1>8. kept = [k \in 0..N |-> IF k = 0 THEN <<>>
                             ELSE IF seq[k] # 0 THEN Append(kept[k - 1], seq[k]) ELSE kept[k - 1]]
  BY <1>7, Zenon DEF N
<1>9. NonZero(seq) = kept[N]
  BY Zenon DEF NonZero, N
<1>. HIDE DEF kept
<1>10. kept[0] = <<>> /\ \A k \in 1..N : kept[k] = IF seq[k] # 0 THEN Append(kept[k - 1], seq[k]) ELSE kept[k - 1]
  <2>1. 0 \in 0..N /\ \A k \in 1..N : k \in 0..N /\ k # 0
    BY <1>1
  <2>. QED
    BY <1>8, <2>1
<1>. DEFINE S == {k \in Nat : k \in 0..N => kept[k] = w[k]}
<1>11. 0 \in S
  BY <1>5, <1>10
<1>12. ASSUME NEW k \in Nat, k \in S PROVE k + 1 \in S
  <2>. SUFFICES ASSUME k + 1 \in 0..N PROVE kept[k + 1] = w[k + 1]
    OBVIOUS
  <2>1. k \in 0..N /\ k + 1 \in 1..N /\ k + 1 - 1 = k
    BY <1>1
  <2>2. kept[k] = w[k]
    BY <1>12, <2>1
  <2>3. kept[k + 1] = IF seq[k + 1] # 0 THEN Append(kept[k + 1 - 1], seq[k + 1]) ELSE kept[k + 1 - 1]
    BY <1>10, <2>1
  <2>4. w[k + 1] = IF seq[k + 1] # 0 THEN Append(w[k + 1 - 1], seq[k + 1]) ELSE w[k + 1 - 1]
    BY <1>6, <2>1
  <2>. QED
    BY <2>1, <2>2, <2>3, <2>4
<1>. HIDE DEF S
<1>13. Nat \subseteq S
  BY <1>11, <1>12, Induction
<1>14. NonZero(seq) = w[N]
  <2>1. N \in 0..N
    BY <1>1
  <2>. QED
    BY <1>1, <1>9, <1>13, <2>1 DEF S
<1>15. Keeps(seq, w)
  BY <1>4, <1>5, <1>6 DEF Keeps, N
<1>. QED
  BY <1>14, <1>15 DEF N

\* What is kept of a sequence depends on its elements so far.
LEMMA KeepsAgree ==
  ASSUME NEW r \in Seq(Int), NEW s \in Seq(Int), NEW v, NEW w, Keeps(r, v), Keeps(s, w),
         NEW n \in Nat, n <= Len(r), n <= Len(s), \A k \in 1..n : r[k] = s[k]
  PROVE  v[n] = w[n]
<1>. DEFINE S == {k \in Nat : k <= n => v[k] = w[k]}
<1>1. Len(r) \in Nat /\ Len(s) \in Nat
  BY LenProperties
<1>2. 0 \in S
  BY DEF Keeps
<1>3. ASSUME NEW k \in Nat, k \in S PROVE k + 1 \in S
  <2>. SUFFICES ASSUME k + 1 <= n PROVE v[k + 1] = w[k + 1]
    OBVIOUS
  <2>1. k + 1 \in 1..Len(r) /\ k + 1 \in 1..Len(s) /\ k + 1 \in 1..n /\ k + 1 - 1 = k /\ k <= n
    BY <1>1
  <2>2. v[k] = w[k] /\ r[k + 1] = s[k + 1]
    BY <1>3, <2>1
  <2>3. v[k + 1] = IF r[k + 1] # 0 THEN Append(v[k + 1 - 1], r[k + 1]) ELSE v[k + 1 - 1]
    BY <2>1 DEF Keeps
  <2>4. w[k + 1] = IF s[k + 1] # 0 THEN Append(w[k + 1 - 1], s[k + 1]) ELSE w[k + 1 - 1]
    BY <2>1 DEF Keeps
  <2>. QED
    BY <2>1, <2>2, <2>3, <2>4
<1>. HIDE DEF S
<1>4. Nat \subseteq S
  BY <1>2, <1>3, Induction
<1>. QED
  BY <1>4 DEF S

LEMMA NonZeroAppend ==
  ASSUME NEW r \in Seq(Int), NEW v \in Int
  PROVE  NonZero(Append(r, v)) = IF v # 0 THEN Append(NonZero(r), v) ELSE NonZero(r)
<1>. DEFINE s == Append(r, v)
            n == Len(r)
<1>1. /\ s \in Seq(Int) /\ n \in Nat /\ Len(s) = n + 1 /\ s[n + 1] = v
      /\ \A k \in 1..n : r[k] = s[k]
  BY AppendProperties, LenProperties
<1>. HIDE DEF s
<1>2. PICK x : Keeps(r, x) /\ NonZero(r) = x[Len(r)]
  BY NonZeroIs
<1>3. PICK y : Keeps(s, y) /\ NonZero(s) = y[Len(s)]
  BY <1>1, NonZeroIs
<1>4. x[n] = y[n]
  <2>1. n <= Len(r) /\ n <= Len(s) /\ n \in Nat
    BY <1>1
  <2>2. s \in Seq(Int) /\ \A k \in 1..n : r[k] = s[k]
    BY <1>1
  <2>3. Keeps(r, x) /\ Keeps(s, y)
    BY <1>2, <1>3
  <2>. HIDE DEF n
  <2>. QED
    BY <2>1, <2>2, <2>3, KeepsAgree
<1>5. n + 1 \in 1..Len(s) /\ n + 1 - 1 = n
  BY <1>1
<1>6. y[n + 1] = IF s[n + 1] # 0 THEN Append(y[n + 1 - 1], s[n + 1]) ELSE y[n + 1 - 1]
  BY <1>3, <1>5 DEF Keeps
<1>. QED
  BY <1>1, <1>2, <1>3, <1>4, <1>5, <1>6 DEF s

LEMMA NonZeroType ==
  ASSUME NEW r \in Seq(Int)
  PROVE  NonZero(r) \in Seq(Int) /\ Len(NonZero(r)) <= Len(r)
<1>1. PICK w : Keeps(r, w) /\ NonZero(r) = w[Len(r)]
  BY NonZeroIs
<1>. DEFINE S == {k \in Nat : k <= Len(r) => w[k] \in Seq(Int) /\ Len(w[k]) <= k}
<1>2. Len(r) \in Nat /\ \A k \in 1..Len(r) : r[k] \in Int
  BY LenProperties
<1>3. 0 \in S
  BY <1>1, EmptySeq DEF Keeps
<1>4. ASSUME NEW k \in Nat, k \in S PROVE k + 1 \in S
  <2>. SUFFICES ASSUME k + 1 <= Len(r) PROVE w[k + 1] \in Seq(Int) /\ Len(w[k + 1]) <= k + 1
    OBVIOUS
  <2>1. k + 1 \in 1..Len(r) /\ k + 1 - 1 = k /\ k <= Len(r)
    BY <1>2
  <2>2. w[k] \in Seq(Int) /\ Len(w[k]) <= k /\ r[k + 1] \in Int
    BY <1>2, <1>4, <2>1
  <2>3. Append(w[k], r[k + 1]) \in Seq(Int) /\ Len(Append(w[k], r[k + 1])) = Len(w[k]) + 1
    BY <2>2, AppendProperties
  <2>4. w[k + 1] = IF r[k + 1] # 0 THEN Append(w[k], r[k + 1]) ELSE w[k]
    BY <1>1, <2>1 DEF Keeps
  <2>5. Len(w[k]) \in Nat
    BY <2>2, LenProperties
  <2>6. CASE r[k + 1] # 0
    BY <2>2, <2>3, <2>4, <2>5, <2>6
  <2>7. CASE r[k + 1] = 0
    BY <2>2, <2>4, <2>5, <2>7
  <2>. QED
    BY <2>6, <2>7
<1>. HIDE DEF S
<1>5. Nat \subseteq S
  BY <1>3, <1>4, Induction
<1>. QED
  BY <1>1, <1>2, <1>5 DEF S

\* Of a sequence that starts with m values other than 0 and goes on with zeros,
\* those m are kept.
LEMMA NonZeroPrefix ==
  ASSUME NEW d \in Seq(Int), NEW m \in 0..Len(d),
         \A k \in 1..Len(d) : d[k] # 0 <=> k <= m
  PROVE  /\ NonZero(d) \in Seq(Int) /\ Len(NonZero(d)) = m
         /\ \A k \in 1..m : NonZero(d)[k] = d[k]
<1>1. PICK w : Keeps(d, w) /\ NonZero(d) = w[Len(d)]
  BY NonZeroIs
<1>. DEFINE low(k) == IF k <= m THEN k ELSE m
            Prefix(k) == /\ w[k] \in Seq(Int) /\ Len(w[k]) = low(k)
                         /\ \A j \in 1..low(k) : w[k][j] = d[j]
            S == {k \in Nat : k <= Len(d) => Prefix(k)}
<1>2. Len(d) \in Nat /\ m \in Nat /\ \A k \in 1..Len(d) : d[k] \in Int
  BY LenProperties
<1>3. 0 \in S
  <2>1. w[0] = <<>> /\ low(0) = 0
    BY <1>1, <1>2 DEF Keeps
  <2>2. Prefix(0)
    BY <2>1, EmptySeq
  <2>. QED
    BY <2>2
<1>4. ASSUME NEW k \in Nat, k \in S PROVE k + 1 \in S
  <2>. SUFFICES ASSUME k + 1 <= Len(d) PROVE Prefix(k + 1)
    OBVIOUS
  <2>1. k + 1 \in 1..Len(d) /\ k + 1 - 1 = k /\ k <= Len(d)
    BY <1>2
  <2>2. Prefix(k)
    BY <1>4, <2>1
  <2>3. w[k + 1] = IF d[k + 1] # 0 THEN Append(w[k], d[k + 1]) ELSE w[k]
    BY <1>1, <2>1 DEF Keeps
  <2>4. CASE k + 1 <= m
    <3>1. low(k) = k /\ low(k + 1) = k + 1 /\ w[k + 1] = Append(w[k], d[k + 1])
      BY <1>2, <2>1, <2>3, <2>4
    <3>2. /\ Append(w[k], d[k + 1]) \in Seq(Int)
          /\ Len(Append(w[k], d[k + 1])) = Len(w[k]) + 1
          /\ \A j \in 1..Len(w[k]) : Append(w[k], d[k + 1])[j] = w[k][j]
          /\ Append(w[k], d[k + 1])[Len(w[k]) + 1] = d[k + 1]
      BY <1>2, <2>1, <2>2, AppendProperties
    <3>. QED
      BY <2>2, <3>1, <3>2
  <2>5. CASE ~(k + 1 <= m)
    <3>1. low(k) = m /\ low(k + 1) = m /\ w[k + 1] = w[k]
      BY <1>2, <2>1, <2>3, <2>5
    <3>. QED
      BY <2>2, <3>1
  <2>. QED
    BY <2>4, <2>5
<1>. HIDE DEF S, Prefix
<1>5. Nat \subseteq S
  BY <1>3, <1>4, Induction
<1>6. Prefix(Len(d))
  BY <1>2, <1>5 DEF S
<1>7. low(Len(d)) = m
  BY <1>2
<1>. QED
  BY <1>1, <1>6, <1>7 DEF Prefix

(***************************************************************************)
(* The window: the m slots in use come first, and hold the latest of the   *)
(* readings other than 0.                                                  *)
(***************************************************************************)
Front(d, m) == \A k \in Slot : d[k] # 0 <=> k <= m

Fits(d, r, m) ==
  LET all == NonZero(r) IN
  /\ Front(d, m)
  /\ m <= Len(all) /\ \A k \in 1..m : d[k] = all[Len(all) - m + k]
  /\ m < RUN_AVG_LENGTH - 1 => Len(all) = m
  /\ all = r /\ Len(all) >= RUN_AVG_LENGTH => m = RUN_AVG_LENGTH

\* modifyData fills the first empty slot, or moves the values when there is none.
LEMMA ModifyIs ==
  ASSUME NEW d \in [Slot -> Int], NEW v \in Int, NEW m \in 0..RUN_AVG_LENGTH, Front(d, m)
  PROVE  modifyData(d, v) =
           IF m < RUN_AVG_LENGTH THEN [d EXCEPT ![m + 1] = v]
           ELSE [k \in Slot |-> IF k < RUN_AVG_LENGTH THEN d[k + 1] ELSE v]
<1>1. RUN_AVG_LENGTH \in Nat \ {0} /\ Slot = 1..RUN_AVG_LENGTH
  BY DatamgrAssumption DEF Slot
<1>2. CASE m < RUN_AVG_LENGTH
  <2>. DEFINE First(k) == d[k] = 0 /\ \A j \in 1..(k - 1) : d[j] # 0
              first == CHOOSE k \in Slot : First(k)
  <2>1. m + 1 \in Slot /\ d[m + 1] = 0
    BY <1>1, <1>2 DEF Front
  <2>2. First(m + 1)
    <3>1. \A j \in 1..(m + 1 - 1) : j \in Slot /\ j <= m
      BY <1>1, <1>2
    <3>. QED
      BY <2>1, <3>1 DEF Front
  <2>3. ASSUME NEW k \in Slot, First(k) PROVE k = m + 1
    <3>1. ~(k <= m)
      BY <2>3 DEF Front
    <3>2. ~(k > m + 1)
      <4>1. k > m + 1 => m + 1 \in 1..(k - 1)
        BY <1>1
      <4>. QED
        BY <2>1, <2>3, <4>1
    <3>. QED
      BY <1>1, <3>1, <3>2
  <2>4. modifyData(d, v) = [d EXCEPT ![first] = v]
    BY <2>1, Zenon DEF modifyData
  <2>. HIDE DEF First
  <2>5. first = m + 1
    BY <2>1, <2>2, <2>3
  <2>. HIDE DEF first
  <2>. QED
    BY <1>2, <2>4, <2>5
<1>3. CASE ~(m < RUN_AVG_LENGTH)
  <2>1. ~ \E k \in Slot : d[k] = 0
    BY <1>1, <1>3 DEF Front
  <2>. DEFINE moved == [k \in Slot |-> IF k < RUN_AVG_LENGTH THEN d[k + 1] ELSE v]
  <2>2. modifyData(d, v) = moved
    BY <2>1, Zenon DEF modifyData
  <2>. QED
    BY <1>3, <2>2
<1>. QED
  BY <1>2, <1>3

\* Whatever the reading, the window keeps its form.
LEMMA WindowStep ==
  ASSUME NEW d \in [Slot -> Int], NEW r \in Seq(Int), NEW v \in Int,
         NEW m \in 0..RUN_AVG_LENGTH, Fits(d, r, m)
  PROVE  \E n \in 0..RUN_AVG_LENGTH : Fits(modifyData(d, v), Append(r, v), n)
<1>. DEFINE L == RUN_AVG_LENGTH
            a == NonZero(r)
            b == NonZero(Append(r, v))
            e == modifyData(d, v)
            s == Append(r, v)
<1>1. L \in Nat \ {0} /\ Slot = 1..L /\ m \in 0..L
  BY DatamgrAssumption DEF Slot
<1>2. a \in Seq(Int) /\ Len(a) \in Nat /\ Len(r) \in Nat /\ Len(a) <= Len(r)
  BY NonZeroType, LenProperties
<1>3. /\ Front(d, m)
      /\ m <= Len(a) /\ \A k \in 1..m : d[k] = a[Len(a) - m + k]
      /\ m < L - 1 => Len(a) = m
      /\ a = r /\ Len(a) >= L => m = L
  BY DEF Fits
<1>4. b = IF v # 0 THEN Append(a, v) ELSE a
  BY NonZeroAppend
<1>5. e = IF m < L THEN [d EXCEPT ![m + 1] = v] ELSE [k \in Slot |-> IF k < L THEN d[k + 1] ELSE v]
  BY <1>3, ModifyIs
<1>6. Len(Append(a, v)) = Len(a) + 1 /\ Len(s) = Len(r) + 1
      /\ Append(a, v)[Len(a) + 1] = v /\ \A k \in 1..Len(a) : Append(a, v)[k] = a[k]
      /\ s[Len(r) + 1] = v
  BY <1>2, AppendProperties
<1>7. b = s => v # 0 /\ a = r
  <2>1. b = s => v # 0
    BY <1>2, <1>4, <1>6
  <2>2. ASSUME Append(a, v) = Append(r, v) PROVE a = r
    <3>1. Len(a) = Len(r)
      BY <1>2, <1>6, <2>2
    <3>2. \A k \in 1..Len(r) : a[k] = r[k]
      BY <1>6, <2>2, <3>1, AppendProperties
    <3>. QED
      BY <1>2, <3>1, <3>2, SeqEqual
  <2>. QED
    BY <1>4, <2>1, <2>2
<1>. SUFFICES \E n \in 0..L : /\ Front(e, n)
                              /\ n <= Len(b) /\ \A k \in 1..n : e[k] = b[Len(b) - n + k]
                              /\ n < L - 1 => Len(b) = n
                              /\ b = s /\ Len(b) >= L => n = L
  BY DEF Fits
<1>. HIDE DEF L, a, b, e, s
<1>8. CASE v # 0 /\ m < L
  <2>1. b = Append(a, v) /\ Len(b) = Len(a) + 1
    BY <1>4, <1>6, <1>8
  <2>2. \A k \in Slot : e[k] = IF k = m + 1 THEN v ELSE d[k]
    BY <1>1, <1>5, <1>8
  <2>3. Front(e, m + 1)
    BY <1>1, <1>3, <1>8, <2>2 DEF Front
  <2>4. ASSUME NEW k \in 1..(m + 1) PROVE e[k] = b[Len(b) - (m + 1) + k]
    <3>1. k \in Slot
      BY <1>1, <1>8
    <3>2. CASE k = m + 1
      BY <1>2, <1>6, <2>1, <2>2, <3>1, <3>2
    <3>3. CASE k # m + 1
      <4>1. k \in 1..m /\ Len(b) - (m + 1) + k = Len(a) - m + k /\ Len(a) - m + k \in 1..Len(a)
        BY <1>1, <1>2, <1>3, <2>1, <3>3
      <4>. QED
        BY <1>3, <1>6, <2>1, <2>2, <3>1, <3>3, <4>1
    <3>. QED
      BY <3>2, <3>3
  <2>5. m + 1 < L - 1 => Len(b) = m + 1
    BY <1>1, <1>3, <2>1
  <2>6. b = s /\ Len(b) >= L => m + 1 = L
    BY <1>1, <1>2, <1>3, <1>7, <1>8, <2>1
  <2>7. m + 1 \in 0..L /\ m + 1 <= Len(b)
    BY <1>1, <1>2, <1>3, <1>8, <2>1
  <2>. QED
    BY <2>3, <2>4, <2>5, <2>6, <2>7
<1>9. CASE v # 0 /\ ~(m < L)
  <2>1. b = Append(a, v) /\ Len(b) = Len(a) + 1 /\ m = L
    BY <1>1, <1>4, <1>6, <1>9
  <2>2. \A k \in Slot : e[k] = IF k < L THEN d[k + 1] ELSE v
    BY <1>1, <1>5, <1>9
  <2>3. Front(e, L)
    BY <1>1, <1>3, <1>9, <2>1, <2>2 DEF Front
  <2>4. ASSUME NEW k \in 1..L PROVE e[k] = b[Len(b) - L + k]
    <3>1. CASE k = L
      BY <1>1, <1>2, <1>6, <2>1, <2>2, <3>1
    <3>2. CASE k # L
      <4>1. /\ k + 1 \in 1..m /\ Len(b) - L + k = Len(a) - m + (k + 1)
            /\ Len(a) - m + (k + 1) \in 1..Len(a)
        BY <1>1, <1>2, <1>3, <2>1, <3>2
      <4>2. e[k] = d[k + 1]
        BY <1>1, <2>2, <3>2
      <4>3. d[k + 1] = a[Len(a) - m + (k + 1)]
        BY <1>3, <4>1
      <4>. QED
        BY <1>6, <2>1, <4>1, <4>2, <4>3
    <3>. QED
      BY <3>1, <3>2
  <2>5. L \in 0..L /\ L <= Len(b) /\ ~(L < L - 1)
    BY <1>1, <1>2, <1>3, <2>1
  <2>. QED
    BY <2>3, <2>4, <2>5
<1>10. CASE v = 0 /\ m < L
  <2>1. b = a /\ b # s
    BY <1>4, <1>7, <1>10
  <2>2. \A k \in Slot : e[k] = d[k]
    BY <1>1, <1>3, <1>5, <1>10 DEF Front
  <2>3. Front(e, m)
    BY <1>3, <2>2 DEF Front
  <2>4. \A k \in 1..m : e[k] = b[Len(b) - m + k]
    BY <1>1, <1>3, <2>1, <2>2
  <2>. QED
    BY <1>1, <1>3, <2>1, <2>3, <2>4
<1>11. CASE v = 0 /\ ~(m < L)
  <2>1. b = a /\ b # s /\ m = L
    BY <1>1, <1>4, <1>7, <1>11
  <2>2. \A k \in Slot : e[k] = IF k < L THEN d[k + 1] ELSE 0
    BY <1>1, <1>5, <1>11
  <2>3. Front(e, L - 1)
    BY <1>1, <1>3, <2>1, <2>2 DEF Front
  <2>4. ASSUME NEW k \in 1..(L - 1) PROVE e[k] = b[Len(b) - (L - 1) + k]
    <3>1. k + 1 \in 1..m /\ Len(b) - (L - 1) + k = Len(a) - m + (k + 1) /\ k \in Slot /\ k < L
      BY <1>1, <1>2, <2>1
    <3>2. d[k + 1] = a[Len(a) - m + (k + 1)]
      BY <1>3, <3>1
    <3>3. e[k] = d[k + 1]
      BY <2>2, <3>1
    <3>. QED
      BY <2>1, <3>1, <3>2, <3>3
  <2>5. L - 1 \in 0..L /\ L - 1 <= Len(b) /\ ~(L - 1 < L - 1)
    BY <1>1, <1>2, <1>3, <2>1
  <2>. QED
    BY <2>1, <2>3, <2>4, <2>5
<1>. QED
  BY <1>8, <1>9, <1>10, <1>11

\* A window of that form is what WindowIsRecent asks for.
LEMMA WindowIs ==
  ASSUME NEW d \in [Slot -> Int], NEW r \in Seq(Int),
         NEW m \in 0..RUN_AVG_LENGTH, Fits(d, r, m)
  PROVE  LET kept == NonZero(d)
             all  == NonZero(r)
         IN  /\ Len(kept) <= Len(all) /\ kept = Latest(Len(kept), all)
             /\ Len(kept) < RUN_AVG_LENGTH - 1 => kept = all
             /\ all = r /\ Len(all) >= RUN_AVG_LENGTH => Len(kept) = RUN_AVG_LENGTH
<1>. DEFINE kept == NonZero(d)
            all == NonZero(r)
<1>1. RUN_AVG_LENGTH \in Nat /\ Slot = 1..RUN_AVG_LENGTH
  BY DatamgrAssumption DEF Slot
<1>2. d \in Seq(Int) /\ Len(d) = RUN_AVG_LENGTH
  <2>1. d \in Seq(Int)
    BY <1>1, SeqDef
  <2>2. Len(d) \in Nat /\ 1..Len(d) = 1..RUN_AVG_LENGTH
    BY <1>1, <2>1, LenProperties
  <2>3. \A j, n \in Nat : 1..j = 1..n => j = n
    OBVIOUS
  <2>. QED
    BY <1>1, <2>1, <2>2, <2>3
<1>3. \A k \in 1..Len(d) : d[k] # 0 <=> k <= m
  BY <1>1, <1>2 DEF Fits, Front
<1>4. m \in 0..Len(d)
  BY <1>2
<1>5. kept \in Seq(Int) /\ Len(kept) = m /\ \A k \in 1..m : kept[k] = d[k]
  BY <1>2, <1>3, <1>4, NonZeroPrefix
<1>6. all \in Seq(Int) /\ Len(all) \in Nat
  BY NonZeroType, LenProperties
<1>7. /\ m <= Len(all) /\ \A k \in 1..m : d[k] = all[Len(all) - m + k]
      /\ m < RUN_AVG_LENGTH - 1 => Len(all) = m
      /\ all = r /\ Len(all) >= RUN_AVG_LENGTH => m = RUN_AVG_LENGTH
  BY DEF Fits
<1>. HIDE DEF kept, all
<1>. DEFINE late == SubSeq(all, Len(all) - m + 1, Len(all))
<1>8. /\ late \in Seq(Int) /\ Len(late) = m
      /\ \A k \in 1..m : late[k] = all[Len(all) - m + k]
  <2>1. /\ m \in Nat /\ Len(all) - m + 1 \in 1..(Len(all) + 1) /\ Len(all) \in Nat
        /\ Len(all) - m + 1 <= Len(all) + 1
    BY <1>1, <1>6, <1>7
  <2>. QED
    BY <1>6, <2>1
<1>9. Latest(Len(kept), all) = late
  BY <1>5 DEF Latest
<1>. HIDE DEF late
<1>10. kept = late
  <2>1. \A k \in 1..Len(kept) : kept[k] = late[k]
    BY <1>5, <1>7, <1>8
  <2>2. Len(kept) = Len(late)
    BY <1>5, <1>8
  <2>. QED
    BY <1>5, <1>8, <2>1, <2>2, SeqEqual
<1>11. ASSUME m < RUN_AVG_LENGTH - 1 PROVE kept = all
  <2>1. Len(kept) = Len(all) /\ Len(all) - m = 0
    BY <1>5, <1>6, <1>7, <1>11
  <2>2. \A k \in 1..Len(kept) : kept[k] = all[k]
    BY <1>5, <1>7, <2>1
  <2>. QED
    BY <1>5, <1>6, <2>1, <2>2, SeqEqual
<1>. QED
  BY <1>5, <1>7, <1>9, <1>10, <1>11 DEF kept, all

(***************************************************************************)
(* The inductive invariant of the readings.                                *)
(***************************************************************************)
Values ==
  /\ phase \in {"map", "parse", "freed"}
  /\ logged \in {"nothing", "hot", "cold", "invalid"}
  /\ data \in [Sensor -> [Slot -> Value \cup {0}]]
  /\ value \in [Sensor -> Int \X (0..RUN_AVG_LENGTH)]
  /\ readings \in [Sensor -> Seq(Value)]

Windows == \A s \in Sensor : \E m \in 0..RUN_AVG_LENGTH : Fits(data[s], readings[s], m)

WInv == Values /\ Windows

LEMMA WindowOfIntegers ==
  ASSUME NEW d \in [Slot -> Value \cup {0}]
  PROVE  d \in [Slot -> Int]
<1>1. Value \cup {0} \subseteq Int
  BY DatamgrAssumption
<1>2. \A k \in Slot : d[k] \in Int
  BY <1>1
<1>. QED
  BY <1>2

LEMMA ValuesAreIntegers ==
  ASSUME Values, NEW s \in Sensor
  PROVE  data[s] \in [Slot -> Int] /\ readings[s] \in Seq(Int)
<1>1. readings[s] \in Seq(Value) /\ data[s] \in [Slot -> Value \cup {0}]
  BY DEF Values
<1>2. Value \subseteq Int
  BY DatamgrAssumption
<1>3. \A k \in 1..Len(readings[s]) : readings[s][k] \in Int
  BY <1>1, <1>2, LenProperties
<1>4. readings[s] \in [1..Len(readings[s]) -> Int] /\ Len(readings[s]) \in Nat
  BY <1>1, <1>3, LenProperties
<1>5. readings[s] \in Seq(Int)
  BY <1>4, SeqDef
<1>. QED
  BY <1>1, <1>5, WindowOfIntegers

LEMMA InitWInv == Init => WInv
<1>. SUFFICES ASSUME Init PROVE WInv
  OBVIOUS
<1>1. RUN_AVG_LENGTH \in Nat \ {0} /\ Slot = 1..RUN_AVG_LENGTH
  BY DatamgrAssumption DEF Slot
<1>2. <<>> \in Seq(Value) /\ <<>> \in Seq(Int) /\ Len(<<>>) = 0
  BY EmptySeq
<1>3. Values
  <2>1. <<0, 1>> \in Int \X (0..RUN_AVG_LENGTH)
    BY <1>1
  <2>. QED
    BY <1>2, <2>1 DEF Init, Values
<1>4. ASSUME NEW s \in Sensor PROVE Fits(data[s], readings[s], 0)
  <2>. DEFINE all == NonZero(<<>>)
  <2>1. all \in Seq(Int) /\ Len(all) \in Nat /\ Len(all) <= 0
    BY <1>2, NonZeroType, LenProperties
  <2>2. readings[s] = <<>> /\ \A k \in Slot : data[s][k] = 0
    BY DEF Init
  <2>3. NonZero(readings[s]) = all
    BY <2>2
  <2>. HIDE DEF all
  <2>4. Front(data[s], 0)
    BY <1>1, <2>2 DEF Front
  <2>5. Len(all) = 0
    BY <2>1
  <2>. QED
    BY <1>1, <2>3, <2>4, <2>5 DEF Fits
<1>5. 0 \in 0..RUN_AVG_LENGTH
  BY <1>1
<1>. QED
  BY <1>3, <1>4, <1>5 DEF WInv, Windows

LEMMA ParseWInv ==
  ASSUME WInv, NEW s \in Sensor, NEW v \in Value, Parse(s, v)
  PROVE  WInv' /\ logged' = Verdict(getAverage(data'[s]))
<1>. DEFINE d == data[s]
            e == modifyData(d, v)
            average == getAverage(e)
<1>1. /\ data \in [Sensor -> [Slot -> Value \cup {0}]]
      /\ value \in [Sensor -> Int \X (0..RUN_AVG_LENGTH)]
      /\ readings \in [Sensor -> Seq(Value)] /\ phase \in {"map", "parse", "freed"}
  BY DEF WInv, Values
<1>2. /\ data' = [data EXCEPT ![s] = e] /\ data'[s] = e
      /\ readings' = [readings EXCEPT ![s] = Append(readings[s], v)]
      /\ value' = [value EXCEPT ![s] = average] /\ value'[s] = average
      /\ logged' = Verdict(average) /\ phase' = phase
  <2>1. data' = [data EXCEPT ![s] = e] /\ phase' = phase
        /\ readings' = [readings EXCEPT ![s] = Append(readings[s], v)]
    BY DEF Parse
  <2>2. data'[s] = e
    BY <1>1, <2>1
  <2>3. value' = [value EXCEPT ![s] = average] /\ logged' = Verdict(value'[s])
    BY <2>2, Zenon DEF Parse
  <2>4. value'[s] = average
    BY <1>1, <2>3
  <2>. QED
    BY <2>1, <2>2, <2>3, <2>4
<1>3. d \in [Slot -> Int] /\ d \in [Slot -> Value \cup {0}] /\ readings[s] \in Seq(Int) /\ v \in Int
  BY <1>1, ValuesAreIntegers, DatamgrAssumption DEF WInv
<1>4. PICK m \in 0..RUN_AVG_LENGTH : Fits(d, readings[s], m)
  BY DEF WInv, Windows
<1>5. e \in [Slot -> Value \cup {0}]
  <2>1. Slot = 1..RUN_AVG_LENGTH /\ RUN_AVG_LENGTH \in Nat
    BY DatamgrAssumption DEF Slot
  <2>2. e = IF m < RUN_AVG_LENGTH THEN [d EXCEPT ![m + 1] = v]
            ELSE [k \in Slot |-> IF k < RUN_AVG_LENGTH THEN d[k + 1] ELSE v]
    BY <1>3, <1>4, ModifyIs DEF Fits
  <2>. HIDE DEF d, e
  <2>. QED
    BY <1>3, <2>1, <2>2
<1>6. e \in [Slot -> Int]
  BY <1>5, WindowOfIntegers
<1>. HIDE DEF e
<1>7. average \in Int \X (0..RUN_AVG_LENGTH)
  BY <1>6, AverageIs
<1>8. Append(readings[s], v) \in Seq(Value)
  BY <1>1, AppendProperties
<1>9. Verdict(average) \in {"nothing", "hot", "cold", "invalid"}
  BY DEF Verdict
<1>. HIDE DEF average
<1>10. Values'
  BY <1>1, <1>2, <1>5, <1>7, <1>8, <1>9 DEF Values
<1>11. ASSUME NEW t \in Sensor
       PROVE  \E n \in 0..RUN_AVG_LENGTH : Fits(data'[t], readings'[t], n)
  <2>1. CASE t = s
    <3>1. \E n \in 0..RUN_AVG_LENGTH : Fits(e, Append(readings[s], v), n)
      BY <1>3, <1>4, WindowStep DEF e
    <3>. QED
      BY <1>1, <1>2, <2>1, <3>1
  <2>2. CASE t # s
    <3>1. data'[t] = data[t] /\ readings'[t] = readings[t]
      BY <1>1, <1>2, <2>2
    <3>. QED
      BY <3>1 DEF WInv, Windows
  <2>. QED
    BY <2>1, <2>2
<1>12. WInv'
  BY <1>10, <1>11 DEF WInv, Windows
<1>. QED
  BY <1>2, <1>12 DEF average

LEMMA NextWInv == WInv /\ [Next]_vars => WInv'
<1>. SUFFICES ASSUME WInv, [Next]_vars PROVE WInv'
  OBVIOUS
<1>1. ASSUME UNCHANGED <<data, value, readings>>, phase' \in {"map", "parse", "freed"},
             logged' \in {"nothing", "hot", "cold", "invalid"}
      PROVE  WInv'
  BY <1>1 DEF WInv, Values, Windows
<1>2. phase \in {"map", "parse", "freed"} /\ logged \in {"nothing", "hot", "cold", "invalid"}
  BY DEF WInv, Values
<1>3. ASSUME NEW r \in Room, NEW s \in Sensor, ReadLine(r, s) PROVE WInv'
  BY <1>1, <1>2, <1>3 DEF ReadLine
<1>4. CASE EndOfMap
  BY <1>1, <1>2, <1>4 DEF EndOfMap
<1>5. ASSUME NEW s \in Sensor, NEW v \in Value, Unknown(s, v) PROVE WInv'
  BY <1>1, <1>2, <1>5 DEF Unknown
<1>6. ASSUME NEW s \in Sensor, NEW v \in Value, Parse(s, v) PROVE WInv'
  BY <1>6, ParseWInv
<1>7. CASE Free
  BY <1>1, <1>2, <1>7 DEF Free
<1>8. CASE UNCHANGED vars
  BY <1>1, <1>2, <1>8 DEF vars
<1>. QED
  BY <1>3, <1>4, <1>5, <1>6, <1>7, <1>8 DEF Next

\* The slots in use of a window are its first ones, and hold the latest readings
\* other than 0 in their order, whatever values come in.
THEOREM SpecWInv == Spec => []WInv
BY InitWInv, NextWInv, PTL DEF Spec

(***************************************************************************)
(* datamgr_read_room_file inserts at the front and skips a sensor that it  *)
(* finds: each sensor of the file is on the list once, with the room of    *)
(* its first line.                                                         *)
(***************************************************************************)
THEOREM SpecFirstLineWins == Spec => []FirstLineWins
<1>1. IInv => FirstLineWins
  BY DEF IInv
<1>. QED
  BY <1>1, InitIInv, NextIInv, PTL DEF Spec

\* The slots in use hold the latest readings other than 0, in their order, all
\* RUN_AVG_LENGTH of them unless there were fewer or one has given way to a 0.
THEOREM SpecWindowIsRecent == Spec => []WindowIsRecent
<1>1. ASSUME WInv PROVE WindowIsRecent
  <2>. SUFFICES ASSUME NEW s \in Sensor
                PROVE  LET kept == NonZero(data[s])
                           all  == NonZero(readings[s])
                       IN  /\ Len(kept) <= Len(all) /\ kept = Latest(Len(kept), all)
                           /\ Len(kept) < RUN_AVG_LENGTH - 1 => kept = all
                           /\ all = readings[s] /\ Len(all) >= RUN_AVG_LENGTH
                                => Len(kept) = RUN_AVG_LENGTH
    BY DEF WindowIsRecent
  <2>1. data[s] \in [Slot -> Int] /\ readings[s] \in Seq(Int)
    BY <1>1, ValuesAreIntegers DEF WInv
  <2>2. PICK m \in 0..RUN_AVG_LENGTH : Fits(data[s], readings[s], m)
    BY <1>1 DEF WInv, Windows
  <2>. QED
    BY <2>1, <2>2, WindowIs
<1>. QED
  BY <1>1, SpecWInv, PTL

\* The verdict on an average always has its cause in a value of the window, and
\* a window of hot values always leads to it.
THEOREM SpecVerdictHasCause == Spec => VerdictHasCause
<1>. DEFINE Cause(s) ==
       readings'[s] # readings[s] =>
         LET recent == {data'[s][k] : k \in Slot} \ {0} IN
         /\ logged' = "hot"  => \E v \in recent : v >= SET_MAX_TEMP
         /\ logged' = "cold" => \E v \in recent : v <= SET_MIN_TEMP
         /\ recent # {} /\ (\A v \in recent : v >= SET_MAX_TEMP) => logged' = "hot"
<1>1. ASSUME WInv, [Next]_vars, NEW s \in Sensor PROVE Cause(s)
  <2>. SUFFICES ASSUME readings'[s] # readings[s] PROVE Cause(s)
    OBVIOUS
  <2>1. \E v \in Value : Parse(s, v)
    <3>1. PICK t \in Sensor, v \in Value : Parse(t, v)
      BY <1>1 DEF Next, vars, ReadLine, EndOfMap, Unknown, Free
    <3>2. readings' = [readings EXCEPT ![t] = Append(@, v)] /\ DOMAIN readings = Sensor
      BY <1>1, <3>1 DEF Parse, WInv, Values
    <3>3. t = s
      BY <3>2
    <3>. QED
      BY <3>1, <3>3
  <2>2. WInv' /\ logged' = Verdict(getAverage(data'[s]))
    BY <1>1, <2>1, ParseWInv
  <2>3. data'[s] \in [Slot -> Int]
    <3>1. data' \in [Sensor -> [Slot -> Value \cup {0}]] /\ Value \subseteq Int
      BY <2>2, DatamgrAssumption DEF WInv, Values
    <3>2. data'[s] \in [Slot -> Value \cup {0}]
      BY <3>1
    <3>. QED
      BY <3>2, WindowOfIntegers
  <2>. DEFINE d == data'[s]
  <2>4. LET recent == {d[k] : k \in Slot} \ {0}
            verdict == Verdict(getAverage(d))
        IN  /\ verdict = "hot"  => \E v \in recent : v >= SET_MAX_TEMP
            /\ verdict = "cold" => \E v \in recent : v <= SET_MIN_TEMP
            /\ recent # {} /\ (\A v \in recent : v >= SET_MAX_TEMP) => verdict = "hot"
    BY <2>3, VerdictIs
  <2>. QED
    BY <2>2, <2>4
<1>2. WInv /\ [Next]_vars => [\A s \in Sensor : Cause(s)]_vars
  BY <1>1
<1>. QED
  BY <1>2, SpecWInv, PTL DEF Spec, VerdictHasCause

\* Averages are those of at most RUN_AVG_LENGTH values, and there are never more
\* sensors on the list than ids.
THEOREM SpecTypeOK == Spec => []TypeOK
<1>1. ASSUME IInv, WInv PROVE TypeOK
  <2>1. Len(list) <= Cardinality(Sensor)
    <3>1. CASE phase = "freed"
      <4>1. Len(list) = 0
        BY <1>1, <3>1 DEF IInv, Types
      <4>2. Cardinality(Sensor) \in Nat
        BY DatamgrAssumption, FS_CardinalityType
      <4>. QED
        BY <4>1, <4>2
    <3>2. CASE phase # "freed"
      <4>1. Cardinality(Known) = Len(list)
        BY <1>1, <3>2 DEF IInv, FirstLineWins
      <4>2. Known \subseteq Sensor
        BY <1>1, LenProperties DEF IInv, Types, Known
      <4>. QED
        BY <4>1, <4>2, FS_Subset, DatamgrAssumption
    <3>. QED
      BY <3>1, <3>2
  <2>. QED
    BY <1>1, <2>1 DEF IInv, Types, WInv, Values, TypeOK
<1>. QED
  BY <1>1, InitIInv, NextIInv, SpecWInv, PTL DEF Spec
=============================================================================
