# A verification development of the sensor gateway

The repository is a sensor gateway in C: a server that receives temperature
readings over TCP from sensor nodes, a data manager that keeps running averages,
a storage manager that writes the readings to SQLite, and a log process. The
TLA+ modules here model its concurrency and its core data structures; TLC checks
them on small instances, and TLAPS proves every safety property of these runs, and
that the buffer and the pointer list implement their abstract specifications, for
every instance. What only TLC checks is liveness. All line numbers refer to `src/`.

## Inventory

| Part | State | Operations | Interaction | What is hard |
|---|---|---|---|---|
| Shared buffer (`sbuffer.c`) | singly linked list `head`, `tail`; per node two flags; mutex `threads` | insert, poll by each reader, size, remove, free | connmgr inserts; datamgr and strmgr poll the head; one of them removes | `sbuffer_remove` takes no lock; readers and removal are kept apart by a sleep only |
| Gateway threads (`main.c`, loops in `datamgr.c`, `sensor_db.c`) | `connmgr_listening`, a barrier of two | the loops of the three threads, join, free | a flag, the buffer, the barrier | shutdown, a reader that skips the barrier, a failed INSERT |
| Connection manager (`connmgr.c`) | list of connections, `fdSet`, `waiting`, `server_ts`, descriptors | accept, receive, close, time out, end | sockets to the nodes; inserts in the buffer; log lines | removes from a list that it scans by index; blocking `recv` |
| Sensor node (`sensor_node.c`) | one socket | connect, send in three parts, close | TCP | may die between two parts |
| Data manager (`datamgr.c`) | list of sensors with a window of values | read the map file, take a reading, verdict | polls the buffer; log lines | 0.0 stands for an empty slot; average of nothing |
| Database access (`sensor_db.c`) | SQLite handle, the table | open with retries, drop, create, insert, close, six queries | polls the buffer; log lines | partial failure, retries, a kill between DROP and CREATE, what `%f` keeps of a value |
| Processes, FIFO, log (`main.c`, `write_to_logfile`) | `logFIFO`, `fp_FIFO`, `sequence_number` | fork, create, open, write, copy, remove | two processes through a FIFO | creation race, end of file, unlocked counter, exit while threads run |
| Pointer list (`lib/dplist.c`) | doubly linked list | insert, remove, look up at an index, free | used by connmgr and datamgr | index conventions at both ends |
| TCP wrapper (`lib/tcpsock.c`) | socket record; the process's descriptor table | open, wait, send, receive, close | called by connmgr and the nodes | `close` is called only if `shutdown` succeeds; an error code returned in the place of a descriptor |
| `file_creator.c`, `datamain.c`, `Makefile`, `config.h` | | development tools, constants | | not modelled |

What makes each part correct: the buffer hands every reading to each reader once
and in order, frees it only after both, and is never walked while inconsistent;
the threads all end once the server has; the server ends, closes each connection
once, takes nothing off its list without a cause, never finds that list empty in
the middle of a scan and reads from the descriptor of the right connection; the
averages are those of the recent readings; a connected database has its table and
keeps its rows; the log is complete and the FIFO goes away; the
pointer list behaves as a sequence.

## Modules

| Module | Models | Correspondence |
|---|---|---|
| `Sbuffer` | `sbuffer.c` | one action per memory access where a race is possible; node k is the k-th that was allocated |
| `Gateway` | the threads of `main.c`, `datamgr_parse_sensor_files`, `insert_sensor` | EXTENDS `Sbuffer`; `pc[t]` is where a thread stands |
| `Broadcast` | the abstract promise of the buffer | `Gateway` implements it (`BroadcastSafe`, `BroadcastFair`) |
| `Gateway_proofs`, `Gateway_timing_proofs` | theorems about `Gateway` | inductive invariants, one lemma per action |
| `Tcpsock` | `lib/tcpsock.c` | one operator per call: the set of its outcomes, each with the result code, the socket record and the descriptor table it leaves |
| `Connmgr` | `connmgr_listen`, `connmgr_free` and the nodes | EXTENDS `Tcpsock`; one action per way an iteration of the scan can go |
| `Connmgr_proofs` | theorems about `Connmgr` | lemmas about the list, then one per action |
| `Dplist`, `ListSeq` | `lib/dplist.c` on a heap; the sequence it stands for | `Dplist` implements `ListSeq`; `Connmgr` and `Datamgr` see their lists through `ListSeq` |
| `Dplist_proofs` | theorems about `Dplist` | what each operator is on a path of nodes, then one lemma per action |
| `Datamgr`, `Datamgr_proofs` | `datamgr.c` | map file, window, average, verdict; `"hot"`, `"cold"` and `"invalid"` stand for the log's sentences |
| `Iteration` | no code: induction over the numbers and functions defined by recursion, for the proofs | used by `Dplist_proofs`, `Datamgr_proofs`, `Gateway_timing_proofs` |
| `Storage`, `MCStorage`, `Storage_proofs` | `sensor_db.c` and `method_strmgr` | one action per SQL statement, over several runs of the program on one file |
| `Lifecycle`, `Lifecycle_proofs` | `main.c`, `log_process`, `write_to_logfile`, `init_connection` | both processes from fork to exit |

How they compose: `Gateway` takes the arrival of readings and the moment the
server stops from `Connmgr` (whose `ServerEnds` justifies the condition of
`ShutdownEnds`), the set `Unknown` of readings whose sensor is not in the map
from `Datamgr`, and the chance that an INSERT fails from `Storage`. `Lifecycle`
sees of `Storage` only whether an attempt to connect succeeds; it takes the
threads' return from `Gateway` and knows only how many log lines they write.

A definition with an underscore and a suffix, such as `Mark_NextNode` before
`Mark`, is a mutant: the same definition with a plausible bug. Nothing uses it;
put in the place of the original it makes TLC find a property violated.

### Granularity

* In `Sbuffer` the code under the mutex that cannot race is one step. The
  unlocked removal and the parts of an insertion it can race with are split into
  the loads and stores that the Makefile's build (no optimisation) issues:
  `head = tail = NULL` stores `tail`, loads it again and stores it to `head`.
  Reading a NULL or freed pointer sets `fault`; what follows undefined behaviour
  is not modelled.
* In `Connmgr` an iteration of the scan is one step (it is one thread), select
  and accept are one step, and the nodes move between any two of them. A reading
  begun but not finished makes the socket readable and blocks the server in
  `recv`, as the code does; a `recv` that returns part of a field, which the code
  takes for the field, is left out. Sockets carry their descriptor, and the scan
  tests the bit of the descriptor that `socket_get_sd` returns; `socket` and
  `accept` take the lowest free one. An iteration whose bit in `fdSet` is not
  set has no effect and is passed over (`At` is the next one that has). Time is
  what the code tests: a reading is late or not, the server's timeout has passed
  or not.
* In `Datamgr` values are integers and an average is the pair of total and count,
  so that comparisons are exact; rounding of doubles is left out.
* In `Storage` a statement is one step and a transaction of its own; a failed one
  leaves nothing behind; the process may be killed between any two. A value is an
  integer, negative or not, in units of 10^-7, because the `%f` of the statements
  keeps six places (`Printed`); a value half way between two prints goes up or
  down, always the same way (`RoundedUp`). Doubles that differ by less than a unit
  are not told apart.
* In `Lifecycle` a log line is one of a number of lines a thread has to write;
  its number is printed, loaded, stored and flushed in separate steps, in the
  order of `write_to_logfile`. The log process copies whatever the FIFO holds
  before it sees the end of it, which is how a FIFO works. Starting threads and
  opening files are taken to work; what may fail is what the code retries or
  races for: the creation of the FIFO, the command line, the database. The name
  `logFIFO` may be there from an earlier run, as a FIFO or as a regular file.

### Two timing constants

Correctness of the buffer depends on time: after the barrier one reader removes
and the other sleeps (500 ms or 50 ms). `SleepOutlastsRemoval` says that the
sleep is longer than the removal, `InsertsAvoidRemoval` that no insertion falls
into a removal. The code guarantees neither, so the runs state what holds
without, with the first, and with both.

## Runs

| Run | Checks | Shows |
|---|---|---|
| `Gateway_anytiming` | `TypeOK`, `InOrderOnce`, `FreedAfterBoth`, `SoleRemover` | what survives every interleaving |
| `Gateway_timely` | `ReadersSafe`, `WalkTerminates`, `BroadcastSafe`, `ShutdownEnds` | with the sleep long enough: readers are memory safe, the buffer implements a broadcast that may lose readings, shutdown ends |
| `Gateway_calm` | `NoFault`, `NothingLeftBehind`, `BroadcastFair`, `Reclaimed` | with insertions out of the way besides: lossless broadcast, everything drained (`Reclaimed` says on the list itself what the broadcast promises) |
| `Gateway_empty_tail` | `EmptyTailMeansEmptyHead` | violated: comment at `sbuffer.c:109` |
| `Gateway_stored` | `CompleteMeansStored` | violated: comment at `sbuffer.c:24` |
| `Connmgr_listen` | `TypeOK`, `NeverNull`, `ClosedOnce`, `ForwardsPrefix`, `DescriptorsExact`, `SilentNeverBlocks`, `EndsUnasked`, `ServerEnds`, `RemovedForCause` | skipped and doubled connections neither lose, double nor keep anything; which descriptors stay open and that none is taken for another's; that the end turns nobody away whom select had seen |
| `Connmgr_ready` | `ReadyMeansData` | violated: comment at `connmgr.c:97` |
| `Connmgr_close` | `CloseFreesDescriptor` | violated: `lib/tcpsock.h:53`, on a connection that was reset |
| `Dplist` | `TypeOK`, `NoLeak`, `DoublyLinked`, `LookupsAgree`, `RefinesSequence` | the pointers implement the sequence, arguments included |
| `Storage` | `TypeOK`, `ConnectedTable`, `HandlesBounded`, `QueriesSound`, `RowsKept` | what failures, retries and kills leave of the table; that the queries find what was sent, off by one printed place at most |
| `Datamgr` | `TypeOK`, `FirstLineWins`, `WindowIsRecent`, `VerdictHasCause` | the averages are those of the recent readings, zeros or not, and from the first reading on, where the comment at `datamgr.c:245` says 0 |
| `Lifecycle` | `TypeOK`, `LogComplete`, `NameRemoved`, `LogNumbers`, `BothEnd` | the log is complete, both processes end |

`Broadcast` says that the readers are never more than one reading apart. That
needs the timing of `Gateway_timely`; with none assumed it is false.

### Bounds

* `Gateway`: `MaxReadings` of two or three readings (see the `.cfg`). Three nodes
  give a head, a middle and a tail; a race concerns one removal and one
  insertion, and the second reading is of an unknown sensor. The proofs lift the
  bound for all safety properties.
* `Connmgr`: three nodes, because a doubled visit needs two connections left
  after a removal; one of them (`Talker`) sends up to two readings, one late
  being enough to be followed by another. The order of connection is free, so
  the talker takes every place in the list. `OpenMax` of four descriptors is one
  for the listening socket and three for connections: with a descriptor leaked
  `accept` runs out of them and descriptors are used again.
* `Dplist`: `MaxSize` of three nodes and two elements: a first, an inner and a
  last node; indices from -1 to beyond the end.
* `Datamgr`: a window of three and five readings in all, so that the window
  fills and moves twice; three lines for two sensors, so that one is repeated.
* `Storage`: three runs (`MaxRuns`), so that rows of one run meet the failed first
  attempt of the next and the drop of a third; two readings per run
  (`MaxReadings`); three values (`MCStorage`, since a `.cfg` has no negative
  numbers): one below zero and one half way that `%f` prints alike, and one that
  exceeds both by more than a printed place.
* `Lifecycle`: `MaxLines` of one line for connmgr and datamgr each, besides up to
  six of strmgr; three writers overlap. A run that finds a regular file in the
  place of the FIFO writes only strmgr's lines (another bound, on its states).

`CHECK_DEADLOCK FALSE` is set where the system really may stop: in
`Gateway_anytiming`, because a reader that wakes before the other has removed the
node can go back to the barrier alone and wait there for ever; in `Lifecycle`,
because the processes end, or one waits for ever in `fopen` after the other has
failed; in `Datamgr`, which ends with `datamgr_free`; in `Storage`, after the
last run.

### Fairness

* `Gateway`: weak fairness of an insertion and of main; strong fairness of each
  reader, since the mutex it needs is taken and released again and again by the
  others. Nothing is assumed of sensors or of the end of listening: `ShutdownEnds`
  starts when `listening` is off.
* `Connmgr`: the thread runs, time passes, and a node that has connected ends or
  fails some day. The last is an assumption about the nodes' users, not about the
  code: the Makefile gives `-DLOOPS=5` only to the linker (line 29), so
  `sensor_node.c` is compiled with `LOOPS` 1, its endless loop, and a node sends
  until it is killed or a send fails. Without it one silent node keeps the server
  for ever, since `check_clients` is commented out.
* `Lifecycle`: both processes and all threads are scheduled.

## What is proved

`Gateway_proofs` proves, for every number of readings, every set of unknown
sensors and both values of each timing constant (the assumptions are those named
in `Sbuffer` and `Gateway`):

* `SpecTypeOK`: type correctness;
* `SpecFreedAfterBoth`: a node is freed only after both readers took it;
* `SpecInOrderOnce`: neither reader handles a reading twice or out of order;
* `SpecSoleRemover`: the two readers never remove at the same time.

All follow from the inductive invariant `IInv` (`SpecIInv`). `FreedAfterBoth` is
not inductive: one must know that the node the remover unlinks is one that both
readers have taken. `Agreement` carries that from the poll over the barrier to
the removal, and it survives racing insertions only because of `Ends`, which says
how head and tail can disagree in the middle of a removal, and of `Insertion`,
which says what the insertion in progress has in its register. `InOrderOnce`
needs `Order` (the links run forward, head never goes back), `Progress` (no
reader is past the head) and `History` (what was handled was taken before).
`Shutdown` closes the case of `sbuffer_free`. The proof has one lemma per action
and in it one step per group of conjuncts; every part of `IInv` was first
checked with TLC.

`Gateway_timing_proofs` goes on under the timing constants, for every number of
readings:

* `SpecWhole`, whatever the timing: when neither an insertion nor a removal is
  under way, the list is empty or links exactly the nodes from head to tail. Its
  invariant `Links` says that the list is joined without gap, from head on or,
  while `head = tail = NULL` is half done, from the node that the remover has
  loaded: an insertion that slips into a removal loses readings, but never breaks
  the list. The function `Reach` behind `Linked` is then shown, by induction, to
  cover that interval and no more (`JoinedIsLinked`);
* `SpecWalkTerminates`, if `SleepOutlastsRemoval`: besides, no node of that list is
  freed, so the walk of `sbuffer_size` ends at tail over live memory;
* `SpecReadersSafe`, if `SleepOutlastsRemoval`: datamgr and strmgr never follow a
  NULL or freed pointer. The invariant adds `Alone` (one reader sleeps while the
  other removes), `Hold` (what a reader holds is the head, or the node being
  unlinked) and `Unfreed`;
* `SpecBroadcastSafe`, if `SleepOutlastsRemoval`: `Gateway` implements
  `Broadcast!Spec`, lossless if `InsertsAvoidRemoval`. A poll that sets a flag is a
  `Take`, `free` is a `GiveUp`, the allocation is an `Arrive`, every other step
  stutters. `Window` (what is taken and not freed is the head or the node being
  unlinked) is what the guard of `Take` needs;
* `SpecNoFault` and `SpecNothingLeftBehind`, if both: besides, `Calm` says that
  head and tail are both there or both not, that the list has no gap, and that
  all before it is freed.

`Connmgr_proofs` proves, for any set of nodes, any number of readings and any
size of the descriptor table, `NeverNull`, `ClosedOnce`, `DescriptorsExact`,
`SilentNeverBlocks`, `RemovedForCause`, `ForwardsPrefix` and `EndsUnasked`, and,
for finitely many nodes, `TypeOK`. The
invariant `IInv` says that every connection is in one place (backlog, list or
closed, `Places`), that the list is at least as long as the iterations left
(`Room`: one is removed per iteration at most, hence `NeverNull`), that
descriptors and connections match (`Descriptors`) and that an open connection
still to be visited whose descriptor select reported has sent something
(`Ready`). `ForwardsPrefix` needs `Numbers` besides: what was forwarded and what
is in the inbox follow each other. `EndsUnasked` needs `Waiting`: a round begun
without clients sees at most the listening socket, and then has a client that it
does not visit; at the end `fdSet` is empty. `TypeOK` needs `Bounds`: a node within a
reading may still send one, and the bound of the scan was the length of a list of
different nodes, hence at most their number. The assumption
(`ConnmgrAssumption`) is that a node is not named like a state of a descriptor.
`DescriptorsExact` leaves open what becomes of the descriptor of a connection that
`tcp_close` closed after a reset: there the code departs from its documentation,
which `Connmgr_close` shows.

`Storage_proofs` proves all five properties of the run `Storage` for any number
of runs and readings, and any integers as values and times (`StorageAssumption`). `ConnectedTable` rests on which statement an attempt has
reached (`Stage`, `Table`), `HandlesBounded` on the exact number of handles that
the failed attempts left (`HandlesExact`), `QueriesSound` on what `%f` does to a
value: it moves it by half a place at most (`PrintedNear`) and never past another
(`PrintedMonotonic`).

`Lifecycle_proofs` proves `TypeOK`, `LogComplete`, `NameRemoved` and `LogNumbers`
for any number of log lines. From the meeting at the FIFO on, main holds its
write end until it has joined the last thread (`Meeting`, `Joined`), and only the
log process removes it (`Gone`). `LogNumbers` needs `Numbers`: `sequence_number`
is ahead of the lines by at most the threads that have counted and not yet
flushed, and exact while the threads take turns.

`Dplist_proofs` proves all five properties of the run `Dplist`, for lists of any
length and any non-empty set of elements (`DplistAssumption`; the heap is of
`MaxSize` nodes, for any `MaxSize`). The invariant `IInv` says that there is a path,
a sequence of different nodes, that the `next` links describe forwards, the `prev`
links backwards, and whose nodes are those in use. From it follows what the walks
of the code compute: `Walk[k]` is the k-th node of the path (`WalkIs`, by
induction), `Size` its length, `ReferenceAt` the node at the clamped index. Each
operation then maps the path to that of `ListSeq` (`InsertIs`, `RemoveIs`), which
gives both the preservation of `IInv` and the refinement (`SpecRefinesSequence`):
an insertion is an `Insert`, a removal a `Delete`, the release a `Clear`, with the
arguments the caller gave.

`Datamgr_proofs` proves all four properties of the run `Datamgr`, for a map file
and windows of any length, any integers as values, any non-empty set of rooms and
finitely many sensors (`DatamgrAssumption`; a sensor id is a `uint16_t`).
`FirstLineWins` is inductive given that the list holds finitely many sensors.
`WindowIsRecent` is not: the invariant `Windows` says that the slots in use are the
first ones, that they hold the latest readings other than 0, and how many there
are at least. That is needed because a reading of 0 in a full window pushes the
oldest value out and leaves its own slot free. `VerdictHasCause` compares the sum
of the values with a multiple of their number: `Total`, the loop of `getAverage`,
is bounded from both sides by induction over the slots.

`Iteration` holds the facts that these inductions rest on, proved from the
well-foundedness of the natural numbers: `Induction` for sets of numbers, and
`IterationExists`, that a function defined by recursion exists, without which
nothing follows from a recursive definition. They are stated about sets and
functions because the library's own theorems take an operator as a parameter,
which the provers do not instantiate; a proof by induction here is about the set
of the numbers for which the claim holds.

Only model-checked: liveness under fairness (`ShutdownEnds`, `Reclaimed`,
`ServerEnds`, `BothEnd`, and `BroadcastFair`, whose safety part is
`SpecBroadcastSafe`), which is out of the prover's reach. The four properties that
the code violates are shown by TLC's counterexamples.

## Not modelled, and why

* `sbuffer_display`, `through_barrier`, `check_clients`, the getters of
  `datamgr.c`, `tcp_get_ip_addr`, `tcp_get_port` and `tcp_get_sd`: nothing calls
  them (or only commented-out lines do).
* `sensor_data_recv`: written, never read. It holds text after each record
  (`connmgr.c:119`).
* Text of messages and log lines, and the sizes of the arrays it is put in.
* A `recv` that returns part of a field.
* A line of `room_sensor.map` that is not two numbers. `fscanf` then returns 0 or 1
  (`datamgr.c:53`), which is not `EOF`, and stays where it is: the loop never ends,
  and the data manager never takes a reading. Before the first complete line it
  also uses uninitialised ids.
* What nothing in the repository promises and the code does not do: to end although
  a connected node stays silent for ever (`check_clients` is not called), to survive
  when descriptors run out, and to end the other process when one fails before the
  two meet at the FIFO. The models contain these behaviours; `ServerEnds` and
  `BothEnd` say under which conditions there is an end.
* After undefined behaviour, or between `sbuffer_free` and `exit` in the thread
  that gives up on the database, what other threads do with freed memory.
* Failures of `malloc`, `select`, `pthread_create` and of opening files, which
  end the process at once.
* `file_creator.c` and `datamain.c`, which write or read files once, and the
  Makefile and `config.h`, whose constants are those of the modules.

## Plan

Done: `Sbuffer`, `Gateway`, `Broadcast`, `Dplist` with `ListSeq`, `Tcpsock`,
`Connmgr`, `Storage`, `Datamgr`, `Lifecycle`, and the theorems above: every
safety property of a passing run is a theorem. Left, in this order:

1. `Connmgr`: what a stopped server leaves behind as a theorem about all nodes
   (which descriptors stay open), from `Descriptors`.
2. `Gateway`: how many readings an insertion that overlaps a removal can lose.
