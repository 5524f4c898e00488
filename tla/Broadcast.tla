----------------------------- MODULE Broadcast -----------------------------
(***************************************************************************)
(* What the shared buffer promises, without list, mutex, barrier or        *)
(* threads: every reading that arrives is taken once by each of the two    *)
(* readers, in order of arrival, the readers are never more than one       *)
(* reading apart, and a reading is given up after both have taken it.  A   *)
(* lossless buffer also skips no reading.                                  *)
(***************************************************************************)
EXTENDS Naturals

CONSTANTS
  MaxReadings,   \* bound on the readings that arrive
  Lossless       \* no reading is skipped

Consumer == {"datamgr", "strmgr"}

VARIABLES
  arrived,   \* readings 1..arrived have arrived
  taken,     \* taken[c]: the readings reader c has taken
  freed      \* the readings given up

vars == <<arrived, taken, freed>>

Init == arrived = 0 /\ taken = [c \in Consumer |-> {}] /\ freed = {}

Arrive ==
  /\ arrived < MaxReadings
  /\ arrived' = arrived + 1
  /\ UNCHANGED <<taken, freed>>

Take(c, n) ==
  /\ n \notin taken[c]
  /\ taken[c] \subseteq freed
  /\ \A d \in Consumer : taken[d] \ freed \subseteq {n}
  /\ \A m \in freed : m < n
  /\ Lossless => 1..(n - 1) \subseteq freed
  /\ taken' = [taken EXCEPT ![c] = @ \cup {n}]
  /\ UNCHANGED <<arrived, freed>>

GiveUp(n) ==
  /\ n \notin freed
  /\ \A c \in Consumer : n \in taken[c]
  /\ freed' = freed \cup {n}
  /\ UNCHANGED <<arrived, taken>>

TakeSome(c) == \E n \in 1..arrived : Take(c, n)
GiveUpSome  == \E n \in 1..arrived : GiveUp(n)

Next == Arrive \/ (\E c \in Consumer : TakeSome(c)) \/ GiveUpSome

Spec     == Init /\ [][Next]_vars
FairSpec == Spec /\ (\A c \in Consumer : WF_vars(TakeSome(c))) /\ WF_vars(GiveUpSome)
=============================================================================
