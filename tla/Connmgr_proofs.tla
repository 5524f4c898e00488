--------------------------- MODULE Connmgr_proofs ---------------------------
(***************************************************************************)
(* Theorems about Connmgr, for any set of nodes, any number of readings    *)
(* and any size of the descriptor table.                                   *)
(***************************************************************************)
EXTENDS Connmgr, SequenceTheorems, FiniteSetTheorems, WellFoundedInduction, TLAPS

(***************************************************************************)
(* Lemmas about the minimum of a set and about the list.                   *)
(***************************************************************************)

\* A set of natural numbers has a least one, and Min is it.
LEMMA MinIsLeast ==
  ASSUME NEW S \in SUBSET Nat, S # {}
  PROVE  Min(S) \in S /\ \A y \in S : Min(S) <= y
<1>1. \E x \in S : \A y \in S : <<y, x>> \notin OpToRel(<, Nat)
  BY WFMin, NatLessThanWellFounded
<1>2. PICK x \in S : \A y \in S : <<y, x>> \notin OpToRel(<, Nat)
  BY <1>1
<1>3. \A y \in S : ~(y < x)
  <2>1. \A y \in S : <<y, x>> \in OpToRel(<, Nat) <=> y < x
    BY Zenon DEF OpToRel
  <2>. QED
    BY <1>2, <2>1
<1>4. \E m \in S : \A y \in S : m <= y
  BY <1>3
<1>. QED
  BY <1>4 DEF Min

\* The position that an index stands for is one of the list.
LEMMA ClampInRange ==
  ASSUME NEW s \in Seq(Client), s # <<>>, NEW k \in Nat
  PROVE  List!Clamp(s, k) \in 1..Len(s)
BY EmptySeq, LenProperties DEF List!Clamp

\* Removal takes out that position and closes the gap.
LEMMA RemovedIs ==
  ASSUME NEW s \in Seq(Client), s # <<>>, NEW k \in Nat, NEW p, p = List!Clamp(s, k)
  PROVE  /\ List!Removed(s, k) \in Seq(Client)
         /\ Len(List!Removed(s, k)) = Len(s) - 1
         /\ \A j \in 1..(Len(s) - 1) :
              List!Removed(s, k)[j] = IF j < p THEN s[j] ELSE s[j + 1]
<1>. DEFINE a == SubSeq(s, 1, p - 1)
            b == SubSeq(s, p + 1, Len(s))
<1>1. p \in 1..Len(s) /\ Len(s) \in Nat
  BY ClampInRange, LenProperties
<1>2. /\ a \in Seq(Client) /\ Len(a) = p - 1 
      /\ \A j \in 1..(p - 1) : a[j] = s[j]
  BY <1>1
<1>3. /\ b \in Seq(Client) /\ Len(b) = Len(s) - p
      /\ \A j \in 1..(Len(s) - p) : b[j] = s[p + j]
  BY <1>1
<1>4. List!Removed(s, k) = a \o b
  BY DEF List!Removed, List!RemoveAt
<1>. HIDE DEF a, b
<1>5. /\ a \o b \in Seq(Client) /\ Len(a \o b) = Len(s) - 1
      /\ \A j \in 1..(Len(s) - 1) : (a \o b)[j] = IF j <= p - 1 THEN a[j] ELSE b[j - (p - 1)]
  BY <1>1, <1>2, <1>3, ConcatProperties
<1>6. ASSUME NEW j \in 1..(Len(s) - 1)
      PROVE  (a \o b)[j] = IF j < p THEN s[j] ELSE s[j + 1]
  <2>1. CASE j < p
    BY <1>1, <1>2, <1>5, <2>1
  <2>2. CASE ~(j < p)
    <3>1. j - (p - 1) \in 1..(Len(s) - p) /\ p + (j - (p - 1)) = j + 1
      BY <1>1, <2>2
    <3>2. (a \o b)[j] = b[j - (p - 1)]
      BY <1>1, <1>5, <2>2
    <3>3. b[j - (p - 1)] = s[j + 1]
      BY <1>3, <3>1
    <3>. QED
      BY <2>2, <3>2, <3>3
  <2>. QED
    BY <2>1, <2>2
<1>. QED
  BY <1>4, <1>5, <1>6

\* An insertion at the index beyond the length appends.
LEMMA InsertedIs ==
  ASSUME NEW s \in Seq(Client), NEW c \in Client
  PROVE  List!Inserted(s, c, Len(s) + 1) = Append(s, c)
<1>1. Len(s) \in Nat /\ ~(Len(s) + 1 < Len(s))
  BY LenProperties
<1>2. List!Inserted(s, c, Len(s) + 1)
        = SubSeq(s, 1, Len(s) + 1 - 1) \o <<c>> \o SubSeq(s, Len(s) + 1, Len(s))
  BY <1>1 DEF List!Inserted, List!InsertAt
<1>3. SubSeq(s, Len(s) + 1, Len(s)) = <<>>
  BY <1>1, SubSeqEmpty
<1>4. SubSeq(s, 1, Len(s) + 1 - 1) = s
  BY <1>1, SubSeqFull
<1>5. <<c>> \in Seq(Client) /\ s \o <<c>> \in Seq(Client)
  BY ConcatProperties
<1>. QED
  BY <1>2, <1>3, <1>4, <1>5, ConcatEmptySeq, AppendIsConcat

(***************************************************************************)
(* The inductive invariant.                                                *)
(***************************************************************************)
NonClient == {"free", "listener", "unconnected"}
Peer      == {"absent", "open", "closed", "reset", "shut"}

Own(c)  == {d \in Descriptor : files[d] = c}
Kept(c) == closed[c] = <<"hangup">> \/ (closed[c] # <<>> /\ peer[c] = "reset")

InBacklog(c) == \E k \in DOMAIN backlog : backlog[k] = c

Types ==
  /\ peer \in [Client -> Peer]
  /\ backlog \in Seq(Client) /\ sockets \in Seq(Client)
  /\ closed \in [Client -> Seq({"timeout", "hangup"})]
  /\ client_amount \in Nat /\ i \in Nat
  /\ sent \in [Client -> Nat] /\ DOMAIN inbox = Client /\ DOMAIN sending = Client

Files ==
  /\ files \in [Descriptor -> Client \cup NonClient]
  /\ DOMAIN sock = Client
  /\ IsBound(server) => server.sd \in Descriptor /\ files[server.sd] = "listener"

\* A node stands at one place at most, in the backlog or on the list, and only
\* until its connection is reported as closed, which is then at its end.
Places ==
  /\ \A j, k \in DOMAIN sockets : sockets[j] = sockets[k] => j = k
  /\ \A j, k \in DOMAIN backlog : backlog[j] = backlog[k] => j = k
  /\ \A k \in DOMAIN backlog : backlog[k] \notin Elements
  /\ \A c \in Client :
       c \in Elements \/ InBacklog(c) => peer[c] # "absent" /\ closed[c] = <<>>
  /\ \A c \in Client : closed[c] # <<>> => peer[c] \notin {"absent", "open"}
  /\ \A c \in Client : Len(closed[c]) <= 1

\* There are at least as many connections as iterations to come.
Room ==
  /\ pc = "scan" => Len(sockets) >= client_amount - i
  /\ pc = "done" => sockets = <<>>

\* Who holds which descriptor.
Descriptors ==
  \A c \in Client :
    CASE c \in Elements -> \E d \in Descriptor : sock[c] = Bound(d) /\ Own(c) = {d}
      [] c \notin Elements /\ Kept(c) -> \E d \in Descriptor : Own(c) = {d}
      [] OTHER -> Own(c) = {}

\* A connection that is still to be visited had something to be received.
Ready ==
  /\ \A c \in Client : inbox[c] # <<>> => sent[c] > 0
  /\ pc = "scan" => \A c \in Elements :
       socket_get_sd(sock[c]) \in fdSet /\ peer[c] = "open" => sent[c] > 0 \/ sending[c]

IInv == Types /\ Files /\ Places /\ Room /\ Descriptors /\ Ready

LEMMA InitIInv == Init => IInv
<1>. SUFFICES ASSUME Init PROVE IInv
  OBVIOUS
<1>1. Types
  BY DEF Init, Types, Peer
<1>2. Files
  BY DEF Init, Files, NoFiles, NonClient, Freed, IsBound
<1>3. Places /\ Room
  BY DEF Init, Places, Room, Elements, InBacklog
<1>4. Descriptors
  BY ConnmgrAssumption DEF Init, Descriptors, Elements, Own, Kept, NoFiles
<1>5. Ready
  BY DEF Init, Ready, Elements
<1>. QED
  BY <1>1, <1>2, <1>3, <1>4, <1>5 DEF IInv

(***************************************************************************)
(* Steps that move neither list nor descriptor.                            *)
(***************************************************************************)

\* How a node's end of a connection may move while the gateway's side stays.
PeerMoves ==
  /\ peer' \in [Client -> Peer]
  /\ \A c \in Client :
       \/ peer'[c] = peer[c]
       \/ /\ peer[c] \in {"open", "shut"} /\ peer'[c] \in {"closed", "shut", "reset"}
          /\ peer'[c] = "reset" => peer[c] = "open"

LEMMA ListsStay ==
  ASSUME IInv, UNCHANGED <<sockets, backlog, closed>>, PeerMoves
  PROVE  Places'
<1>1. Elements' = Elements
  BY DEF Elements
<1>2. \A c \in Client :
        /\ peer[c] # "absent" => peer'[c] # "absent"
        /\ peer[c] \notin {"absent", "open"} => peer'[c] \notin {"absent", "open"}
  BY DEF PeerMoves
<1>3. \A c \in Client :
        /\ c \in Elements \/ InBacklog(c) => peer[c] # "absent" /\ closed[c] = <<>>
        /\ closed[c] # <<>> => peer[c] \notin {"absent", "open"}
  BY DEF IInv, Places
<1>4. \A c \in Client :
        /\ c \in Elements \/ InBacklog(c) => peer'[c] # "absent" /\ closed[c] = <<>>
        /\ closed[c] # <<>> => peer'[c] \notin {"absent", "open"}
  BY <1>2, <1>3
<1>. QED
  BY <1>1, <1>4 DEF IInv, Places, InBacklog

LEMMA FilesStay ==
  ASSUME IInv, UNCHANGED <<sockets, closed, sockVars>>, PeerMoves
  PROVE  Files' /\ Descriptors'
<1>1. Files'
  BY DEF IInv, Files, sockVars
<1>2. ASSUME NEW c \in Client PROVE c \in Elements' <=> c \in Elements
  BY DEF Elements
<1>3. ASSUME NEW c \in Client PROVE Own(c)' = Own(c)
  BY DEF Own, sockVars
<1>4. ASSUME NEW c \in Client PROVE Kept(c)' <=> Kept(c)
  BY DEF Kept, PeerMoves, IInv, Places
<1>5. Descriptors'
  BY <1>2, <1>3, <1>4 DEF IInv, Descriptors, sockVars
<1>. QED
  BY <1>1, <1>5

(***************************************************************************)
(* The sensor nodes.                                                       *)
(***************************************************************************)
LEMMA ConnectIInv == ASSUME IInv, NEW c \in Client, Connect(c) PROVE IInv'
<1>1. /\ UNCHANGED <<sending, inbox, sent, pc, sockets, sockVars, scanVars, serverVars, logVars>>
      /\ peer[c] = "absent"
      /\ \/ peer' = [peer EXCEPT ![c] = "open"] /\ backlog' = Append(backlog, c)
         \/ peer' = [peer EXCEPT ![c] = "closed"] /\ UNCHANGED backlog
  BY DEF Connect
<1>2. c \notin Elements /\ (\A k \in DOMAIN backlog : backlog[k] # c) /\ closed[c] = <<>>
  BY <1>1 DEF IInv, Places, InBacklog
<1>3. Elements' = Elements
  BY <1>1 DEF Elements
<1>4. /\ backlog' \in Seq(Client)
      /\ \A k \in DOMAIN backlog' :
           \/ k \in DOMAIN backlog /\ backlog'[k] = backlog[k]
           \/ k = Len(backlog) + 1 /\ backlog'[k] = c
  <2>1. backlog \in Seq(Client)
    BY DEF IInv, Types
  <2>2. CASE backlog' = Append(backlog, c)
    BY <2>1, <2>2, AppendProperties, LenProperties
  <2>3. CASE UNCHANGED backlog
    BY <2>1, <2>3
  <2>. QED
    BY <1>1, <2>2, <2>3
<1>5. Types'
  BY <1>1, <1>4 DEF IInv, Types, Peer, logVars, scanVars
<1>6. Files'
  BY <1>1 DEF IInv, Files, sockVars
<1>7. Places'
  <2>1. \A j, k \in DOMAIN backlog' : backlog'[j] = backlog'[k] => j = k
    BY <1>2, <1>4 DEF IInv, Places
  <2>2. \A k \in DOMAIN backlog' : backlog'[k] \notin Elements
    BY <1>2, <1>4 DEF IInv, Places
  <2>3. ASSUME NEW d \in Client PROVE
          /\ d \in Elements \/ InBacklog(d)' => peer'[d] # "absent" /\ closed[d] = <<>>
          /\ closed[d] # <<>> => peer'[d] \notin {"absent", "open"}
    <3>1. CASE d = c
      BY <1>1, <1>2, <3>1 DEF IInv, Types, InBacklog
    <3>2. CASE d # c
      BY <1>1, <1>4, <3>2 DEF IInv, Types, Places, InBacklog
    <3>. QED
      BY <3>1, <3>2
  <2>. QED
    BY <1>1, <1>3, <2>1, <2>2, <2>3 DEF IInv, Places, logVars
<1>8. Room'
  BY <1>1 DEF IInv, Room, scanVars
<1>9. Descriptors'
  <2>1. ASSUME NEW d \in Client PROVE Own(d)' = Own(d) /\ (Kept(d)' <=> Kept(d))
    BY <1>1, <1>2 DEF Own, Kept, sockVars, logVars, IInv, Types
  <2>. QED
    BY <1>1, <1>3, <2>1 DEF IInv, Descriptors, sockVars
<1>10. Ready'
  <2>1. ASSUME NEW d \in Client, d # c PROVE peer'[d] = peer[d]
    BY <1>1, <2>1 DEF IInv, Types
  <2>2. UNCHANGED <<inbox, sent, sending, pc, fdSet, sock>>
    BY <1>1 DEF scanVars, sockVars
  <2>3. Elements \subseteq Client
    BY DEF IInv, Types, Elements
  <2>. QED
    BY <1>2, <1>3, <2>1, <2>2, <2>3 DEF IInv, Ready
<1>. QED
  BY <1>5, <1>6, <1>7, <1>8, <1>9, <1>10 DEF IInv

LEMMA SensorIInv == ASSUME IInv, NEW c \in Client, Sensor(c) PROVE IInv'
<1>1. CASE Connect(c)
  BY <1>1, ConnectIInv
<1>2. ASSUME BeginReading(c) \/ EndReading(c) \/ SendFails(c) \/ Close(c) \/ Reset(c)
      PROVE  IInv'
  <2>1. UNCHANGED <<backlog, pc, sockets, sockVars, scanVars, closed>>
    BY <1>2 DEF BeginReading, EndReading, SendFails, Close, Reset, logVars
  <2>2. Types'
    <3>1. /\ peer' \in [Client -> Peer] /\ DOMAIN inbox' = Client /\ DOMAIN sending' = Client
          /\ sent' \in [Client -> Nat]
      <4>1. CASE BeginReading(c)
        BY <4>1 DEF BeginReading, IInv, Types, Peer
      <4>2. CASE EndReading(c)
        BY <4>2 DEF EndReading, IInv, Types, Peer
      <4>3. CASE SendFails(c)
        BY <4>3 DEF SendFails, IInv, Types, Peer
      <4>4. CASE Close(c)
        BY <4>4 DEF Close, IInv, Types, Peer
      <4>5. CASE Reset(c)
        BY <4>5 DEF Reset, IInv, Types, Peer
      <4>. QED
        BY <1>2, <4>1, <4>2, <4>3, <4>4, <4>5
    <3>. QED
      BY <2>1, <3>1 DEF IInv, Types, scanVars
  <2>3. PeerMoves
    BY <1>2, <2>2 DEF BeginReading, EndReading, SendFails, Close, Reset, IInv, Types, PeerMoves
  <2>4. Places'
    BY <2>1, <2>3, ListsStay
  <2>5. Files' /\ Descriptors'
    BY <2>1, <2>3, FilesStay
  <2>6. Room'
    BY <2>1 DEF IInv, Room, scanVars
  <2>7. Ready'
    <3>1. ASSUME NEW d \in Client PROVE
            /\ inbox'[d] # <<>> => inbox[d] # <<>> \/ sent'[d] > 0
            /\ peer'[d] = "open" => peer[d] = "open"
            /\ sent[d] > 0 => sent'[d] > 0
            /\ sending[d] => sending'[d] \/ sent'[d] > 0
      <4>1. CASE BeginReading(c)
        BY <4>1 DEF BeginReading, IInv, Types
      <4>2. CASE EndReading(c)
        BY <4>2 DEF EndReading, IInv, Types
      <4>3. CASE SendFails(c)
        BY <4>3 DEF SendFails, IInv, Types
      <4>4. CASE Close(c)
        BY <4>4 DEF Close, IInv, Types
      <4>5. CASE Reset(c)
        BY <4>5 DEF Reset, IInv, Types
      <4>. QED
        BY <1>2, <4>1, <4>2, <4>3, <4>4, <4>5
    <3>2. Elements' = Elements
      BY <2>1 DEF Elements
    <3>3. Elements \subseteq Client
      BY DEF IInv, Types, Elements
    <3>4. UNCHANGED <<pc, fdSet, sock>>
      BY <2>1 DEF scanVars, sockVars
    <3>. QED
      BY <3>1, <3>2, <3>3, <3>4 DEF IInv, Ready
  <2>. QED
    BY <2>2, <2>4, <2>5, <2>6, <2>7 DEF IInv
<1>. QED
  BY <1>1, <1>2 DEF Sensor

(***************************************************************************)
(* Steps of the thread that leave list and descriptors alone: time passes, *)
(* or the code only moves on.                                              *)
(***************************************************************************)
LEMMA MovesOn ==
  ASSUME IInv, UNCHANGED <<peerVars, backlog, sockets, sockVars, scanVars, closed>>,
         pc' = pc \/ pc' \notin {"scan", "done"}
  PROVE  IInv'
<1>1. PeerMoves
  BY DEF IInv, Types, PeerMoves, peerVars
<1>2. Types'
  BY DEF IInv, Types, peerVars, scanVars
<1>3. Places'
  BY <1>1, ListsStay
<1>4. Files' /\ Descriptors'
  BY <1>1, FilesStay
<1>5. Room'
  BY DEF IInv, Room, scanVars
<1>6. Ready'
  <2>1. Elements' = Elements
    BY DEF Elements
  <2>. QED
    BY <2>1 DEF IInv, Ready, peerVars, sockVars, scanVars
<1>. QED
  BY <1>2, <1>3, <1>4, <1>5, <1>6 DEF IInv

(***************************************************************************)
(* OpenServer and EndServer: a descriptor that is no connection's changes. *)
(***************************************************************************)

\* The lowest descriptor that is free, if any is.
LEMMA MinUnused ==
  ASSUME Unused(files) # {}
  PROVE  Min(Unused(files)) \in Descriptor /\ files[Min(Unused(files))] = "free"
<1>1. Unused(files) \in SUBSET Nat
  BY OpenMaxAssumption DEF Unused, Descriptor
<1>. QED
  BY <1>1, MinIsLeast DEF Unused

LEMMA OwnStays ==
  ASSUME Files, NEW d \in Descriptor, files[d] \in NonClient, NEW e \in NonClient,
         files' = [files EXCEPT ![d] = e]
  PROVE  \A c \in Client : Own(c)' = Own(c)
<1>1. \A c \in Client : c \notin NonClient
  BY ConnmgrAssumption DEF NonClient
<1>2. \A x \in Descriptor : files'[x] = IF x = d THEN e ELSE files[x]
  BY DEF Files
<1>. QED
  BY <1>1, <1>2 DEF Own

LEMMA OpenServerIInv == ASSUME IInv, OpenServer PROVE IInv'
<1>1. /\ UNCHANGED <<peerVars, backlog, sockets, sock, scanVars, serverVars, logVars>>
      /\ pc' \in {"select", "failed"}
  BY DEF OpenServer
<1>2. /\ Files'
      /\ \A c \in Client : Own(c)' = Own(c)
  <2>. DEFINE d == Min(Unused(files))
  <2>1. \/ files' = files /\ server' = Freed
        \/ /\ Unused(files) # {}
           /\ \/ files' = [files EXCEPT ![d] = "unconnected"] /\ server' = Freed
              \/ files' = [files EXCEPT ![d] = "listener"] /\ server' = Bound(d)
    <3>1. PICK r \in Open(files, "listener") : server' = r.sock /\ files' = r.files
      BY DEF OpenServer, tcp_passive_open
    <3>2. CASE Unused(files) = {}
      BY <3>1, <3>2 DEF Open, Outcome
    <3>3. CASE Unused(files) # {}
      <4>1. r \in {Outcome(TCP_ADDRESS_ERROR, Freed, files), Outcome(TCP_SOCKOP_ERROR, Freed, files),
                   HalfOpen(TCP_SOCKOP_ERROR, files), Success(files, "listener")}
        BY <3>1, <3>3 DEF Open
      <4>2. CASE r \in {Outcome(TCP_ADDRESS_ERROR, Freed, files), Outcome(TCP_SOCKOP_ERROR, Freed, files)}
        BY <3>1, <4>2 DEF Outcome
      <4>3. CASE r = HalfOpen(TCP_SOCKOP_ERROR, files)
        BY <3>1, <3>3, <4>3 DEF HalfOpen, Outcome
      <4>4. CASE r = Success(files, "listener")
        <5>1. r.sock = Bound(d) /\ r.files = [files EXCEPT ![d] = "listener"]
          BY <4>4 DEF Success, Outcome
        <5>. QED
          BY <3>1, <3>3, <5>1
      <4>. QED
        BY <4>1, <4>2, <4>3, <4>4
    <3>. QED
      BY <3>2, <3>3
  <2>2. Files
    BY DEF IInv
  <2>. HIDE DEF d
  <2>3. CASE files' = files /\ server' = Freed
    BY <1>1, <2>2, <2>3 DEF Files, Own, IsBound, Freed
  <2>4. CASE Unused(files) # {}
    <3>1. d \in Descriptor /\ files[d] = "free"
      BY <2>4, MinUnused DEF d
    <3>2. CASE files' = [files EXCEPT ![d] = "unconnected"] /\ server' = Freed
      <4>1. Files'
        BY <1>1, <2>2, <3>1, <3>2 DEF Files, IsBound, Freed, NonClient
      <4>. QED
        BY <2>2, <3>1, <3>2, <4>1, OwnStays DEF NonClient
    <3>3. CASE files' = [files EXCEPT ![d] = "listener"] /\ server' = Bound(d)
      <4>1. Files'
        BY <1>1, <2>2, <3>1, <3>3 DEF Files, IsBound, Bound, NonClient
      <4>. QED
        BY <2>2, <3>1, <3>3, <4>1, OwnStays DEF NonClient
    <3>. QED
      BY <2>1, <2>3, <3>2, <3>3
  <2>. QED
    BY <2>1, <2>3, <2>4
<1>3. PeerMoves
  BY <1>1 DEF IInv, Types, PeerMoves, peerVars
<1>4. Types'
  BY <1>1 DEF IInv, Types, peerVars, scanVars, logVars
<1>5. Places'
  BY <1>1, <1>3, ListsStay DEF logVars
<1>6. Elements' = Elements
  BY <1>1 DEF Elements
<1>7. Descriptors'
  <2>1. \A c \in Client : Kept(c)' <=> Kept(c)
    BY <1>1 DEF Kept, peerVars, logVars
  <2>. QED
    BY <1>1, <1>2, <1>6, <2>1 DEF IInv, Descriptors
<1>8. Room' /\ Ready'
  BY <1>1, <1>6 DEF IInv, Room, Ready, peerVars
<1>. QED
  BY <1>2, <1>4, <1>5, <1>7, <1>8 DEF IInv

LEMMA CheckIInv == ASSUME IInv, Check PROVE IInv'
<1>1. CASE KeepServing
  BY <1>1, MovesOn DEF KeepServing, logVars
<1>2. CASE AwaitClient
  BY <1>2, MovesOn DEF AwaitClient, logVars
<1>3. CASE EndServer
  <2>1. /\ UNCHANGED <<sending, inbox, sent, backlog, sockets, sock, scanVars, closed>>
        /\ pc' = "done" /\ Len(sockets) = 0
        /\ peer' = [c \in Client |-> IF peer[c] = "open" /\ InBacklog(c) THEN "shut" ELSE peer[c]]
    BY <1>3 DEF EndServer, logVars, Remaining, InBacklog
  <2>2. sockets = <<>> /\ Elements' = {} /\ Elements = {}
    BY <2>1, EmptySeq DEF IInv, Types, Elements
  <2>3. Types'
    BY <2>1 DEF IInv, Types, scanVars, Peer
  <2>4. PeerMoves
    BY <2>1, <2>3 DEF Types, PeerMoves
  <2>5. Places'
    BY <2>1, <2>4, ListsStay
  <2>6. Files' /\ \A c \in Client : Own(c)' = Own(c)
    <3>1. server' = Freed /\ Files
      BY <1>3 DEF EndServer, tcp_close, Outcome, IInv
    <3>2. CASE IsBound(server)
      <4>1. /\ server.sd \in Descriptor /\ files[server.sd] = "listener"
            /\ files' = [files EXCEPT ![server.sd] = "free"]
        BY <1>3, <3>1, <3>2 DEF EndServer, tcp_close, Outcome, Files
      <4>2. Files'
        BY <2>1, <3>1, <4>1 DEF Files, IsBound, Freed, NonClient
      <4>. QED
        BY <3>1, <4>1, <4>2, OwnStays DEF NonClient
    <3>3. CASE ~IsBound(server)
      <4>1. files' = files
        BY <1>3, <3>3 DEF EndServer, tcp_close, Outcome
      <4>. QED
        BY <2>1, <3>1, <4>1 DEF Files, Own, IsBound, Freed
    <3>. QED
      BY <3>2, <3>3
  <2>7. Descriptors'
    <3>1. \A c \in Client : Kept(c)' <=> Kept(c)
      BY <2>1, <2>4 DEF Kept, PeerMoves, IInv, Places
    <3>. QED
      BY <2>1, <2>2, <2>6, <3>1 DEF IInv, Descriptors
  <2>8. Room' /\ Ready'
    BY <2>1, <2>2 DEF IInv, Room, Ready
  <2>. QED
    BY <2>3, <2>5, <2>6, <2>7, <2>8 DEF IInv
<1>. QED
  BY <1>1, <1>2, <1>3 DEF Check

LEMMA FreeIInv == ASSUME IInv, connmgr_free PROVE IInv'
<1>1. /\ UNCHANGED <<peerVars, backlog, server, files, scanVars, closed>>
      /\ sockets = <<>> /\ sockets' = <<>> /\ pc' = "freed"
  BY DEF connmgr_free, logVars, IInv, Room
<1>2. Elements = {}
  BY <1>1 DEF Elements
<1>3. DOMAIN sock' = Client
  BY DEF connmgr_free
<1>4. PeerMoves
  BY <1>1 DEF IInv, Types, PeerMoves, peerVars
<1>5. Places'
  BY <1>1, <1>4, ListsStay
<1>6. Types' /\ Files'
  BY <1>1, <1>3 DEF IInv, Types, Files, peerVars, scanVars
<1>7. Descriptors'
  <2>1. \A c \in Client : (Kept(c)' <=> Kept(c)) /\ Own(c)' = Own(c)
    BY <1>1 DEF Kept, Own, peerVars
  <2>. QED
    BY <1>1, <1>2, <2>1 DEF IInv, Descriptors, Elements
<1>8. Room' /\ Ready'
  BY <1>1 DEF IInv, Room, Ready, peerVars
<1>. QED
  BY <1>5, <1>6, <1>7, <1>8 DEF IInv

(***************************************************************************)
(* Select.                                                                 *)
(***************************************************************************)

\* A connection on the list has a descriptor of its own, whose end is its node.
LEMMA OwnDescriptor ==
  ASSUME IInv, NEW c \in Elements
  PROVE  /\ c \in Client /\ IsBound(sock[c]) /\ From(c) = c
         /\ sock[c].sd \in Descriptor /\ socket_get_sd(sock[c]) = sock[c].sd
         /\ files[sock[c].sd] = c /\ Own(c) = {sock[c].sd}
<1>1. c \in Client
  BY DEF IInv, Types, Elements
<1>2. PICK d \in Descriptor : sock[c] = Bound(d) /\ Own(c) = {d}
  BY <1>1 DEF IInv, Descriptors
<1>3. IsBound(sock[c]) /\ sock[c].sd = d
  BY <1>2 DEF IsBound, Bound
<1>4. files[d] = c
  BY <1>2 DEF Own
<1>. QED
  BY <1>1, <1>2, <1>3, <1>4 DEF socket_get_sd, From

\* What select reports of an open connection is a reading, or a part of one.
LEMMA SelectedReady ==
  ASSUME IInv, NEW c \in Elements, socket_get_sd(sock[c]) \in Selected, peer[c] = "open"
  PROVE  sent[c] > 0 \/ sending[c]
<1>1. c \in Client /\ files[socket_get_sd(sock[c])] = c
  BY OwnDescriptor
<1>2. c # "listener"
  BY <1>1, ConnmgrAssumption
<1>3. inbox[c] # <<>> \/ sending[c] \/ Ended(c)
  BY <1>1, <1>2 DEF Selected, Readable
<1>. QED
  BY <1>1, <1>3 DEF Ended, IInv, Ready

LEMMA NoConnectionIInv ==
  ASSUME IInv, fdSet' = Selected, NoConnection, UNCHANGED <<peerVars, server, logVars>>
  PROVE  IInv'
<1>1. /\ UNCHANGED <<peerVars, backlog, sockets, sockVars, closed>>
      /\ pc' = "scan" /\ i' = 0 /\ client_amount' = Len(sockets)
  BY DEF NoConnection, BeginScan, ScanBound, sockVars, logVars
<1>2. PeerMoves
  BY <1>1 DEF IInv, Types, PeerMoves, peerVars
<1>3. Len(sockets) \in Nat
  BY LenProperties DEF IInv, Types
<1>4. Types'
  BY <1>1, <1>3 DEF IInv, Types, peerVars
<1>5. Places'
  BY <1>1, <1>2, ListsStay
<1>6. Files' /\ Descriptors'
  BY <1>1, <1>2, FilesStay
<1>7. Room'
  BY <1>1, <1>3 DEF Room
<1>8. Ready'
  <2>1. Elements' = Elements
    BY <1>1 DEF Elements
  <2>. QED
    BY <1>1, <2>1, SelectedReady DEF IInv, Ready, peerVars, sockVars
<1>. QED
  BY <1>4, <1>5, <1>6, <1>7, <1>8 DEF IInv

\* accept() gives the connection at the head of the backlog a free descriptor.
LEMMA AcceptedIs ==
  ASSUME IInv, Accept, pc' # "failed"
  PROVE  /\ backlog # <<>> /\ IsBound(server)
         /\ \E c \in Client, d \in Descriptor :
              /\ c = Head(backlog) /\ files[d] = "free"
              /\ sock' = [sock EXCEPT ![c] = Bound(d)]
              /\ files' = [files EXCEPT ![d] = c]
              /\ backlog' = Tail(backlog)
              /\ sockets' = Append(sockets, c)
         /\ BeginScan
<1>1. PICK r \in tcp_wait_for_connection(server, files, Head(backlog)) :
        /\ r.result = TCP_NO_ERROR
        /\ sock' = [sock EXCEPT ![Head(backlog)] = r.sock]
        /\ files' = r.files
        /\ backlog' = Tail(backlog)
        /\ sockets' = List!Inserted(sockets, Head(backlog), Len(sockets) + 1)
        /\ BeginScan
  BY DEF Accept
<1>2. backlog # <<>> /\ Head(backlog) \in Client
  BY HeadTailProperties DEF Accept, IInv, Types
<1>3. Outcome(TCP_SOCKET_ERROR, Freed, files).result # TCP_NO_ERROR
      /\ Outcome(TCP_SOCKOP_ERROR, Freed, files).result # TCP_NO_ERROR
  BY DEF Outcome, TCP_SOCKET_ERROR, TCP_SOCKOP_ERROR, TCP_NO_ERROR
<1>4. IsBound(server) /\ Unused(files) # {} /\ r = Success(files, Head(backlog))
  BY <1>1, <1>3 DEF tcp_wait_for_connection
<1>5. DEFINE d == Min(Unused(files))
<1>6. r.sock = Bound(d) /\ r.files = [files EXCEPT ![d] = Head(backlog)]
  BY <1>4 DEF Success, Outcome
<1>7. d \in Descriptor /\ files[d] = "free"
  BY <1>4, MinUnused
<1>8. sockets' = Append(sockets, Head(backlog))
  BY <1>1, <1>2, InsertedIs DEF IInv, Types
<1>. HIDE DEF d
<1>. QED
  BY <1>1, <1>2, <1>4, <1>6, <1>7, <1>8

LEMMA AcceptIInv ==
  ASSUME IInv, fdSet' = Selected, Accept, UNCHANGED <<peerVars, server, logVars>>
  PROVE  IInv'
<1>1. UNCHANGED <<peer, inbox, sent, sending, closed, server>>
  BY DEF peerVars, logVars
<1>2. CASE pc' = "failed"
  <2>1. UNCHANGED <<sock, files, backlog, sockets, client_amount, i>>
    <3>1. PICK r \in tcp_wait_for_connection(server, files, Head(backlog)) :
            IF r.result = TCP_NO_ERROR THEN BeginScan
              ELSE UNCHANGED <<sock, files, backlog, sockets, client_amount, i>>
      BY DEF Accept
    <3>. QED
      BY <1>2, <3>1 DEF BeginScan
  <2>2. PeerMoves
    BY <1>1 DEF IInv, Types, PeerMoves
  <2>3. Places'
    BY <1>1, <2>1, <2>2, ListsStay
  <2>4. Files' /\ Descriptors'
    BY <1>1, <2>1, <2>2, FilesStay DEF sockVars
  <2>5. Types' /\ Room' /\ Ready'
    BY <1>1, <1>2, <2>1 DEF IInv, Types, Room, Ready
  <2>. QED
    BY <2>3, <2>4, <2>5 DEF IInv
<1>3. CASE pc' # "failed"
  <2>1. PICK c \in Client, d \in Descriptor :
          /\ c = Head(backlog) /\ files[d] = "free"
          /\ sock' = [sock EXCEPT ![c] = Bound(d)]
          /\ files' = [files EXCEPT ![d] = c]
          /\ backlog' = Tail(backlog)
          /\ sockets' = Append(sockets, c)
    BY <1>3, AcceptedIs
  <2>2. /\ backlog # <<>> /\ IsBound(server)
        /\ pc' = "scan" /\ i' = 0 /\ client_amount' = Len(sockets')
    BY <1>3, AcceptedIs DEF BeginScan, ScanBound
  <2>3. /\ backlog \in Seq(Client) /\ sockets \in Seq(Client)
        /\ Len(backlog) \in Nat /\ Len(sockets) \in Nat
    BY LenProperties DEF IInv, Types
  <2>4. /\ backlog' \in Seq(Client) /\ c = backlog[1] /\ 1 \in DOMAIN backlog
        /\ \A k \in DOMAIN backlog' : k + 1 \in DOMAIN backlog /\ backlog'[k] = backlog[k + 1]
    BY <2>1, <2>2, <2>3, HeadTailProperties, EmptySeq
  <2>5. /\ sockets' \in Seq(Client) /\ Len(sockets') = Len(sockets) + 1
        /\ \A k \in DOMAIN sockets' :
             \/ k \in DOMAIN sockets /\ sockets'[k] = sockets[k]
             \/ k = Len(sockets) + 1 /\ sockets'[k] = c
        /\ \A k \in DOMAIN sockets : k \in DOMAIN sockets' /\ sockets'[k] = sockets[k]
        /\ Len(sockets) + 1 \in DOMAIN sockets' /\ sockets'[Len(sockets) + 1] = c
    BY <2>1, <2>3, AppendProperties
  <2>6. Elements' = Elements \cup {c}
    BY <2>5 DEF Elements
  <2>7. c \notin Elements /\ peer[c] # "absent" /\ closed[c] = <<>>
    BY <2>4 DEF IInv, Places, InBacklog
  <2>8. \A e \in Client : InBacklog(e)' => InBacklog(e)
    BY <2>4 DEF InBacklog
  <2>9. Types'
    BY <1>1, <2>2, <2>3, <2>4, <2>5 DEF IInv, Types
  <2>10. Files'
    <3>1. /\ server.sd \in Descriptor /\ files[server.sd] = "listener"
          /\ files' \in [Descriptor -> Client \cup NonClient]
      BY <2>1, <2>2 DEF IInv, Files
    <3>2. DOMAIN sock' = Client
      BY <2>1 DEF IInv, Files
    <3>3. files'[server.sd] = "listener"
      BY <2>1, <3>1 DEF IInv, Files
    <3>. QED
      BY <1>1, <3>1, <3>2, <3>3 DEF Files
  <2>11. Places'
    <3>1. \A j, k \in DOMAIN sockets' : sockets'[j] = sockets'[k] => j = k
      BY <2>5, <2>7 DEF Elements, IInv, Places
    <3>2. ASSUME NEW j \in DOMAIN backlog', NEW k \in DOMAIN backlog', backlog'[j] = backlog'[k]
          PROVE  j = k
      <4>1. j \in Nat /\ k \in Nat
        BY <2>4
      <4>2. j + 1 = k + 1
        BY <2>4, <3>2 DEF IInv, Places
      <4>. QED
        BY <4>1, <4>2
    <3>3. ASSUME NEW k \in DOMAIN backlog' PROVE backlog'[k] \notin Elements'
      <4>1. k \in Nat /\ k + 1 # 1 /\ k + 1 \in DOMAIN backlog /\ backlog'[k] = backlog[k + 1]
        <5>1. k \in 1..Len(backlog')
          BY <2>4
        <5>. QED
          BY <2>4, <5>1
      <4>2. backlog[k + 1] \notin Elements /\ backlog[k + 1] # c
        BY <2>4, <4>1 DEF IInv, Places
      <4>. QED
        BY <2>6, <4>1, <4>2
    <3>4. ASSUME NEW e \in Client, e \in Elements' \/ InBacklog(e)'
          PROVE  peer[e] # "absent" /\ closed[e] = <<>>
      BY <2>6, <2>7, <2>8, <3>4 DEF IInv, Places
    <3>. QED
      BY <1>1, <3>1, <3>2, <3>3, <3>4 DEF IInv, Places
  <2>12. Room'
    BY <2>2, <2>3, <2>5 DEF Room
  <2>13. \A e \in Client : e # c => sock'[e] = sock[e]
    BY <2>1 DEF IInv, Files
  <2>14. sock'[c] = Bound(d)
    BY <2>1 DEF IInv, Files
  <2>15. Descriptors'
    <3>1. \A x \in Descriptor : files'[x] = IF x = d THEN c ELSE files[x]
      BY <2>1 DEF IInv, Files
    <3>2. "free" \notin Client
      BY ConnmgrAssumption
    <3>3. \A e \in Client : e # c => Own(e)' = Own(e)
      BY <2>1, <3>1, <3>2 DEF Own
    <3>4. Own(c)' = {d}
      <4>1. Own(c) = {}
        BY <2>7 DEF IInv, Descriptors, Kept
      <4>. QED
        BY <3>1, <4>1 DEF Own
    <3>5. \A e \in Client : Kept(e)' <=> Kept(e)
      BY <1>1 DEF Kept
    <3>6. ASSUME NEW e \in Client PROVE
            CASE e \in Elements' -> \E x \in Descriptor : sock'[e] = Bound(x) /\ Own(e)' = {x}
              [] e \notin Elements' /\ Kept(e)' -> \E x \in Descriptor : Own(e)' = {x}
              [] OTHER -> Own(e)' = {}
      <4>1. CASE e = c
        BY <2>6, <2>14, <3>4, <4>1
      <4>2. CASE e # c
        BY <2>6, <2>13, <3>3, <3>5, <4>2 DEF IInv, Descriptors
      <4>. QED
        BY <4>1, <4>2
    <3>. QED
      BY <3>6 DEF Descriptors
  <2>16. Ready'
    <3>1. socket_get_sd(sock'[c]) = d
      BY <2>14 DEF socket_get_sd, IsBound, Bound
    <3>2. d \notin Watched
      <4>1. \A e \in Elements : socket_get_sd(sock[e]) # d
        BY <2>1, OwnDescriptor, ConnmgrAssumption
      <4>2. socket_get_sd(server) # d
        BY <2>1, <2>2 DEF socket_get_sd, IInv, Files
      <4>. QED
        BY <4>1, <4>2 DEF Watched
    <3>3. Elements \subseteq Client
      BY DEF IInv, Types, Elements
    <3>4. ASSUME NEW e \in Elements, socket_get_sd(sock'[e]) \in fdSet', peer[e] = "open"
          PROVE  sent[e] > 0 \/ sending[e]
      BY <2>7, <2>13, <3>3, <3>4, SelectedReady
    <3>. QED
      BY <1>1, <2>6, <3>1, <3>2, <3>4 DEF IInv, Ready, Selected
  <2>. QED
    BY <2>9, <2>10, <2>11, <2>12, <2>15, <2>16 DEF IInv
<1>. QED
  BY <1>2, <1>3

(***************************************************************************)
(* The scan.                                                               *)
(***************************************************************************)

\* Where the scan stops: at an index that is to come, on a connection of the
\* list that is its own node's and that select reported.
LEMMA ScanStopsAt ==
  ASSUME IInv, Scanning
  PROVE  /\ At \in Nat /\ i <= At /\ At < client_amount /\ sockets # <<>>
         /\ List!Clamp(sockets, At) \in 1..Len(sockets)
         /\ Cur = sockets[List!Clamp(sockets, At)] /\ Cur \in Elements
         /\ From(Cur) = Cur /\ socket_get_sd(sock[Cur]) \in fdSet
<1>1. i \in Nat /\ client_amount \in Nat /\ sockets \in Seq(Client) /\ sockets # <<>>
  BY DEF IInv, Types, Scanning
<1>2. Found \in SUBSET Nat /\ Found # {}
  BY <1>1 DEF Found, Scanning
<1>3. At \in Found
  BY <1>2, MinIsLeast DEF At
<1>4. At \in i..(client_amount - 1) /\ IsSet(At)
  BY <1>3 DEF Found
<1>5. At \in Nat /\ i <= At /\ At < client_amount
  BY <1>1, <1>4
<1>6. List!Clamp(sockets, At) \in 1..Len(sockets)
  BY <1>1, <1>5, ClampInRange
<1>7. Cur = sockets[List!Clamp(sockets, At)]
  BY DEF Cur, List!ElementAt
<1>8. Cur \in Elements
  BY <1>1, <1>6, <1>7, LenProperties DEF Elements
<1>9. socket_get_sd(sock[Cur]) \in fdSet
  BY <1>4 DEF IsSet, Cur
<1>. QED
  BY <1>1, <1>5, <1>6, <1>7, <1>8, <1>9, OwnDescriptor

\* A removal takes its connection off the list and moves no other one off it.
LEMMA RemovedElements ==
  ASSUME IInv, sockets # <<>>, NEW k \in Nat,
         sockets' = List!Removed(sockets, k)
  PROVE  /\ sockets' \in Seq(Client) /\ Len(sockets') = Len(sockets) - 1
         /\ \A j, l \in DOMAIN sockets' : sockets'[j] = sockets'[l] => j = l
         /\ Elements' = Elements \ {sockets[List!Clamp(sockets, k)]}
<1>. DEFINE p == List!Clamp(sockets, k)
<1>1. sockets \in Seq(Client) /\ Len(sockets) \in Nat /\ p \in 1..Len(sockets)
  BY ClampInRange, LenProperties DEF IInv, Types
<1>2. /\ sockets' \in Seq(Client) /\ Len(sockets') = Len(sockets) - 1
      /\ \A j \in 1..(Len(sockets) - 1) :
           sockets'[j] = IF j < p THEN sockets[j] ELSE sockets[j + 1]
  BY <1>1, RemovedIs
<1>. HIDE DEF p
<1>3. /\ DOMAIN sockets = 1..Len(sockets)
      /\ DOMAIN sockets' = 1..(Len(sockets) - 1)
  BY <1>1, <1>2, LenProperties
<1>. DEFINE from(j) == IF j < p THEN j ELSE j + 1
<1>4. \A j \in DOMAIN sockets' :
        from(j) \in DOMAIN sockets /\ from(j) # p /\ sockets'[j] = sockets[from(j)]
  BY <1>1, <1>2, <1>3
<1>5. \A j, l \in DOMAIN sockets' : from(j) = from(l) => j = l
  BY <1>1, <1>3
<1>6. \A q \in DOMAIN sockets : q # p => \E j \in DOMAIN sockets' : from(j) = q
  <2>1. ASSUME NEW q \in DOMAIN sockets, q < p PROVE q \in DOMAIN sockets' /\ from(q) = q
    BY <1>1, <1>3, <2>1
  <2>2. ASSUME NEW q \in DOMAIN sockets, q > p
        PROVE  q - 1 \in DOMAIN sockets' /\ from(q - 1) = q
    BY <1>1, <1>3, <2>2
  <2>. QED
    BY <1>1, <1>3, <2>1, <2>2
<1>7. p \in DOMAIN sockets
  BY <1>1, <1>3
<1>. HIDE DEF from
<1>8. \A j, l \in DOMAIN sockets : sockets[j] = sockets[l] => j = l
  BY DEF IInv, Places
<1>9. \A j, l \in DOMAIN sockets' : sockets'[j] = sockets'[l] => j = l
  BY <1>4, <1>5, <1>8
<1>10. Elements' = Elements \ {sockets[p]}
  <2>1. \A j \in DOMAIN sockets' : sockets'[j] \in Elements /\ sockets'[j] # sockets[p]
    BY <1>4, <1>7, <1>8 DEF Elements
  <2>2. \A q \in DOMAIN sockets : sockets[q] # sockets[p] => sockets[q] \in Elements'
    BY <1>4, <1>6 DEF Elements
  <2>. QED
    BY <2>1, <2>2 DEF Elements
<1>. QED
  BY <1>2, <1>9, <1>10 DEF p

\* The connection that a visit reads from is the one it removes or forwards for.
LEMMA VisitIs ==
  ASSUME IInv, Visit
  PROVE  /\ Scanning /\ Received(Cur) /\ Continue(At)
         /\ Forward(Cur, Cur) \/ TimeOut(At, Cur, Cur) \/ HangUp(At, Cur, Cur)
         /\ UNCHANGED <<sending, sent, backlog, server, serverVars>>
<1>1. /\ Scanning /\ Received(From(Cur)) /\ Continue(At)
      /\ Forward(Cur, From(Cur)) \/ TimeOut(At, Cur, From(Cur)) \/ HangUp(At, Cur, From(Cur))
      /\ UNCHANGED <<sending, sent, backlog, server, serverVars>>
  BY DEF Visit, Cur
<1>2. From(Cur) = Cur
  BY <1>1, ScanStopsAt
<1>. QED
  BY <1>1, <1>2

\* recv returns bytes if there are any, the end of the connection otherwise.
LEMMA ResultIs ==
  ASSUME IInv, Scanning, Received(Cur)
  PROVE  /\ Result(Cur) = TCP_NO_ERROR => inbox[Cur] # <<>>
         /\ Result(Cur) # TCP_NO_ERROR => Ended(Cur)
<1>1. IsBound(sock[Cur]) /\ From(Cur) = Cur
  BY ScanStopsAt, OwnDescriptor
<1>. DEFINE did == IF inbox[Cur] # <<>> THEN "bytes"
                   ELSE IF peer[Cur] = "closed" THEN "end" ELSE "error"
<1>2. Result(Cur) = Transfer(sock[Cur], did)
  BY <1>1 DEF Result, tcp_receive
<1>3. Transfer(sock[Cur], did) = CASE did \in {"end", "gone"}  -> TCP_CONNECTION_CLOSED
                                   [] did = "error"            -> TCP_SOCKOP_ERROR
                                   [] OTHER                    -> TCP_NO_ERROR
  BY <1>1 DEF Transfer
<1>4. CASE inbox[Cur] # <<>>
  <2>1. did = "bytes"
    BY <1>4
  <2>2. Result(Cur) = TCP_NO_ERROR
    BY <1>2, <1>3, <2>1
  <2>. QED
    BY <1>4, <2>2
<1>5. CASE inbox[Cur] = <<>>
  <2>1. Ended(Cur)
    BY <1>5 DEF Received
  <2>2. did \in {"end", "error"}
    BY <1>5
  <2>3. Result(Cur) \in {TCP_CONNECTION_CLOSED, TCP_SOCKOP_ERROR}
    BY <1>2, <1>3, <2>2
  <2>. QED
    BY <2>1, <2>3 DEF TCP_NO_ERROR, TCP_CONNECTION_CLOSED, TCP_SOCKOP_ERROR
<1>. QED
  BY <1>4, <1>5

LEMMA ForwardIInv ==
  ASSUME IInv, Scanning, Received(Cur), Continue(At), Forward(Cur, Cur),
         UNCHANGED <<sending, sent, backlog, server, serverVars>>
  PROVE  IInv'
<1>1. /\ UNCHANGED <<peer, sockets, sockVars, closed, backlog, sent, sending, pc, fdSet, client_amount>>
      /\ inbox' = [inbox EXCEPT ![Cur] = Tail(@)] /\ inbox[Cur] # <<>>
      /\ i' = At + 1
  BY ResultIs DEF Forward, Continue, sockVars
<1>2. i \in Nat /\ At \in Nat /\ i <= At /\ Cur \in Client
  BY ScanStopsAt, OwnDescriptor DEF IInv, Types
<1>3. PeerMoves
  BY <1>1 DEF IInv, Types, PeerMoves
<1>4. Types'
  BY <1>1, <1>2 DEF IInv, Types
<1>5. Places'
  BY <1>1, <1>3, ListsStay
<1>6. Files' /\ Descriptors'
  BY <1>1, <1>3, FilesStay
<1>7. Room'
  <2>1. Len(sockets) \in Nat /\ client_amount \in Nat
    BY LenProperties DEF IInv, Types
  <2>. QED
    BY <1>1, <1>2, <2>1 DEF IInv, Room
<1>8. Ready'
  <2>1. Elements' = Elements
    BY <1>1 DEF Elements
  <2>2. \A c \in Client : inbox'[c] # <<>> => inbox[c] # <<>>
    BY <1>1 DEF IInv, Types
  <2>. QED
    BY <1>1, <2>1, <2>2 DEF IInv, Ready, sockVars
<1>. QED
  BY <1>4, <1>5, <1>6, <1>7, <1>8 DEF IInv

\* What TimeOut and HangUp have in common; a descriptor stays behind unless
\* the gateway closed a connection that was not reset.
LEMMA LeaveIInv ==
  ASSUME IInv, Scanning, Continue(At), NEW n \in Client, n = Cur, NEW cause \in {"timeout", "hangup"},
         Drop(At, n, cause),
         UNCHANGED <<sending, sent, backlog, server>>,
         sock' = [sock EXCEPT ![n] = Freed],
         files' = IF cause = "timeout" /\ peer[n] # "reset"
                    THEN [files EXCEPT ![sock[n].sd] = "free"] ELSE files,
         peer' = [peer EXCEPT ![n] = IF @ = "open" THEN "shut" ELSE @],
         peer[n] = "open" => cause = "timeout",
         DOMAIN inbox' = Client,
         \A c \in Client : inbox'[c] # <<>> => inbox[c] # <<>>
  PROVE  IInv'
<1>1. /\ At \in Nat /\ i <= At /\ At < client_amount /\ sockets # <<>>
      /\ n = sockets[List!Clamp(sockets, At)] /\ n \in Elements
  BY ScanStopsAt
<1>2. /\ n \in Client /\ sock[n].sd \in Descriptor
      /\ files[sock[n].sd] = n /\ Own(n) = {sock[n].sd}
  BY <1>1, OwnDescriptor
<1>3. /\ closed' = [closed EXCEPT ![n] = Append(@, cause)]
      /\ i' = At + 1
      /\ UNCHANGED <<pc, fdSet, client_amount, backlog, server, sent, sending>>
  BY DEF Drop, Continue
<1>4. /\ sockets' \in Seq(Client) /\ Len(sockets') = Len(sockets) - 1
      /\ \A j, l \in DOMAIN sockets' : sockets'[j] = sockets'[l] => j = l
      /\ Elements' = Elements \ {n}
  BY <1>1, RemovedElements DEF Drop
<1>5. closed[n] = <<>> /\ peer[n] # "absent" /\ ~InBacklog(n)
  BY <1>1, <1>2 DEF IInv, Places, InBacklog
<1>6. /\ closed'[n] = <<cause>>
      /\ \A c \in Client : c # n => closed'[c] = closed[c]
  BY <1>2, <1>3, <1>5 DEF IInv, Types
<1>7. /\ peer'[n] = IF peer[n] = "open" THEN "shut" ELSE peer[n]
      /\ \A c \in Client : c # n => peer'[c] = peer[c]
  BY <1>2 DEF IInv, Types
<1>8. Types'
  <2>1. closed' \in [Client -> Seq({"timeout", "hangup"})]
    BY <1>2, <1>3, <1>5 DEF IInv, Types
  <2>. QED
    BY <1>1, <1>2, <1>3, <1>4, <2>1 DEF IInv, Types, Peer
<1>9. Files'
  <2>1. files' \in [Descriptor -> Client \cup NonClient] /\ DOMAIN sock' = Client
    BY <1>2 DEF IInv, Files, NonClient
  <2>2. IsBound(server) => server.sd # sock[n].sd
    BY <1>2, ConnmgrAssumption DEF IInv, Files
  <2>3. IsBound(server) => files'[server.sd] = "listener"
    BY <1>2, <2>2 DEF IInv, Files
  <2>. QED
    BY <1>3, <2>1, <2>3 DEF IInv, Files
<1>10. Places'
  <2>1. \A c \in Client : InBacklog(c)' <=> InBacklog(c)
    BY <1>3 DEF InBacklog
  <2>2. \A c \in Client : c \in Elements' \/ InBacklog(c) => c # n /\ (c \in Elements \/ InBacklog(c))
    BY <1>4, <1>5
  <2>3. \A c \in Client : c \in Elements' \/ InBacklog(c)' => peer'[c] # "absent" /\ closed'[c] = <<>>
    BY <1>6, <1>7, <2>1, <2>2 DEF IInv, Places
  <2>4. \A c \in Client : closed'[c] # <<>> => peer'[c] \notin {"absent", "open"}
    BY <1>5, <1>6, <1>7 DEF IInv, Places
  <2>5. \A c \in Client : Len(closed'[c]) <= 1
    <3>1. Len(<<cause>>) = 1
      OBVIOUS
    <3>2. \A c \in Client : Len(closed[c]) <= 1
      BY DEF IInv, Places
    <3>3. ASSUME NEW c \in Client PROVE Len(closed'[c]) <= 1
      <4>1. CASE c = n
        <5>1. closed'[c] = <<cause>>
          BY <1>6, <4>1
        <5>. QED
          BY <3>1, <5>1
      <4>2. CASE c # n
        <5>1. closed'[c] = closed[c]
          BY <1>6, <4>2
        <5>. QED
          BY <3>2, <5>1
      <4>. QED
        BY <4>1, <4>2
    <3>. QED
      BY <3>3
  <2>6. \A k \in DOMAIN backlog' : backlog'[k] \notin Elements'
    BY <1>3, <1>4 DEF IInv, Places
  <2>7. \A j, k \in DOMAIN backlog' : backlog'[j] = backlog'[k] => j = k
    BY <1>3 DEF IInv, Places
  <2>. QED
    BY <1>4, <2>3, <2>4, <2>5, <2>6, <2>7 DEF Places
<1>11. Room'
  <2>1. /\ Len(sockets) \in Nat /\ client_amount \in Nat /\ i \in Nat /\ pc = "scan"
        /\ Len(sockets) >= client_amount - i
    BY LenProperties DEF IInv, Types, Room, Scanning
  <2>. QED
    BY <1>1, <1>3, <1>4, <2>1 DEF Room
<1>12. Descriptors'
  <2>1. \A c \in Client : c # n => sock'[c] = sock[c]
    BY DEF IInv, Files
  <2>2. \A x \in Descriptor : files'[x] = IF x = sock[n].sd /\ cause = "timeout" /\ peer[n] # "reset"
                                            THEN "free" ELSE files[x]
    BY <1>2 DEF IInv, Files
  <2>3. "free" \notin Client
    BY ConnmgrAssumption
  <2>4. \A c \in Client : c # n => Own(c)' = Own(c) /\ (Kept(c)' <=> Kept(c))
    <3>1. \A c \in Client : c # n => Own(c)' = Own(c)
      BY <1>2, <2>2, <2>3 DEF Own
    <3>. QED
      BY <1>6, <1>7, <3>1 DEF Kept
  <2>5. Own(n)' = IF cause = "timeout" /\ peer[n] # "reset" THEN {} ELSE {sock[n].sd}
    BY <1>2, <2>2, <2>3 DEF Own
  <2>6. Kept(n)' <=> (cause = "hangup" \/ peer[n] = "reset")
    <3>1. <<cause>> # <<>> /\ (<<cause>> = <<"hangup">> <=> cause = "hangup")
      OBVIOUS
    <3>2. peer'[n] = "reset" <=> peer[n] = "reset"
      BY <1>7
    <3>. QED
      BY <1>6, <3>1, <3>2 DEF Kept
  <2>7. ASSUME NEW c \in Client PROVE
          CASE c \in Elements' -> \E x \in Descriptor : sock'[c] = Bound(x) /\ Own(c)' = {x}
            [] c \notin Elements' /\ Kept(c)' -> \E x \in Descriptor : Own(c)' = {x}
            [] OTHER -> Own(c)' = {}
    <3>1. CASE c = n
      BY <1>2, <1>4, <2>5, <2>6, <3>1
    <3>2. CASE c # n
      BY <1>4, <2>1, <2>4, <3>2 DEF IInv, Descriptors
    <3>. QED
      BY <3>1, <3>2
  <2>. QED
    BY <2>7 DEF Descriptors
<1>13. Ready'
  <2>1. \A c \in Elements' : c \in Elements /\ c # n /\ c \in Client
    <3>1. Elements \subseteq Client
      BY DEF IInv, Types, Elements
    <3>. QED
      BY <1>4, <3>1
  <2>2. \A c \in Elements' : sock'[c] = sock[c] /\ peer'[c] = peer[c]
    BY <1>7, <2>1 DEF IInv, Files
  <2>. QED
    BY <1>3, <2>1, <2>2 DEF IInv, Ready
<1>. QED
  BY <1>8, <1>9, <1>10, <1>11, <1>12, <1>13 DEF IInv

LEMMA VisitIInv == ASSUME IInv, Visit PROVE IInv'
<1>1. /\ Scanning /\ Received(Cur) /\ Continue(At)
      /\ UNCHANGED <<sending, sent, backlog, server, serverVars>>
  BY VisitIs
<1>2. PICK n \in Client : n = Cur
  BY <1>1, ScanStopsAt, OwnDescriptor
<1>6. IsBound(sock[n])
  BY <1>1, <1>2, ScanStopsAt, OwnDescriptor
<1>3. CASE Forward(Cur, Cur)
  BY <1>1, <1>3, ForwardIInv
<1>4. CASE TimeOut(At, n, n)
  <2>1. /\ sock' = [sock EXCEPT ![n] = Freed]
        /\ files' = IF peer[n] # "reset" THEN [files EXCEPT ![sock[n].sd] = "free"] ELSE files
    BY <1>4, <1>6 DEF TimeOut, tcp_close, Outcome
  <2>2. /\ peer' = [peer EXCEPT ![n] = IF @ = "open" THEN "shut" ELSE @]
        /\ inbox' = [inbox EXCEPT ![n] = <<>>]
        /\ Drop(At, n, "timeout")
    BY <1>4 DEF TimeOut
  <2>3. /\ DOMAIN inbox' = Client
        /\ \A c \in Client : inbox'[c] # <<>> => inbox[c] # <<>>
    BY <1>2, <2>2 DEF IInv, Types
  <2>. QED
    BY <1>1, <1>2, <2>1, <2>2, <2>3, LeaveIInv
<1>5. CASE HangUp(At, n, n)
  <2>1. /\ sock' = [sock EXCEPT ![n] = Freed] /\ UNCHANGED <<files, peer, inbox>>
        /\ Drop(At, n, "hangup") /\ Ended(n)
    BY <1>1, <1>2, <1>5, ResultIs DEF HangUp, tcp_sock_free
  <2>2. peer[n] # "open" /\ peer' = [peer EXCEPT ![n] = IF @ = "open" THEN "shut" ELSE @]
    BY <1>2, <2>1 DEF Ended, IInv, Types
  <2>3. DOMAIN inbox' = Client
    BY <2>1 DEF IInv, Types
  <2>. QED
    BY <1>1, <1>2, <2>1, <2>2, <2>3, LeaveIInv
<1>. QED
  BY <1>2, <1>3, <1>4, <1>5, VisitIs

(***************************************************************************)
(* The theorems.                                                           *)
(***************************************************************************)
LEMMA NextIInv == ASSUME IInv, [Next]_vars PROVE IInv'
<1>1. CASE \E c \in Client : Running /\ Sensor(c)
  BY <1>1, SensorIInv
<1>2. CASE Expire
  BY <1>2, MovesOn DEF Expire, logVars
<1>3. CASE Select
  <2>1. fdSet' = Selected /\ UNCHANGED <<peerVars, server, logVars>>
    BY <1>3 DEF Select
  <2>. QED
    BY <1>3, <2>1, AcceptIInv, NoConnectionIInv DEF Select
<1>4. CASE OpenServer \/ Visit \/ Check \/ connmgr_free
  BY <1>4, OpenServerIInv, VisitIInv, CheckIInv, FreeIInv
<1>5. CASE UNCHANGED vars
  BY <1>5, MovesOn DEF vars, logVars
<1>. QED
  BY <1>1, <1>2, <1>3, <1>4, <1>5 DEF Next, Listen, Stopped

\* IInv holds in every state: the steps of the thread and of the nodes keep it.
THEOREM SpecIInv == Spec => []IInv
<1>1. IInv /\ [Next]_vars => IInv'
  BY NextIInv
<1>. QED
  BY <1>1, InitIInv, PTL DEF Spec

\* The scan never finds the list empty before it has come to its bound: an
\* iteration removes one connection at most (connmgr.c:93-150).
THEOREM SpecNeverNull == Spec => []NeverNull
<1>1. ASSUME IInv PROVE NeverNull
  <2>1. SUFFICES ASSUME pc = "scan", i < client_amount, sockets = <<>> PROVE FALSE
    BY DEF NeverNull
  <2>2. i \in Nat /\ client_amount \in Nat /\ Len(sockets) >= client_amount - i
    BY <1>1, <2>1 DEF IInv, Types, Room
  <2>3. Len(sockets) = 0
    BY <2>1
  <2>. QED
    BY <2>1, <2>2, <2>3
<1>. QED
  BY <1>1, SpecIInv, PTL

\* A connection is reported as closed once, and is off the list from then on.
THEOREM SpecClosedOnce == Spec => []ClosedOnce
<1>1. ASSUME IInv PROVE ClosedOnce
  <2>1. \A c \in Client : Len(closed[c]) <= 1
    BY <1>1 DEF IInv, Places
  <2>2. \A c \in Client : closed[c] # <<>> => c \notin Elements
    BY <1>1 DEF IInv, Places
  <2>. QED
    BY <2>1, <2>2 DEF ClosedOnce
<1>. QED
  BY <1>1, SpecIInv, PTL

\* A sequence of at most one element.
LEMMA AtMostOne ==
  ASSUME NEW A, NEW s \in Seq(A), Len(s) <= 1
  PROVE  s = <<>> \/ \E a \in A : s = <<a>>
<1>1. Len(s) = 0 => s = <<>>
  OBVIOUS
<1>2. ASSUME Len(s) = 1 PROVE s[1] \in A
  BY <1>2
<1>3. ASSUME Len(s) = 1 PROVE s = <<s[1]>>
  BY <1>2, <1>3
<1>4. Len(s) = 0 \/ Len(s) = 1
  <2>1. \A n \in Nat : n <= 1 => n = 0 \/ n = 1
    OBVIOUS
  <2>2. Len(s) \in Nat
    OBVIOUS
  <2>. QED
    BY <2>1, <2>2, Zenon
<1>. QED
  BY <1>1, <1>2, <1>3, <1>4, Zenon

\* Every descriptor of the gateway is free, the server's, or that of exactly
\* one connection; those that their node ended leave one behind (connmgr.c:170),
\* those that the gateway closed none, unless a reset broke them (tcpsock.c:142).
THEOREM SpecDescriptorsExact == Spec => []DescriptorsExact
<1>1. ASSUME IInv PROVE DescriptorsExact
  <2>1. ASSUME NEW c \in Client PROVE
          CASE c \in Elements -> Own(c) = {socket_get_sd(sock[c])}
            [] closed[c] = <<"hangup">> -> Cardinality(Own(c)) = 1
            [] closed[c] = <<"timeout">> /\ peer[c] = "reset" -> Cardinality(Own(c)) <= 1
            [] OTHER -> Own(c) = {}
    <3>1. c \in Elements => closed[c] = <<>> /\ Own(c) = {socket_get_sd(sock[c])}
      BY <1>1, OwnDescriptor DEF IInv, Places
    <3>2. c \notin Elements /\ Kept(c) => Cardinality(Own(c)) = 1
      BY <1>1, FS_Singleton DEF IInv, Descriptors
    <3>3. c \notin Elements /\ ~Kept(c) => Own(c) = {}
      BY <1>1 DEF IInv, Descriptors
    <3>4. /\ closed[c] = <<"hangup">> => Kept(c)
          /\ closed[c] = <<"timeout">> /\ peer[c] = "reset" => Kept(c)
          /\ Kept(c) => \/ closed[c] = <<"hangup">>
                        \/ closed[c] = <<"timeout">> /\ peer[c] = "reset"
      <4>1. closed[c] \in Seq({"timeout", "hangup"}) /\ Len(closed[c]) <= 1
        BY <1>1 DEF IInv, Types, Places
      <4>2. closed[c] # <<>> => closed[c] = <<"timeout">> \/ closed[c] = <<"hangup">>
        BY <4>1, AtMostOne
      <4>3. <<"timeout">> # <<>> /\ <<"hangup">> # <<>>
        OBVIOUS
      <4>. QED
        BY <4>2, <4>3 DEF Kept
    <3>. QED
      BY <3>1, <3>2, <3>3, <3>4
  <2>. QED
    BY <2>1 DEF DescriptorsExact, Own
<1>. QED
  BY <1>1, SpecIInv, PTL

\* The server never waits in recv for a node that has sent nothing yet.
THEOREM SpecSilentNeverBlocks == Spec => []SilentNeverBlocks
<1>1. ASSUME IInv PROVE SilentNeverBlocks
  <2>1. SUFFICES ASSUME Scanning, peer[Cur] = "open", sent[Cur] = 0, ~sending[Cur] PROVE FALSE
    BY DEF SilentNeverBlocks
  <2>2. Cur \in Elements /\ socket_get_sd(sock[Cur]) \in fdSet /\ pc = "scan"
    BY <1>1, <2>1, ScanStopsAt DEF Scanning
  <2>3. Cur \in Client
    BY <1>1, <2>2, OwnDescriptor
  <2>4. sent[Cur] > 0 \/ sending[Cur]
    BY <1>1, <2>1, <2>2 DEF IInv, Ready
  <2>. QED
    BY <2>1, <2>4
<1>. QED
  BY <1>1, SpecIInv, PTL

\* A connection leaves the list for a reason of its own: its end, or a reading
\* that is late.
THEOREM SpecRemovedForCause == Spec => RemovedForCause
<1>. DEFINE Cause(c) == Ended(c) \/ (inbox[c] # <<>> /\ Head(inbox[c])[2])
            A == \A c \in Elements \ Elements' : Cause(c)
<1>1. ASSUME IInv, [Next]_vars PROVE [A]_vars
  <2>1. SUFFICES ASSUME Next PROVE A
    BY <1>1
  <2>2. CASE UNCHANGED sockets
    BY <2>2 DEF Elements
  <2>3. CASE Select
    <3>1. Elements \subseteq Elements'
      <4>1. CASE UNCHANGED sockets
        BY <4>1 DEF Elements
      <4>2. CASE \E c \in Client : sockets' = Append(sockets, c)
        <5>1. PICK c \in Client : sockets' = Append(sockets, c)
          BY <4>2
        <5>2. \A k \in DOMAIN sockets : k \in DOMAIN sockets' /\ sockets'[k] = sockets[k]
          BY <1>1, <5>1, AppendProperties, LenProperties DEF IInv, Types
        <5>. QED
          BY <5>2 DEF Elements
      <4>3. Accept /\ pc' = "failed" => UNCHANGED sockets
        BY DEF Accept, BeginScan
      <4>. QED
        BY <1>1, <2>3, <4>1, <4>2, <4>3, AcceptedIs DEF Select, NoConnection
    <3>. QED
      BY <3>1
  <2>4. CASE Visit
    <3>1. /\ Scanning /\ Received(Cur)
          /\ Forward(Cur, Cur) \/ TimeOut(At, Cur, Cur) \/ HangUp(At, Cur, Cur)
      BY <1>1, <2>4, VisitIs
    <3>2. CASE Forward(Cur, Cur)
      BY <3>2 DEF Forward, Elements
    <3>3. CASE TimeOut(At, Cur, Cur) \/ HangUp(At, Cur, Cur)
      <4>1. sockets' = List!Removed(sockets, At)
        BY <3>3 DEF TimeOut, HangUp, Drop
      <4>2. Elements' = Elements \ {Cur}
        BY <1>1, <3>1, <4>1, ScanStopsAt, RemovedElements
      <4>3. Cause(Cur)
        BY <1>1, <3>1, <3>3, ResultIs DEF TimeOut, HangUp, Late, Reading
      <4>. QED
        BY <4>2, <4>3
    <3>. QED
      BY <3>1, <3>2, <3>3
  <2>5. CASE connmgr_free
    BY <1>1, <2>5 DEF connmgr_free, IInv, Room, Elements
  <2>6. (\E c \in Client : Sensor(c)) \/ Expire \/ OpenServer \/ Check \/ Stopped => UNCHANGED sockets
    BY DEF Sensor, Connect, BeginReading, EndReading, SendFails, Close, Reset, Expire, OpenServer,
           Check, KeepServing, AwaitClient, EndServer, Stopped, vars
  <2>. QED
    BY <2>1, <2>2, <2>3, <2>4, <2>5, <2>6 DEF Next, Listen
<1>2. [A]_vars <=> [\A c \in Elements \ Elements' :
                     Ended(c) \/ (inbox[c] # <<>> /\ Head(inbox[c])[2])]_vars
  OBVIOUS
<1>. QED
  BY <1>1, <1>2, SpecIInv, PTL DEF Spec, RemovedForCause

(***************************************************************************)
(* The order of the readings: what a connection that is not closed has     *)
(* forwarded and what it holds are, in this order, all its node has sent.  *)
(***************************************************************************)
Reads == Nat \X BOOLEAN

Follows(held, given, n) ==
  /\ n = Len(given) + Len(held)
  /\ \A k \in 1..Len(held) : held[k][1] = Len(given) + k

Counts(given) == \A k \in 1..Len(given) : given[k] = k

\* A reading that is sent comes behind those before it.
LEMMA FollowsSent ==
  ASSUME NEW held \in Seq(Reads), NEW given \in Seq(Nat), NEW n \in Nat, Follows(held, given, n),
         NEW x \in Reads, x[1] = n + 1
  PROVE  Follows(Append(held, x), given, n + 1)
<1>1. Len(held) \in Nat /\ Len(given) \in Nat
  BY LenProperties
<1>2. /\ Len(Append(held, x)) = Len(held) + 1
      /\ \A k \in 1..Len(held) : Append(held, x)[k] = held[k]
      /\ Append(held, x)[Len(held) + 1] = x
  BY AppendProperties
<1>3. ASSUME NEW k \in 1..(Len(held) + 1) PROVE Append(held, x)[k][1] = Len(given) + k
  <2>1. CASE k \in 1..Len(held)
    BY <1>2, <2>1 DEF Follows
  <2>2. CASE k = Len(held) + 1
    <3>1. Append(held, x)[k] = x
      BY <1>2, <2>2
    <3>2. x[1] = Len(given) + k
      BY <1>1, <2>2 DEF Follows
    <3>. QED
      BY <3>1, <3>2
  <2>. QED
    BY <1>1, <2>1, <2>2
<1>. QED
  BY <1>1, <1>2, <1>3 DEF Follows

\* The reading forwarded is the first that is held.
LEMMA FollowsForwarded ==
  ASSUME NEW held \in Seq(Reads), NEW given \in Seq(Nat), NEW n \in Nat, Follows(held, given, n),
         held # <<>>, Counts(given), NEW m, m = Head(held)[1]
  PROVE  /\ Tail(held) \in Seq(Reads) /\ Append(given, m) \in Seq(Nat)
         /\ Follows(Tail(held), Append(given, m), n) /\ Counts(Append(given, m))
<1>1. Len(held) \in Nat /\ Len(given) \in Nat /\ Len(held) > 0
  BY LenProperties, EmptySeq
<1>2. m = Len(given) + 1
  <2>1. Head(held) = held[1] /\ 1 \in 1..Len(held)
    BY <1>1, HeadTailProperties
  <2>. QED
    BY <2>1 DEF Follows
<1>3. /\ Tail(held) \in Seq(Reads) /\ Len(Tail(held)) = Len(held) - 1
      /\ \A k \in 1..(Len(held) - 1) : Tail(held)[k] = held[k + 1]
  BY <1>1, HeadTailProperties
<1>4. /\ Append(given, m) \in Seq(Nat) /\ Len(Append(given, m)) = Len(given) + 1
      /\ \A k \in 1..Len(given) : Append(given, m)[k] = given[k]
      /\ Append(given, m)[Len(given) + 1] = m
  <2>1. m \in Nat
    BY <1>1, <1>2
  <2>. QED
    BY <2>1, AppendProperties
<1>. DEFINE held_ == Tail(held)
            given_ == Append(given, m)
<1>. HIDE DEF held_, given_
<1>5. /\ Len(held_) = Len(held) - 1 /\ Len(given_) = Len(given) + 1
      /\ \A k \in 1..(Len(held) - 1) : held_[k] = held[k + 1]
  BY <1>3, <1>4 DEF held_, given_
<1>6. n = Len(given_) + Len(held_)
  BY <1>1, <1>5 DEF Follows
<1>7. ASSUME NEW k \in 1..Len(held_) PROVE held_[k][1] = Len(given_) + k
  <2>1. k \in Nat /\ k \in 1..(Len(held) - 1) /\ k + 1 \in 1..Len(held)
    BY <1>1, <1>5
  <2>2. held[k + 1][1] = Len(given) + (k + 1)
    BY <2>1 DEF Follows
  <2>3. held_[k] = held[k + 1]
    BY <1>5, <2>1
  <2>4. Len(given) + (k + 1) = Len(given_) + k
    BY <1>1, <1>5, <2>1
  <2>. QED
    BY <2>2, <2>3, <2>4
<1>8. Counts(Append(given, m))
  BY <1>1, <1>2, <1>4 DEF Counts
<1>. QED
  BY <1>3, <1>4, <1>6, <1>7, <1>8 DEF Follows, held_, given_

InOrder(c) == Follows(inbox[c], forwarded[c], sent[c])

Numbers ==
  /\ inbox \in [Client -> Seq(Reads)] /\ forwarded \in [Client -> Seq(Nat)]
  /\ \A c \in Client : Counts(forwarded[c])
  /\ \A c \in Client : closed[c] = <<>> => InOrder(c)

LEMMA NumbersStay ==
  ASSUME Numbers, UNCHANGED <<inbox, forwarded, sent>>,
         \A c \in Client : closed'[c] = <<>> => closed[c] = <<>>
  PROVE  Numbers'
BY DEF Numbers, InOrder

LEMMA EndReadingNumbers ==
  ASSUME IInv, Numbers, NEW c \in Client, EndReading(c)
  PROVE  Numbers'
<1>1. PICK late \in BOOLEAN : inbox' = [inbox EXCEPT ![c] = Append(@, <<sent'[c], late>>)]
  BY DEF EndReading
<1>2. /\ sent[c] \in Nat /\ sent' = [sent EXCEPT ![c] = sent[c] + 1] /\ sent'[c] = sent[c] + 1
      /\ UNCHANGED <<forwarded, closed>>
  BY DEF EndReading, logVars, IInv, Types
<1>3. inbox[c] \in Seq(Reads) /\ forwarded[c] \in Seq(Nat)
  BY DEF Numbers
<1>. DEFINE x == <<sent[c] + 1, late>>
<1>4. x \in Reads /\ x[1] = sent[c] + 1
  BY <1>2 DEF Reads
<1>5. inbox' = [inbox EXCEPT ![c] = Append(inbox[c], x)]
  BY <1>1, <1>2
<1>. HIDE DEF x
<1>6. inbox'[c] = Append(inbox[c], x) /\ \A d \in Client : d # c => inbox'[d] = inbox[d]
  BY <1>5 DEF Numbers
<1>7. inbox' \in [Client -> Seq(Reads)]
  <2>1. Append(inbox[c], x) \in Seq(Reads)
    BY <1>3, <1>4, AppendProperties
  <2>. QED
    BY <1>5, <2>1 DEF Numbers
<1>8. ASSUME NEW d \in Client, closed[d] = <<>> PROVE InOrder(d)'
  <2>1. CASE d # c
    <3>1. inbox'[d] = inbox[d] /\ sent'[d] = sent[d] /\ forwarded'[d] = forwarded[d]
      BY <1>2, <1>6, <2>1 DEF IInv, Types
    <3>. QED
      BY <1>8, <3>1 DEF Numbers, InOrder
  <2>2. CASE d = c
    <3>1. Follows(Append(inbox[c], x), forwarded[c], sent[c] + 1)
      BY <1>2, <1>3, <1>4, <1>8, <2>2, FollowsSent DEF Numbers, InOrder
    <3>. QED
      BY <1>2, <1>6, <2>2, <3>1 DEF InOrder
  <2>. QED
    BY <2>1, <2>2
<1>. QED
  BY <1>2, <1>7, <1>8 DEF Numbers

LEMMA ForwardNumbers ==
  ASSUME IInv, Numbers, Scanning, Received(Cur), Forward(Cur, Cur), UNCHANGED sent
  PROVE  Numbers'
<1>1. PICK c \in Client : c = Cur
  BY ScanStopsAt, OwnDescriptor
<1>2. closed[c] = <<>> /\ inbox[c] # <<>>
  BY <1>1, ScanStopsAt, ResultIs DEF Forward, IInv, Places
<1>. DEFINE m == Head(inbox[c])[1]
<1>3. /\ inbox' = [inbox EXCEPT ![c] = Tail(inbox[c])]
      /\ forwarded' = [forwarded EXCEPT ![c] = Append(forwarded[c], m)]
      /\ UNCHANGED closed
  BY <1>1 DEF Forward, Reading
<1>. HIDE DEF m
<1>4. /\ Tail(inbox[c]) \in Seq(Reads) /\ Append(forwarded[c], m) \in Seq(Nat)
      /\ Follows(Tail(inbox[c]), Append(forwarded[c], m), sent[c])
      /\ Counts(Append(forwarded[c], m))
  <2>1. inbox[c] \in Seq(Reads) /\ forwarded[c] \in Seq(Nat) /\ sent[c] \in Nat
    BY DEF Numbers, IInv, Types
  <2>2. Follows(inbox[c], forwarded[c], sent[c]) /\ Counts(forwarded[c])
    BY <1>2 DEF Numbers, InOrder
  <2>. QED
    BY <1>2, <2>1, <2>2, FollowsForwarded DEF m
<1>5. /\ inbox'[c] = Tail(inbox[c]) /\ forwarded'[c] = Append(forwarded[c], m)
      /\ \A d \in Client : d # c => inbox'[d] = inbox[d] /\ forwarded'[d] = forwarded[d]
  BY <1>3 DEF Numbers
<1>6. inbox' \in [Client -> Seq(Reads)] /\ forwarded' \in [Client -> Seq(Nat)]
  BY <1>3, <1>4 DEF Numbers
<1>7. ASSUME NEW d \in Client PROVE Counts(forwarded'[d]) /\ (closed[d] = <<>> => InOrder(d)')
  <2>1. CASE d # c
    BY <1>5, <2>1 DEF Numbers, InOrder
  <2>2. CASE d = c
    BY <1>4, <1>5, <2>2 DEF InOrder
  <2>. QED
    BY <2>1, <2>2
<1>. QED
  BY <1>3, <1>6, <1>7 DEF Numbers

\* The readings held by a connection that leaves are not looked at again.
LEMMA LeaveNumbers ==
  ASSUME IInv, Numbers, Scanning, Received(Cur), UNCHANGED sent,
         TimeOut(At, Cur, Cur) \/ HangUp(At, Cur, Cur)
  PROVE  Numbers'
<1>1. PICK c \in Client : c = Cur
  BY ScanStopsAt, OwnDescriptor
<1>2. PICK cause \in {"timeout", "hangup"} :
        /\ closed' = [closed EXCEPT ![c] = Append(closed[c], cause)]
        /\ UNCHANGED forwarded
        /\ inbox' = [inbox EXCEPT ![c] = <<>>] \/ UNCHANGED inbox
  BY <1>1 DEF TimeOut, HangUp, Drop
<1>3. closed[c] = <<>>
  BY <1>1, ScanStopsAt DEF IInv, Places
<1>4. closed'[c] = <<cause>> /\ \A d \in Client : d # c => closed'[d] = closed[d]
  BY <1>2, <1>3 DEF IInv, Types
<1>5. /\ inbox' \in [Client -> Seq(Reads)]
      /\ \A d \in Client : d # c => inbox'[d] = inbox[d]
  <2>1. <<>> \in Seq(Reads)
    BY EmptySeq
  <2>2. CASE inbox' = [inbox EXCEPT ![c] = <<>>]
    BY <2>1, <2>2 DEF Numbers
  <2>. QED
    BY <1>2, <2>2 DEF Numbers
<1>6. ASSUME NEW d \in Client, closed'[d] = <<>> PROVE InOrder(d)'
  <2>1. d # c /\ closed[d] = <<>>
    BY <1>4, <1>6
  <2>. QED
    BY <1>2, <1>5, <2>1 DEF Numbers, InOrder
<1>. QED
  BY <1>2, <1>5, <1>6 DEF Numbers

\* What is lost of a connection's readings is lost at the end: the readings
\* forwarded are the first ones, without gap (connmgr.c:95-145).
THEOREM SpecForwardsPrefix == Spec => []ForwardsPrefix
<1>1. Init => Numbers
  BY DEF Init, Numbers, Counts, Follows, InOrder
<1>2. ASSUME IInv, Numbers, [Next]_vars PROVE Numbers'
  <2>1. CASE \E c \in Client : EndReading(c)
    BY <1>2, <2>1, EndReadingNumbers
  <2>2. CASE Visit
    <3>1. /\ Scanning /\ Received(Cur) /\ UNCHANGED sent
          /\ Forward(Cur, Cur) \/ TimeOut(At, Cur, Cur) \/ HangUp(At, Cur, Cur)
      BY <1>2, <2>2, VisitIs
    <3>. QED
      BY <1>2, <3>1, ForwardNumbers, LeaveNumbers
  <2>3. CASE UNCHANGED <<inbox, forwarded, sent, closed>>
    BY <1>2, <2>3, NumbersStay
  <2>4. ASSUME Next, ~(\E c \in Client : EndReading(c)), ~Visit
        PROVE  UNCHANGED <<inbox, forwarded, sent, closed>>
    BY <2>4 DEF Next, Listen, Sensor, Connect, BeginReading, SendFails, Close, Reset, Expire, OpenServer,
           Select, Check, KeepServing, AwaitClient, EndServer, connmgr_free, Stopped, vars, peerVars, logVars
  <2>. QED
    BY <1>2, <2>1, <2>2, <2>3, <2>4 DEF vars, peerVars, logVars
<1>3. Numbers => ForwardsPrefix
  BY DEF Numbers, Counts, ForwardsPrefix
<1>. QED
  BY <1>1, <1>2, <1>3, SpecIInv, PTL DEF Spec

(***************************************************************************)
(* The end of the server.                                                  *)
(***************************************************************************)

\* A round that begins without clients sees the listening socket at most, and
\* then has a client; the one it accepts is not visited in the same round.
Waiting ==
  /\ pc \in {"select", "scan"} => IsBound(server)
  /\ waiting /\ pc \in {"open", "select"} => sockets = <<>>
  /\ waiting /\ pc = "scan" => \A d \in fdSet : d = server.sd /\ sockets # <<>>
  /\ waiting /\ pc = "scan" => \A c \in Elements : socket_get_sd(sock[c]) \notin fdSet
  /\ pc = "done" => fdSet = {}

LEMMA SelectWaiting ==
  ASSUME IInv, Waiting, Select
  PROVE  Waiting'
<1>1. pc = "select" /\ fdSet' = Selected /\ server' = server /\ waiting' = waiting
  BY DEF Select
<1>2. IsBound(server) /\ server.sd \in Descriptor /\ files[server.sd] = "listener"
  BY <1>1 DEF Waiting, IInv, Files
<1>3. socket_get_sd(server) = server.sd
  BY <1>2 DEF socket_get_sd
<1>4. waiting => sockets = <<>> /\ fdSet' \subseteq {server.sd}
  BY <1>1, <1>3 DEF Waiting, Selected, Watched, Elements
<1>5. CASE NoConnection
  <2>1. pc' = "scan" /\ UNCHANGED <<sockets, sock>> /\ server.sd \notin fdSet'
    BY <1>3, <1>5 DEF NoConnection, BeginScan
  <2>2. waiting => fdSet' = {}
    BY <1>4, <2>1
  <2>. QED
    BY <1>1, <1>2, <2>1, <2>2 DEF Waiting
<1>6. CASE Accept /\ pc' # "failed"
  <2>1. PICK c \in Client, d \in Descriptor :
          /\ files[d] = "free" /\ sock' = [sock EXCEPT ![c] = Bound(d)]
          /\ sockets' = Append(sockets, c)
    BY <1>6, AcceptedIs
  <2>2. pc' = "scan"
    BY <1>6, AcceptedIs DEF BeginScan
  <2>3. d # server.sd
    BY <1>2, <2>1
  <2>4. waiting => sockets' = <<c>> /\ sockets' # <<>>
    BY <1>4, <2>1
  <2>5. sock'[c] = Bound(d) /\ IsBound(Bound(d)) /\ Bound(d).sd = d
    BY <2>1 DEF IInv, Files, IsBound, Bound
  <2>6. waiting => \A x \in Elements' : socket_get_sd(sock'[x]) = d
    BY <2>4, <2>5 DEF Elements, socket_get_sd
  <2>. QED
    BY <1>1, <1>2, <1>4, <2>2, <2>3, <2>4, <2>6 DEF Waiting
<1>7. CASE Accept /\ pc' = "failed"
  BY <1>7 DEF Waiting
<1>. QED
  BY <1>5, <1>6, <1>7 DEF Select

LEMMA NextWaiting ==
  ASSUME IInv, Waiting, [Next]_vars
  PROVE  Waiting'
<1>1. ASSUME NEW c \in Client, Sensor(c) PROVE Waiting'
  <2>1. UNCHANGED <<pc, sockets, sockVars, scanVars, waiting>>
    BY <1>1 DEF Sensor, Connect, BeginReading, EndReading, SendFails, Close, Reset, serverVars
  <2>. QED
    BY <2>1 DEF Waiting, Elements, sockVars, scanVars
<1>2. CASE OpenServer
  <2>1. PICK r \in tcp_passive_open(files) :
          /\ server' = r.sock
          /\ pc' = IF r.result = TCP_NO_ERROR THEN "select" ELSE "failed"
    BY <1>2 DEF OpenServer
  <2>2. r.result = TCP_NO_ERROR => IsBound(r.sock)
    BY DEF tcp_passive_open, Open, HalfOpen, Success, Outcome, TCP_ADDRESS_ERROR,
       TCP_SOCKOP_ERROR, TCP_NO_ERROR, IsBound, Bound
  <2>. QED
    BY <1>2, <2>1, <2>2 DEF OpenServer, Waiting, serverVars
<1>3. CASE Visit
  <2>1. PICK k \in Nat : pc = "scan" /\ Continue(k) /\ UNCHANGED <<server, waiting>>
    BY <1>3, ScanStopsAt DEF Visit, Scanning, serverVars
  <2>2. Cur \in Elements /\ socket_get_sd(sock[Cur]) \in fdSet
    BY <1>3, ScanStopsAt DEF Visit
  <2>3. ~waiting
    BY <2>1, <2>2 DEF Waiting
  <2>. QED
    BY <2>1, <2>3 DEF Waiting, Continue
<1>4. CASE KeepServing \/ AwaitClient
  <2>1. sockets \in Seq(Client)
    BY DEF IInv, Types
  <2>2. AwaitClient => sockets = <<>>
    BY <2>1, EmptySeq DEF AwaitClient, Remaining
  <2>. QED
    BY <1>4, <2>2 DEF KeepServing, AwaitClient, Scanned, Waiting, sockVars
<1>5. CASE EndServer
  <2>1. sockets \in Seq(Client)
    BY DEF IInv, Types
  <2>2. sockets = <<>> /\ waiting /\ pc = "scan"
    BY <1>5, <2>1, EmptySeq DEF EndServer, Remaining, StillExpired, Scanned
  <2>3. fdSet = {}
    BY <2>2 DEF Waiting
  <2>. QED
    BY <1>5, <2>3 DEF EndServer, Waiting, scanVars
<1>6. CASE Expire \/ connmgr_free \/ UNCHANGED vars
  BY <1>6 DEF Expire, connmgr_free, vars, sockVars, scanVars, serverVars, Waiting, Elements
<1>. QED
  BY <1>1, <1>2, <1>3, <1>4, <1>5, <1>6, SelectWaiting DEF Next, Listen, Check, Stopped

\* The server ends in a round whose select reported nothing: no connection that
\* it knew to be waiting is turned away.
THEOREM SpecEndsUnasked == Spec => []EndsUnasked
<1>1. Init => Waiting
  BY DEF Init, Waiting
<1>2. Waiting => EndsUnasked
  BY DEF Waiting, EndsUnasked
<1>. QED
  BY <1>1, <1>2, SpecIInv, NextWaiting, PTL DEF Spec

(***************************************************************************)
(* The bounds on the data.                                                 *)
(***************************************************************************)
Stages  == {"open", "select", "scan", "done", "freed", "failed"}
Message == (1..MaxReadings) \X BOOLEAN

\* A node is within a reading only if it may still send one; the scan's bound
\* was once the length of a list without duplicates.
Bounds ==
  /\ sending \in [Client -> BOOLEAN]
  /\ inbox \in [Client -> Seq(Message)]
  /\ sent \in [Client -> 0..MaxReadings]
  /\ \A c \in Client : sending[c] => sent[c] < MaxReadings
  /\ pc \in Stages
  /\ fdSet \subseteq Descriptor
  /\ client_amount \in 0..Cardinality(Client) /\ i \in 0..Cardinality(Client)
  /\ waiting \in BOOLEAN /\ expired \in BOOLEAN
  /\ written \subseteq Client
  /\ forwarded \in [Client -> Seq(1..MaxReadings)]

\* A list of different nodes is no longer than there are nodes.
LEMMA ListFits ==
  ASSUME IsFiniteSet(Client), NEW s \in Seq(Client),
         \A j, k \in DOMAIN s : s[j] = s[k] => j = k
  PROVE  Len(s) \in 0..Cardinality(Client)
<1>1. s \in [1..Len(s) -> Client] /\ Len(s) \in Nat /\ DOMAIN s = 1..Len(s)
  BY LenProperties
<1>2. Cardinality(Client) \in Nat
  BY FS_CardinalityType
<1>3. ASSUME NEW n \in Nat PROVE IsFiniteSet(1..n) /\ Cardinality(1..n) = n
  <2>1. Cardinality(1..n) = IF 1 > n THEN 0 ELSE n - 1 + 1
    BY FS_Interval
  <2>. QED
    BY <2>1, FS_Interval
<1>4. ASSUME Cardinality(Client) < Len(s) PROVE FALSE
  <2>1. IsFiniteSet(1..Len(s)) /\ Cardinality(1..Len(s)) = Len(s)
    BY <1>1, <1>3
  <2>2. PICK j, k \in 1..Len(s) : j # k /\ s[j] = s[k]
    BY <1>1, <1>4, <2>1, FS_PigeonHole
  <2>. QED
    BY <1>1, <2>2
<1>. QED
  BY <1>1, <1>2, <1>4

\* Steps that touch neither readings nor the scan.
LEMMA BoundsStay ==
  ASSUME Bounds, UNCHANGED <<sending, inbox, sent, scanVars, written, forwarded>>,
         pc' \in Stages, waiting' \in BOOLEAN, expired' \in BOOLEAN
  PROVE  Bounds'
BY DEF Bounds, scanVars

LEMMA BeginReadingBounds ==
  ASSUME Bounds, NEW c \in Client, BeginReading(c)
  PROVE  Bounds'
<1>1. /\ sending' = [sending EXCEPT ![c] = TRUE] /\ sent[c] < MaxReadings
      /\ UNCHANGED <<inbox, sent, pc, fdSet, client_amount, i, waiting, expired, written, forwarded>>
  BY DEF BeginReading, scanVars, serverVars, logVars
<1>2. sending' \in [Client -> BOOLEAN] /\ \A d \in Client : sending'[d] => sent[d] < MaxReadings
  BY <1>1 DEF Bounds
<1>. QED
  BY <1>1, <1>2 DEF Bounds

LEMMA EndReadingBounds ==
  ASSUME Bounds, NEW c \in Client, EndReading(c)
  PROVE  Bounds'
<1>1. PICK late \in BOOLEAN : inbox' = [inbox EXCEPT ![c] = Append(@, <<sent'[c], late>>)]
  BY DEF EndReading
<1>2. /\ sending[c] /\ sending' = [sending EXCEPT ![c] = FALSE]
      /\ sent' = [sent EXCEPT ![c] = sent[c] + 1]
      /\ UNCHANGED <<pc, fdSet, client_amount, i, waiting, expired, written, forwarded>>
  BY DEF EndReading, scanVars, serverVars, logVars
<1>3. sent[c] + 1 \in 1..MaxReadings
  BY <1>2, ConnmgrAssumption DEF Bounds
<1>4. sent' \in [Client -> 0..MaxReadings] /\ sent'[c] = sent[c] + 1
  BY <1>2, <1>3 DEF Bounds
<1>5. sending' \in [Client -> BOOLEAN] /\ \A d \in Client : sending'[d] => sent'[d] < MaxReadings
  BY <1>2 DEF Bounds
<1>6. inbox' \in [Client -> Seq(Message)]
  <2>1. inbox[c] \in Seq(Message) /\ <<sent'[c], late>> \in Message
    BY <1>3, <1>4 DEF Bounds, Message
  <2>2. Append(inbox[c], <<sent'[c], late>>) \in Seq(Message)
    BY <2>1, AppendProperties
  <2>. QED
    BY <1>1, <2>2 DEF Bounds
<1>. QED
  BY <1>2, <1>4, <1>5, <1>6 DEF Bounds

\* select reports descriptors of the table only, for the listening socket is
\* open; the scan is bounded by the length of the list.
LEMMA SelectBounds ==
  ASSUME IInv, IInv', Waiting, Bounds, IsFiniteSet(Client), Select
  PROVE  Bounds'
<1>1. /\ pc = "select" /\ fdSet' = Selected
      /\ UNCHANGED <<sending, inbox, sent, waiting, written, forwarded>>
  BY DEF Select, peerVars, logVars
<1>2. Watched \subseteq Descriptor
  <2>1. socket_get_sd(server) \in Descriptor
    BY <1>1 DEF Waiting, IInv, Files, socket_get_sd
  <2>2. \A c \in Elements : socket_get_sd(sock[c]) \in Descriptor
    BY OwnDescriptor
  <2>. QED
    BY <2>1, <2>2 DEF Watched
<1>3. fdSet' \subseteq Descriptor
  BY <1>1, <1>2 DEF Selected
<1>4. expired' \in BOOLEAN
  BY DEF Select, Accept, NoConnection, Bounds
<1>5. \/ BeginScan
      \/ pc' = "failed" /\ UNCHANGED <<client_amount, i>>
  <2>1. CASE Accept
    <3>1. PICK r \in tcp_wait_for_connection(server, files, Head(backlog)) :
            IF r.result = TCP_NO_ERROR THEN BeginScan
              ELSE pc' = "failed" /\ UNCHANGED <<client_amount, i>>
      BY <2>1 DEF Accept
    <3>. QED
      BY <3>1
  <2>2. CASE NoConnection
    BY <2>2 DEF NoConnection
  <2>. QED
    BY <2>1, <2>2 DEF Select
<1>6. /\ pc' \in Stages
      /\ client_amount' \in 0..Cardinality(Client) /\ i' \in 0..Cardinality(Client)
  <2>1. CASE BeginScan
    <3>1. Len(sockets') \in 0..Cardinality(Client)
      <4>1. sockets' \in Seq(Client) /\ \A j, k \in DOMAIN sockets' : sockets'[j] = sockets'[k] => j = k
        BY DEF IInv, Types, Places
      <4>. QED
        BY <4>1, ListFits
    <3>2. client_amount' = Len(sockets') /\ i' = 0 /\ pc' = "scan"
      BY <2>1 DEF BeginScan, ScanBound
    <3>3. Cardinality(Client) \in Nat
      BY FS_CardinalityType
    <3>. QED
      BY <3>1, <3>2, <3>3 DEF Stages
  <2>2. CASE pc' = "failed" /\ UNCHANGED <<client_amount, i>>
    BY <2>2 DEF Bounds, Stages
  <2>. QED
    BY <1>5, <2>1, <2>2
<1>. QED
  BY <1>1, <1>3, <1>4, <1>6 DEF Bounds

LEMMA VisitBounds ==
  ASSUME IInv, Bounds, IsFiniteSet(Client), Visit
  PROVE  Bounds'
<1>1. /\ Scanning /\ Received(Cur) /\ Continue(At)
      /\ Forward(Cur, Cur) \/ TimeOut(At, Cur, Cur) \/ HangUp(At, Cur, Cur)
      /\ UNCHANGED <<sending, sent, waiting, expired>>
  BY VisitIs DEF serverVars
<1>2. PICK c \in Client : c = Cur
  BY <1>1, ScanStopsAt, OwnDescriptor
<1>3. UNCHANGED <<pc, fdSet, client_amount>> /\ i' \in 0..Cardinality(Client)
  <2>1. At \in Nat /\ At < client_amount
    BY <1>1, ScanStopsAt
  <2>2. Cardinality(Client) \in Nat
    BY FS_CardinalityType
  <2>. QED
    BY <1>1, <2>1, <2>2 DEF Continue, Bounds
<1>4. inbox[c] \in Seq(Message) /\ forwarded[c] \in Seq(1..MaxReadings) /\ <<>> \in Seq(Message)
  BY EmptySeq DEF Bounds
<1>5. CASE Forward(Cur, Cur)
  <2>1. inbox[c] # <<>>
    BY <1>1, <1>2, <1>5, ResultIs DEF Forward
  <2>2. Tail(inbox[c]) \in Seq(Message) /\ Head(inbox[c]) \in Message
    BY <1>4, <2>1, HeadTailProperties
  <2>3. Head(inbox[c])[1] \in 1..MaxReadings
    BY <2>2 DEF Message
  <2>4. Append(forwarded[c], Head(inbox[c])[1]) \in Seq(1..MaxReadings)
    BY <1>4, <2>3, AppendProperties
  <2>5. /\ inbox' = [inbox EXCEPT ![c] = Tail(inbox[c])]
        /\ forwarded' = [forwarded EXCEPT ![c] = Append(forwarded[c], Head(inbox[c])[1])]
        /\ written' = written \cup {c}
    BY <1>2, <1>5 DEF Forward, NoteOpening, Reading
  <2>6. inbox' \in [Client -> Seq(Message)] /\ forwarded' \in [Client -> Seq(1..MaxReadings)]
    BY <2>2, <2>4, <2>5 DEF Bounds
  <2>. QED
    BY <1>1, <1>3, <2>5, <2>6 DEF Bounds
<1>6. CASE TimeOut(At, Cur, Cur)
  <2>1. /\ inbox' = [inbox EXCEPT ![c] = <<>>] /\ UNCHANGED forwarded
        /\ written' = written \cup {c}
    BY <1>2, <1>6 DEF TimeOut, NoteOpening
  <2>2. inbox' \in [Client -> Seq(Message)]
    BY <1>4, <2>1 DEF Bounds
  <2>. QED
    BY <1>1, <1>3, <2>1, <2>2 DEF Bounds
<1>7. CASE HangUp(At, Cur, Cur)
  BY <1>1, <1>3, <1>7 DEF HangUp, Bounds
<1>. QED
  BY <1>1, <1>5, <1>6, <1>7

LEMMA NextBounds ==
  ASSUME IInv, IInv', Waiting, Bounds, IsFiniteSet(Client), [Next]_vars
  PROVE  Bounds'
<1>1. CASE \E c \in Client : BeginReading(c) \/ EndReading(c)
  BY <1>1, BeginReadingBounds, EndReadingBounds
<1>2. CASE \E c \in Client : Connect(c) \/ SendFails(c) \/ Close(c) \/ Reset(c)
  <2>1. UNCHANGED <<sending, inbox, sent, pc, scanVars, serverVars, logVars>>
    BY <1>2 DEF Connect, SendFails, Close, Reset
  <2>. QED
    BY <2>1, BoundsStay DEF serverVars, logVars, Bounds
<1>3. CASE Expire \/ OpenServer \/ Check \/ connmgr_free \/ UNCHANGED vars
  <2>1. UNCHANGED <<sending, inbox, sent, scanVars, written, forwarded>>
    BY <1>3 DEF Expire, OpenServer, Check, KeepServing, AwaitClient, EndServer, connmgr_free,
                vars, peerVars, logVars
  <2>2. pc' \in Stages /\ waiting' \in BOOLEAN /\ expired' \in BOOLEAN
    BY <1>3 DEF Expire, OpenServer, Check, KeepServing, AwaitClient, EndServer, connmgr_free,
                vars, serverVars, Bounds, Stages
  <2>. QED
    BY <2>1, <2>2, BoundsStay
<1>. QED
  BY <1>1, <1>2, <1>3, SelectBounds, VisitBounds DEF Next, Listen, Sensor, Stopped

\* Whatever the nodes do, every variable keeps to its set: in particular the
\* scan's bound and index never exceed the number of nodes (connmgr.c:95).
THEOREM SpecTypeOK ==
  ASSUME IsFiniteSet(Client)
  PROVE  Spec => []TypeOK
<1>1. ASSUME Init PROVE Bounds
  <2>1. 0 \in 0..Cardinality(Client) /\ 0 \in 0..MaxReadings
    BY FS_CardinalityType, ConnmgrAssumption
  <2>2. <<>> \in Seq(Message) /\ <<>> \in Seq(1..MaxReadings)
    BY EmptySeq
  <2>3. inbox \in [Client -> Seq(Message)] /\ forwarded \in [Client -> Seq(1..MaxReadings)]
    BY <1>1, <2>2 DEF Init
  <2>4. /\ sending \in [Client -> BOOLEAN] /\ sent \in [Client -> 0..MaxReadings]
        /\ \A c \in Client : ~sending[c]
    BY <1>1, <2>1 DEF Init
  <2>. QED
    BY <1>1, <2>1, <2>3, <2>4 DEF Init, Bounds, Stages
<1>2. Init => Waiting
  BY DEF Init, Waiting
<1>3. IInv /\ IInv' /\ Waiting /\ Bounds /\ [Next]_vars => Bounds'
  BY NextBounds
<1>4. IInv /\ Waiting /\ [Next]_vars => Waiting'
  BY NextWaiting
<1>5. IInv /\ Bounds => TypeOK
  <2>1. ASSUME Bounds PROVE \A c \in Client : /\ inbox[c] \in Seq((1..MaxReadings) \X BOOLEAN)
                                              /\ forwarded[c] \in Seq(1..MaxReadings)
    BY <2>1 DEF Bounds, Message
  <2>2. ASSUME IInv PROVE /\ \A c \in Client : closed[c] \in Seq({"timeout", "hangup"})
                          /\ peer \in [Client -> {"absent", "open", "closed", "reset", "shut"}]
                          /\ backlog \in Seq(Client) /\ sockets \in Seq(Client)
                          /\ files \in [Descriptor -> Client \cup {"free", "listener", "unconnected"}]
    BY <2>2 DEF IInv, Types, Files, Peer, NonClient
  <2>3. ASSUME Bounds PROVE
          /\ sending \in [Client -> BOOLEAN] /\ sent \in [Client -> 0..MaxReadings]
          /\ pc \in {"open", "select", "scan", "done", "freed", "failed"}
          /\ fdSet \subseteq Descriptor /\ written \subseteq Client
          /\ client_amount \in 0..Cardinality(Client) /\ i \in 0..Cardinality(Client)
          /\ waiting \in BOOLEAN /\ expired \in BOOLEAN
    BY <2>3 DEF Bounds, Stages
  <2>. QED
    BY <2>1, <2>2, <2>3, Zenon DEF TypeOK
<1>. QED
  BY <1>1, <1>2, <1>3, <1>4, <1>5, SpecIInv, PTL DEF Spec
=============================================================================
