------------------------------ MODULE Connmgr ------------------------------
(***************************************************************************)
(* connmgr_listen (src/connmgr.c) and the sensor nodes it serves: one      *)
(* thread that selects over the listening socket and its clients, accepts, *)
(* scans the list of connections by index while it removes from it, and    *)
(* ends when no client has been connected for TIMEOUT seconds.  Its calls  *)
(* of the TCP wrapper are those of Tcpsock: the descriptor table of the    *)
(* gateway says which connection a recv really reads from.                 *)
(*                                                                         *)
(* Time is abstracted to what the code tests: a reading is late when its   *)
(* timestamp is more than TIMEOUT after that of the connection, and the    *)
(* server is expired when TIMEOUT has passed since server_ts.              *)
(***************************************************************************)
EXTENDS Tcpsock, Sequences

CONSTANTS
  Client,       \* the sensor nodes; each connects at most once
  Talker,       \* bound: the nodes that send or are reset; the others connect and close
  MaxReadings   \* bound: readings such a node sends

\* An end of a connection is no node if it is not connected.
ASSUME ConnmgrAssumption ==
  /\ Talker \subseteq Client /\ MaxReadings \in Nat
  /\ Client \cap {"free", "listener", "unconnected"} = {}

List == INSTANCE ListSeq WITH Element <- Client, MaxSize <- Cardinality(Client), list <- <<>>, call <- <<>>

VARIABLES
  peer,       \* peer[c]: "absent", "open", "closed" by the node, "reset", or "shut" by the gateway
  sending,    \* sending[c]: c has sent some, not all three fields of a reading
  inbox,      \* inbox[c]: complete readings not yet received: <<number, late>>
  sent,       \* sent[c]: readings c has sent
  backlog,    \* connections that wait to be accepted
  pc,         \* where connmgr_listen stands
  sockets,    \* the dplist of connections; c stands for the connection of node c
  server,     \* the struct tcpsock of the listening socket
  sock,       \* sock[c]: the struct tcpsock of connection c
  files,      \* the descriptor table of the gateway
  fdSet,      \* the descriptors select found readable
  client_amount, i,  \* the bound and the index of the scan
  written,    \* connections with wirte_to_log set: reported as opened
  waiting,    \* the local `waiting'
  expired,    \* time(NULL) - server_ts > TIMEOUT
  closed,     \* closed[c]: why the log reports c as closed, one entry per report
  forwarded   \* forwarded[c]: readings of c given to sbuffer_insert

peerVars   == <<peer, sending, inbox, sent>>
sockVars   == <<server, sock, files>>
scanVars   == <<fdSet, client_amount, i>>
serverVars == <<waiting, expired>>
logVars    == <<written, closed, forwarded>>
vars == <<peerVars, backlog, pc, sockets, sockVars, scanVars, serverVars, logVars>>

Init ==
  /\ peer = [c \in Client |-> "absent"]
  /\ sending = [c \in Client |-> FALSE]
  /\ inbox = [c \in Client |-> <<>>]
  /\ sent = [c \in Client |-> 0]
  /\ backlog = <<>>
  /\ pc = "open"
  /\ sockets = <<>>
  /\ server = Freed
  /\ sock = [c \in Client |-> Freed]
  /\ files = NoFiles
  /\ fdSet = {}
  /\ client_amount = 0 /\ i = 0
  /\ written = {}
  /\ waiting = TRUE /\ expired = FALSE
  /\ closed = [c \in Client |-> <<>>]
  /\ forwarded = [c \in Client |-> <<>>]

Elements  == {sockets[k] : k \in DOMAIN sockets}
Listening == pc \in {"select", "scan"}

(***************************************************************************)
(* The sensor nodes (src/sensor_node.c): connect, send readings as three   *)
(* sends each, close.  A node has one socket, in a process of its own.     *)
(***************************************************************************)
NodeSocket == Bound(3)

\* tcp_active_open: the node exits if it fails.
Connect(c) ==
  /\ peer[c] = "absent"
  /\ \E r \in tcp_active_open(NoFiles, "gateway") :
       IF r.result = TCP_NO_ERROR
         THEN /\ Listening
              /\ peer' = [peer EXCEPT ![c] = "open"]
              /\ backlog' = Append(backlog, c)
         ELSE peer' = [peer EXCEPT ![c] = "closed"] /\ UNCHANGED backlog
  /\ UNCHANGED <<sending, inbox, sent, pc, sockets, sockVars, scanVars, serverVars, logVars>>

\* What sendto() does: bytes go out as long as the connection stands.
Sends(c) == tcp_send(NodeSocket, IF peer[c] = "open" THEN "bytes" ELSE "gone")

BeginReading(c) ==
  /\ c \in Talker /\ peer[c] = "open" /\ ~sending[c] /\ sent[c] < MaxReadings
  /\ Sends(c) = TCP_NO_ERROR
  /\ sending' = [sending EXCEPT ![c] = TRUE]
  /\ UNCHANGED <<peer, inbox, sent, backlog, pc, sockets, sockVars, scanVars, serverVars, logVars>>

EndReading(c) ==
  /\ sending[c] /\ Sends(c) = TCP_NO_ERROR
  /\ sending' = [sending EXCEPT ![c] = FALSE]
  /\ sent' = [sent EXCEPT ![c] = @ + 1]
  /\ \E late \in BOOLEAN : inbox' = [inbox EXCEPT ![c] = Append(@, <<sent'[c], late>>)]
  /\ UNCHANGED <<peer, backlog, pc, sockets, sockVars, scanVars, serverVars, logVars>>

\* The gateway has closed the connection: the next send fails and the node exits.
SendFails(c) ==
  /\ c \in Talker /\ peer[c] = "shut"
  /\ Sends(c) # TCP_NO_ERROR
  /\ peer' = [peer EXCEPT ![c] = "closed"]
  /\ UNCHANGED <<sending, inbox, sent, backlog, pc, sockets, sockVars, scanVars, serverVars, logVars>>

\* The node exits, or dies between two fields.
Close(c) ==
  /\ peer[c] \in {"open", "shut"}
  /\ peer' = [peer EXCEPT ![c] = "closed"]
  /\ UNCHANGED <<sending, inbox, sent, backlog, pc, sockets, sockVars, scanVars, serverVars, logVars>>

\* The connection is reset; what the gateway's side has received stays there.
Reset(c) ==
  /\ c \in Talker /\ peer[c] = "open"
  /\ peer' = [peer EXCEPT ![c] = "reset"]
  /\ UNCHANGED <<sending, inbox, sent, backlog, pc, sockets, sockVars, scanVars, serverVars, logVars>>

\* TIMEOUT seconds pass without server_ts being set.
Expire ==
  /\ ~expired /\ Listening
  /\ expired' = TRUE
  /\ UNCHANGED <<peerVars, backlog, pc, sockets, sockVars, scanVars, waiting, logVars>>

(***************************************************************************)
(* Up to the loop.  Where the code calls exit, pc becomes "failed".        *)
(***************************************************************************)
OpenServer ==
  /\ pc = "open"
  /\ \E r \in tcp_passive_open(files) :
       /\ server' = r.sock /\ files' = r.files
       /\ pc' = IF r.result = TCP_NO_ERROR THEN "select" ELSE "failed"
  /\ UNCHANGED <<peerVars, backlog, sockets, sock, scanVars, serverVars, logVars>>

(***************************************************************************)
(* One round of the loop.  `timeout' is never set again: once TIMEOUT has   *)
(* been used up select returns at once, with whatever is ready or nothing, *)
(* so a round may begin in every state.                                    *)
(***************************************************************************)
Ended(c) == peer[c] \in {"closed", "reset"}

Readable(d) ==
  LET end == files[d]
  IN  IF end = "listener" THEN backlog # <<>>
      ELSE inbox[end] # <<>> \/ sending[end] \/ Ended(end)

Watched  == {socket_get_sd(server)} \cup {socket_get_sd(sock[c]) : c \in Elements}

\* Mutant: the set that select was given is tested, not the one it returned.
Selected_Master == Watched

Selected == {d \in Watched : Readable(d)}

\* Mutant: one connection more than there are.
ScanBound_CountsListener(s) == Len(s) + 1

ScanBound(s) == Len(s)

BeginScan ==
  /\ client_amount' = ScanBound(sockets')
  /\ i' = 0
  /\ pc' = "scan"

\* The listening socket comes first: a new connection goes to index
\* client_amount + 1, that is, to the end of the list.
Accept ==
  /\ socket_get_sd(server) \in fdSet' /\ backlog # <<>>
  /\ expired' = FALSE
  /\ \E r \in tcp_wait_for_connection(server, files, Head(backlog)) :
       IF r.result = TCP_NO_ERROR
         THEN /\ sock' = [sock EXCEPT ![Head(backlog)] = r.sock]
              /\ files' = r.files
              /\ backlog' = Tail(backlog)
              /\ sockets' = List!Inserted(sockets, Head(backlog), Len(sockets) + 1)
              /\ BeginScan
         ELSE pc' = "failed" /\ UNCHANGED <<sock, files, backlog, sockets, client_amount, i>>

NoConnection ==
  /\ socket_get_sd(server) \notin fdSet'
  /\ UNCHANGED <<sock, files, backlog, sockets, expired>>
  /\ BeginScan

Select ==
  /\ pc = "select"
  /\ fdSet' = Selected
  /\ Accept \/ NoConnection
  /\ UNCHANGED <<peerVars, server, waiting, logVars>>

(***************************************************************************)
(* for (i = 0; i < client_amount; i++): the element at index i of the list *)
(* as it is now; client_amount is as it was before any removal.  On an     *)
(* empty list the element would be NULL and the process would exit: see    *)
(* NeverNull.                                                              *)
(***************************************************************************)
IsSet(k) == socket_get_sd(sock[List!ElementAt(sockets, k)]) \in fdSet

Found == {k \in i..(client_amount - 1) : IsSet(k)}

\* The index at which the scan stops next, the connection it finds there, and
\* the node at the other end of its descriptor.
At   == Min(Found)
Cur  == List!ElementAt(sockets, At)
From(c) == files[socket_get_sd(sock[c])]

Scanning == pc = "scan" /\ sockets # <<>> /\ Found # {}

\* Mutant: i is incremented in the body too.
Continue_Twice(k) == i' = k + 2 /\ UNCHANGED <<pc, fdSet, client_amount>>

Continue(k) == i' = k + 1 /\ UNCHANGED <<pc, fdSet, client_amount>>

\* The last of the three recv's returns; before, the thread is blocked in one.
Received(n) == inbox[n] # <<>> \/ Ended(n)
Reading(n)  == Head(inbox[n])
Late(n)     == Reading(n)[2]

Result(c) ==
  tcp_receive(sock[c], IF inbox[From(c)] # <<>> THEN "bytes"
                       ELSE IF peer[From(c)] = "closed" THEN "end" ELSE "error")

\* The first reading of a connection is logged as its opening.
NoteOpening(c) == written' = written \cup {c}

Drop_NextIndex(k, c, cause) ==
  /\ closed' = [closed EXCEPT ![c] = Append(@, cause)]
  /\ sockets' = List!Removed(sockets, k + 1)

Drop(k, c, cause) ==
  /\ closed' = [closed EXCEPT ![c] = Append(@, cause)]
  /\ sockets' = List!Removed(sockets, k)

Forward(c, n) ==
  /\ Result(c) = TCP_NO_ERROR /\ ~Late(n)
  /\ inbox' = [inbox EXCEPT ![n] = Tail(@)]
  /\ NoteOpening(c)
  /\ forwarded' = [forwarded EXCEPT ![c] = Append(@, Reading(n)[1])]
  /\ UNCHANGED <<peer, sockets, sock, files, closed>>

\* The reading is late: it is dropped, and the gateway closes the connection
\* with what it may still hold.
TimeOut_StaysOpen(k, c, n) ==
  /\ Result(c) = TCP_NO_ERROR /\ Late(n)
  /\ inbox' = [inbox EXCEPT ![n] = Tail(@)]
  /\ NoteOpening(c)
  /\ UNCHANGED <<peer, sockets, sock, files, closed, forwarded>>

TimeOut(k, c, n) ==
  /\ Result(c) = TCP_NO_ERROR /\ Late(n)
  /\ LET r == tcp_close(sock[c], files, peer[n] # "reset")
     IN  sock' = [sock EXCEPT ![c] = r.sock] /\ files' = r.files
  /\ inbox' = [inbox EXCEPT ![n] = <<>>]
  /\ peer' = [peer EXCEPT ![n] = IF @ = "open" THEN "shut" ELSE @]
  /\ NoteOpening(c)
  /\ Drop(k, c, "timeout")
  /\ UNCHANGED forwarded

\* The last recv finds the connection at its end, whatever the first two
\* returned.  Nothing closes the descriptor.
HangUp(k, c, n) ==
  /\ Result(c) # TCP_NO_ERROR
  /\ sock' = [sock EXCEPT ![c] = tcp_sock_free(@)]
  /\ Drop(k, c, "hangup")
  /\ UNCHANGED <<peer, inbox, files, written, forwarded>>

Visit ==
  /\ Scanning
  /\ LET k == At
         c == List!ElementAt(sockets, k)
         n == From(c)
     IN  /\ Received(n)
         /\ Forward(c, n) \/ TimeOut(k, c, n) \/ HangUp(k, c, n)
         /\ Continue(k)
  /\ UNCHANGED <<sending, sent, backlog, server, serverVars>>

\* After the scan: has there been no client for TIMEOUT?
Remaining_Ignored == 0

Remaining == Len(sockets)

\* server_ts is set again only if there was a client before (waiting == 0).
StillExpired_Never == FALSE

StillExpired == waiting /\ expired

Scanned == pc = "scan" /\ (sockets = <<>> \/ Found = {})

KeepServing ==
  /\ Scanned
  /\ Remaining > 0
  /\ waiting' = FALSE
  /\ pc' = "select"
  /\ UNCHANGED <<peerVars, backlog, sockets, sockVars, scanVars, expired, logVars>>

AwaitClient ==
  /\ Scanned
  /\ Remaining = 0 /\ ~StillExpired
  /\ waiting' = TRUE /\ expired' = FALSE
  /\ pc' = "select"
  /\ UNCHANGED <<peerVars, backlog, sockets, sockVars, scanVars, logVars>>

\* Connections that wait in the backlog are refused with the listening socket.
EndServer ==
  /\ Scanned
  /\ Remaining = 0 /\ StillExpired
  /\ LET r == tcp_close(server, files, TRUE)
     IN  server' = r.sock /\ files' = r.files
  /\ peer' = [c \in Client |->
               IF peer[c] = "open" /\ \E k \in DOMAIN backlog : backlog[k] = c
                 THEN "shut" ELSE peer[c]]
  /\ waiting' = TRUE
  /\ pc' = "done"
  /\ UNCHANGED <<sending, inbox, sent, backlog, sockets, sock, scanVars, expired, logVars>>

\* connmgr_free, called by method_connmgr when connmgr_listen has returned
connmgr_free ==
  /\ pc = "done"
  /\ sock' = [c \in Client |-> IF c \in Elements THEN tcp_sock_free(sock[c]) ELSE sock[c]]
  /\ sockets' = <<>>
  /\ pc' = "freed"
  /\ UNCHANGED <<peerVars, backlog, server, files, scanVars, serverVars, logVars>>

Check  == KeepServing \/ AwaitClient \/ EndServer
Listen == OpenServer \/ Select \/ Visit \/ Check \/ connmgr_free

\* What the nodes do after the server has ended is not followed.
Running == pc \notin {"freed", "failed"}
Stopped == ~Running /\ UNCHANGED vars

Sensor(c) ==
  Connect(c) \/ BeginReading(c) \/ EndReading(c) \/ SendFails(c) \/ Close(c) \/ Reset(c)

Next ==
  \/ \E c \in Client : Running /\ Sensor(c)
  \/ Expire
  \/ Listen
  \/ Stopped

\* The thread runs, time passes, and a node that has connected ends or fails
\* some day; nothing says that it connects or sends at all.
Fairness ==
  /\ WF_vars(Listen)
  /\ WF_vars(Expire)
  /\ \A c \in Client : WF_vars(Running /\ Close(c))

Spec     == Init /\ [][Next]_vars
FairSpec == Spec /\ Fairness

(***************************************************************************)
(* Properties.                                                             *)
(***************************************************************************)
TypeOK ==
  /\ peer \in [Client -> {"absent", "open", "closed", "reset", "shut"}]
  /\ sending \in [Client -> BOOLEAN]
  /\ \A c \in Client : inbox[c] \in Seq((1..MaxReadings) \X BOOLEAN)
  /\ sent \in [Client -> 0..MaxReadings]
  /\ backlog \in Seq(Client) /\ sockets \in Seq(Client)
  /\ pc \in {"open", "select", "scan", "done", "freed", "failed"}
  /\ files \in [Descriptor -> Client \cup {"free", "listener", "unconnected"}]
  /\ fdSet \subseteq Descriptor
  /\ client_amount \in 0..Cardinality(Client) /\ i \in 0..Cardinality(Client)
  /\ waiting \in BOOLEAN /\ expired \in BOOLEAN
  /\ written \subseteq Client
  /\ \A c \in Client : closed[c] \in Seq({"timeout", "hangup"})
  /\ \A c \in Client : forwarded[c] \in Seq(1..MaxReadings)

\* However many connections an iteration removes while it counts up to the old
\* client_amount, it never finds the list empty (which would end the process).
NeverNull == pc = "scan" /\ i < client_amount => sockets # <<>>

\* A connection is reported as closed once, and then is off the list for good.
ClosedOnce ==
  \A c \in Client : Len(closed[c]) <= 1 /\ (closed[c] # <<>> => c \notin Elements)

\* The readings of a connection reach the buffer without gap from the first on:
\* what is lost (a late reading and whatever follows it) is lost at the end.
ForwardsPrefix ==
  \A c \in Client : \A k \in 1..Len(forwarded[c]) : forwarded[c][k] = k

\* A descriptor of the gateway belongs to one connection: every connection on
\* the list has one of its own; one that its node ended leaves its one behind,
\* since only the struct is freed; one that the gateway closed has none left,
\* or at most its own if a reset had broken it (see CloseFreesDescriptor).
DescriptorsExact ==
  \A c \in Client :
    LET own == {d \in Descriptor : files[d] = c}
    IN  CASE c \in Elements -> own = {socket_get_sd(sock[c])}
          [] closed[c] = <<"hangup">> -> Cardinality(own) = 1
          [] closed[c] = <<"timeout">> /\ peer[c] = "reset" -> Cardinality(own) <= 1
          [] OTHER -> own = {}

\* A node that has not sent anything yet never blocks the server: neither the
\* doubled visits of the scan, nor a descriptor that was used before, nor its
\* being accepted after select makes the server wait for it in recv.
SilentNeverBlocks ==
  Scanning => ~(peer[Cur] = "open" /\ sent[Cur] = 0 /\ ~sending[Cur])

\* The round in which the server ends is one whose select saw no connection
\* waiting: only a node that came after that select is turned away.
EndsUnasked == pc = "done" => \A d \in fdSet : files[d] # "free"

\* If nodes that connect some day end, the server ends too, with no connection
\* on its list: the scan's skipped and doubled clients do not keep it alive.
ServerEnds == <>[](pc = "failed" \/ (pc = "freed" /\ sockets = <<>>))

\* A connection is taken off the list for a reason of its own, never in place
\* of another: it has ended, or its next reading is late.  A node that stays
\* connected and silent is therefore never dropped.
RemovedForCause ==
  [][\A c \in Elements \ Elements' :
       Ended(c) \/ (inbox[c] # <<>> /\ Head(inbox[c])[2])]_vars

\* connmgr.c:97 "which means this tcp has data": the client whose bit in fdSet
\* is set has something to be received.
ReadyMeansData == Scanning => Readable(socket_get_sd(sock[Cur]))

\* lib/tcpsock.h:53 "The socket '*socket' is closed , allocated resources are
\* freed": the connection that tcp_close has closed holds no descriptor.
CloseFreesDescriptor ==
  \A c \in Client : closed[c] = <<"timeout">> => \A d \in Descriptor : files[d] # c
=============================================================================
