------------------------------ MODULE Tcpsock ------------------------------
(***************************************************************************)
(* The TCP wrapper (src/lib/tcpsock.c) as operators.  A call is described   *)
(* by its outcomes: the result code, the struct tcpsock it leaves and the  *)
(* descriptor table of the calling process.  Of the struct, cookie and sd  *)
(* are kept; address and port are only carried along.  malloc succeeds.    *)
(***************************************************************************)
EXTENDS Integers, FiniteSetsExt

CONSTANT OpenMax   \* bound: sockets that a process can have open at a time

ASSUME OpenMaxAssumption == OpenMax \in Nat \ {0}

\* 0, 1 and 2 are the standard streams.
Descriptor == 3..(OpenMax + 2)
NoFiles    == [d \in Descriptor |-> "free"]
Unused(files) == {d \in Descriptor : files[d] = "free"}

TCP_NO_ERROR          == 0
TCP_SOCKET_ERROR      == 1
TCP_ADDRESS_ERROR     == 2
TCP_SOCKOP_ERROR      == 3
TCP_CONNECTION_CLOSED == 4

tcp_sock_create == [cookie |-> "0", sd |-> -1]
Bound(d)        == [cookie |-> "MAGIC_COOKIE", sd |-> d]
Freed           == [cookie |-> "freed", sd |-> -1]
IsBound(s)      == s.cookie = "MAGIC_COOKIE"

Outcome(result, sock, files) == [result |-> result, sock |-> sock, files |-> files]

\* socket() and accept() take the lowest descriptor that is free.
Success(files, end) ==
  LET d == Min(Unused(files))
  IN  Outcome(TCP_NO_ERROR, Bound(d), [files EXCEPT ![d] = end])

\* A call after socket() fails (bind, listen; inet_aton, connect, getsockname):
\* the struct is freed, the descriptor is not closed.
HalfOpen(result, files) ==
  Outcome(result, Freed, [files EXCEPT ![Min(Unused(files))] = "unconnected"])

\* The port is out of range, or socket() or a later call fails, or none.
Open(files, end) ==
  {Outcome(TCP_ADDRESS_ERROR, Freed, files), Outcome(TCP_SOCKOP_ERROR, Freed, files)} \cup
    (IF Unused(files) = {} THEN {} ELSE {HalfOpen(TCP_SOCKOP_ERROR, files), Success(files, end)})

tcp_passive_open(files) == Open(files, "listener")

\* inet_aton has a result of its own.
tcp_active_open(files, remote) ==
  Open(files, remote) \cup
    (IF Unused(files) = {} THEN {} ELSE {HalfOpen(TCP_ADDRESS_ERROR, files)})

\* accept() may fail whenever it likes, and does when no descriptor is left.
tcp_wait_for_connection(socket, files, peer) ==
  IF ~IsBound(socket) THEN {Outcome(TCP_SOCKET_ERROR, Freed, files)}
  ELSE {Outcome(TCP_SOCKOP_ERROR, Freed, files)} \cup
         (IF Unused(files) = {} THEN {} ELSE {Success(files, peer)})

\* Mutant: shutdown() is taken for close().
tcp_close_ShutdownOnly(socket, files, connected) == Outcome(TCP_NO_ERROR, Freed, files)

\* shutdown() fails on a socket that is not connected (any more), and close()
\* is called only if it succeeds; the struct is freed in any case.
tcp_close(socket, files, connected) ==
  Outcome(TCP_NO_ERROR, Freed,
          IF IsBound(socket) /\ connected THEN [files EXCEPT ![socket.sd] = "free"] ELSE files)

tcp_sock_free(socket) == Freed

\* What a call makes of that of send() or recv(): some bytes, none because the
\* connection has ended, "gone" for EPIPE and ENOTCONN, or another error.
Transfer(socket, did) ==
  IF ~IsBound(socket) THEN TCP_SOCKET_ERROR
  ELSE CASE did \in {"end", "gone"}  -> TCP_CONNECTION_CLOSED
         [] did = "error"            -> TCP_SOCKOP_ERROR
         [] OTHER                    -> TCP_NO_ERROR

tcp_send(socket, did)    == Transfer(socket, did)
tcp_receive(socket, did) == Transfer(socket, did)

\* The error code is a number like any descriptor: that of standard output.
socket_get_sd(socket) == IF IsBound(socket) THEN socket.sd ELSE TCP_SOCKET_ERROR
=============================================================================
