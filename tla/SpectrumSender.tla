--------------------------- MODULE SpectrumSender ---------------------------
(***************************************************************************)
(* The remote sink of spectra: one SpectrumSender per window               *)
(* (src/include/SpectrumSender.hpp), which pushes each result to the       *)
(* Writer on another machine over a ZeroMQ PUSH socket of its own, without *)
(* ever blocking.                                                          *)
(*                                                                         *)
(* ZeroMQ is modelled from its use: the socket connects and reconnects by  *)
(* itself; with ZMQ_SNDHWM = 1 its pipe holds one message, and with        *)
(* ZMQ_IMMEDIATE there is a pipe only while it is connected, so that a     *)
(* disconnection loses what is in it.                                      *)
(***************************************************************************)
EXTENDS Integers, Sequences

CONSTANTS
  Windows,
  Reachable,        \* windows whose Writer can be connected to
  SendHwm,          \* send_hwm
  MaxDisconnects    \* disconnections (bound)

ASSUME SenderAssumption ==
  /\ Reachable \subseteq Windows
  /\ SendHwm \in Nat \ {0} /\ MaxDisconnects \in Nat

VARIABLES
  socket,          \* windows with a socket_
  next_sequence,   \* next_sequence_
  connected,       \* windows whose socket is connected
  pipe,            \* messages in the socket
  received,        \* the last message the Writer has got, if any
  disconnects

senderVars == <<socket, next_sequence, connected, pipe, received, disconnects>>

\* The senders of a process that has not run yet, which the Writer has heard
\* nothing of.
SenderStart ==
  /\ socket' = {}
  /\ next_sequence' = [w \in Windows |-> 0]
  /\ connected' = {}
  /\ pipe' = [w \in Windows |-> <<>>]
  /\ received' = [w \in Windows |-> <<>>]
  /\ UNCHANGED disconnects

SenderInit ==
  /\ socket = {}
  /\ next_sequence = [w \in Windows |-> 0]
  /\ connected = {}
  /\ pipe = [w \in Windows |-> <<>>]
  /\ received = [w \in Windows |-> <<>>]
  /\ disconnects = 0

\* ZMQ_POLLOUT
Writable(w) == w \in connected /\ Len(pipe[w]) < SendHwm

\* prepare(): the windows in good get a socket.
PrepareSockets(good) ==
  /\ good \subseteq Windows
  /\ socket' = socket \cup good
  /\ UNCHANGED <<next_sequence, connected, pipe, received, disconnects>>

\* send_spectrum, when ensure_socket fails.
NoSocket(w) == w \notin socket /\ UNCHANGED senderVars

\* The number is taken only for a message that can be sent.
Number_OnlyIfWritable(w) ==
  /\ socket' = socket \cup {w}
  /\ next_sequence' = [next_sequence EXCEPT ![w] = IF Writable(w) THEN @ + 1 ELSE @]
  /\ UNCHANGED <<connected, pipe, received, disconnects>>

\* send_spectrum up to the poll: ensure_socket succeeds and the number of the
\* message is taken, writable or not.
Number(w) ==
  /\ socket' = socket \cup {w}
  /\ next_sequence' = [next_sequence EXCEPT ![w] = @ + 1]
  /\ UNCHANGED <<connected, pipe, received, disconnects>>

\* zmq_msg_send without waiting: the peer may have gone since the poll.
Transmit(w, message) ==
  /\ pipe' = [pipe EXCEPT ![w] = IF Writable(w) THEN Append(@, message) ELSE @]
  /\ UNCHANGED <<socket, next_sequence, connected, received, disconnects>>

(***************************************************************************)
(* The I/O threads of ZeroMQ and the network.                              *)
(***************************************************************************)
Connect(w) ==
  /\ w \in socket \cap Reachable /\ w \notin connected
  /\ connected' = connected \cup {w}
  /\ UNCHANGED <<socket, next_sequence, pipe, received, disconnects>>

Disconnect(w) ==
  /\ w \in connected /\ disconnects < MaxDisconnects
  /\ connected' = connected \ {w}
  /\ pipe' = [pipe EXCEPT ![w] = <<>>]
  /\ disconnects' = disconnects + 1
  /\ UNCHANGED <<socket, next_sequence, received>>

Deliver(w) ==
  /\ pipe[w] # <<>>
  /\ received' = [received EXCEPT ![w] = <<Head(pipe[w])>>]
  /\ pipe' = [pipe EXCEPT ![w] = Tail(@)]
  /\ UNCHANGED <<socket, next_sequence, connected, disconnects>>

Network == \E w \in Windows : Connect(w) \/ Disconnect(w) \/ Deliver(w)
=============================================================================
