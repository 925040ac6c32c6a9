---------------------------- MODULE OutputStream ----------------------------
(***************************************************************************)
(* What send(), sendFile() and shutdown() of a TcpConnection promise:      *)
(* messages enter one stream, whole and in the order in which each thread  *)
(* has sent them; the socket is given that stream from its beginning; and  *)
(* the FIN comes behind the whole of it.  Only a connection that is broken *)
(* (reset by the peer, or closed) or finished loses anything.              *)
(***************************************************************************)
EXTENDS Naturals, Sequences, SequencesExt

CONSTANT Data(_)     \* the bytes of each message

VARIABLES calls,     \* how many messages were sent; each has its number
          waiting,   \* messages of other threads that have no place yet
          stream,    \* the bytes of all messages that have one
          wire,      \* the part of the stream that the socket was given
          fin,       \* nothing more goes to the socket
          broken

streamVars == <<calls, waiting, stream, wire, fin, broken>>

Init ==
  /\ calls = 0
  /\ waiting = {}
  /\ stream = <<>>
  /\ wire = <<>>
  /\ fin = FALSE
  /\ broken = FALSE

\* The socket takes more of the stream, and perhaps its end.
Transmit ==
  /\ IsPrefix(wire, wire')
  /\ IsPrefix(wire', stream')
  /\ fin => fin' /\ wire' = wire
  /\ fin' /\ ~fin => broken \/ wire' = stream'
  /\ UNCHANGED broken

\* Another thread has handed over a message.
Hand ==
  /\ calls' = calls + 1
  /\ waiting' = waiting \cup {calls'}
  /\ UNCHANGED <<stream, wire, fin, broken>>

\* m is the first of the messages handed over that have no place.
FirstWaiting(m) == m \in waiting /\ \A n \in waiting : m <= n

\* It takes its place.
Place(m) ==
  /\ FirstWaiting(m)
  /\ waiting' = waiting \ {m}
  /\ stream' = stream \o Data(m)
  /\ Transmit
  /\ UNCHANGED calls

\* A message of the IO thread itself takes its place at once.
Send ==
  /\ calls' = calls + 1
  /\ stream' = stream \o Data(calls')
  /\ Transmit
  /\ UNCHANGED waiting

Advance ==
  /\ Transmit
  /\ UNCHANGED <<calls, waiting, stream>>

\* A message is given up, or what the socket has not been given.
Lose ==
  /\ fin \/ broken
  /\ \/ calls' = calls + 1 /\ UNCHANGED <<waiting, stream>>
     \/ \E m \in waiting : /\ FirstWaiting(m)
                           /\ waiting' = waiting \ {m}
                           /\ UNCHANGED <<calls, stream>>
     \/ stream' = wire /\ UNCHANGED <<calls, waiting>>
  /\ UNCHANGED <<wire, fin, broken>>

Break == broken' = TRUE /\ UNCHANGED <<calls, waiting, stream, wire, fin>>

Next == Hand \/ (\E m \in waiting : Place(m)) \/ Send \/ Advance \/ Lose \/ Break

Spec == Init /\ [][Next]_streamVars
=============================================================================
