---------------------------- MODULE ConnectionLife ----------------------------
(***************************************************************************)
(* What a TcpServer promises its user about each connection, without       *)
(* queues, channels or pointers: the connection callback hears UP once,    *)
(* then DOWN at most once, both while the TcpConnection exists; and no     *)
(* TcpConnection goes away before its user has heard both, except when the *)
(* server is destroyed, and then only one that the user himself has begun  *)
(* to shut down, or whose loop has ended with functors left.               *)
(***************************************************************************)
EXTENDS Naturals, Sequences

CONSTANT Connections

VARIABLES life,      \* "absent", "alive" or "destroyed", for each connection
          told,      \* what the connection callback has been told about it
          shut,      \* those that the user has called shutdown() for, and not
                     \* been told DOWN of yet
          cut,       \* those whose loop has ended
          closing    \* the destructor of the server has begun

lifeVars == <<life, told, shut, cut, closing>>

Whole == <<"UP", "DOWN">>

Init ==
  /\ life = [c \in Connections |-> "absent"]
  /\ told = [c \in Connections |-> <<>>]
  /\ shut = {}
  /\ cut = {}
  /\ closing = FALSE

\* The connection is accepted and, when its loop is the accepting one, told of
\* at once.
Accept(c) ==
  /\ life[c] = "absent"
  /\ life' = [life EXCEPT ![c] = "alive"]
  /\ \E h \in {<<>>, <<"UP">>} : told' = [told EXCEPT ![c] = h]
  /\ UNCHANGED <<shut, cut, closing>>

Tell(c) ==
  /\ life[c] = "alive"
  /\ Len(told[c]) < Len(Whole)
  /\ told' = [told EXCEPT ![c] = Append(@, Whole[Len(@) + 1])]
  /\ shut' = IF told'[c] = Whole THEN shut \ {c} ELSE shut
  /\ UNCHANGED <<life, cut, closing>>

ShutDown(c) ==
  /\ life[c] = "alive"
  /\ told[c] = <<"UP">>
  /\ shut' = shut \cup {c}
  /\ UNCHANGED <<life, told, cut, closing>>

\* The last references to the connections S go away, and the loop of the
\* connections T ends, or neither of them.
LetGo(S, T) ==
  /\ \A c \in S : /\ life[c] = "alive"
                  /\ told[c] = Whole \/ (closing /\ c \in shut \cup cut)
  /\ T # {} => closing
  /\ life' = [c \in Connections |-> IF c \in S THEN "destroyed" ELSE life[c]]
  /\ cut' = cut \cup T
  /\ UNCHANGED <<told, shut, closing>>

Close == closing' = TRUE /\ UNCHANGED <<life, told, shut, cut>>

\* The destructor tells of a connection and lets go of it.
CloseOne(c) ==
  /\ closing
  /\ life[c] = "alive"
  /\ told[c] = <<"UP">>
  /\ told' = [told EXCEPT ![c] = Whole]
  /\ life' = [life EXCEPT ![c] = "destroyed"]
  /\ shut' = shut \ {c}
  /\ UNCHANGED <<cut, closing>>

Next ==
  \/ \E c \in Connections : Accept(c) \/ Tell(c) \/ ShutDown(c) \/ CloseOne(c)
  \/ \E S, T \in SUBSET Connections : LetGo(S, T)
  \/ Close

Spec == Init /\ [][Next]_lifeVars
=============================================================================
