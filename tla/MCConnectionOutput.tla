-------------------------- MODULE MCConnectionOutput --------------------------
(***************************************************************************)
(* A connection, and the ways to use it.                                   *)
(***************************************************************************)
EXTENDS ConnectionOutput

\* Callbacks and another thread send strings at any time.
Concurrent == [loop |-> {"send", "shutdown"}, user |-> {"send"},
               keeps |-> TRUE, awaits |-> FALSE, fileLast |-> FALSE, max |-> 2]

\* The same with a message more, and nobody shuts down.
Crossing == [Concurrent EXCEPT !.loop = {"send"}, !.max = 3]

\* Both call everything, files included, one call after the other.
Sequential == [loop |-> Calls, user |-> Calls, keeps |-> TRUE, awaits |-> TRUE,
               fileLast |-> FALSE, max |-> 3]

\* Another thread sends temporary strings and drops its TcpConnectionPtr.
Borrowing == [loop |-> {}, user |-> {"send"}, keeps |-> FALSE,
              awaits |-> FALSE, fileLast |-> FALSE, max |-> 1]

\* A callback sends a string and a file behind it, and awaits neither.
FileBehind == [loop |-> {"send", "sendFile"}, user |-> {}, keeps |-> TRUE,
               awaits |-> FALSE, fileLast |-> TRUE, max |-> 2]

MCUsages == {Concurrent, Crossing, Sequential, FileBehind}
MCBorrowing == {Borrowing}
=============================================================================
