------------------------------ MODULE TcpServer ------------------------------
(***************************************************************************)
(* A TcpServer with its EventLoopThreadPool, the base loop that accepts,   *)
(* and the IO loops that own the connections: src/src/TcpServer.cpp,       *)
(* src/src/EventLoopThreadPool.cpp, and the life of a TcpConnection from   *)
(* newConnection() to its destructor (src/src/TcpConnection.cpp).          *)
(*                                                                         *)
(* A loop is what the modules EventLoop and TaskQueue say of it: it        *)
(* handles events, swaps out the pending functors, runs them in order, and *)
(* tests quit_ between two rounds.  A handler or functor is one step: it   *)
(* touches its own thread's state and at most appends to the queue of one  *)
(* other loop.  That a queued functor wakes its loop is EventLoop's part.  *)
(*                                                                         *)
(* A TcpConnection lives as long as a shared_ptr to it: in connections_,   *)
(* bound in a functor that its loop has not yet thrown away, or with a     *)
(* thread that is in its shutdown().  send() is left to Channel and        *)
(* ConnectionOutput, and so is a second handleClose() of one connection.   *)
(***************************************************************************)
EXTENDS Naturals, Sequences, FiniteSets, SequencesExt

CONSTANTS
  Base,            \* loop_, the loop of the thread that owns the server
  Pool,            \* the loops the pool can start, a sequence
  NoLoop,          \* loop of a connection that does not exist yet
  MaxConnections,  \* bound on the connections accepted
  Users            \* the connections for which somebody calls shutdown()

PoolLoops == ToSet(Pool)
Loops == {Base} \cup PoolLoops
Connections == 1 .. MaxConnections

\* Each thread of the pool has an EventLoop of its own, which is not the base
\* loop.
ASSUME ServerAssumption ==
  /\ MaxConnections \in Nat
  /\ Pool \in Seq(PoolLoops)
  /\ \A i, j \in 1 .. Len(Pool) : Pool[i] = Pool[j] => i = j
  /\ Base \notin PoolLoops
  /\ NoLoop \notin Loops
  /\ Users \subseteq Connections

VARIABLES
  server,        \* what the thread of the server is doing with it
  numThreads_,   \* of the pool
  loops_,        \* of the pool: the loops that were started
  next_,         \* of the pool: index into loops_, from 0
  joined,        \* how many threads the pool's destructor has joined
  nextConnId_,
  connections_,  \* the connections in the map, by the number in their name
  conn,          \* each TcpConnection: loop_, state_, its channel's index_, what
                 \* the connection callback was told about it, and whether a
                 \* thread in shutdown() has found it connected
  phase,         \* where each loop is
  quit_,         \* of each loop
  pending,       \* pendingFunctors_ of each loop
  batch,         \* the functors a loop has swapped out
  ran            \* how many of them it has run

poolVars == <<numThreads_, loops_, next_, joined>>
loopVars == <<phase, quit_, pending, batch, ran>>
vars == <<server, poolVars, nextConnId_, connections_, conn, loopVars>>

Ops == {"connectEstablished", "connectDestroyed", "removeConnectionInLoop"}
FunctorRecords == [op : Ops, conn : Connections]

ConnectionRecords ==
  [loop_  : Loops \cup {NoLoop},
   state_ : {"kConnecting", "kConnected", "kDisconnecting", "kDisconnected"},
   index_ : {"kNew", "kAdded", "kDeleted", "removed"},
   told   : Seq({"UP", "DOWN"}),
   ending : BOOLEAN]

Phases == {"off", "starting", "events", "functors", "stopped", "destroyed"}

(***************************************************************************)
(* server: "constructed", "started" after start(), "destroying" in the     *)
(*         body of the destructor, "joining" in that of the pool,          *)
(*         "waiting" in the join() of one of its threads, "gone"           *)
(* phase:  "off" before loop(), "starting" when a thread of the pool has   *)
(*         published its loop and not called loop() yet, "events",         *)
(*         "functors", "stopped" when loop() has returned, "destroyed"     *)
(*         after ~EventLoop()                                              *)
(***************************************************************************)
TypeOK ==
  /\ server \in {"constructed", "started", "destroying", "joining",
                "waiting", "gone"}
  /\ numThreads_ \in 0 .. Len(Pool)
  /\ loops_ \in {<<>>, SubSeq(Pool, 1, numThreads_)}
  /\ next_ \in 0 .. Len(loops_) /\ (loops_ # <<>> => next_ < Len(loops_))
  /\ joined \in 0 .. Len(loops_)
  /\ nextConnId_ \in 1 .. MaxConnections + 1
  /\ connections_ \subseteq 1 .. nextConnId_ - 1
  /\ conn \in [Connections -> ConnectionRecords]
  /\ phase \in [Loops -> Phases]
  /\ quit_ \in [Loops -> BOOLEAN]
  /\ pending \in [Loops -> Seq(FunctorRecords)]
  /\ batch \in [Loops -> Seq(FunctorRecords)]
  /\ ran \in [Loops -> Nat]
  /\ \A l \in Loops : ran[l] <= Len(batch[l])

Unborn == [loop_ |-> NoLoop, state_ |-> "kConnecting", index_ |-> "kNew",
           told |-> <<>>, ending |-> FALSE]

Init ==
  /\ server = "constructed"
  /\ numThreads_ = 0
  /\ loops_ = <<>>
  /\ next_ = 0
  /\ joined = 0
  /\ nextConnId_ = 1
  /\ connections_ = {}
  /\ conn = [c \in Connections |-> Unborn]
  /\ phase = [l \in Loops |-> "off"]
  /\ quit_ = [l \in Loops |-> FALSE]
  /\ pending = [l \in Loops |-> <<>>]
  /\ batch = [l \in Loops |-> <<>>]
  /\ ran = [l \in Loops |-> 0]

-----------------------------------------------------------------------------
(***************************************************************************)
(* What a TcpConnection's own functions do to it.                          *)
(***************************************************************************)

ConnectEstablished(k) ==
  [k EXCEPT !.state_ = "kConnected",
            !.index_ = "kAdded",
            !.told = Append(@, "UP")]

\* connectDestroyed() leaves the DOWN to handleClose().
DestroyedSilently(k) == [k EXCEPT !.state_ = "kDisconnected",
                                  !.index_ = "removed"]

\* Only a connection that is still up is told of; the channel goes in any case.
ConnectDestroyed(k) ==
  IF k.state_ = "kConnected"
  THEN [k EXCEPT !.state_ = "kDisconnected",
                 !.index_ = "removed",
                 !.told = Append(@, "DOWN")]
  ELSE [k EXCEPT !.index_ = "removed"]

\* handleClose() up to its call of closeCallback_.
Closed(k) ==
  [k EXCEPT !.state_ = "kDisconnected",
            !.index_ = "kDeleted",
            !.told = Append(@, "DOWN")]

(***************************************************************************)
(* Who holds a TcpConnectionPtr.                                           *)
(***************************************************************************)

Functor(op, c) == [op |-> op, conn |-> c]

HeldBy(l) == {f.conn : f \in ToSet(pending[l]) \cup ToSet(batch[l])}

Alive(c) == \/ c \in connections_
            \/ conn[c].ending
            \/ \E l \in Loops : c \in HeldBy(l)

(***************************************************************************)
(* EventLoopThreadPool::getNextLoop().                                     *)
(***************************************************************************)

\* The index is not taken back to 0 in time.
WrapsLate == IF loops_ = <<>> \/ next_ + 1 > Len(loops_) THEN 0 ELSE next_ + 1

\* Every other loop is passed over.
Skips == IF loops_ = <<>> THEN next_ ELSE (next_ + 2) % Len(loops_)

NextIndex ==
  IF loops_ = <<>> THEN next_
  ELSE IF next_ + 1 >= Len(loops_) THEN 0 ELSE next_ + 1

NextLoop == IF loops_ = <<>> THEN Base ELSE loops_[next_ + 1]

-----------------------------------------------------------------------------
(***************************************************************************)
(* The thread of the server, outside its loop.                             *)
(***************************************************************************)

SetThreadNum(n) ==
  /\ server = "constructed"
  /\ numThreads_' = n
  /\ UNCHANGED <<server, loops_, next_, joined, nextConnId_, connections_, conn,
                 loopVars>>

\* start(): each startLoop() returns a loop that its thread has published and
\* has still to enter, and the acceptor listens.  A later start() finds started_
\* set and does nothing.
Start ==
  /\ server = "constructed"
  /\ server' = "started"
  /\ loops_' = SubSeq(Pool, 1, numThreads_)
  /\ phase' = [l \in Loops |->
                 IF l \in ToSet(loops_') THEN "starting" ELSE phase[l]]
  /\ UNCHANGED <<numThreads_, next_, joined, nextConnId_, connections_, conn,
                 quit_, pending, batch, ran>>

\* main() calls loop.loop(), which forgets an earlier quit().
BaseLoops ==
  /\ server = "started"
  /\ phase[Base] = "off"
  /\ phase' = [phase EXCEPT ![Base] = "events"]
  /\ quit_' = [quit_ EXCEPT ![Base] = FALSE]
  /\ UNCHANGED <<server, poolVars, nextConnId_, connections_, conn, pending,
                 batch, ran>>

\* Some callback, or another thread, calls quit() on the base loop.
BaseQuits ==
  /\ phase[Base] \in {"off", "events", "functors"}
  /\ ~quit_[Base]
  /\ quit_' = [quit_ EXCEPT ![Base] = TRUE]
  /\ UNCHANGED <<server, poolVars, nextConnId_, connections_, conn, phase,
                 pending, batch, ran>>

\* ~TcpServer(), once the base loop has returned.
BeginDestroy ==
  /\ server = "started"
  /\ phase[Base] = "stopped"
  /\ server' = "destroying"
  /\ UNCHANGED <<poolVars, nextConnId_, connections_, conn, loopVars>>

\* One iteration of the loop over connections_: runInLoop() of
\* connectDestroyed() calls it at once for a connection of the base loop.
DestroyConnection(c) ==
  LET l == conn[c].loop_ IN
  /\ server = "destroying"
  /\ c \in connections_
  /\ connections_' = connections_ \ {c}
  /\ IF l = Base
     THEN /\ conn' = [conn EXCEPT ![c] = ConnectDestroyed(@)]
          /\ UNCHANGED pending
     ELSE /\ pending' = [pending EXCEPT ![l] =
                           Append(@, Functor("connectDestroyed", c))]
          /\ UNCHANGED conn
  /\ UNCHANGED <<server, poolVars, nextConnId_, phase, quit_, batch, ran>>

\* The members go: connections_ is empty by now, next is the pool.
BeginJoin ==
  /\ server = "destroying"
  /\ connections_ = {}
  /\ server' = "joining"
  /\ UNCHANGED <<poolVars, nextConnId_, connections_, conn, loopVars>>

\* ~EventLoopThread() of the next thread: quit() ...
QuitThread ==
  /\ server = "joining"
  /\ joined < Len(loops_)
  /\ server' = "waiting"
  /\ quit_' = [quit_ EXCEPT ![loops_[joined + 1]] = TRUE]
  /\ UNCHANGED <<poolVars, nextConnId_, connections_, conn, phase, pending,
                 batch, ran>>

\* The thread is only told to quit, and not waited for.
DoNotWait ==
  /\ server = "waiting"
  /\ server' = "joining"
  /\ joined' = joined + 1
  /\ UNCHANGED <<numThreads_, loops_, next_, nextConnId_, connections_, conn,
                 loopVars>>

\* ... and join().
JoinThread ==
  /\ server = "waiting"
  /\ phase[loops_[joined + 1]] = "destroyed"
  /\ server' = "joining"
  /\ joined' = joined + 1
  /\ UNCHANGED <<numThreads_, loops_, next_, nextConnId_, connections_, conn,
                 loopVars>>

\* The acceptor is the last member that owns anything.
EndDestroy ==
  /\ server = "joining"
  /\ joined = Len(loops_)
  /\ server' = "gone"
  /\ UNCHANGED <<poolVars, nextConnId_, connections_, conn, loopVars>>

-----------------------------------------------------------------------------
(***************************************************************************)
(* Events.                                                                 *)
(***************************************************************************)

\* Acceptor::handleRead() has a connfd: newConnection().
NewConnection ==
  LET c == nextConnId_
      k == [Unborn EXCEPT !.loop_ = NextLoop]
  IN
  /\ server = "started"
  /\ phase[Base] = "events"
  /\ nextConnId_ <= MaxConnections
  /\ nextConnId_' = nextConnId_ + 1
  /\ next_' = NextIndex
  /\ connections_' = connections_ \cup {c}
  /\ IF NextLoop = Base
     THEN /\ conn' = [conn EXCEPT ![c] = ConnectEstablished(k)]
          /\ UNCHANGED pending
     ELSE /\ conn' = [conn EXCEPT ![c] = k]
          /\ pending' = [pending EXCEPT ![NextLoop] =
                           Append(@, Functor("connectEstablished", c))]
  /\ UNCHANGED <<server, numThreads_, loops_, joined, phase, quit_, batch, ran>>

\* shutdown(), of whoever has the connection, in two steps: the test of state_
\* and setState().  shutdownInLoop() has nothing to do with its life.
ShutdownTests(c) ==
  /\ c \in Users
  /\ conn[c].state_ = "kConnected"
  /\ Alive(c)
  /\ conn' = [conn EXCEPT ![c].ending = TRUE]
  /\ UNCHANGED <<server, poolVars, nextConnId_, connections_, loopVars>>

ShutdownStores(c) ==
  /\ conn[c].ending
  /\ conn' = [conn EXCEPT ![c].ending = FALSE, ![c].state_ = "kDisconnecting"]
  /\ UNCHANGED <<server, poolVars, nextConnId_, connections_, loopVars>>

\* removeConnection() erases from the map where it is called, and forgets
\* connectDestroyed().
EraseOnly(c) ==
  /\ conn[c].loop_ # NoLoop
  /\ phase[conn[c].loop_] = "events"
  /\ conn[c].index_ = "kAdded"
  /\ conn' = [conn EXCEPT ![c] = Closed(@)]
  /\ connections_' = connections_ \ {c}
  /\ UNCHANGED <<server, poolVars, nextConnId_, loopVars>>

\* handleClose(): removeConnection() runs removeConnectionInLoop() at once in
\* the base loop, or queues it there.
HandleClose(c) ==
  LET l == conn[c].loop_ IN
  /\ l # NoLoop
  /\ phase[l] = "events"
  /\ conn[c].index_ = "kAdded"
  /\ conn' = [conn EXCEPT ![c] = Closed(@)]
  /\ IF l = Base
     THEN /\ connections_' = connections_ \ {c}
          /\ pending' = [pending EXCEPT ![Base] =
                           Append(@, Functor("connectDestroyed", c))]
     ELSE /\ pending' = [pending EXCEPT ![Base] =
                           Append(@, Functor("removeConnectionInLoop", c))]
          /\ UNCHANGED connections_
  /\ UNCHANGED <<server, poolVars, nextConnId_, phase, quit_, batch, ran>>

-----------------------------------------------------------------------------
(***************************************************************************)
(* loop() and doPendingFunctors() of a loop.                               *)
(***************************************************************************)

\* The thread of the pool calls loop(), which forgets an earlier quit().
EnterLoop(l) ==
  /\ phase[l] = "starting"
  /\ phase' = [phase EXCEPT ![l] = "events"]
  /\ quit_' = [quit_ EXCEPT ![l] = FALSE]
  /\ UNCHANGED <<server, poolVars, nextConnId_, connections_, conn, pending,
                 batch, ran>>

\* The functors are popped from the back.
TakeNewestFirst(l) ==
  /\ phase[l] = "events"
  /\ phase' = [phase EXCEPT ![l] = "functors"]
  /\ batch' = [batch EXCEPT ![l] = Reverse(pending[l])]
  /\ pending' = [pending EXCEPT ![l] = <<>>]
  /\ UNCHANGED <<server, poolVars, nextConnId_, connections_, conn, quit_, ran>>

TakeFunctors(l) ==
  /\ phase[l] = "events"
  /\ phase' = [phase EXCEPT ![l] = "functors"]
  /\ batch' = [batch EXCEPT ![l] = pending[l]]
  /\ pending' = [pending EXCEPT ![l] = <<>>]
  /\ UNCHANGED <<server, poolVars, nextConnId_, connections_, conn, quit_, ran>>

\* What one functor does.
RunEstablished(c) ==
  /\ conn' = [conn EXCEPT ![c] = ConnectEstablished(@)]
  /\ UNCHANGED <<connections_, pending>>

RunDestroyed(c) ==
  /\ conn' = [conn EXCEPT ![c] = ConnectDestroyed(@)]
  /\ UNCHANGED <<connections_, pending>>

\* The connection stays in the map.
QueueWithoutErase(c) ==
  /\ pending' = [pending EXCEPT ![conn[c].loop_] =
                   Append(@, Functor("connectDestroyed", c))]
  /\ UNCHANGED <<connections_, conn>>

\* removeConnectionInLoop(): always queueInLoop(), never a direct call.
RunRemove(c) ==
  /\ connections_' = connections_ \ {c}
  /\ pending' = [pending EXCEPT ![conn[c].loop_] =
                   Append(@, Functor("connectDestroyed", c))]
  /\ UNCHANGED conn

RunFunctor(l) ==
  /\ phase[l] = "functors"
  /\ ran[l] < Len(batch[l])
  /\ ran' = [ran EXCEPT ![l] = @ + 1]
  /\ LET f == batch[l][ran[l] + 1] IN
     \/ f.op = "connectEstablished" /\ RunEstablished(f.conn)
     \/ f.op = "connectDestroyed" /\ RunDestroyed(f.conn)
     \/ f.op = "removeConnectionInLoop" /\ RunRemove(f.conn)
  /\ UNCHANGED <<server, poolVars, nextConnId_, phase, quit_, batch>>

\* The vector of functors goes, with the references they hold, and loop()
\* tests quit_.  Functors queued since the swap stay behind when it returns.
FunctorsDone(l) ==
  /\ phase[l] = "functors"
  /\ ran[l] = Len(batch[l])
  /\ batch' = [batch EXCEPT ![l] = <<>>]
  /\ ran' = [ran EXCEPT ![l] = 0]
  /\ phase' = [phase EXCEPT ![l] = IF quit_[l] THEN "stopped" ELSE "events"]
  /\ UNCHANGED <<server, poolVars, nextConnId_, connections_, conn, quit_,
                 pending>>

\* ~EventLoop() throws away what is still queued.  The EventLoop of an IO
\* thread goes when threadFunc() returns, that of main() after the server.
DestroyLoop(l) ==
  /\ phase[l] = "stopped"
  /\ l = Base => server = "gone"
  /\ phase' = [phase EXCEPT ![l] = "destroyed"]
  /\ pending' = [pending EXCEPT ![l] = <<>>]
  /\ UNCHANGED <<server, poolVars, nextConnId_, connections_, conn, quit_,
                 batch, ran>>

-----------------------------------------------------------------------------

LoopStep(l) ==
  \/ EnterLoop(l)
  \/ TakeFunctors(l) \/ RunFunctor(l) \/ FunctorsDone(l)
  \/ DestroyLoop(l)

DestructorStep ==
  \/ BeginDestroy
  \/ \E c \in Connections : DestroyConnection(c)
  \/ BeginJoin
  \/ QuitThread
  \/ JoinThread
  \/ EndDestroy

Next ==
  \/ \E n \in 1 .. Len(Pool) : SetThreadNum(n)
  \/ Start
  \/ BaseLoops
  \/ BaseQuits
  \/ DestructorStep
  \/ NewConnection
  \/ \E c \in Connections : ShutdownTests(c) \/ ShutdownStores(c)
                             \/ HandleClose(c)
  \/ \E l \in Loops : LoopStep(l)

Spec == Init /\ [][Next]_vars

\* Every thread is scheduled: loops go round (EventLoop shows that a queued
\* functor or quit() ends poll()), and main() destroys the server when loop()
\* has returned, and a thread in shutdown() goes on.  Whether peers close and
\* whether anyone quits is open.
FairSpec == /\ Spec
            /\ \A l \in Loops : WF_vars(LoopStep(l))
            /\ WF_vars(DestructorStep)
            /\ \A c \in Connections : WF_vars(ShutdownStores(c))

-----------------------------------------------------------------------------
(***************************************************************************)
(* Properties.                                                             *)
(***************************************************************************)

\* The poller of a loop never holds the Channel of a destroyed TcpConnection
\* (channels_ and epoll's data.ptr are raw pointers): the last reference goes
\* only after channel_->remove().
RegisteredAlive ==
  \A c \in Connections :
    /\ conn[c].loop_ # NoLoop
    /\ phase[conn[c].loop_] # "destroyed"
    /\ conn[c].index_ \in {"kAdded", "kDeleted"}
    => Alive(c)

\* connectDestroyed() is called at most once: a second call would remove from
\* the poller whichever connection has the descriptor by then.
DestroyCalls(c, q) == {i \in DOMAIN q : q[i] = Functor("connectDestroyed", c)}

ToRun(l) == SubSeq(batch[l], ran[l] + 1, Len(batch[l])) \o pending[l]

DestroyedOnce ==
  \A c \in Connections : conn[c].loop_ # NoLoop =>
    LET waiting == DestroyCalls(c, ToRun(conn[c].loop_)) IN
    /\ Cardinality(waiting) <= 1
    /\ waiting # {} => c \notin connections_ /\ conn[c].index_ # "removed"

\* A channel that was removed does not come back: connectEstablished() is not
\* overtaken by connectDestroyed().
RemovedForGood ==
  [][\A c \in Connections :
       conn[c].index_ = "removed" => conn'[c].index_ = "removed"]_vars

\* Round robin: the loops of the pool have been given the same number of
\* connections, but for one.
Given(l) == Cardinality({c \in Connections : conn[c].loop_ = l})

Balanced ==
  \A l, m \in ToSet(loops_) : Given(l) <= Given(m) + 1

\* The user's view: UP, then at most one DOWN, and no connection that goes
\* away untold, but for those of a server that is destroyed: if the user had
\* called shutdown(), or if the loop had ended before connectDestroyed() ran.
\* (TcpConnection.h:74 promises DOWN of connectDestroyed() without exception.)
ShutByUser(c) == /\ conn[c].told # <<"UP", "DOWN">>
                 /\ conn[c].ending \/ conn[c].state_ = "kDisconnecting"

LoopEnded(c) == /\ conn[c].loop_ \in PoolLoops
                /\ phase[conn[c].loop_] \in {"stopped", "destroyed"}

Life == INSTANCE ConnectionLife WITH
  life <- [c \in Connections |-> IF conn[c].loop_ = NoLoop THEN "absent"
                                 ELSE IF Alive(c) THEN "alive"
                                 ELSE "destroyed"],
  told <- [c \in Connections |-> conn[c].told],
  shut <- {c \in Connections : ShutByUser(c)},
  cut <- {c \in Connections : LoopEnded(c)},
  closing <- server \notin {"constructed", "started"}

Lifecycle == Life!Spec

\* quit() came before loop(), which has forgotten it, and join() waits for a
\* thread that nobody tells to quit again: the destructor hangs (see the run
\* EventLoopThread_hang).
QuitForgotten == server = "waiting" /\ ~quit_[loops_[joined + 1]]

\* A closed connection is destroyed, whether or not the server is torn down
\* at the same time: the chain handleClose, removeConnection,
\* removeConnectionInLoop, connectDestroyed comes to its end in two threads,
\* unless the destructor hangs and the base loop with it.
ClosedIsDestroyed ==
  \A c \in Connections :
    conn[c].state_ = "kDisconnected" ~> ~Alive(c) \/ QuitForgotten

\* When the base loop has returned, the server's destructor returns too, every
\* IO thread ends, and no connection is left behind, unless a thread of the
\* pool was told to quit before it had entered its loop.
TornDown ==
  phase[Base] = "stopped" ~>
    \/ /\ server = "gone"
       /\ \A l \in Loops : phase[l] \in {"off", "destroyed"}
       /\ \A c \in Connections : ~Alive(c)
    \/ QuitForgotten

\* TcpServer.cpp, ~TcpServer(): on exit every connection gets its
\* connectDestroyed() in its own loop; those that were told UP, at least.
DestroyedOnExit ==
  server = "gone" =>
    \A c \in Connections : conn[c].told # <<>> => conn[c].index_ = "removed"
=============================================================================
