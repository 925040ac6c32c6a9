------------------------------- MODULE Channel -------------------------------
(***************************************************************************)
(* The channels of one EventLoop from construction to destruction, as      *)
(* their owners drive them: the connections (TcpConnection) and the        *)
(* acceptor (Acceptor), whose protocol wakeupChannel_ shares.              *)
(* All steps are the IO thread's, except the construction of a connection, *)
(* the release of the last reference to it, and send() and shutdown() of   *)
(* other threads: those test state_, and later queue a functor or store a  *)
(* new state_, whatever has become of the connection meanwhile.            *)
(* The poller is EPollPoller; the kernel's fd numbers are reused as soon   *)
(* as a channel's owner has closed its fd.                                 *)
(***************************************************************************)
EXTENDS EPollPoller

CONSTANTS
  Acceptors,     \* the channels whose owner is an Acceptor
  Shared,        \* the connections that other threads use, too
  MaxDestroys    \* bound of the model: no more connectDestroyed() functors
                 \* of one connection wait in the queue

ASSUME ChannelAssumption == /\ Acceptors \subseteq Channels
                            /\ Shared \subseteq Channels \ Acceptors
                            /\ MaxDestroys \in Nat

VARIABLES
  poller,     \* see EPollPoller
  life,       \* per channel
  state_,     \* of a connection; an acceptor has none
  sending,    \* connections for which send() of another thread has tested
              \* state_ and its sendInLoop() has not run yet
  ending,     \* connections for which shutdown() of another thread has tested
              \* state_ and has not stored kDisconnecting yet
  destroys,   \* per connection: how many connectDestroyed() handleClose() has
              \* led to that have not run yet
  reclosed,   \* connections for which handleClose() has run more than once, or
              \* after connectDestroyed()
  phase,      \* of the loop: "idle", "dispatch", "pending"
  activeChannels_,
  revents,    \* revents_ of each channel that is active or in handleEvent()
  current,    \* the channel in handleEvent(), or NoChannel
  todo        \* the callbacks handleEventWithGuard() has still to call

connVars == <<life, state_, sending, ending, destroys, reclosed>>
loopVars == <<phase, activeChannels_, revents, current, todo>>
vars == <<poller, connVars, loopVars>>

Connections == Channels \ Acceptors

(***************************************************************************)
(* life: "none"     not constructed                                        *)
(*       "new"      constructed; the fd is open                            *)
(*       "up"       connectEstablished() or listen() has been called       *)
(*       "down"     handleClose() has been called                          *)
(*       "removed"  connectDestroyed() has been called                     *)
(*       "freed"    destroyed and its fd closed                            *)
(***************************************************************************)
Lives == {"none", "new", "up", "down", "removed", "freed"}

States == {"kConnecting", "kConnected", "kDisconnecting", "kDisconnected"}

Revents == Events \cup {"hup", "err"}

\* The branches of handleEventWithGuard().
CallbackNames == {"close", "error", "read", "write"}

TypeOK ==
  /\ poller \in Pollers
  /\ life \in [Channels -> Lives]
  /\ state_ \in [Channels -> States]
  /\ sending \in SUBSET Shared
  /\ ending \in SUBSET Shared
  /\ destroys \in [Channels -> Nat]
  /\ reclosed \in SUBSET Connections
  /\ phase \in {"idle", "dispatch", "pending"}
  /\ activeChannels_ \in SUBSET Channels
  /\ revents \in [Channels -> SUBSET Revents]
  /\ current \in Channels \cup {NoChannel}
  /\ todo \in SUBSET CallbackNames

Init ==
  /\ poller = EmptyPoller
  /\ life = [c \in Channels |-> "none"]
  /\ state_ = [c \in Channels |-> "kConnecting"]
  /\ sending = {}
  /\ ending = {}
  /\ destroys = [c \in Channels |-> 0]
  /\ reclosed = {}
  /\ phase = "idle"
  /\ activeChannels_ = {}
  /\ revents = [c \in Channels |-> {}]
  /\ current = NoChannel
  /\ todo = {}

\* The fd is open as long as an owner has it.
HoldsFd(c) == life[c] \in {"new", "up", "down", "removed"}

\* The IO thread runs a callback of handleEvent() or a functor.
InCallback == current # NoChannel \/ phase = "pending"

\* The branches of handleEventWithGuard() that come before a branch.
Before(k) == CASE k = "close" -> {}
               [] k = "error" -> {"close"}
               [] k = "read"  -> {"close", "error"}
               [] k = "write" -> {"close", "error", "read"}

-----------------------------------------------------------------------------
(***************************************************************************)
(* Plausible mistakes, each the mutated body of a definition below.        *)
(***************************************************************************)

\* A hangup closes whether or not there is something to read.
HupAlwaysCloses(rev) ==
  {k \in CallbackNames : CASE k = "close" -> "hup" \in rev
                           [] k = "error" -> "err" \in rev
                           [] k = "read"  -> rev \cap {"in", "pri"} # {}
                           [] k = "write" -> "out" \in rev}

\* handleClose() destroys the connection at once, by the iterator's back.
CloseAndFree(c) ==
  /\ poller' = CloseFd(RemoveChannel(DisableAll(poller, c), c), c)
  /\ life' = [life EXCEPT ![c] = "freed"]
  /\ state_' = [state_ EXCEPT ![c] = "kDisconnected"]
  /\ UNCHANGED <<destroys, reclosed>>

\* sendInLoop() does not look at state_.
SendAnyway(c) ==
  /\ \/ phase = "pending" /\ c \in sending /\ sending' \in {sending, sending \ {c}}
     \/ InCallback /\ state_[c] = "kConnected" /\ sending' = sending
  /\ \/ ~IsWriting(poller, c) /\ poller' = EnableWriting(poller, c)
     \/ poller' = poller
  /\ UNCHANGED <<life, state_, ending, destroys, reclosed, loopVars>>

-----------------------------------------------------------------------------

\* The branches that revents_ selects: a hangup closes at once only without
\* EPOLLIN, but EPOLLPRI alone is read, too.
Callbacks(rev) ==
  {k \in CallbackNames : CASE k = "close" -> "hup" \in rev /\ "in" \notin rev
                           [] k = "error" -> "err" \in rev
                           [] k = "read"  -> rev \cap {"in", "pri"} # {}
                           [] k = "write" -> "out" \in rev}

(***************************************************************************)
(* The owners.                                                             *)
(***************************************************************************)

\* TcpConnection's or Acceptor's constructor, on an fd the kernel has just
\* returned: no other owner has it.
Construct(c) ==
  /\ life[c] = "none"
  /\ \A d \in Channels : HoldsFd(d) => FdOf[d] # FdOf[c]
  /\ life' = [life EXCEPT ![c] = "new"]
  /\ UNCHANGED <<poller, state_, sending, ending, destroys, reclosed, loopVars>>

\* connectEstablished() as a functor, or called by newConnection() in the
\* acceptor's handler when the server has no IO threads of its own.
ConnectEstablished(c) ==
  /\ InCallback
  /\ c \in Connections
  /\ life[c] = "new"
  /\ poller' = EnableReading(poller, c)
  /\ life' = [life EXCEPT ![c] = "up"]
  /\ state_' = [state_ EXCEPT ![c] = "kConnected"]
  /\ UNCHANGED <<sending, ending, destroys, reclosed, loopVars>>

\* Acceptor::listen(), before loop() or in it.
Listen(c) ==
  /\ phase = "idle" \/ InCallback
  /\ c \in Acceptors
  /\ life[c] = "new"
  /\ poller' = EnableReading(poller, c)
  /\ life' = [life EXCEPT ![c] = "up"]
  /\ UNCHANGED <<state_, sending, ending, destroys, reclosed, loopVars>>

\* send() and shutdown() of another thread up to their test of state_.
SendTests(c) ==
  /\ c \in Shared
  /\ state_[c] = "kConnected"
  /\ sending' = sending \cup {c}
  /\ UNCHANGED <<poller, life, state_, ending, destroys, reclosed, loopVars>>

ShutdownTests(c) ==
  /\ c \in Shared
  /\ state_[c] = "kConnected"
  /\ ending' = ending \cup {c}
  /\ UNCHANGED <<poller, life, state_, sending, destroys, reclosed, loopVars>>

\* shutdown() of another thread, of one or of more than one: setState().  (In
\* the IO thread the test and the store are one step.)  shutdownInLoop() does
\* nothing to the channel.
ShutdownStores(c) ==
  /\ \/ c \in ending /\ ending' \in {ending, ending \ {c}}
     \/ InCallback /\ state_[c] = "kConnected" /\ ending' = ending
  /\ state_' = [state_ EXCEPT ![c] = "kDisconnecting"]
  /\ UNCHANGED <<poller, life, sending, destroys, reclosed, loopVars>>

\* sendInLoop(), the functor of send() in another thread, of one or of several,
\* or called by a callback: unless state_ is kDisconnected something may be
\* left to be written.
SendInLoop(c) ==
  /\ \/ phase = "pending" /\ c \in sending /\ sending' \in {sending, sending \ {c}}
     \/ InCallback /\ state_[c] = "kConnected" /\ sending' = sending
  /\ \/ /\ state_[c] # "kDisconnected"
        /\ ~IsWriting(poller, c)
        /\ poller' = EnableWriting(poller, c)
     \/ poller' = poller
  /\ UNCHANGED <<life, state_, ending, destroys, reclosed, loopVars>>

\* connectDestroyed(): the functor queued behind each handleClose(), or called
\* for a connection that is up by ~TcpServer(), through the loop or, outside
\* loop(), directly.  disableAll() is called only in state kConnected, not
\* when shutdown() has made it kDisconnecting.
ConnectDestroyed(c) ==
  /\ c \in Connections
  /\ \/ /\ destroys[c] > 0
        /\ phase = "pending"
        /\ destroys' = [destroys EXCEPT ![c] = @ - 1]
     \/ /\ life[c] = "up"
        /\ phase \in {"pending", "idle"}
        /\ destroys' = destroys
  /\ IF state_[c] = "kConnected"
     THEN /\ poller' = RemoveChannel(DisableAll(poller, c), c)
          /\ state_' = [state_ EXCEPT ![c] = "kDisconnected"]
     ELSE /\ poller' = RemoveChannel(poller, c)
          /\ state_' = state_
  /\ life' = [life EXCEPT ![c] = "removed"]
  /\ UNCHANGED <<sending, ending, reclosed, loopVars>>

\* ~TcpConnection(), ~Socket(): the last reference is dropped, on any thread,
\* after connectDestroyed() or without connectEstablished().  The functors of
\* handleClose() and handleEvent() hold one, and so do the users until their
\* send() and shutdown() have come to an end.
Free(c) ==
  /\ c \in Connections
  /\ life[c] \in {"new", "removed"}
  /\ destroys[c] = 0
  /\ c \notin sending \cup ending
  /\ current # c
  /\ poller' = CloseFd(poller, c)
  /\ life' = [life EXCEPT ![c] = "freed"]
  /\ UNCHANGED <<state_, sending, ending, destroys, reclosed, loopVars>>

\* ~Acceptor(), outside loop(), whether or not listen() was called.
DestroyAcceptor(c) ==
  /\ phase = "idle"
  /\ c \in Acceptors
  /\ life[c] \in {"new", "up"}
  /\ poller' = CloseFd(RemoveChannel(DisableAll(poller, c), c), c)
  /\ life' = [life EXCEPT ![c] = "freed"]
  /\ UNCHANGED <<state_, sending, ending, destroys, reclosed, loopVars>>

(***************************************************************************)
(* The loop: poll(), handleEvent() per active channel, functors.           *)
(***************************************************************************)

\* fillActiveChannels(): data.ptr and the events of some ready fds.  The
\* kernel reports what was asked for, and hangups and errors unasked.
Poll(ready, rev) ==
  /\ phase = "idle"
  /\ ready \subseteq {fd \in Fds : poller.ptr[fd] # NoChannel}
  /\ \A fd \in ready : rev[fd] # {} /\ rev[fd] \subseteq poller.mask[fd]
                                                      \cup {"hup", "err"}
  /\ activeChannels_' = {poller.ptr[fd] : fd \in ready}
  /\ revents' = [c \in Channels |-> IF c \in activeChannels_' THEN rev[FdOf[c]]
                                    ELSE {}]
  /\ phase' = "dispatch"
  /\ UNCHANGED <<poller, connVars, current, todo>>

\* tie_.lock() fails for a connection that has been destroyed since poll();
\* then not even the Channel exists, and nothing is said of what follows.
HandleEvent(c) ==
  /\ phase = "dispatch"
  /\ current = NoChannel
  /\ c \in activeChannels_
  /\ activeChannels_' = activeChannels_ \ {c}
  /\ current' = c
  /\ todo' = IF life[c] = "freed" THEN {} ELSE Callbacks(revents[c])
  /\ UNCHANGED <<poller, connVars, phase, revents>>

HandleEventReturns ==
  /\ current # NoChannel
  /\ todo = {}
  /\ current' = NoChannel
  /\ revents' = [revents EXCEPT ![current] = {}]
  /\ UNCHANGED <<poller, connVars, phase, activeChannels_, todo>>

DispatchDone ==
  /\ phase = "dispatch"
  /\ current = NoChannel
  /\ activeChannels_ = {}
  /\ phase' = "pending"
  /\ UNCHANGED <<poller, connVars, activeChannels_, revents, current, todo>>

FunctorsDone ==
  /\ phase = "pending"
  /\ phase' = "idle"
  /\ UNCHANGED <<poller, connVars, activeChannels_, revents, current, todo>>

\* handleEventWithGuard() calls the callback k.
Call(k) ==
  /\ current # NoChannel
  /\ k \in todo
  /\ todo \cap Before(k) = {}
  /\ todo' = todo \ {k}
  /\ UNCHANGED <<phase, activeChannels_, revents, current, sending, ending>>

Quiet == UNCHANGED <<life, state_, destroys, reclosed>>

\* TcpConnection::handleClose(), also of a connection that has been closed:
\* another connectDestroyed() is queued behind it.
HandleClose(c) ==
  /\ destroys[c] < MaxDestroys
  /\ poller' = DisableAll(poller, c)
  /\ state_' = [state_ EXCEPT ![c] = "kDisconnected"]
  /\ destroys' = [destroys EXCEPT ![c] = @ + 1]
  /\ IF life[c] = "up"
     THEN life' = [life EXCEPT ![c] = "down"] /\ reclosed' = reclosed
     ELSE life' = life /\ reclosed' = reclosed \cup {c}

\* An acceptor has no close callback.
CloseCallback ==
  /\ Call("close")
  /\ IF current \in Connections THEN HandleClose(current)
     ELSE poller' = poller /\ Quiet

\* handleError() reads SO_ERROR; an acceptor has no error callback.
ErrorCallback == Call("error") /\ poller' = poller /\ Quiet

\* A read that returns data, or an error, or an accept: what the user's
\* callback does then is SendInLoop, ShutdownStores or ConnectEstablished.
ReadCallback == Call("read") /\ poller' = poller /\ Quiet

\* A read that returns 0.
ReadEndOfFile ==
  /\ Call("read")
  /\ current \in Connections
  /\ HandleClose(current)

\* handleWrite(): interest in writing ends with the output buffer empty.
WriteCallback ==
  /\ Call("write")
  /\ \/ poller' = poller
     \/ /\ IsWriting(poller, current)
        /\ poller' = DisableWriting(poller, current)
  /\ Quiet

-----------------------------------------------------------------------------

CallbackStep == CloseCallback \/ ErrorCallback \/ ReadCallback
                \/ ReadEndOfFile \/ WriteCallback

LoopStep ==
  \/ /\ phase = "idle"        \* so that TLC enumerates the answers only here
     /\ \E ready \in SUBSET Fds :
          \E rev \in [ready -> SUBSET Revents] : Poll(ready, rev)
  \/ \E c \in Channels : HandleEvent(c)
  \/ CallbackStep
  \/ HandleEventReturns \/ DispatchDone \/ FunctorsDone

OwnerStep(c) ==
  \/ Construct(c) \/ ConnectEstablished(c) \/ Listen(c)
  \/ SendTests(c) \/ ShutdownTests(c) \/ ShutdownStores(c) \/ SendInLoop(c)
  \/ ConnectDestroyed(c) \/ Free(c) \/ DestroyAcceptor(c)

Next == LoopStep \/ \E c \in Channels : OwnerStep(c)

Spec == Init /\ [][Next]_vars

-----------------------------------------------------------------------------
(***************************************************************************)
(* Properties.                                                             *)
(***************************************************************************)

\* The two ways in which a closed connection comes back to the poller.  Its
\* state_ says kDisconnecting although it has been closed: shutdown() of
\* another thread has overwritten kDisconnected, or connectDestroyed() has left
\* it so; a string still queued then enables writing.  Or it has been closed
\* twice: disableAll() of a channel that is kDeleted adds it.
Overtaken(c) ==
  life[c] \in {"down", "removed", "freed"} /\ state_[c] = "kDisconnecting"

Irregular(c) == Overtaken(c) \/ c \in reclosed

\* No epoll_ctl() ever fails, although fds are reused: an ADD or MOD that
\* fails would end the server (LOG_FATAL in EPollPoller::update).
NoCtlError == poller.errors = {}

Existing == {c \in Channels : life[c] # "freed"}

\* index_, channels_ and the kernel's interest list agree (updateChannel and
\* removeChannel keep three records of one fact).
PollerAgrees == KernelAgrees(poller, Existing) /\ MapAgrees(poller, Existing)

\* Neither the kernel nor the map keeps a pointer to a channel that is gone,
\* and a channel is registered exactly from enableReading() to disableAll(),
\* unless it was overtaken by shutdown() or closed twice.
OnlyLiveRegistered ==
  \A c \in Channels :
    \/ Irregular(c)
    \/ /\ life[c] = "up" <=> poller.index[c] = "kAdded"
       /\ HasChannel(poller, c) => life[c] \in {"up", "down"}

\* The raw pointers of activeChannels_, and the channel inside handleEvent(),
\* are valid to the end of the round: a connection closed by one handler is
\* not destroyed before the others are done.  Only one that the poller should
\* not have known any more can be destroyed by a user in the middle of a round.
ActiveAlive ==
  \A c \in activeChannels_ \cup ({current} \ {NoChannel}) :
    life[c] \in {"up", "down"} \/ Irregular(c)

\* kDisconnected means that the channel asks for nothing: what sendInLoop()
\* relies on when it looks at state_ only, and shutdown() breaks.
DisconnectedIsQuiet ==
  \A c \in Channels : state_[c] = "kDisconnected" => poller.events[c] = {}

\* No message is delivered to a connection after its DOWN notification, also
\* when one event reports a hangup together with data; an event with HUP, PRI
\* and without IN is the exception, and a connection overtaken by shutdown().
NoReadAfterClose ==
  "read" \in todo /\ "in" \in revents[current] =>
    life[current] = "up" \/ Overtaken(current)

\* The event closes the connection in one branch and reads in another.
ClosesAndReads(rev) == {"close", "read"} \subseteq Callbacks(rev)

\* After handleClose() a connection is in no later round and is not closed (and
\* told DOWN) again, unless it was overtaken by shutdown(), or a second time
\* because the event that closed it had HUP and PRI and no IN.
ClosedIsSilent ==
  [][/\ \A c \in activeChannels_' \ activeChannels_ :
          life[c] = "up" \/ Irregular(c)
     /\ \A c \in reclosed' \ reclosed :
          Overtaken(c) \/ ClosesAndReads(revents[c])]_vars
=============================================================================
