----------------------------- MODULE EPollPoller -----------------------------
(***************************************************************************)
(* The poller of one EventLoop and the kernel's epoll instance behind it   *)
(* (src/src/EPollPoller.cpp, Poller.cpp, and the enable, disable and       *)
(* remove operations of Channel): operators on a record that holds         *)
(*   events, index   the members events_ and index_ of every Channel       *)
(*   channels_       the poller's map from fds to channels                 *)
(*   ptr, mask       what the kernel has: data.ptr and the events per fd   *)
(*   errors          the epoll_ctl operations that have failed             *)
(* epoll_ctl works on the fd, the poller on index_: nothing but the        *)
(* callers' discipline keeps the two in step.                              *)
(***************************************************************************)
EXTENDS Naturals

CONSTANTS Channels,    \* Channel objects
          NoChannel,
          Fds,         \* fd numbers; the kernel reuses them
          FdOf         \* the fd of a channel, fixed for its lifetime

ASSUME PollerAssumption == /\ NoChannel \notin Channels
                           /\ FdOf \in [Channels -> Fds]

Events == {"in", "pri", "out"}
Index == {"kNew", "kAdded", "kDeleted"}

Pollers == [events    : [Channels -> SUBSET Events],
            index     : [Channels -> Index],
            channels_ : [Fds -> Channels \cup {NoChannel}],
            ptr       : [Fds -> Channels \cup {NoChannel}],
            mask      : [Fds -> SUBSET Events],
            errors    : SUBSET {"add", "mod", "del"}]

EmptyPoller == [events    |-> [c \in Channels |-> {}],
                index     |-> [c \in Channels |-> "kNew"],
                channels_ |-> [fd \in Fds |-> NoChannel],
                ptr       |-> [fd \in Fds |-> NoChannel],
                mask      |-> [fd \in Fds |-> {}],
                errors    |-> {}]

-----------------------------------------------------------------------------
(***************************************************************************)
(* update(): epoll_ctl() by operation.  A failing ADD or MOD ends the      *)
(* process (LOG_FATAL), a failing DEL is logged.                           *)
(***************************************************************************)

Register(p, c) == [p EXCEPT !.ptr[FdOf[c]] = c,
                            !.mask[FdOf[c]] = p.events[c]]

Unregister(p, fd) == [p EXCEPT !.ptr[fd] = NoChannel, !.mask[fd] = {}]

\* EEXIST when the fd is registered.
CtlAdd(p, c) == IF p.ptr[FdOf[c]] = NoChannel THEN Register(p, c)
                ELSE [p EXCEPT !.errors = @ \cup {"add"}]

\* ENOENT when it is not.
CtlMod(p, c) == IF p.ptr[FdOf[c]] # NoChannel THEN Register(p, c)
                ELSE [p EXCEPT !.errors = @ \cup {"mod"}]

CtlDel(p, c) == IF p.ptr[FdOf[c]] # NoChannel THEN Unregister(p, FdOf[c])
                ELSE [p EXCEPT !.errors = @ \cup {"del"}]

\* close(fd): the kernel drops the registration with the file.
CloseFd(p, c) == Unregister(p, FdOf[c])

-----------------------------------------------------------------------------
(***************************************************************************)
(* Plausible mistakes, each the mutated body of a definition below.        *)
(***************************************************************************)

\* index_ keeps kAdded when the events are cleared.
UpdateKeepsIndex(p, c) ==
  CASE p.index[c] = "kNew" ->
         CtlAdd([p EXCEPT !.channels_[FdOf[c]] = c, !.index[c] = "kAdded"], c)
    [] p.index[c] = "kDeleted" -> CtlAdd([p EXCEPT !.index[c] = "kAdded"], c)
    [] p.index[c] = "kAdded" /\ p.events[c] = {} -> CtlDel(p, c)
    [] p.index[c] = "kAdded" /\ p.events[c] # {} -> CtlMod(p, c)

\* Interest in nothing is registered instead of being deleted.
UpdateWithoutDel(p, c) ==
  CASE p.index[c] = "kNew" ->
         CtlAdd([p EXCEPT !.channels_[FdOf[c]] = c, !.index[c] = "kAdded"], c)
    [] p.index[c] = "kDeleted" -> CtlAdd([p EXCEPT !.index[c] = "kAdded"], c)
    [] p.index[c] = "kAdded" -> CtlMod(p, c)

\* removeChannel() forgets the DEL.
RemoveFromMapOnly(p, c) == [p EXCEPT !.channels_[FdOf[c]] = NoChannel,
                                     !.index[c] = "kNew"]

\* removeChannel() leaves the channel in the map.
RemoveFromEpollOnly(p, c) ==
  [(IF p.index[c] = "kAdded" THEN CtlDel(p, c) ELSE p)
     EXCEPT !.index[c] = "kNew"]

-----------------------------------------------------------------------------
(***************************************************************************)
(* updateChannel(), removeChannel(), hasChannel().                         *)
(***************************************************************************)

\* A channel that was deleted is still in the map; a channel that was never
\* added, or was removed, enters it.  Either is added with whatever its
\* events are, none included.
UpdateChannel(p, c) ==
  CASE p.index[c] = "kNew" ->
         CtlAdd([p EXCEPT !.channels_[FdOf[c]] = c, !.index[c] = "kAdded"], c)
    [] p.index[c] = "kDeleted" -> CtlAdd([p EXCEPT !.index[c] = "kAdded"], c)
    [] p.index[c] = "kAdded" /\ p.events[c] = {} ->
         [CtlDel(p, c) EXCEPT !.index[c] = "kDeleted"]
    [] p.index[c] = "kAdded" /\ p.events[c] # {} -> CtlMod(p, c)

RemoveChannel(p, c) ==
  LET erased == [p EXCEPT !.channels_[FdOf[c]] = NoChannel]
  IN  [(IF p.index[c] = "kAdded" THEN CtlDel(erased, c) ELSE erased)
         EXCEPT !.index[c] = "kNew"]

HasChannel(p, c) == p.channels_[FdOf[c]] = c

(***************************************************************************)
(* Channel: change events_, then update().                                 *)
(***************************************************************************)

SetEvents(p, c, ev) == UpdateChannel([p EXCEPT !.events[c] = ev], c)

\* Asks for an event that handleEventWithGuard() does not know.
EnableReadingAndHangup(p, c) ==
  SetEvents(p, c, p.events[c] \cup {"in", "pri", "rdhup"})

\* kReadEvent is EPOLLIN | EPOLLPRI.
EnableReading(p, c)  == SetEvents(p, c, p.events[c] \cup {"in", "pri"})
EnableWriting(p, c)  == SetEvents(p, c, p.events[c] \cup {"out"})
DisableWriting(p, c) == SetEvents(p, c, p.events[c] \ {"out"})
DisableAll(p, c)     == SetEvents(p, c, {})

IsWriting(p, c) == "out" \in p.events[c]

-----------------------------------------------------------------------------
(***************************************************************************)
(* What the poller's three views of a channel have to do with each other,  *)
(* for the channels C that exist.                                          *)
(***************************************************************************)

\* index_ says what the kernel has: registered with this very object and with
\* the events it asks for if and only if kAdded.
KernelAgrees(p, C) ==
  /\ \A c \in C : p.index[c] = "kAdded" <=> p.ptr[FdOf[c]] = c
  /\ \A fd \in Fds : p.ptr[fd] # NoChannel =>
       /\ p.ptr[fd] \in C
       /\ FdOf[p.ptr[fd]] = fd
       /\ p.mask[fd] = p.events[p.ptr[fd]]

\* index_ says what the map has: this very object unless kNew.
MapAgrees(p, C) ==
  /\ \A c \in C : p.index[c] # "kNew" => HasChannel(p, c)
  /\ \A fd \in Fds : p.channels_[fd] # NoChannel =>
       /\ FdOf[p.channels_[fd]] = fd
       /\ p.index[p.channels_[fd]] # "kNew"
=============================================================================
