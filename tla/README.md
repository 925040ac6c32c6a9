# A TLA+ development of my_muduo_core

`my_muduo_core` is a small multi-reactor TCP server library in C++ (after
muduo): one `EventLoop` per thread, an acceptor on the base loop, connections
spread over a pool of IO loops. This directory holds TLA+ models of its parts,
TLC configurations, and TLAPS proofs. `PROJECT.json` maps every definition to
the lines it stands for; paths below are relative to the repository.

## 1. Inventory

| Part | State | Operations | Interacts with |
|---|---|---|---|
| `EventLoop` | `quit_`, `pendingFunctors_` under `mutex_`, `callingPendingFunctors_`, eventfd, `activeChannels_` | `loop`, `quit`, `runInLoop`, `queueInLoop`, `wakeup`, `handleRead`, `doPendingFunctors` | any thread queues and quits; polls through `Poller`, dispatches to `Channel` |
| `Channel` | `events_`, `revents_`, `index_`, callbacks, `tie_` | enable/disable, `remove`, `handleEvent` | changes go to the poller; events go to `TcpConnection`, `Acceptor`, `EventLoop::handleRead` |
| `Poller`, `EPollPoller` | `channels_` by descriptor, the epoll instance | `poll`, `updateChannel`, `removeChannel`, `hasChannel` | kernel; raw `Channel*` in `data.ptr` |
| `EventLoopThread`, `Thread` | `loop_` under `mutex_`/`cond_`, `started_`, `joined_`, a start semaphore | `startLoop`, destructor, `threadFunc`, `start`, `join` | constructs an `EventLoop` on the child's stack and publishes a pointer to it |
| `EventLoopThreadPool` | `loops_`, `threads_`, `next_`, `numThreads_` | `setThreadNum`, `start`, `getNextLoop`, destructor | owned by `TcpServer` |
| `TcpServer` | `connections_`, `nextConnId_`, `started_` | `start`, `newConnection`, `removeConnection(InLoop)`, destructor | accepts on the base loop, sends work to IO loops and back |
| `TcpConnection` | `state_`, socket, channel, two buffers | `connectEstablished`, `handleRead/Write/Close/Error`, `send`, `shutdown`, `sendFile`, `connectDestroyed` | lives by `shared_ptr` in the map, in functors, in user code; called by any thread |
| `Buffer` | a vector and two indices | `append`, `retrieve`, `makeSpace`, `readFd`, `writeFd` | input and output of a connection |
| `Acceptor` | listening socket and channel | `listen`, `handleRead`, destructor | the kernel's accept queue and descriptor table; calls `newConnection` |
| `Logger`, `Timestamp` | the level in a singleton, `localtime()`'s static struct | the `LOG_` macros, `log`, `toString` | called by every thread |
| `InetAddress`, `Socket`, `CurrentThread`, `DefaultPoller` | values and thin wrappers | | |

The hard behaviours: a wakeup that must not be lost between a mutex, an atomic
flag and an eventfd; a loop that may be destroyed by the thread that reacts to
`quit()`; raw `Channel*` in the kernel, in a map keyed by reusable descriptors
and in the list of the current round; a connection whose owner is in one thread,
whose events are in another, and whose closing crosses both twice; a stream of
bytes that is put together from direct writes, a buffer and functors of several
threads while the peer may close or reset; and a teardown that queues work on
loops it is about to stop. The full list, each at its line and with the
properties aimed at it, is under `hazards` in `PROJECT.json`.

What makes each part correct:

* **EventLoop**: no lost wakeup; functors run once, in order, and do run while
  the loop does; `quit()` ends `loop()`; functors never starve the channels.
* **Channel, EPollPoller**: no failing `epoll_ctl`; the three records of a
  registration agree; no event for a channel that is gone or has been closed.
* **EventLoopThread**: the published pointer is never dangling; `startLoop()`
  and the destructor return; no thread survives its object, and the destructor
  uses no pointer that has been reset.
* **TcpServer, TcpConnection's life**: a connection outlives its registration;
  UP, then at most one DOWN; destroyed once, and in the end; even distribution.
* **TcpConnection's output**: whole messages, in the order of the calls, the FIN
  behind them; nothing accepted is forgotten while the connection lives; what a
  functor binds is there when it runs.
* **Buffer**: bytes come out as they went in, from a vector that stays small.
* **Acceptor**: every descriptor has one owner; nobody in the queue is
  forgotten.
* **Logger**: a line shows nothing that is older than its call.

## 2. Modules

| Module | Models | Checked by | Proved about in |
|---|---|---|---|
| `TaskQueue` | the promise of `queueInLoop`: a FIFO executor that can be stopped | | |
| `EventLoop` | `src/src/EventLoop.cpp` | `EventLoop_live` | `EventLoopProofs` |
| `EventLoopThread` | `EventLoopThread.cpp`, `Thread.cpp`, with an instance of `EventLoop` | `EventLoopThread_*` | `EventLoopThreadProofs` |
| `EPollPoller` | operators on the poller's and the kernel's records | through its users | `ChannelProofs` |
| `Channel`, `MCChannel` | the channels of a loop, driven by connections and an acceptor | `Channel_life` | `ChannelProofs` |
| `ConnectionLife` | what the user is promised about each connection | | |
| `TcpServer`, `MCTcpServer` | server, pool and connections over several loops | `TcpServer_*` | `TcpServerProofs` |
| `OutputStream` | what `send`, `sendFile` and `shutdown` promise | | |
| `ConnectionOutput`, `MCConnectionOutput` | the output path of a `TcpConnection`, with an instance of `EPollPoller` | `Output_*` | `ConnectionOutputProofs` |
| `ByteQueue` | what a `Buffer` promises | | |
| `Buffer`, `MCBuffer` | `Buffer.h`, `Buffer.cpp` | `Buffer_queue` | `BufferProofs` |
| `Acceptor` | `Acceptor.cpp`, `Socket::accept`, with an instance of `EPollPoller` | `Acceptor_limit` | `AcceptorProofs` |
| `Logger` | `Logger.h`, `Logger.cpp`, `Timestamp::toString` | `Logger_shared` | `LoggerProofs` |

### EventLoop

`pc` is the position of the IO thread in `loop()` and `doPendingFunctors()`.
Another thread's `queueInLoop()` (`QueueInLoop`, then `WakeUp`) and `quit()`
(`Quit`, then `WakeUp`) take two steps, because the IO thread can run between
the locked append or the store and the eventfd write. On the IO thread itself
they are one step, since nothing in between is visible to others. The eventfd is
its counter: a write is refused at the maximum, a read takes it to 0, and it is
readable (level-triggered) while it is not 0. `PollOther` is every other reason
for `epoll_wait` to return: a channel, the timeout, `EINTR`. `CallsBeforeLoop`
says whether the IO thread may use the loop before `loop()` (a
`ThreadInitCallback`, or `main()`).

`TaskQueue` is implemented under the mapping `queue <- functors \o
pendingFunctors_`, `running <- running`, `open <- pc # "stopped"`
(`RunsEveryFunctor` with its liveness, `RunsInOrder` without).

### EventLoopThread

The owner and the child are two program counters around an instance of
`EventLoop`, whose IO thread is the child and whose only other thread is the
owner. `OwnerWaits` restricts the owner to destroying a *started* object only
after the loop has been entered; without it the first finding appears.
`CallbacksQuit` is the set from which each behaviour takes, once, whether
callbacks of the loop call `quit()` (`quits`).

The destructor reads `loop_` twice without `mutex_` (`EventLoopThread.cpp:20`
and `:22`), so it is four steps: the test (`Destroy`), the second read
(`DestroyReads`), the store to `quit_` (`DestroyQuits`, then `OwnerWakesUp`) and
the join (`DestroyJoins`). If the child has reset `loop_` between the two reads
the owner is `"crashed"`: it has called `quit()` on a null pointer. If it does
so between the second read and the store, `quit_` is written into an `EventLoop`
that may have been destroyed; the model lets that write be without effect. The
child resets `loop_` (`Unpublish`) and unlocks `mutex_` (`Unlock`) in two steps,
because a destructor that finds no loop returns, and the `mutex_` goes with it.

### EPollPoller and Channel

`EPollPoller` is a record with `events_` and `index_` of each channel, the map
`channels_` and the kernel's interest list, and pure operators on it.
`epoll_ctl` works on descriptors while `updateChannel` decides by `index_`: an
operation that the kernel would refuse is recorded in `errors`. `EPOLLIN` and
`EPOLLPRI` are two events: `enableReading()` asks for both, a hangup closes
unless there is `EPOLLIN`, and either of them is read.

`Channel` drives the poller by what its owners do over the life of a channel:
`Construct`, `ConnectEstablished`, `Listen`, the callbacks of `handleEvent` one
at a time, `HandleClose`, `ConnectDestroyed`, `Free`, with descriptors that the
kernel reuses. `send()` and `shutdown()` of other threads, for the connections
in `Shared`, are a test of `state_` (`SendTests`, `ShutdownTests`) and, any time
later, the functor `SendInLoop` or the store `ShutdownStores`, whatever has
become of the connection in between. `SendInLoop` looks at `state_` only, as the
code does, so a connection whose `kDisconnected` has been overwritten by
`kDisconnecting` (`Overtaken`) is registered again; so is one that is closed a
second time (`reclosed`), because `disableAll()` of a channel that is `kDeleted`
ends in `EPOLL_CTL_ADD`. The properties of the run make these two exceptions and
show that there is no third. `MaxDestroys` bounds the `connectDestroyed()`
functors that repeated closing queues.

`tie()` needs no variable. `ActiveAlive` shows that the owner exists whenever
`handleEvent` is called for a channel that is neither `Overtaken` nor
`reclosed`, so that its `lock()` succeeds. For those two kinds the `Channel`
itself may be gone by then, `tie_` with it (section 4); the model then calls
nothing.

### TcpServer

Each loop is reduced to what `EventLoop` establishes about it: it handles
events, swaps its pending functors, runs them in order, tests `quit_`. A handler
or a functor is one step, because it only touches state of its own thread and
appends at most one functor to one other queue. `runInLoop` on the target's own
thread is the immediate call, which decides who does what when the server has no
IO threads. A `TcpConnection` exists while the map, a functor that has not been
thrown away, or a thread inside `shutdown()` holds it (`Alive`); the functors of
a round are thrown away together at its end, those left behind at
`~EventLoop()`. The destructor is taken apart: one step per connection, then
`quit()` (`QuitThread`) and `join()` (`JoinThread`) thread by thread, then the
acceptor. As in `main.cpp`, the server is destroyed by the thread of the base
loop after `loop()` has returned.

`start()` returns with the IO loops published and not yet entered
(`"starting"`); `EnterLoop` resets `quit_`, so a server that is destroyed at
once can meet finding 1 (`QuitForgotten`). `shutdown()` may be called for the
connections in `Users` by any thread, in any phase, in two steps
(`ShutdownTests`, with a reference held from then on in `ending`, and
`ShutdownStores`), one thread at a time for each connection. `send()` and a
second `handleClose()` of the same connection do not occur here: what they do to
the channel is in `Channel`, and to the output in `ConnectionOutput`.

`ConnectionLife` is implemented (`Lifecycle`): the connection callback hears UP
once and DOWN at most once, both during the connection's life, and no connection
vanishes untold before the destructor of the server begins. After that, two
kinds may: those that the user has begun to shut down (`shut`), for which
`connectDestroyed()` calls nothing (section 4), and those whose loop has ended
(`cut`), finding 3. Any other must have heard both.

### ConnectionOutput

One connection after `connectEstablished()`. The IO thread's callers are the
user's callbacks (`LoopSends`, `LoopSendsFile`, `LoopShutsDown`); another thread
first tests `state_` (`UserTests`) and does the rest later, `shutdown()` in two
further steps around its store. `sendInLoop`, `sendFileInLoop`,
`shutdownInLoop`, `connectDestroyed` and the two callback functors run in
`RunFunctor`; `HandleWrite`, `HandleClose` and `BaseRemoves`
(`removeConnectionInLoop`) are steps of their own. A write takes any number of
bytes that fits in the kernel, none when it is full, and fails after a reset or
a FIN, with SIGPIPE when it is EPIPE. A byte is its message and its place in it.

`usage`, fixed for a behaviour, says who calls what: the library leaves the
order of concurrent calls to its user, and some usages are not safe (section 4).
`keeps` is a caller that keeps its string and its `TcpConnectionPtr` until the
functor has run; `awaits` one that waits for `writeCompleteCallback_` between
two calls; `fileLast` one whose last message, and no other, is a file.

`OutputStream` is implemented (`Ordered`): messages enter one stream whole, the
socket gets it from its beginning, and the FIN comes behind all of it. Under the
mapping the stream is what the socket was given, `outputBuffer_`, and the
remainders of files that wait in functors, one after the other; the messages of
queued `sendInLoop` functors have no place in it yet, and take one in the order
in which they were sent.

### Buffer

The vector is a function on its indices, with its old contents in the cells
outside the readable part. The operations are operators on the record; the
actions are those a connection performs: `Put` (`append`), `ReadFromSocket`
(`readFd`, into the writable part and then `extrabuf`), `Take`
(`retrieveAsString`, or `writeFd` with `retrieve`). `ByteQueue` is implemented
(`IsQueue`) with the readable part as its contents.

### Acceptor and Logger

`Acceptor` has the kernel's queue, a descriptor table of limited size that gives
the lowest free entry, peers that reset while they wait, and a program with
files of its own. `accept4()` fails when the table is full or the peer is gone.

`Logger` has a program counter per thread inside a macro: the store to
`logLevel_`, the switch on it, and the two halves of writing and of reading
`localtime()`'s struct. Each value remembers the call it comes from.

## 3. Runs

| Run | Instance | Shows |
|---|---|---|
| `EventLoop_live` | 2 threads, 2 functors, 1 channel, counter up to 2, 3 pending | safety of the wakeup protocol; under fairness, `TaskQueue` with its liveness, `quit()` ends the loop, the loop keeps polling |
| `EventLoopThread_quits` | callbacks queue (also before `loop()`), and quit or do not | pointer validity, order of functors, `startLoop()` and the destructor return |
| `EventLoopThread_hang` | owner does not wait for the loop | violation: finding 1 |
| `EventLoopThread_late` | | violation: finding 2 |
| `Channel_life` | 1 acceptor, 2 connections with the same descriptor, both used by other threads; 2 `connectDestroyed()` of one connection at a time | registration discipline with reuse, repeated closing and late `send()` and `shutdown()` |
| `TcpServer_pool` | 0, 1 or 2 IO loops, 3 connections, `shutdown()` of one of them by any thread | lifetime, order of notifications, balance; closed connections are destroyed; teardown ends |
| `TcpServer_exit` | the same with 2 connections | violation: finding 3 |
| `Output_order` | four usages, up to 3 messages of 2 bytes, a kernel buffer and a mark of 2 | order of the stream, FIN, draining, and the end of a closed connection |
| `Output_string` | a thread that sends one temporary string | violation: finding 4 |
| `Buffer_queue` | 2 bytes, reserve 2, capacity 3, `extrabuf` 2, pieces up to 4, 5 readable | queue of bytes, bounded capacity |
| `Acceptor_limit` | 3 peers, 3 descriptors | one owner per descriptor; retry after EMFILE |
| `Logger_shared` | 2 threads, 2 calls each, INFO and FATAL | nothing stale in a line |

Why the bounds suffice. Two threads and two functors give every overlap of two
callers with a swap, and two distinguishable functors decide any question of
order; a counter maximum of 2 reaches the refused write, which 2^64 - 2 would
not. A descriptor shared by two connections is the smallest reuse, and the
acceptor beside them gives rounds with two active channels; two connections in
one round on different descriptors are covered by the proofs, which hold for any
assignment. Two waiting `connectDestroyed()` are one more than a connection that
is closed once needs; a third adds no new kind of state. Two IO loops and three
connections give each loop a connection and one of them two, so that the index
wraps and a round has several functors; zero IO loops is the other path through
`runInLoop`. A `shutdown()` touches nothing but its own connection, so one
connection with it and two without show every combination of kinds. Two bytes
per message is the smallest partial write; a kernel buffer of one message makes
the second wait, and three messages put one in each of the socket,
`outputBuffer_` and the functors; a mark of 2 is crossed by the first message
that waits whole. The constants of `Buffer` keep the order of the real ones and
let a piece fit exactly, fit after moving, miss by the reserve, and spill. Three
peers and two descriptors besides the listening one reach the limit with a peer
left over. Two calls per thread let a line show an older call of the other
thread, if that were possible. The safety results are also proved without these
bounds.

The usages of `Output_order`: `Concurrent` (callbacks send and shut down,
another thread sends, at any time), `Crossing` (both only send, one message
more), `Sequential` (both call everything, `sendFile()` included, one call after
the other) and `FileBehind` (a callback sends a string and a file behind it, and
awaits neither).

Fairness. `EventLoop`: the IO thread and each caller that has stored its request
keep being scheduled, callbacks return, and `epoll_wait` returns when the
eventfd is readable. No fairness is given to `PollOther`, so that nothing
depends on the 10 s timeout or on other channels. `EventLoopThread`: both
threads are scheduled; `EventLoopThread_hang` adds the timeout (`TimedSpec`), so
that its counterexample is not the fault of a missing one. `TcpServer`: each
loop goes round, `main()` proceeds with the destructor, and a thread leaves the
`shutdown()` it is in; nothing forces a peer to close or anyone to quit.
`ClosedIsDestroyed` and `TornDown` except `QuitForgotten`, the state of finding
1, which no fairness avoids. `ConnectionOutput`: the loop goes round, and
`HandleWrite` and `HandleClose` are strongly fair, because every `poll()`
reports each ready channel and its handler runs before the next `poll()`; a
thread finishes the call it has begun (`FairSpec`). Nobody has to call or close,
and nothing is assumed of the peer: that it reads on (`PeerIsReading`) is the
premise of `Drains` and `FinSent`, which speak of such a peer, and
`ClosedIsFreed` does without it. `Acceptor`: a readable listening descriptor is
handled, and connections and files are closed in the end.

Deadlock is not checked except in `Buffer_queue`: loops return, threads end and
the process exits, and a model in which everything is gone has no next step.

## 4. Findings

1. **A `quit()` before `loop()` is lost** (`EventLoop.cpp:80`). `startLoop()`
   returns as soon as `loop_` is published; `loop()` then resets `quit_`. An
   `EventLoopThread` destroyed right after `startLoop()` joins for ever, though
   `EventLoopThread.h:21` promises quit and join.
2. **`quit()` from another thread uses the loop after releasing it**
   (`EventLoop.cpp:103`). After the store the IO thread may return from `loop()`
   and destroy the object before `wakeup()` reads `wakeupFd_`.
3. **`~TcpServer()` does not reach every connection** (`TcpServer.cpp:49`). The
   queued `connectDestroyed()` is dropped by an IO loop that sees `quit_` before
   its next round: a user told UP hears no DOWN.
4. **`send()` from another thread binds what it does not own**
   (`TcpConnection.cpp:76`). The functor holds `buf.c_str()` and a raw `this`; a
   temporary string, or a connection that nobody else holds, is gone when
   `sendInLoop()` runs. The run shows the string.

Disagreements of the same kind, for which no run is kept: the models show them
under other constants, or as exceptions that a property names.

*Closing and registration*

* **`connectDestroyed()` is silent in `kDisconnecting`.** `TcpConnection.h:74`
  says "连接销毁收尾：disableAll、connection 回调、从 Poller remove Channel" (end of a
  connection: disableAll, connection callback, removal from the poller), but
  `TcpConnection.cpp:173` does the first two in `kConnected` only. A connection
  that its user has shut down and whose peer has not closed yet when the server
  is destroyed gets no DOWN, and its `events_` keep what they were. This is the
  exception `shut` of `ConnectionLife`; without it `Lifecycle` fails in
  `TcpServer_pool`.
* `shutdown()` from another thread can overwrite `kDisconnected` with
  `kDisconnecting` (`TcpConnection.cpp:142`). The early return of `sendInLoop()`
  (`:87`) is then lost: a string that was sent before, and whose functor still
  waits, enables writing on the closed channel. It is reported again (a hangup
  closes it, and tells DOWN, a second time), and when `connectDestroyed()` and
  the last reference go meanwhile, the poller's round holds a `Channel*` that
  dangles. `Overtaken` is this exception in the properties of `Channel`; in
  `ConnectionOutput` it is excluded by the usage, and `ClosedIsDown` fails with
  one whose thread both sends and shuts down and does not await.
* An event with `EPOLLHUP` and `EPOLLPRI` but without `EPOLLIN` closes
  (`Channel.cpp:88`) and then reads (`:102`): `handleRead()` runs after the
  DOWN, and an end of file there closes, and tells DOWN, twice. The second
  `disableAll()` finds `kDeleted` and registers the channel again, for nothing
  (`reclosed`, `ClosesAndReads`).

*Threads and their loops*

* Callbacks that call `quit()` race with `~EventLoopThread()`, which reads
  `loop_` without `mutex_`: it can call `quit()` through a null pointer
  (`EventLoopThread.cpp:20-22`), store `quit_` in a loop that is gone, or find
  no loop, return, and destroy the `mutex_` that the child has still to unlock.
  These are the states with `quits` that `Joined` and `DestructorReturns`
  except.
* `~TcpServer()` soon after `start()` can join for ever, for the reason of
  finding 1 (`QuitForgotten`; `TornDown` without that disjunct fails).
* A loop that quits by itself before the owner has seen `loop_`
  (`EventLoopThread.cpp:61`) leaves `startLoop()` waiting; `StartLoopReturns`
  makes that exception and no other.
* With `CallsBeforeLoop = TRUE`, `NoLostWakeup` of `EventLoop` fails: a functor
  queued on the IO thread before `loop()` is not announced
  (`EventLoop.cpp:143`), and the first poll can block with it for 10 s.

*Output*

* `sendFile()` and then `shutdown()`, without waiting for the completion: the
  state `kDisconnecting` makes `sendFileInLoop()` drop the rest of the file
  (`TcpConnection.cpp:308`), and the FIN follows an incomplete message
  (`GracefulFin` with a usage that does not await).
* `sendFile()` and then `send()`, likewise: the string overtakes the rest of the
  file (`TcpConnection.cpp:315`; `Ordered`).
* **A closed connection can keep itself alive for ever.** `sendFileInLoop()`
  that finds bytes in `outputBuffer_` queues itself again
  (`TcpConnection.cpp:340`). After `handleClose()` nobody writes that buffer any
  more, so with a string and a file behind it that are not awaited
  (`FileBehind`), and a connection that closes or is reset while bytes of the
  string are left, it does so in every round, whether or not the peer reads: the
  functor keeps the connection and its descriptor, and the loop never blocks in
  `poll()`. With a file alone this needs a peer that does not read.
  `ClosedIsFreed` names this as its one exception besides a thread that keeps
  its pointer; without it the run fails.
* With a thread that both sends and shuts down and does not await, `GracefulFin`
  fails: it sends two strings and shuts down; when `handleWrite()` finishes the
  first it sends the FIN (`TcpConnection.cpp:231`), and the second is still in
  its functor.
* With `IgnoresSigPipe = FALSE` the process can be killed by a write to a
  connection that the peer has reset; nothing under `src/` ignores SIGPIPE.

*Log*

* A line of the log can show the prefix or the time of an overlapping call
  (`Logger.cpp:22`, `Timestamp.cpp:28`), though `Logger.h:13` says of
  `setLogLevel` "记下「本条日志用 INFO 前缀」" (notes that this line has the INFO prefix).
  `NothingStale` is what remains true.

## 5. Proofs

All safety properties of the passing runs are proved for every value of the
constants, those of the output path for the usages to which they are promised
(with one exception, under "only model-checked").

`EventLoopProofs`. The types are inductive by themselves (`TypeCorrect`), as is
the relation between `pc`, the flag and the local vector (`PhaseCorrect`).
`NoLostWakeup` is not inductive: it speaks of `pc = "poll"` only, while the
announcement must already be there when the loop gets to `while`, and must
survive `handleRead`, which clears the counter *before* the swap. `Announced`
says so: outside the stretch from `dispatch` to the swap, a waiting functor has
a wakeup in the counter or in a caller's hands. It needs `PhaseInv` (a callback
that queues does so either in that stretch or with the flag set) and the
assumption `~CallsBeforeLoop`, without which the first of the disagreements
above is the counterexample. The whole, `ReactorInv`, is `ReactorCorrect`.
`OrderCorrect` is the step simulation of `TaskQueue`.

`ChannelProofs` first proves that each poller operation keeps a record
`Consistent`, under the precondition that makes `epoll_ctl` succeed (`Alone`: no
other channel has the descriptor registered). It then proves, for any channels,
acceptors and any assignment of descriptors, an inductive invariant of four
parts beside the types: the record is consistent; the life of a channel decides
its `state_` and, unless it is `Overtaken` or `reclosed`, its `index_`
(`Tracked`); one owner at a time holds a descriptor (`FdOwned`); and what the
round has still to do is right for the channel it is to be done for
(`RoundInv`). What carries the exceptions is that `kDisconnected` asks for
nothing (`DisconnectedAsksNothing`), which no `sendInLoop()` can change: it is
only the store of `shutdown()` that makes a closed connection ask again.
`EpollNeverFails` and `RecordsAgree` need no exception: even then no `epoll_ctl`
fails and the three records agree.

`EventLoopThreadProofs`. `ThreadInv` says when the pointer is set and the object
alive in terms of the child's place (`Published`), where the child can be for
each place of the owner (`Progress`), and who has stored `quit_` (`QuitBy`); of
the loop it uses only that it leaves `while` after a `quit()`. `Joined` needs
the last part: when callbacks do not quit, only the destructor can have ended
the loop, so `loop_` was still set when the destructor looked, both times.
`DestructorJoins` states both: nothing is left behind, and no null pointer is
called (`NullCall`).

The loop on the child's stack is an `EventLoop` with one other thread
(`LoopImplemented`): every action of the composition is a step of its IO thread,
a call that `EventLoop` lets a thread make, or leaves it alone. The theorems of
`EventLoopProofs` then hold of it, which gives `OrderKept` (`RunsInOrder`) and
the types.

`TcpServerProofs`. `RegisteredAlive` is about references, so its invariant has
to know where a connection's next reference will come from. `ServerInv` is:
types; no functors of a round outside of it, the base loop runs only while the
server is up, and the loops of the pool are told to quit and stop only in its
destructor (`PhaseInv`); names not given yet belong to nobody (`NameInv`); no
functor is queued twice and `connectEstablished` precedes what else is queued
for its connection (`QueueInv`); what a queued functor tells of its connection's
channel and of the map (`FunctorInv`); and that a connection not yet removed is
in the map, or in the functor that will remove it, or its loop is gone, and one
that is not established yet is in the functor that will do it (`ConnInv`). The
other parts hold each other up: when `removeConnectionInLoop` runs, its
connection is still in the map, and one that is in the map has no
`connectDestroyed` queued. The lemmas first say how a step changes what a loop
has still to run (append at the end, drop the head, nothing), then how such a
change and a change of one connection keep each part.

`LifecycleCorrect` is the step simulation of `ConnectionLife`. It adds to
`ServerInv` what the user has been told (`ToldInv`): the `index_` of the channel
says how far, a channel removed while the server is up has been told of in full,
and one removed later without a DOWN is being shut down. From the two follows
`Untold`: a connection that is gone has been told of in full, or the server is
being destroyed and it is one of the exceptions. Each handler or functor maps to
one `Tell`, to `Accept`, or to nothing; the store of `shutdown()`, the end of a
round and the end of a loop map to `LetGo` of the connections whose last
reference goes and of those whose loop ends; the destructor's direct
`connectDestroyed()` to `CloseOne`. That the connection told of is alive comes
from `RegisteredAlive` or from the functor that is running.

`RoundRobin` counts: the loops before `next_` have been given one connection
more than the others (`BalanceInv`). It is the only proof that needs the
conjunct of `ServerAssumption` that the threads of the pool have different
loops, which `threadFunc()` creates on its own stack.

`ConnectionOutputProofs`. One invariant (`IInv`) serves every usage. Its first
parts hold unconditionally: a round and the functors in it (`RoundInv`), the
number of calls under way (`CallsInv`), `EPOLLOUT` enabled exactly while
`outputBuffer_` is not empty (`PollerInv`), what `state_` says of the closing
and the FIN (`StateInv`), who can have queued what (`UsageInv`, `DataInv`), and
the order of the strings in the queue (`OrderInv`). The others say what a usage
adds: what keeps a closed channel out of the poller, namely that a functor of
`send()` finds `kDisconnected` (`ClosedInv`); that an awaited message is in one
functor or in `outputBuffer_` (`OneInv`) and that nothing accepted on an intact
connection is lost (`SentInv`, and `LoopSentInv` for callbacks that send
strings); and who has been promised what by a `shutdown()` (`PromisedInv`).
Since a handler or functor does many things at once, the lemmas about each first
say what it does to the queue (`QueueMoves`) and to the rest (`Frame`), and the
parts of the invariant are preserved by any step of that shape.

Three properties are promised only to some usages, and the theorems name them:
`ClosedIsDown` if messages are awaited or the other thread does not both send
and shut down (`ClosesCleanly`); `GracefulFin` if messages are awaited, or
callbacks do not shut down after files and the other thread, if it shuts down,
does nothing else (`ShutsDownCleanly`); `Ordered` if messages are awaited or
there are no files (`Streams`). Without its condition each is refuted by a trace
(section 4). The usages of `Output_order` satisfy all of them, except that
`FileBehind` is not one of `Streams`: that a file which is the last message of
all stays behind the strings is only model-checked. `StreamInOrder` is the step
simulation of `OutputStream`: a queued `sendInLoop` that runs is the first of
the waiting messages because of `OrderInv`, and takes its place at the end of
the stream because nothing else waits behind `outputBuffer_` unless a file is
queued, which is alone.

`BufferProofs`. The types (`Well`) are inductive: every operation keeps the
indices in order. Appending, whether it moves, grows or does neither, gives the
old readable bytes followed by the new ones; `readFd` does it in two parts that
are joined again; with these lemmas `ImplementsQueue` is a step simulation.
`CapacityCorrect` is inductive together with the types.

`AcceptorProofs`. `NoDescriptorLeak` needs that a peer is in the queue once and
not elsewhere (`Queued`), and that nobody but the destructor closes `listenfd`
(`ListenOpen`).

`LoggerProofs`. What a line shows is fresh because what is in the shared state
already is (`Fresh`): once a call has written there itself, whoever overwrites
it overlaps it. That this is known to both needs `Mutual`.

Assumptions are only those named in the modules (`ConstantsAssumption`,
`ThreadAssumption`, `PollerAssumption`, `ChannelAssumption`,
`AcceptorAssumption`, `ServerAssumption`, `OutputAssumption`,
`BufferAssumption`, `LoggerAssumption`), `~CallsBeforeLoop` where stated, and
the conditions on `usage` named above.

Only model-checked:

* all liveness properties (`StartLoopReturns`, `Drains`, `ClosedIsFreed` and the
  like), and with them `TaskQueue`'s liveness: temporal reasoning about fairness
  is out of reach of the provers used here;
* `Ordered` for the usage `FileBehind`;
* the violations, that the exceptions of section 4 do happen, and that the
  conditions on `usage` are needed: a proof shows that something always holds, a
  trace that it does not.

## 6. Not modelled, and why

* `InetAddress`, `CurrentThread`, `DefaultPoller`, the socket options, `bind()`,
  `Callbacks.h`, `noncopyable.h`, the build files: values and wrappers without a
  protocol.
* The wording of log lines, and the mixing of the insertions into `cout` that
  make up one line; a `LOG_FATAL` appears as the error that causes it.
  `handleError()` only logs.
* A `sendFile()` whose count reaches beyond the end of the file, or of a
  descriptor that the user closes early.
* The overflow of `nextConnId_`: the models bound the number of connections.
* The growth of `events_` in `EPollPoller`, which only changes how many events a
  round reports.
* A `TcpServer` that is destroyed while its base loop still runs, or started
  from another thread; user code that keeps a `TcpConnectionPtr` beyond the
  server, other than in a call of `shutdown()`.
* What a second `handleClose()`, or an event for a channel that no longer
  exists, does beyond its own loop: `Channel` shows that these happen, and
  `TcpServer` and `ConnectionOutput` go on from connections that are closed
  once. Functors that queue themselves again (`sendFileInLoop`) are in
  `ConnectionOutput` only.

## 7. What could follow

1. Usages of a connection that await only some of their calls, such as a
   `shutdown()` that waits for the last message and nothing before it.
2. A server destroyed or started by another thread.
