------------------------------ MODULE EventLoop ------------------------------
(***************************************************************************)
(* One EventLoop, its IO thread, and the other threads that call           *)
(* queueInLoop, runInLoop and quit on it (src/src/EventLoop.cpp).          *)
(*                                                                         *)
(* The IO thread is a program counter over loop() and doPendingFunctors(). *)
(* A call made by another thread takes two steps, because the IO thread    *)
(* can run between the locked append (or the store to quit_) and the       *)
(* eventfd write.  The same calls made on the IO thread itself, from       *)
(* inside a callback, are one step: nothing they touch in between is read  *)
(* by any other thread.                                                    *)
(*                                                                         *)
(* runInLoop(cb) on another thread is queueInLoop(cb); on the IO thread it *)
(* calls cb() at once, so that whatever cb does is done by the callback    *)
(* that is already running (LoopQueueInLoop, LoopQuit).                    *)
(***************************************************************************)
EXTENDS Naturals, Sequences

CONSTANTS
  Threads,          \* the threads other than the IO thread
  Functors,         \* the callbacks passed to queueInLoop
  NoFunctor,        \* "no functor is running"
  Channels,         \* the channels of this loop other than wakeupChannel_
  WakeupChannel,    \* wakeupChannel_
  MaxCounter,       \* the largest value of the eventfd counter (2^64 - 2)
  MaxPending,       \* bound of the model: no more functors than this wait
  CallsBeforeLoop   \* whether the IO thread uses the loop before loop():
                    \* a ThreadInitCallback, or main() before loop.loop()

ASSUME ConstantsAssumption ==
  /\ NoFunctor \notin Functors
  /\ WakeupChannel \notin Channels
  /\ MaxCounter \in Nat \ {0}
  /\ MaxPending \in Nat
  /\ CallsBeforeLoop \in BOOLEAN

VARIABLES
  pc,                        \* where the IO thread is in loop()
  quit_,
  callingPendingFunctors_,
  pendingFunctors_,          \* guarded by mutex_
  functors,                  \* the local vector of doPendingFunctors(): what is left of it
  running,                   \* the functor being called, or NoFunctor
  activeChannels_,           \* what is left of it in the current round
  wakeupFd_,                 \* the eventfd's counter, kept by the kernel
  caller                     \* per thread: inside queueInLoop()/quit(), before wakeup()?

vars == <<pc, quit_, callingPendingFunctors_, pendingFunctors_, functors,
          running, activeChannels_, wakeupFd_, caller>>

(***************************************************************************)
(* "created"   constructed, loop() not entered                             *)
(* "while"     evaluating while (!quit_)                                   *)
(* "poll"      inside poller_->poll(), blocked unless an event is ready    *)
(* "dispatch"  iterating over activeChannels_                              *)
(* "handler"   inside the handleEvent() of a channel                       *)
(* "pending"   about to call doPendingFunctors()                           *)
(* "functors"  iterating over functors                                     *)
(* "functor"   inside functor()                                            *)
(* "stopped"   loop() has returned                                         *)
(***************************************************************************)
LoopPc == {"created", "while", "poll", "dispatch", "handler", "pending",
           "functors", "functor", "stopped"}

TypeOK ==
  /\ pc \in LoopPc
  /\ quit_ \in BOOLEAN
  /\ callingPendingFunctors_ \in BOOLEAN
  /\ pendingFunctors_ \in Seq(Functors)
  /\ functors \in Seq(Functors)
  /\ running \in Functors \cup {NoFunctor}
  /\ activeChannels_ \in SUBSET (Channels \cup {WakeupChannel})
  /\ wakeupFd_ \in 0..MaxCounter
  /\ caller \in [Threads -> {"idle", "wakeup"}]

-----------------------------------------------------------------------------

Init ==
  /\ pc = "created"
  /\ quit_ = FALSE
  /\ callingPendingFunctors_ = FALSE
  /\ pendingFunctors_ = <<>>
  /\ functors = <<>>
  /\ running = NoFunctor
  /\ activeChannels_ = {}
  /\ wakeupFd_ = 0
  /\ caller = [t \in Threads |-> "idle"]

\* The IO thread is in user code that may call the loop: a handler, a functor
\* or, when CallsBeforeLoop, code between the constructor and loop().
InCallback == \/ pc \in {"handler", "functor"}
              \/ pc = "created" /\ CallsBeforeLoop

(***************************************************************************)
(* Plausible mistakes, each the mutated body of a definition below.        *)
(***************************************************************************)

\* doPendingFunctors() without the swap: the vector is drained in place, so a
\* functor that queues another keeps the loop from polling.
DrainInPlace ==
  /\ pc = "functors"
  /\ functors \o pendingFunctors_ # <<>>
  /\ pc' = "functor"
  /\ running' = Head(functors \o pendingFunctors_)
  /\ functors' = Tail(functors \o pendingFunctors_)
  /\ pendingFunctors_' = <<>>
  /\ UNCHANGED <<quit_, callingPendingFunctors_, activeChannels_, wakeupFd_,
                 caller>>

\* The functors are popped from the back of the vector.
CallNewestFunctor ==
  /\ pc = "functors"
  /\ functors # <<>>
  /\ pc' = "functor"
  /\ running' = functors[Len(functors)]
  /\ functors' = SubSeq(functors, 1, Len(functors) - 1)
  /\ UNCHANGED <<quit_, callingPendingFunctors_, pendingFunctors_,
                 activeChannels_, wakeupFd_, caller>>

\* callingPendingFunctors_ is reset before the functors are called.
ResetFlagEarly ==
  /\ pc = "pending"
  /\ pc' = "functors"
  /\ callingPendingFunctors_' = FALSE
  /\ functors' = pendingFunctors_
  /\ pendingFunctors_' = <<>>
  /\ UNCHANGED <<quit_, running, activeChannels_, wakeupFd_, caller>>

\* quit() of another thread only stores quit_.
QuitWithoutWakeup(t) ==
  /\ caller[t] = "idle"
  /\ quit_' = TRUE
  /\ UNCHANGED <<pc, callingPendingFunctors_, pendingFunctors_, functors,
                 running, activeChannels_, wakeupFd_, caller>>

\* The eventfd counter wraps around instead of saturating.
WrappingWrite(counter) == IF counter = MaxCounter THEN 0 ELSE counter + 1

\* The write is assumed never to be refused.
UnboundedWrite(counter) == counter + 1

\* handleRead() is called for the eventfd after doPendingFunctors() took the
\* vector: what was queued in between is no longer announced.
ReadAfterFunctors ==
  /\ pc = "functors"
  /\ functors = <<>>
  /\ pc' = "while"
  /\ callingPendingFunctors_' = FALSE
  /\ wakeupFd_' = 0
  /\ UNCHANGED <<quit_, pendingFunctors_, functors, running, activeChannels_,
                 caller>>

-----------------------------------------------------------------------------

\* write(wakeupFd_, 1): the kernel refuses it (EAGAIN, logged) at the maximum.
WakeupWrite(counter) == IF counter = MaxCounter THEN counter ELSE counter + 1

(***************************************************************************)
(* The IO thread.                                                          *)
(***************************************************************************)

EnterLoop ==
  /\ pc = "created"
  /\ pc' = "while"
  /\ quit_' = FALSE
  /\ UNCHANGED <<callingPendingFunctors_, pendingFunctors_, functors, running,
                 activeChannels_, wakeupFd_, caller>>

EnterPoll ==
  /\ pc = "while"
  /\ ~quit_
  /\ pc' = "poll"
  /\ activeChannels_' = {}
  /\ UNCHANGED <<quit_, callingPendingFunctors_, pendingFunctors_, functors,
                 running, wakeupFd_, caller>>

LeaveLoop ==
  /\ pc = "while"
  /\ quit_
  /\ pc' = "stopped"
  /\ UNCHANGED <<quit_, callingPendingFunctors_, pendingFunctors_, functors,
                 running, activeChannels_, wakeupFd_, caller>>

\* poll() returns with the set `ready` of the other channels, and with
\* wakeupChannel_ when its counter is not zero (level-triggered EPOLLIN).
PollReturn(ready) ==
  /\ pc = "poll"
  /\ pc' = "dispatch"
  /\ activeChannels_' =
       ready \cup (IF wakeupFd_ > 0 THEN {WakeupChannel} ELSE {})
  /\ UNCHANGED <<quit_, callingPendingFunctors_, pendingFunctors_, functors,
                 running, wakeupFd_, caller>>

\* The eventfd is readable: epoll_wait() does not block.
PollWakeup == wakeupFd_ > 0 /\ \E ready \in SUBSET Channels : PollReturn(ready)

\* Other channels are ready; or, with none, kPollTimeMs elapsed or EINTR.
PollOther == wakeupFd_ = 0 /\ \E ready \in SUBSET Channels : PollReturn(ready)

\* handleEvent() of wakeupChannel_ is EventLoop::handleRead().
HandleRead ==
  /\ pc = "dispatch"
  /\ WakeupChannel \in activeChannels_
  /\ activeChannels_' = activeChannels_ \ {WakeupChannel}
  /\ wakeupFd_' = 0
  /\ UNCHANGED <<pc, quit_, callingPendingFunctors_, pendingFunctors_,
                 functors, running, caller>>

CallHandler(c) ==
  /\ pc = "dispatch"
  /\ c \in activeChannels_ \cap Channels
  /\ activeChannels_' = activeChannels_ \ {c}
  /\ pc' = "handler"
  /\ UNCHANGED <<quit_, callingPendingFunctors_, pendingFunctors_, functors,
                 running, wakeupFd_, caller>>

HandlerReturns ==
  /\ pc = "handler"
  /\ pc' = "dispatch"
  /\ UNCHANGED <<quit_, callingPendingFunctors_, pendingFunctors_, functors,
                 running, activeChannels_, wakeupFd_, caller>>

DispatchDone ==
  /\ pc = "dispatch"
  /\ activeChannels_ = {}
  /\ pc' = "pending"
  /\ UNCHANGED <<quit_, callingPendingFunctors_, pendingFunctors_, functors,
                 running, activeChannels_, wakeupFd_, caller>>

\* callingPendingFunctors_ = true; functors.swap(pendingFunctors_) under mutex_.
SwapPending ==
  /\ pc = "pending"
  /\ pc' = "functors"
  /\ callingPendingFunctors_' = TRUE
  /\ functors' = pendingFunctors_
  /\ pendingFunctors_' = <<>>
  /\ UNCHANGED <<quit_, running, activeChannels_, wakeupFd_, caller>>

CallFunctor ==
  /\ pc = "functors"
  /\ functors # <<>>
  /\ pc' = "functor"
  /\ running' = Head(functors)
  /\ functors' = Tail(functors)
  /\ UNCHANGED <<quit_, callingPendingFunctors_, pendingFunctors_,
                 activeChannels_, wakeupFd_, caller>>

FunctorReturns ==
  /\ pc = "functor"
  /\ pc' = "functors"
  /\ running' = NoFunctor
  /\ UNCHANGED <<quit_, callingPendingFunctors_, pendingFunctors_, functors,
                 activeChannels_, wakeupFd_, caller>>

FunctorsDone ==
  /\ pc = "functors"
  /\ functors = <<>>
  /\ pc' = "while"
  /\ callingPendingFunctors_' = FALSE
  /\ UNCHANGED <<quit_, pendingFunctors_, functors, running, activeChannels_,
                 wakeupFd_, caller>>

(***************************************************************************)
(* Calls made on the IO thread.                                            *)
(***************************************************************************)

LoopQueueInLoop(f) ==
  /\ InCallback
  /\ Len(pendingFunctors_) < MaxPending
  /\ pendingFunctors_' = Append(pendingFunctors_, f)
  /\ wakeupFd_' = IF callingPendingFunctors_ THEN WakeupWrite(wakeupFd_)
                  ELSE wakeupFd_
  /\ UNCHANGED <<pc, quit_, callingPendingFunctors_, functors, running,
                 activeChannels_, caller>>

LoopQuit ==
  /\ InCallback
  /\ quit_' = TRUE
  /\ UNCHANGED <<pc, callingPendingFunctors_, pendingFunctors_, functors,
                 running, activeChannels_, wakeupFd_, caller>>

(***************************************************************************)
(* Calls made by thread t.                                                 *)
(***************************************************************************)

\* queueInLoop(f) up to the release of mutex_; also runInLoop(f).
QueueInLoop(t, f) ==
  /\ caller[t] = "idle"
  /\ Len(pendingFunctors_) < MaxPending
  /\ pendingFunctors_' = Append(pendingFunctors_, f)
  /\ caller' = [caller EXCEPT ![t] = "wakeup"]
  /\ UNCHANGED <<pc, quit_, callingPendingFunctors_, functors, running,
                 activeChannels_, wakeupFd_>>

\* quit() up to the store.
Quit(t) ==
  /\ caller[t] = "idle"
  /\ quit_' = TRUE
  /\ caller' = [caller EXCEPT ![t] = "wakeup"]
  /\ UNCHANGED <<pc, callingPendingFunctors_, pendingFunctors_, functors,
                 running, activeChannels_, wakeupFd_>>

\* The end of both: !isInLoopThread(), so wakeup().
WakeUp(t) ==
  /\ caller[t] = "wakeup"
  /\ wakeupFd_' = WakeupWrite(wakeupFd_)
  /\ caller' = [caller EXCEPT ![t] = "idle"]
  /\ UNCHANGED <<pc, quit_, callingPendingFunctors_, pendingFunctors_,
                 functors, running, activeChannels_>>

-----------------------------------------------------------------------------

\* The steps the IO thread takes by itself, without an outside event.
LoopStep ==
  \/ EnterLoop \/ EnterPoll \/ LeaveLoop
  \/ PollWakeup \/ HandleRead
  \/ \E c \in Channels : CallHandler(c)
  \/ HandlerReturns \/ DispatchDone
  \/ SwapPending \/ CallFunctor \/ FunctorReturns \/ FunctorsDone

Next ==
  \/ LoopStep
  \/ PollOther
  \/ LoopQuit
  \/ \E f \in Functors : LoopQueueInLoop(f)
  \/ \E t \in Threads : \/ \E f \in Functors : QueueInLoop(t, f)
                        \/ Quit(t)
                        \/ WakeUp(t)

(***************************************************************************)
(* Threads are scheduled, callbacks return and epoll_wait() returns when   *)
(* the eventfd is readable.  Nothing is assumed of the other channels or   *)
(* of the poll timeout: a functor must not have to wait for either.        *)
(***************************************************************************)
Fairness == WF_vars(LoopStep) /\ \A t \in Threads : WF_vars(WakeUp(t))

Spec == Init /\ [][Next]_vars
FairSpec == Spec /\ Fairness

-----------------------------------------------------------------------------
(***************************************************************************)
(* Properties.                                                             *)
(***************************************************************************)

\* A wakeup is in the eventfd, or a thread is about to write it.
WakeupComing == wakeupFd_ > 0 \/ \E t \in Threads : caller[t] = "wakeup"

\* No lost wakeup: the loop never waits in poll() with a functor queued and
\* nothing on its way to wake it (the two cases of queueInLoop's comment).
\* Relates the vector, the kernel's counter and the callers' progress.
NoLostWakeup == pc = "poll" /\ pendingFunctors_ # <<>> => WakeupComing

\* The loop never waits in poll() after quit() without a wakeup coming: the
\* test of quit_ in while() and the wait in poll() are not one step.
QuitWakesPoll == pc = "poll" /\ quit_ => WakeupComing

\* callingPendingFunctors_ is exactly the time in doPendingFunctors(), a functor
\* runs only then, and its local vector is empty at any other time.
PhaseInv ==
  /\ callingPendingFunctors_ <=> pc \in {"functors", "functor"}
  /\ running # NoFunctor <=> pc = "functor"
  /\ functors # <<>> => pc \in {"functors", "functor"}

\* Outside the part of a round that ends in the swap, a waiting functor has
\* announced itself.
Announced ==
  /\ pc \in {"created", "while", "poll", "functors", "functor"}
  /\ pendingFunctors_ # <<>>
  => WakeupComing

\* The inductive invariant behind NoLostWakeup and QuitWakesPoll: what the
\* callers rely on when they look at callingPendingFunctors_ or not at all.
ReactorInv == PhaseInv /\ Announced /\ QuitWakesPoll

\* The abstract executor: the vector taken by doPendingFunctors() goes before
\* the one that fills up meanwhile; it is open until loop() has returned.
TQ == INSTANCE TaskQueue WITH queue   <- functors \o pendingFunctors_,
                              running <- running,
                              open    <- (pc # "stopped")

\* Functors run one at a time, each once and in the order in which the locked
\* appends of queueInLoop() happened, whichever thread made the call.
RunsInOrder == TQ!SafeSpec

\* Moreover every queued functor is run unless the loop stops, although the
\* poll timeout is not relied upon.
RunsEveryFunctor == TQ!Spec

\* quit() makes loop() return, whichever thread calls it and whatever the IO
\* thread is doing, once loop() has been entered.
QuitStops == (quit_ /\ pc # "created") ~> (pc = "stopped")

\* The functors never keep the loop from its channels: however often functors
\* queue functors, the loop polls again (the reason for the swap).
PollAgain == []<>(pc \in {"poll", "stopped"})
=============================================================================
