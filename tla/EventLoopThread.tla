--------------------------- MODULE EventLoopThread ---------------------------
(***************************************************************************)
(* An EventLoopThread: its owner (the thread that calls startLoop() and    *)
(* the destructor), the child thread that runs threadFunc(), and the       *)
(* EventLoop on the child's stack (src/src/EventLoopThread.cpp, with       *)
(* Thread::start() and join() of src/src/Thread.cpp).                      *)
(*                                                                         *)
(* The EventLoop is the module EventLoop: the child takes its IO-thread    *)
(* steps, the owner is one of its Threads.  The destructor reads loop_     *)
(* twice and without mutex_, so its test, its second read and the store to *)
(* quit_ are three steps, and the child's reset of loop_ and its unlock of *)
(* mutex_ are two.                                                         *)
(***************************************************************************)
EXTENDS Naturals, Sequences

CONSTANTS Owner, Functors, NoFunctor, Channels, WakeupChannel,
          MaxCounter, MaxPending,
          CallsBeforeLoop,   \* the ThreadInitCallback queues functors
          OwnerWaits,        \* the owner destroys a started EventLoopThread
                             \* only once its loop has been entered
          CallbacksQuit      \* whether callbacks of the loop call quit():
                             \* one of these, for the whole run

\* The constants of the loop are what EventLoop assumes of them.
ASSUME ThreadAssumption ==
  /\ NoFunctor \notin Functors
  /\ WakeupChannel \notin Channels
  /\ MaxCounter \in Nat \ {0}
  /\ MaxPending \in Nat
  /\ CallsBeforeLoop \in BOOLEAN
  /\ OwnerWaits \in BOOLEAN
  /\ CallbacksQuit \subseteq BOOLEAN

VARIABLES
  owner,   \* where the owner is
  child,   \* where the child is in threadFunc()
  loop_,   \* "null", or "set" when it points to the child's EventLoop
  alive,   \* the EventLoop on the child's stack exists
  quits,   \* callbacks of this loop may call quit()
  pc, quit_, callingPendingFunctors_, pendingFunctors_, functors, running,
  activeChannels_, wakeupFd_, caller

Threads == {Owner}

Loop == INSTANCE EventLoop

threadVars == <<owner, child, loop_, alive, quits>>
loopVars == <<pc, quit_, callingPendingFunctors_, pendingFunctors_, functors,
              running, activeChannels_, wakeupFd_, caller>>
vars == <<threadVars, loopVars>>

(***************************************************************************)
(* owner: "constructed"  the constructor has returned                      *)
(*        "starting"     in Thread::start(), waiting for the semaphore     *)
(*        "waiting"      in startLoop(), waiting for loop_ # nullptr       *)
(*        "using"        startLoop() has returned the pointer              *)
(*        "quitting"     the destructor has seen loop_ # nullptr           *)
(*        "calling"      it has read loop_ again, to call quit() on it     *)
(*        "crashed"      that second read gave nullptr                     *)
(*        "joining"      loop_->quit() has stored quit_                    *)
(*        "gone"         the destructor has returned                       *)
(* child: "none"         no thread                                         *)
(*        "spawned"      before sem_post()                                 *)
(*        "posted"       before the EventLoop is constructed               *)
(*        "init"         in the ThreadInitCallback                         *)
(*        "loop"         in loop.loop(), or about to call it               *)
(*        "unlocking"    loop_ reset, mutex_ still locked                  *)
(*        "leaving"      mutex_ unlocked, the EventLoop not yet destroyed  *)
(*        "done"         threadFunc() has returned                         *)
(***************************************************************************)
TypeOK ==
  /\ owner \in {"constructed", "starting", "waiting", "using", "quitting",
                "calling", "crashed", "joining", "gone"}
  /\ child \in {"none", "spawned", "posted", "init", "loop", "unlocking",
                "leaving", "done"}
  /\ loop_ \in {"null", "set"}
  /\ alive \in BOOLEAN
  /\ quits \in CallbacksQuit
  /\ Loop!TypeOK

Init ==
  /\ owner = "constructed"
  /\ child = "none"
  /\ loop_ = "null"
  /\ alive = FALSE
  /\ quits \in CallbacksQuit
  /\ Loop!Init

(***************************************************************************)
(* Plausible mistakes, each the mutated body of a definition below.        *)
(***************************************************************************)

\* threadFunc() returns without resetting loop_.
KeepPointer ==
  /\ child = "loop"
  /\ pc = "stopped"
  /\ child' = "unlocking"
  /\ UNCHANGED <<owner, loop_, alive, quits, loopVars>>

\* A notification without a predicate: lost unless the owner already waits.
NotifyOnly ==
  /\ child = "init"
  /\ child' = "loop"
  /\ loop_' = IF owner = "waiting" THEN "set" ELSE "null"
  /\ UNCHANGED <<owner, alive, quits, loopVars>>

\* The destructor detaches the thread instead of joining it.
Detach ==
  /\ owner = "joining"
  /\ caller[Owner] = "idle"
  /\ owner' = "gone"
  /\ UNCHANGED <<child, loop_, alive, quits, loopVars>>

\* quit() is taken for a plain store.
StoreQuitOnly ==
  /\ owner = "calling"
  /\ quit_' = TRUE
  /\ owner' = "joining"
  /\ UNCHANGED <<child, loop_, alive, quits, pc, callingPendingFunctors_,
                 pendingFunctors_, functors, running, activeChannels_,
                 wakeupFd_, caller>>

\* queueInLoop() puts a functor in front of those that wait.
JumpTheQueue(f) ==
  /\ owner = "using"
  /\ alive
  /\ caller[Owner] = "idle"
  /\ Len(pendingFunctors_) < MaxPending
  /\ pendingFunctors_' = <<f>> \o pendingFunctors_
  /\ caller' = [caller EXCEPT ![Owner] = "wakeup"]
  /\ UNCHANGED <<threadVars, pc, quit_, callingPendingFunctors_, functors,
                 running, activeChannels_, wakeupFd_>>

-----------------------------------------------------------------------------
(***************************************************************************)
(* The owner.                                                              *)
(***************************************************************************)

\* startLoop(): thread_.start() up to the semaphore.
StartLoop ==
  /\ owner = "constructed"
  /\ owner' = "starting"
  /\ child' = "spawned"
  /\ UNCHANGED <<loop_, alive, quits, loopVars>>

\* sem_wait() returns once the child has posted.
StartReturns ==
  /\ owner = "starting"
  /\ child # "spawned"
  /\ owner' = "waiting"
  /\ UNCHANGED <<child, loop_, alive, quits, loopVars>>

\* cond_.wait() returns, with mutex_ locked and the predicate true.
WaitReturns ==
  /\ owner = "waiting"
  /\ child # "unlocking"
  /\ loop_ = "set"
  /\ owner' = "using"
  /\ UNCHANGED <<child, loop_, alive, quits, loopVars>>

\* The owner uses the pointer as long as it is valid.
OwnerQueues(f) ==
  /\ owner = "using"
  /\ alive
  /\ Loop!QueueInLoop(Owner, f)
  /\ UNCHANGED threadVars

OwnerWakesUp == Loop!WakeUp(Owner) /\ UNCHANGED threadVars

\* ~EventLoopThread() up to its test of loop_.  Without a loop there is
\* neither quit() nor join(), and ~Thread() detaches a thread that was started.
Destroy ==
  /\ owner \in {"constructed", "using"}
  /\ caller[Owner] = "idle"
  /\ owner = "using" /\ OwnerWaits => pc # "created"
  /\ owner' = IF loop_ = "set" THEN "quitting" ELSE "gone"
  /\ UNCHANGED <<child, loop_, alive, quits, loopVars>>

\* The second read of loop_.  If it was reset since the test, quit() is called
\* through a null pointer: the owner gets no further.
DestroyReads ==
  /\ owner = "quitting"
  /\ owner' = IF loop_ = "set" THEN "calling" ELSE "crashed"
  /\ UNCHANGED <<child, loop_, alive, quits, loopVars>>

\* quit() up to the store, on the EventLoop that was read; WakeUp is its end.
\* By now that EventLoop may have been destroyed: then this writes to memory
\* that is no longer its own, which here has no effect on the rest.
DestroyQuits ==
  /\ owner = "calling"
  /\ Loop!Quit(Owner)
  /\ owner' = "joining"
  /\ UNCHANGED <<child, loop_, alive, quits>>

\* thread_.join() returns, and with it the destructor.
DestroyJoins ==
  /\ owner = "joining"
  /\ caller[Owner] = "idle"
  /\ child = "done"
  /\ owner' = "gone"
  /\ UNCHANGED <<child, loop_, alive, quits, loopVars>>

(***************************************************************************)
(* The child.                                                              *)
(***************************************************************************)

PostSemaphore ==
  /\ child = "spawned"
  /\ child' = "posted"
  /\ UNCHANGED <<owner, loop_, alive, quits, loopVars>>

ConstructLoop ==
  /\ child = "posted"
  /\ child' = "init"
  /\ alive' = TRUE
  /\ UNCHANGED <<owner, loop_, quits, loopVars>>

\* callback_ has returned; loop_ = &loop and notify_one() under mutex_.
Publish ==
  /\ child = "init"
  /\ child' = "loop"
  /\ loop_' = "set"
  /\ UNCHANGED <<owner, alive, quits, loopVars>>

\* The steps of loop(), and what its callbacks do to it.
LoopRuns == child = "loop" /\ Loop!LoopStep /\ UNCHANGED threadVars

LoopPolls == child = "loop" /\ Loop!PollOther /\ UNCHANGED threadVars

CallbackQueues(f) ==
  /\ IF pc = "created" THEN child = "init" ELSE child = "loop"
  /\ Loop!LoopQueueInLoop(f)
  /\ UNCHANGED threadVars

CallbackCallsQuit ==
  /\ quits
  /\ IF pc = "created" THEN child = "init" ELSE child = "loop"
  /\ Loop!LoopQuit
  /\ UNCHANGED threadVars

\* loop() has returned: mutex_ is locked and loop_ = nullptr.
Unpublish ==
  /\ child = "loop"
  /\ pc = "stopped"
  /\ child' = "unlocking"
  /\ loop_' = "null"
  /\ UNCHANGED <<owner, alive, quits, loopVars>>

\* The end of the block: mutex_ is unlocked.
Unlock ==
  /\ child = "unlocking"
  /\ child' = "leaving"
  /\ UNCHANGED <<owner, loop_, alive, quits, loopVars>>

\* threadFunc() returns: ~EventLoop(), which closes wakeupFd_.
ChildReturns ==
  /\ child = "leaving"
  /\ child' = "done"
  /\ alive' = FALSE
  /\ UNCHANGED <<owner, loop_, quits, loopVars>>

-----------------------------------------------------------------------------

\* What the owner does by itself once it has begun.
OwnerStep == StartReturns \/ WaitReturns \/ OwnerWakesUp \/ DestroyReads
             \/ DestroyQuits \/ DestroyJoins

ChildStep == PostSemaphore \/ ConstructLoop \/ Publish \/ LoopRuns
             \/ Unpublish \/ Unlock \/ ChildReturns

Next ==
  \/ StartLoop
  \/ Destroy
  \/ OwnerStep
  \/ ChildStep
  \/ LoopPolls
  \/ CallbackCallsQuit
  \/ \E f \in Functors : OwnerQueues(f) \/ CallbackQueues(f)

\* Both threads are scheduled; whether the owner starts the loop, and when it
\* destroys the object, is its own affair.
Fairness == WF_vars(OwnerStep) /\ WF_vars(ChildStep)

Spec == Init /\ [][Next]_vars
FairSpec == Spec /\ Fairness

\* Moreover poll() returns after kPollTimeMs.
TimedSpec == FairSpec /\ WF_vars(LoopPolls)

-----------------------------------------------------------------------------
(***************************************************************************)
(* Properties.                                                             *)
(***************************************************************************)

\* A published pointer points to a live EventLoop: loop_ is set after the
\* constructor and reset before the destructor, also when loop() ends early.
PublishedAlive == loop_ = "set" => alive

\* The destructor leaves no thread behind that would still use the members
\* of the object (the mutex, loop_, the thread function), unless the loop has
\* quit by itself and reset loop_: then its thread is about to unlock mutex_,
\* which no longer exists, or only to return.
Joined ==
  owner = "gone" =>
    child \in {"none", "done"} \/ (quits /\ child \in {"unlocking", "leaving"})

\* startLoop() returns: the notification is not lost when the child is faster
\* than the owner.  Only a loop that has quit by itself may keep it waiting.
StartLoopReturns ==
  (owner = "starting") ~> (owner = "using" \/ (quits /\ child = "done"))

\* The destructor stops the loop and returns (EventLoopThread.h: destroying
\* loopThread quits and joins automatically).  It calls quit() through a null
\* pointer only when the loop quits by itself between its two reads of loop_,
\* and never because of its own quit() or of the order of the child's steps.
DestructorReturns ==
  (owner = "quitting") ~> (owner = "gone" \/ (quits /\ owner = "crashed"))

\* quit() works on a live EventLoop to its end (EventLoop.h: quit() may be
\* called from another thread).
QuitOnLiveLoop == owner = "joining" /\ caller[Owner] = "wakeup" => alive

\* The functors of the owner and of the loop's own callbacks, those queued by
\* the ThreadInitCallback included, run once each and in order.
RunsInOrder == Loop!RunsInOrder
=============================================================================
