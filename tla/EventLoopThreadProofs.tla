------------------------ MODULE EventLoopThreadProofs ------------------------
(***************************************************************************)
(* Proofs about EventLoopThread: the pointer that startLoop() publishes,   *)
(* the thread that the destructor leaves behind, and the loop in between,  *)
(* for any functors and channels.                                          *)
(***************************************************************************)
EXTENDS EventLoopThread, TLAPS

(***************************************************************************)
(* The invariant.  Of the loop it needs two facts: it has returned only    *)
(* once quit_ was stored, and nobody but the destructor stores it when the *)
(* callbacks do not.                                                       *)
(***************************************************************************)

\* loop_ is set for exactly the time that the child is about to call loop() or
\* in it, a part of the lifetime of the EventLoop.
Published ==
  /\ alive <=> child \in {"init", "loop", "unlocking", "leaving"}
  /\ loop_ = "set" <=> child = "loop"

\* Where the child can be while the owner is in each of its places.
Progress ==
  /\ owner = "constructed" => child = "none"
  /\ owner = "using" => child \in {"loop", "unlocking", "leaving", "done"}
  /\ child \in {"unlocking", "leaving", "done"} => pc = "stopped"

\* Who has made loop() return; until then the destructor finds loop_ set.
QuitBy ==
  /\ pc = "stopped" => quit_
  /\ ~quits /\ quit_ => owner \in {"joining", "gone"}
  /\ owner = "quitting" => child \in {"loop", "unlocking", "leaving", "done"}

\* The destructor calls quit() through a null pointer only when the loop has
\* quit by itself.
NullCall == owner = "crashed" => quits

ThreadInv == Published /\ Progress /\ QuitBy /\ Joined /\ NullCall

\* A step of the loop never stores TRUE in quit_, and ends loop() only when it
\* finds it stored; once loop() has returned there is none.
LEMMA LoopSteps ==
  ASSUME Loop!LoopStep \/ Loop!PollOther
  PROVE  /\ pc # "stopped"
         /\ pc' = "stopped" => quit_'
         /\ quit_' => quit_
<1>1. CASE Loop!EnterLoop BY <1>1 DEF Loop!EnterLoop
<1>2. CASE Loop!EnterPoll BY <1>2 DEF Loop!EnterPoll
<1>3. CASE Loop!LeaveLoop BY <1>3 DEF Loop!LeaveLoop
<1>4. CASE Loop!PollWakeup BY <1>4 DEF Loop!PollWakeup, Loop!PollReturn
<1>5. CASE Loop!PollOther BY <1>5 DEF Loop!PollOther, Loop!PollReturn
<1>6. CASE Loop!HandleRead BY <1>6 DEF Loop!HandleRead
<1>7. CASE \E c \in Channels : Loop!CallHandler(c) BY <1>7 DEF Loop!CallHandler
<1>8. CASE Loop!HandlerReturns BY <1>8 DEF Loop!HandlerReturns
<1>9. CASE Loop!DispatchDone BY <1>9 DEF Loop!DispatchDone
<1>10. CASE Loop!SwapPending BY <1>10 DEF Loop!SwapPending
<1>11. CASE Loop!CallFunctor BY <1>11 DEF Loop!CallFunctor
<1>12. CASE Loop!FunctorReturns BY <1>12 DEF Loop!FunctorReturns
<1>13. CASE Loop!FunctorsDone BY <1>13 DEF Loop!FunctorsDone
<1> QED
  BY <1>1, <1>2, <1>3, <1>4, <1>5, <1>6, <1>7, <1>8, <1>9, <1>10, <1>11, <1>12,
     <1>13
  DEF Loop!LoopStep

\* The invariant is inductive.
LEMMA InitThread == Init => ThreadInv
  BY DEF Init, Loop!Init, ThreadInv, Published, Progress, QuitBy, Joined,
         NullCall

\* One case for each action.
LEMMA NextThread ==
  ASSUME ThreadInv, [Next]_vars
  PROVE  ThreadInv'
<1> USE DEF ThreadInv, Published, Progress, QuitBy, Joined, NullCall
<1>1. CASE StartLoop BY <1>1 DEF StartLoop, loopVars
<1>2. CASE Destroy BY <1>2 DEF Destroy, loopVars
<1>3. CASE StartReturns BY <1>3 DEF StartReturns, loopVars
<1>4. CASE WaitReturns BY <1>4 DEF WaitReturns, loopVars
<1>5. CASE OwnerWakesUp
  BY <1>5 DEF OwnerWakesUp, Loop!WakeUp, threadVars
<1>6. CASE DestroyReads \/ DestroyQuits
  BY <1>6 DEF DestroyReads, DestroyQuits, Loop!Quit, loopVars
<1>7. CASE DestroyJoins BY <1>7 DEF DestroyJoins, loopVars
<1>8. CASE PostSemaphore BY <1>8 DEF PostSemaphore, loopVars
<1>9. CASE ConstructLoop BY <1>9 DEF ConstructLoop, loopVars
<1>10. CASE Publish BY <1>10 DEF Publish, loopVars
<1>11. CASE LoopRuns \/ LoopPolls
  BY <1>11, LoopSteps DEF LoopRuns, LoopPolls, threadVars
<1>12. CASE Unpublish \/ Unlock BY <1>12 DEF Unpublish, Unlock, loopVars
<1>13. CASE ChildReturns BY <1>13 DEF ChildReturns, loopVars
<1>14. CASE CallbackCallsQuit
  BY <1>14 DEF CallbackCallsQuit, Loop!LoopQuit, threadVars
<1>15. ASSUME NEW f \in Functors, OwnerQueues(f) \/ CallbackQueues(f)
       PROVE  ThreadInv'
  BY <1>15
  DEF OwnerQueues, CallbackQueues, Loop!QueueInLoop, Loop!LoopQueueInLoop,
      threadVars
<1>16. CASE UNCHANGED vars BY <1>16 DEF vars, threadVars, loopVars
<1> QED
  BY <1>1, <1>2, <1>3, <1>4, <1>5, <1>6, <1>7, <1>8, <1>9, <1>10, <1>11, <1>12,
     <1>13, <1>14, <1>15, <1>16
  DEF Next, OwnerStep, ChildStep

\* The invariant holds, however the two threads interleave.
THEOREM ThreadCorrect == Spec => []ThreadInv
<1>1. Init => ThreadInv BY InitThread
<1>2. ThreadInv /\ [Next]_vars => ThreadInv' BY NextThread
<1> QED BY <1>1, <1>2, PTL DEF Spec

\* The pointer the owner waits for, and may use after, is that of an EventLoop
\* that has been constructed and not yet destroyed, whatever the callbacks do
\* and however early the loop quits.
THEOREM PublishedIsAlive == Spec => []PublishedAlive
<1>1. ThreadInv => PublishedAlive BY DEF ThreadInv, Published, PublishedAlive
<1> QED BY <1>1, ThreadCorrect, PTL

\* The destructor returns only when no thread would touch the members of the
\* object again, or when one that quit by itself has left loop() behind; and
\* without such a quit it never calls through a null pointer before that.
THEOREM DestructorJoins == Spec => [](Joined /\ NullCall)
<1>1. ThreadInv => Joined /\ NullCall BY DEF ThreadInv
<1> QED BY <1>1, ThreadCorrect, PTL

-----------------------------------------------------------------------------
(***************************************************************************)
(* The loop on the child's stack is an EventLoop, so that what is proved   *)
(* about an EventLoop holds of it.                                         *)
(***************************************************************************)

\* The theorems about an EventLoop, for the one on the child's stack.
LoopProofs == INSTANCE EventLoopProofs

\* The constants are as EventLoop assumes them.
LEMMA LoopConstants == LoopProofs!ConstantsAssumption
  BY ThreadAssumption DEF LoopProofs!ConstantsAssumption

\* The loop is constructed as EventLoop describes it.
LEMMA InitIsLoopInit == Init => LoopProofs!Init
  BY DEF Init, Loop!Init, LoopProofs!Init, Threads

\* What the IO thread does in loop() is what EventLoop describes.
LEMMA StepIsLoopStep ==
  ASSUME Loop!LoopStep \/ Loop!PollOther
  PROVE  LoopProofs!LoopStep \/ LoopProofs!PollOther
<1> USE DEF LoopProofs!LoopStep
<1>1. CASE Loop!EnterLoop BY <1>1 DEF Loop!EnterLoop, LoopProofs!EnterLoop
<1>2. CASE Loop!EnterPoll BY <1>2 DEF Loop!EnterPoll, LoopProofs!EnterPoll
<1>3. CASE Loop!LeaveLoop BY <1>3 DEF Loop!LeaveLoop, LoopProofs!LeaveLoop
<1>4. CASE Loop!PollWakeup
  BY <1>4 DEF Loop!PollWakeup, Loop!PollReturn, LoopProofs!PollWakeup,
              LoopProofs!PollReturn
<1>5. CASE Loop!PollOther
  BY <1>5 DEF Loop!PollOther, Loop!PollReturn, LoopProofs!PollOther,
              LoopProofs!PollReturn
<1>6. CASE Loop!HandleRead BY <1>6 DEF Loop!HandleRead, LoopProofs!HandleRead
<1>7. ASSUME NEW c \in Channels, Loop!CallHandler(c)
      PROVE  LoopProofs!CallHandler(c)
  BY <1>7 DEF Loop!CallHandler, LoopProofs!CallHandler
<1>8. CASE Loop!HandlerReturns
  BY <1>8 DEF Loop!HandlerReturns, LoopProofs!HandlerReturns
<1>9. CASE Loop!DispatchDone
  BY <1>9 DEF Loop!DispatchDone, LoopProofs!DispatchDone
<1>10. CASE Loop!SwapPending
  BY <1>10 DEF Loop!SwapPending, LoopProofs!SwapPending
<1>11. CASE Loop!CallFunctor
  BY <1>11 DEF Loop!CallFunctor, LoopProofs!CallFunctor
<1>12. CASE Loop!FunctorReturns
  BY <1>12 DEF Loop!FunctorReturns, LoopProofs!FunctorReturns
<1>13. CASE Loop!FunctorsDone
  BY <1>13 DEF Loop!FunctorsDone, LoopProofs!FunctorsDone
<1> QED
  BY <1>1, <1>2, <1>3, <1>4, <1>5, <1>6, <1>7, <1>8, <1>9, <1>10, <1>11, <1>12,
     <1>13
  DEF Loop!LoopStep

\* What the owner and the child do to the loop are steps of its IO thread or
\* calls that EventLoop allows a thread to make; the rest leaves it alone.
LEMMA NextIsLoopNext ==
  ASSUME [Next]_vars PROVE [LoopProofs!Next]_LoopProofs!vars
<1> DEFINE Same == UNCHANGED loopVars
<1>0. Same => UNCHANGED LoopProofs!vars BY DEF loopVars, LoopProofs!vars
<1>1. CASE \/ StartLoop \/ Destroy \/ StartReturns \/ WaitReturns
           \/ DestroyReads \/ DestroyJoins
  BY <1>0, <1>1
  DEF StartLoop, Destroy, StartReturns, WaitReturns, DestroyReads, DestroyJoins
<1>2. CASE \/ PostSemaphore \/ ConstructLoop \/ Publish \/ Unpublish \/ Unlock
           \/ ChildReturns
  BY <1>0, <1>2
  DEF PostSemaphore, ConstructLoop, Publish, Unpublish, Unlock, ChildReturns
<1>3. CASE LoopRuns \/ LoopPolls
  BY <1>3, StepIsLoopStep DEF LoopRuns, LoopPolls, LoopProofs!Next
<1>4. CASE OwnerWakesUp
  <2>1. LoopProofs!WakeUp(Owner)
    BY <1>4 DEF OwnerWakesUp, Loop!WakeUp, LoopProofs!WakeUp,
                Loop!WakeupWrite, LoopProofs!WakeupWrite
  <2> QED BY <2>1 DEF Threads, LoopProofs!Next
<1>5. CASE DestroyQuits
  <2>1. LoopProofs!Quit(Owner)
    BY <1>5 DEF DestroyQuits, Loop!Quit, LoopProofs!Quit
  <2> QED BY <2>1 DEF Threads, LoopProofs!Next
<1>6. CASE CallbackCallsQuit
  <2>1. LoopProofs!LoopQuit
    BY <1>6 DEF CallbackCallsQuit, Loop!LoopQuit, LoopProofs!LoopQuit,
                Loop!InCallback, LoopProofs!InCallback
  <2> QED BY <2>1 DEF LoopProofs!Next
<1>7. ASSUME NEW f \in Functors, OwnerQueues(f)
      PROVE  LoopProofs!Next
  <2>1. LoopProofs!QueueInLoop(Owner, f)
    BY <1>7 DEF OwnerQueues, Loop!QueueInLoop, LoopProofs!QueueInLoop
  <2> QED BY <2>1 DEF Threads, LoopProofs!Next
<1>8. ASSUME NEW f \in Functors, CallbackQueues(f)
      PROVE  LoopProofs!Next
  <2>1. LoopProofs!LoopQueueInLoop(f)
    BY <1>8 DEF CallbackQueues, Loop!LoopQueueInLoop,
                LoopProofs!LoopQueueInLoop, Loop!InCallback,
                LoopProofs!InCallback, Loop!WakeupWrite, LoopProofs!WakeupWrite
  <2> QED BY <2>1 DEF LoopProofs!Next
<1>9. CASE UNCHANGED vars BY <1>0, <1>9 DEF vars
<1> QED
  BY <1>1, <1>2, <1>3, <1>4, <1>5, <1>6, <1>7, <1>8, <1>9
  DEF Next, OwnerStep, ChildStep

\* The loop of an EventLoopThread behaves as an EventLoop with one other thread:
\* the ThreadInitCallback, the callbacks and the owner call nothing that the
\* reasoning about EventLoop does not allow for, and the steps of threadFunc()
\* and of the destructor around them leave its state alone.
THEOREM LoopImplemented == Spec => LoopProofs!Spec
<1>1. Init => LoopProofs!Init BY InitIsLoopInit
<1>2. [Next]_vars => [LoopProofs!Next]_LoopProofs!vars BY NextIsLoopNext
<1> QED BY <1>1, <1>2, PTL DEF Spec, LoopProofs!Spec

\* The functors of the owner and of the loop's own callbacks, those queued by the
\* ThreadInitCallback included, run once each and in the order in which
\* queueInLoop() appended them, from startLoop() to the end of loop().
THEOREM OrderKept == Spec => RunsInOrder
<1>1. LoopProofs!Spec => LoopProofs!RunsInOrder
  BY LoopConstants, LoopProofs!OrderCorrect
<1>2. LoopProofs!TQ!Init <=> Loop!TQ!Init
  BY DEF LoopProofs!TQ!Init, Loop!TQ!Init
<1>3. [LoopProofs!TQ!Next]_LoopProofs!TQ!tqVars => [Loop!TQ!Next]_Loop!TQ!tqVars
  BY DEF LoopProofs!TQ!Next, Loop!TQ!Next, LoopProofs!TQ!tqVars,
         Loop!TQ!tqVars, LoopProofs!TQ!Submit, Loop!TQ!Submit,
         LoopProofs!TQ!Start, Loop!TQ!Start, LoopProofs!TQ!Finish,
         Loop!TQ!Finish, LoopProofs!TQ!Stop, Loop!TQ!Stop
<1> QED
  BY LoopImplemented, <1>1, <1>2, <1>3, PTL
  DEF RunsInOrder, Loop!RunsInOrder, Loop!TQ!SafeSpec,
      LoopProofs!RunsInOrder, LoopProofs!TQ!SafeSpec

\* The types of the two threads' places and of the object's members.
ThreadTypes ==
  /\ owner \in {"constructed", "starting", "waiting", "using", "quitting",
                "calling", "crashed", "joining", "gone"}
  /\ child \in {"none", "spawned", "posted", "init", "loop", "unlocking",
                "leaving", "done"}
  /\ loop_ \in {"null", "set"}
  /\ alive \in BOOLEAN
  /\ quits \in CallbacksQuit

\* Each step keeps them.
LEMMA NextThreadTypes == ThreadTypes /\ [Next]_vars => ThreadTypes'
<1> SUFFICES ASSUME ThreadTypes, [Next]_vars PROVE ThreadTypes'
  OBVIOUS
<1> USE DEF ThreadTypes
<1>1. CASE StartLoop \/ Destroy BY <1>1 DEF StartLoop, Destroy
<1>2. CASE OwnerStep
  BY <1>2
  DEF OwnerStep, StartReturns, WaitReturns, OwnerWakesUp, DestroyReads,
      DestroyQuits, DestroyJoins, threadVars
<1>3. CASE ChildStep
  BY <1>3
  DEF ChildStep, PostSemaphore, ConstructLoop, Publish, LoopRuns, Unpublish,
      Unlock, ChildReturns, threadVars
<1>4. CASE LoopPolls \/ CallbackCallsQuit
  BY <1>4 DEF LoopPolls, CallbackCallsQuit, threadVars
<1>5. CASE \E f \in Functors : OwnerQueues(f) \/ CallbackQueues(f)
  BY <1>5 DEF OwnerQueues, CallbackQueues, threadVars
<1>6. CASE UNCHANGED vars BY <1>6 DEF vars, threadVars
<1> QED BY <1>1, <1>2, <1>3, <1>4, <1>5, <1>6 DEF Next

\* The variables of the object, of both threads and of the loop on the child's
\* stack keep their types, before startLoop() and after the destructor too.
THEOREM TypeCorrect == Spec => []TypeOK
<1>1. LoopProofs!Spec => []LoopProofs!TypeOK
  BY LoopConstants, LoopProofs!TypeCorrect
<1>2. Init => ThreadTypes BY DEF Init, ThreadTypes
<1>3. ThreadTypes /\ [Next]_vars => ThreadTypes' BY NextThreadTypes
<1>4. LoopProofs!TypeOK /\ ThreadTypes => TypeOK
  BY DEF LoopProofs!TypeOK, LoopProofs!LoopPc, ThreadTypes, TypeOK,
         Loop!TypeOK, Loop!LoopPc
<1> QED BY LoopImplemented, <1>1, <1>2, <1>3, <1>4, PTL DEF Spec
=============================================================================
