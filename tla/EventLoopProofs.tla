--------------------------- MODULE EventLoopProofs ---------------------------
(***************************************************************************)
(* EventLoop, for any number of threads, functors and channels: type       *)
(* correctness, the absence of lost wakeups, and that functors run in the  *)
(* order in which they were queued.                                        *)
(***************************************************************************)
EXTENDS EventLoop, SequenceTheorems, TLAPS

\* The types at first ...
LEMMA InitTypeOK == Init => TypeOK
<1>1. <<>> \in Seq(Functors) BY EmptySeq
<1>2. 0 \in 0..MaxCounter BY ConstantsAssumption
<1> QED BY <1>1, <1>2 DEF Init, TypeOK, LoopPc

\* ... and after every step.
LEMMA NextTypeOK == TypeOK /\ [Next]_vars => TypeOK'
<1> SUFFICES ASSUME TypeOK, [Next]_vars PROVE TypeOK'
  OBVIOUS
<1> USE ConstantsAssumption DEF TypeOK, LoopPc
<1>1. CASE EnterLoop BY <1>1 DEF EnterLoop
<1>2. CASE EnterPoll BY <1>2 DEF EnterPoll
<1>3. CASE LeaveLoop BY <1>3 DEF LeaveLoop
<1>4. CASE \E ready \in SUBSET Channels : PollReturn(ready)
  BY <1>4 DEF PollReturn
<1>5. CASE HandleRead BY <1>5 DEF HandleRead
<1>6. CASE \E c \in Channels : CallHandler(c) BY <1>6 DEF CallHandler
<1>7. CASE HandlerReturns BY <1>7 DEF HandlerReturns
<1>8. CASE DispatchDone BY <1>8 DEF DispatchDone
<1>9. CASE SwapPending BY <1>9, EmptySeq DEF SwapPending
<1>10. CASE CallFunctor BY <1>10, HeadTailProperties DEF CallFunctor
<1>11. CASE FunctorReturns BY <1>11 DEF FunctorReturns
<1>12. CASE FunctorsDone BY <1>12 DEF FunctorsDone
<1>13. CASE LoopQuit BY <1>13 DEF LoopQuit
<1>14. CASE \E f \in Functors : LoopQueueInLoop(f)
  BY <1>14 DEF LoopQueueInLoop, WakeupWrite
<1>15. ASSUME NEW t \in Threads, NEW f \in Functors, QueueInLoop(t, f)
       PROVE TypeOK'
  BY <1>15 DEF QueueInLoop
<1>16. ASSUME NEW t \in Threads, Quit(t) PROVE TypeOK'
  BY <1>16 DEF Quit
<1>17. ASSUME NEW t \in Threads, WakeUp(t) PROVE TypeOK'
  BY <1>17 DEF WakeUp, WakeupWrite
<1>18. CASE UNCHANGED vars BY <1>18 DEF vars
<1> QED
  BY <1>1, <1>2, <1>3, <1>4, <1>5, <1>6, <1>7, <1>8, <1>9, <1>10, <1>11,
     <1>12, <1>13, <1>14, <1>15, <1>16, <1>17, <1>18
  DEF Next, LoopStep, PollWakeup, PollOther

\* The variables of the loop keep the types their declarations give them, and
\* the eventfd counter stays within the kernel's limit.
THEOREM TypeCorrect == Spec => []TypeOK
<1>1. Init => TypeOK BY InitTypeOK
<1>2. TypeOK /\ [Next]_vars => TypeOK' BY NextTypeOK
<1> QED BY <1>1, <1>2, PTL DEF Spec

-----------------------------------------------------------------------------

\* A write leaves the eventfd readable, also when the kernel refuses it.
LEMMA WriteMakesReadable ==
  ASSUME NEW n \in 0..MaxCounter PROVE WakeupWrite(n) > 0
BY ConstantsAssumption DEF WakeupWrite

\* Where the loop is, with what it has swapped out.
LEMMA NextPhaseInv == TypeOK /\ PhaseInv /\ [Next]_vars => PhaseInv'
<1> SUFFICES ASSUME TypeOK, PhaseInv, [Next]_vars PROVE PhaseInv'
  OBVIOUS
<1> USE ConstantsAssumption DEF TypeOK, PhaseInv, LoopPc
<1>1. CASE EnterLoop BY <1>1 DEF EnterLoop
<1>2. CASE EnterPoll BY <1>2 DEF EnterPoll
<1>3. CASE LeaveLoop BY <1>3 DEF LeaveLoop
<1>4. CASE \E ready \in SUBSET Channels : PollReturn(ready)
  BY <1>4 DEF PollReturn
<1>5. CASE HandleRead BY <1>5 DEF HandleRead
<1>6. CASE \E c \in Channels : CallHandler(c) BY <1>6 DEF CallHandler
<1>7. CASE HandlerReturns BY <1>7 DEF HandlerReturns
<1>8. CASE DispatchDone BY <1>8 DEF DispatchDone
<1>9. CASE SwapPending BY <1>9 DEF SwapPending
<1>10. CASE CallFunctor
  <2>1. running' \in Functors BY <1>10, HeadTailProperties DEF CallFunctor
  <2> QED BY <1>10, <2>1 DEF CallFunctor
<1>11. CASE FunctorReturns BY <1>11 DEF FunctorReturns
<1>12. CASE FunctorsDone BY <1>12 DEF FunctorsDone
<1>13. CASE LoopQuit BY <1>13 DEF LoopQuit
<1>14. CASE \E f \in Functors : LoopQueueInLoop(f)
  BY <1>14 DEF LoopQueueInLoop
<1>15. CASE \E t \in Threads : \/ \E f \in Functors : QueueInLoop(t, f)
                               \/ Quit(t)
                               \/ WakeUp(t)
  BY <1>15 DEF QueueInLoop, Quit, WakeUp
<1>16. CASE UNCHANGED vars BY <1>16 DEF vars
<1> QED
  BY <1>1, <1>2, <1>3, <1>4, <1>5, <1>6, <1>7, <1>8, <1>9, <1>10, <1>11,
     <1>12, <1>13, <1>14, <1>15, <1>16
  DEF Next, LoopStep, PollWakeup, PollOther

\* The flag that queueInLoop() consults on the IO thread tells the truth: it
\* is set exactly while doPendingFunctors() calls the vector it took.
THEOREM PhaseCorrect == Spec => []PhaseInv
<1>1. Init => TypeOK /\ PhaseInv BY InitTypeOK DEF Init, PhaseInv
<1>2. TypeOK /\ PhaseInv /\ [Next]_vars => (TypeOK /\ PhaseInv)'
  BY NextTypeOK, NextPhaseInv
<1> QED BY <1>1, <1>2, PTL DEF Spec

\* A step that only adds to the counter, or keeps the callers and the counter,
\* does not lose a wakeup that is coming.
LEMMA WakeupStays ==
  ASSUME TypeOK, WakeupComing,
         \/ wakeupFd_' = wakeupFd_ /\ caller' = caller
         \/ wakeupFd_' = WakeupWrite(wakeupFd_)
  PROVE  WakeupComing'
<1>1. CASE wakeupFd_' = wakeupFd_ /\ caller' = caller
  BY <1>1 DEF WakeupComing
<1>2. CASE wakeupFd_' = WakeupWrite(wakeupFd_)
  BY <1>2, WriteMakesReadable DEF WakeupComing, TypeOK
<1> QED BY <1>1, <1>2

\* quit() by another thread has written to the eventfd, or will.
LEMMA NextQuitWakesPoll ==
  TypeOK /\ QuitWakesPoll /\ [Next]_vars => QuitWakesPoll'
<1> SUFFICES ASSUME TypeOK, QuitWakesPoll, [Next]_vars PROVE QuitWakesPoll'
  OBVIOUS
<1> USE DEF QuitWakesPoll
<1>1. CASE EnterLoop BY <1>1 DEF EnterLoop
<1>2. CASE EnterPoll BY <1>2 DEF EnterPoll
<1>3. CASE LeaveLoop BY <1>3 DEF LeaveLoop
<1>4. CASE \E ready \in SUBSET Channels : PollReturn(ready)
  BY <1>4 DEF PollReturn
<1>5. CASE HandleRead BY <1>5 DEF HandleRead
<1>6. CASE \E c \in Channels : CallHandler(c) BY <1>6 DEF CallHandler
<1>7. CASE HandlerReturns BY <1>7 DEF HandlerReturns
<1>8. CASE DispatchDone BY <1>8 DEF DispatchDone
<1>9. CASE SwapPending BY <1>9 DEF SwapPending
<1>10. CASE CallFunctor BY <1>10 DEF CallFunctor
<1>11. CASE FunctorReturns BY <1>11 DEF FunctorReturns
<1>12. CASE FunctorsDone BY <1>12 DEF FunctorsDone
<1>13. CASE LoopQuit BY <1>13 DEF LoopQuit, InCallback
<1>14. CASE \E f \in Functors : LoopQueueInLoop(f)
  BY <1>14 DEF LoopQueueInLoop, InCallback
<1>15. ASSUME NEW t \in Threads, NEW f \in Functors, QueueInLoop(t, f)
       PROVE QuitWakesPoll'
  BY <1>15 DEF QueueInLoop, WakeupComing, TypeOK
<1>16. ASSUME NEW t \in Threads, Quit(t) PROVE QuitWakesPoll'
  BY <1>16 DEF Quit, WakeupComing, TypeOK
<1>17. ASSUME NEW t \in Threads, WakeUp(t) PROVE QuitWakesPoll'
  BY <1>17, WriteMakesReadable DEF WakeUp, WakeupComing, TypeOK
<1>18. CASE UNCHANGED vars BY <1>18 DEF vars, WakeupComing
<1> QED
  BY <1>1, <1>2, <1>3, <1>4, <1>5, <1>6, <1>7, <1>8, <1>9, <1>10, <1>11,
     <1>12, <1>13, <1>14, <1>15, <1>16, <1>17, <1>18
  DEF Next, LoopStep, PollWakeup, PollOther

\* After quit() the loop is never left waiting in poll(): a wakeup is in the
\* eventfd or the caller is about to write it, whatever the interleaving of
\* quit() with the test of quit_ and with handleRead().
THEOREM QuitIsNoticed == Spec => []QuitWakesPoll
<1>1. Init => TypeOK /\ QuitWakesPoll
  BY InitTypeOK DEF Init, QuitWakesPoll
<1>2. TypeOK /\ QuitWakesPoll /\ [Next]_vars => (TypeOK /\ QuitWakesPoll)'
  BY NextTypeOK, NextQuitWakesPoll
<1> QED BY <1>1, <1>2, PTL DEF Spec

-----------------------------------------------------------------------------

\* A functor queued for a loop that polls has been announced.
LEMMA NextAnnounced ==
  ASSUME ~CallsBeforeLoop, TypeOK, PhaseInv, Announced, [Next]_vars
  PROVE  Announced'
<1> USE DEF Announced
<1>1. CASE EnterLoop BY <1>1, WakeupStays DEF EnterLoop
<1>2. CASE EnterPoll BY <1>2, WakeupStays DEF EnterPoll
<1>3. CASE LeaveLoop BY <1>3 DEF LeaveLoop
<1>4. CASE \E ready \in SUBSET Channels : PollReturn(ready)
  BY <1>4 DEF PollReturn
<1>5. CASE HandleRead BY <1>5 DEF HandleRead
<1>6. CASE \E c \in Channels : CallHandler(c) BY <1>6 DEF CallHandler
<1>7. CASE HandlerReturns BY <1>7 DEF HandlerReturns
<1>8. CASE DispatchDone BY <1>8 DEF DispatchDone
<1>9. CASE SwapPending BY <1>9 DEF SwapPending
<1>10. CASE CallFunctor BY <1>10, WakeupStays DEF CallFunctor
<1>11. CASE FunctorReturns BY <1>11, WakeupStays DEF FunctorReturns
<1>12. CASE FunctorsDone BY <1>12, WakeupStays DEF FunctorsDone
<1>13. CASE LoopQuit BY <1>13, WakeupStays DEF LoopQuit
<1>14. CASE \E f \in Functors : LoopQueueInLoop(f)
  BY <1>14, WriteMakesReadable
  DEF LoopQueueInLoop, InCallback, PhaseInv, TypeOK, WakeupComing
<1>15. ASSUME NEW t \in Threads, NEW f \in Functors, QueueInLoop(t, f)
       PROVE Announced'
  BY <1>15 DEF QueueInLoop, WakeupComing, TypeOK
<1>16. ASSUME NEW t \in Threads, Quit(t) PROVE Announced'
  BY <1>16 DEF Quit, WakeupComing, TypeOK
<1>17. ASSUME NEW t \in Threads, WakeUp(t) PROVE Announced'
  BY <1>17, WriteMakesReadable DEF WakeUp, WakeupComing, TypeOK
<1>18. CASE UNCHANGED vars BY <1>18 DEF vars, WakeupComing
<1> QED
  BY <1>1, <1>2, <1>3, <1>4, <1>5, <1>6, <1>7, <1>8, <1>9, <1>10, <1>11,
     <1>12, <1>13, <1>14, <1>15, <1>16, <1>17, <1>18
  DEF Next, LoopStep, PollWakeup, PollOther

\* The loop never waits in poll() with a functor queued and no wakeup coming,
\* provided the IO thread itself queues nothing before loop().
THEOREM WakeupNotLost ==
  ASSUME ~CallsBeforeLoop PROVE Spec => []NoLostWakeup
<1>1. Init => TypeOK /\ ReactorInv
  BY InitTypeOK DEF Init, ReactorInv, PhaseInv, Announced, QuitWakesPoll
<1>2. TypeOK /\ ReactorInv /\ [Next]_vars => (TypeOK /\ ReactorInv)'
  BY NextTypeOK, NextPhaseInv, NextAnnounced, NextQuitWakesPoll DEF ReactorInv
<1>3. ReactorInv => NoLostWakeup
  BY DEF ReactorInv, Announced, NoLostWakeup
<1> QED BY <1>1, <1>2, <1>3, PTL DEF Spec

\* The whole invariant the callers of the loop rely on: the phases of a round,
\* the announcement of every waiting functor outside the part of the round that
\* ends in the swap, and that quit() wakes poll(), under the same proviso.
THEOREM ReactorCorrect ==
  ASSUME ~CallsBeforeLoop PROVE Spec => []ReactorInv
<1>1. Init => TypeOK /\ ReactorInv
  BY InitTypeOK DEF Init, ReactorInv, PhaseInv, Announced, QuitWakesPoll
<1>2. TypeOK /\ ReactorInv /\ [Next]_vars => (TypeOK /\ ReactorInv)'
  BY NextTypeOK, NextPhaseInv, NextAnnounced, NextQuitWakesPoll DEF ReactorInv
<1> QED BY <1>1, <1>2, PTL DEF Spec

-----------------------------------------------------------------------------
(***************************************************************************)
(* The loop implements TaskQueue.                                          *)
(***************************************************************************)

\* Appending to the second of two vectors appends to their concatenation.
LEMMA AppendConcat ==
  ASSUME NEW S, NEW s \in Seq(S), NEW t \in Seq(S), NEW e \in S
  PROVE  s \o Append(t, e) = Append(s \o t, e)
<1>1. <<e>> \in Seq(S) OBVIOUS
<1>2. Append(t, e) = t \o <<e>> BY AppendIsConcat
<1>3. s \o t \in Seq(S) BY ConcatProperties
<1>4. Append(s \o t, e) = (s \o t) \o <<e>> BY <1>3, AppendIsConcat
<1> QED BY <1>1, <1>2, <1>4, ConcatAssociative

\* The first of two vectors, while it is not empty, has the oldest functor.
LEMMA HeadTailConcat ==
  ASSUME NEW S, NEW s \in Seq(S), NEW t \in Seq(S), s # <<>>
  PROVE  /\ s \o t # <<>>
         /\ Head(s \o t) = Head(s)
         /\ Tail(s \o t) = Tail(s) \o t
<1>1. /\ s \o t \in Seq(S)
      /\ Len(s \o t) = Len(s) + Len(t)
      /\ \A i \in 1..(Len(s) + Len(t)) :
           (s \o t)[i] = IF i <= Len(s) THEN s[i] ELSE t[i - Len(s)]
  BY ConcatProperties
<1>2. /\ Tail(s) \in Seq(S)
      /\ Len(Tail(s)) = Len(s) - 1
      /\ \A i \in 1..Len(Tail(s)) : Tail(s)[i] = s[i + 1]
  BY HeadTailProperties
<1>3. Len(s) \in Nat \ {0} /\ Len(t) \in Nat BY EmptySeq, LenProperties
<1>4. s \o t # <<>> BY <1>1, <1>3, EmptySeq
<1>5. Head(s \o t) = Head(s)
  <2>1. Head(s \o t) = (s \o t)[1] /\ Head(s) = s[1] OBVIOUS
  <2>2. (s \o t)[1] = s[1] BY <1>1, <1>3
  <2> QED BY <2>1, <2>2
<1>6. /\ Tail(s \o t) \in Seq(S)
      /\ Len(Tail(s \o t)) = Len(s) + Len(t) - 1
      /\ \A i \in 1..Len(Tail(s \o t)) : Tail(s \o t)[i] = (s \o t)[i + 1]
  BY <1>1, <1>4, HeadTailProperties
<1>7. /\ Tail(s) \o t \in Seq(S)
      /\ Len(Tail(s) \o t) = Len(Tail(s)) + Len(t)
      /\ \A i \in 1..(Len(Tail(s)) + Len(t)) :
           (Tail(s) \o t)[i] = IF i <= Len(Tail(s)) THEN Tail(s)[i]
                               ELSE t[i - Len(Tail(s))]
  BY <1>2, ConcatProperties
<1>8. Len(Tail(s \o t)) = Len(Tail(s) \o t) BY <1>2, <1>3, <1>6, <1>7
<1>9. ASSUME NEW i \in 1..Len(Tail(s \o t))
      PROVE  Tail(s \o t)[i] = (Tail(s) \o t)[i]
  <2>1. i \in 1..(Len(s) + Len(t) - 1) /\ i + 1 \in 1..(Len(s) + Len(t))
    BY <1>3, <1>6
  <2>2. Tail(s \o t)[i] = IF i + 1 <= Len(s) THEN s[i + 1]
                          ELSE t[i + 1 - Len(s)]
    BY <1>1, <1>6, <2>1
  <2>3. (Tail(s) \o t)[i] = IF i <= Len(s) - 1 THEN Tail(s)[i]
                            ELSE t[i - (Len(s) - 1)]
    BY <1>2, <1>3, <1>7, <2>1
  <2>4. i + 1 - Len(s) = i - (Len(s) - 1) BY <1>3, <2>1
  <2>5. i <= Len(s) - 1 => Tail(s)[i] = s[i + 1] BY <1>2, <1>3, <2>1
  <2> QED BY <1>3, <2>1, <2>2, <2>3, <2>4, <2>5
<1>10. Tail(s \o t) = Tail(s) \o t
  BY <1>6, <1>7, <1>8, <1>9, SeqEqual
<1> QED BY <1>4, <1>5, <1>10

\* An empty queue is one of TaskQueue.
LEMMA InitRefines == Init => TQ!Init
BY ConcatEmptySeq, EmptySeq DEF Init, TQ!Init

\* Every step of the loop and of its callers is a step of the abstract
\* executor or leaves it unchanged.
LEMMA NextRefines ==
  ASSUME TypeOK, PhaseInv, [Next]_vars PROVE [TQ!Next]_TQ!tqVars
<1> DEFINE queue == functors \o pendingFunctors_
           open == pc # "stopped"
           Same == queue' = queue /\ running' = running /\ open' = open
<1> USE DEF TypeOK
<1>0. Same => [TQ!Next]_TQ!tqVars BY DEF TQ!tqVars
<1>1. CASE EnterLoop BY <1>0, <1>1 DEF EnterLoop
<1>2. CASE EnterPoll BY <1>0, <1>2 DEF EnterPoll
<1>3. CASE LeaveLoop
  <2>1. running = NoFunctor BY <1>3 DEF LeaveLoop, PhaseInv
  <2>2. TQ!Stop BY <1>3, <2>1 DEF LeaveLoop, TQ!Stop
  <2> QED BY <2>2 DEF TQ!Next
<1>4. CASE \E ready \in SUBSET Channels : PollReturn(ready)
  BY <1>0, <1>4 DEF PollReturn
<1>5. CASE HandleRead BY <1>0, <1>5 DEF HandleRead
<1>6. CASE \E c \in Channels : CallHandler(c) BY <1>0, <1>6 DEF CallHandler
<1>7. CASE HandlerReturns BY <1>0, <1>7 DEF HandlerReturns
<1>8. CASE DispatchDone BY <1>0, <1>8 DEF DispatchDone
<1>9. CASE SwapPending
  \* The vector taken becomes the whole queue; the old one was used up.
  <2>1. functors = <<>> BY <1>9 DEF SwapPending, PhaseInv
  <2>2. queue = pendingFunctors_ /\ queue' = pendingFunctors_
    BY <1>9, <2>1, ConcatEmptySeq DEF SwapPending
  <2> QED BY <1>0, <1>9, <2>2 DEF SwapPending
<1>10. CASE CallFunctor
  <2>1. functors # <<>> BY <1>10 DEF CallFunctor
  <2>2. /\ queue # <<>>
        /\ Head(queue) = Head(functors)
        /\ Tail(queue) = Tail(functors) \o pendingFunctors_
    BY <2>1, HeadTailConcat
  <2>3. running = NoFunctor BY <1>10 DEF CallFunctor, PhaseInv
  <2>4. TQ!Start BY <1>10, <2>2, <2>3 DEF CallFunctor, TQ!Start
  <2> QED BY <2>4 DEF TQ!Next
<1>11. CASE FunctorReturns
  <2>1. running # NoFunctor BY <1>11 DEF FunctorReturns, PhaseInv
  <2>2. TQ!Finish BY <1>11, <2>1 DEF FunctorReturns, TQ!Finish
  <2> QED BY <2>2 DEF TQ!Next
<1>12. CASE FunctorsDone BY <1>0, <1>12 DEF FunctorsDone
<1>13. CASE LoopQuit BY <1>0, <1>13 DEF LoopQuit
<1>14. ASSUME NEW f \in Functors, LoopQueueInLoop(f)
       PROVE  TQ!Next
  <2>1. queue' = Append(queue, f)
    BY <1>14, AppendConcat DEF LoopQueueInLoop
  <2>2. TQ!Submit(f) BY <1>14, <2>1 DEF LoopQueueInLoop, TQ!Submit
  <2> QED BY <2>2 DEF TQ!Next
<1>15. ASSUME NEW t \in Threads, NEW f \in Functors, QueueInLoop(t, f)
       PROVE  TQ!Next
  <2>1. queue' = Append(queue, f)
    BY <1>15, AppendConcat DEF QueueInLoop
  <2>2. TQ!Submit(f) BY <1>15, <2>1 DEF QueueInLoop, TQ!Submit
  <2> QED BY <2>2 DEF TQ!Next
<1>16. ASSUME NEW t \in Threads, Quit(t) \/ WakeUp(t)
       PROVE  Same
  BY <1>16 DEF Quit, WakeUp
<1>17. CASE UNCHANGED vars BY <1>0, <1>17 DEF vars
<1> QED
  BY <1>0, <1>1, <1>2, <1>3, <1>4, <1>5, <1>6, <1>7, <1>8, <1>9, <1>10, <1>11,
     <1>12, <1>13, <1>14, <1>15, <1>16, <1>17
  DEF Next, LoopStep, PollWakeup, PollOther

\* Functors run one at a time, each once and in the order of the locked appends
\* of queueInLoop(), for any threads calling it from anywhere.
THEOREM OrderCorrect == Spec => RunsInOrder
<1>1. Init => TypeOK /\ PhaseInv BY InitTypeOK DEF Init, PhaseInv
<1>2. TypeOK /\ PhaseInv /\ [Next]_vars => (TypeOK /\ PhaseInv)'
  BY NextTypeOK, NextPhaseInv
<1>3. Init => TQ!Init BY InitRefines
<1>4. TypeOK /\ PhaseInv /\ [Next]_vars => [TQ!Next]_TQ!tqVars
  BY NextRefines
<1> QED BY <1>1, <1>2, <1>3, <1>4, PTL DEF Spec, RunsInOrder, TQ!SafeSpec
=============================================================================
