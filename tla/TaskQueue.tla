------------------------------ MODULE TaskQueue ------------------------------
(***************************************************************************)
(* What EventLoop::queueInLoop promises its callers, without threads,      *)
(* mutex or eventfd: submitted functors run one at a time, in the order in *)
(* which they were submitted, and as long as the loop has not stopped each *)
(* of them does run.                                                       *)
(***************************************************************************)
EXTENDS Sequences

CONSTANTS Functors,    \* the callbacks that can be submitted
          NoFunctor    \* "no functor is running"

VARIABLES queue,       \* submitted and not yet started, oldest first
          running,     \* the functor being executed, or NoFunctor
          open         \* FALSE once the loop has returned for good

tqVars == <<queue, running, open>>

Init == /\ queue = <<>>
        /\ running = NoFunctor
        /\ open = TRUE

Submit(f) == /\ queue' = Append(queue, f)
             /\ UNCHANGED <<running, open>>

Start == /\ open
         /\ running = NoFunctor
         /\ queue # <<>>
         /\ running' = Head(queue)
         /\ queue' = Tail(queue)
         /\ UNCHANGED open

Finish == /\ running # NoFunctor
          /\ running' = NoFunctor
          /\ UNCHANGED <<queue, open>>

Stop == /\ open
        /\ running = NoFunctor
        /\ open' = FALSE
        /\ UNCHANGED <<queue, running>>

Next == \/ \E f \in Functors : Submit(f)
        \/ Start
        \/ Finish
        \/ Stop

SafeSpec == Init /\ [][Next]_tqVars

\* A functor that is running returns, and a functor that waits gets its turn.
Spec == SafeSpec /\ WF_tqVars(Start) /\ WF_tqVars(Finish)
=============================================================================
