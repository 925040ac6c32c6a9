-------------------------------- MODULE Logger --------------------------------
(***************************************************************************)
(* The macros LOG_INFO, LOG_ERROR, LOG_FATAL and LOG_DEBUG                 *)
(* (src/include/Logger.h), Logger::log() (src/src/Logger.cpp) and          *)
(* Timestamp::toString() (src/src/Timestamp.cpp), called by any number of  *)
(* threads.  Two places are shared by all calls without a lock: logLevel_  *)
(* of the singleton, and the struct tm that localtime() returns a pointer  *)
(* to.  Of the latter two parts are kept, the date and the time of day.    *)
(* What is formatted into buf is the thread's own and left out.            *)
(*                                                                         *)
(* A call of thread t is <<t, k>>, its k-th; the model remembers of every  *)
(* value which call has produced it.                                       *)
(***************************************************************************)
EXTENDS Naturals

CONSTANTS Threads,
          Levels,      \* of the macros in use; DEBUG only with MUDEBUG
          MaxCalls     \* bound of the model on the calls of one thread

ASSUME LoggerAssumption ==
  /\ Levels \subseteq {"INFO", "ERROR", "FATAL", "DEBUG"}
  /\ MaxCalls \in Nat

VARIABLES
  logLevel_,     \* as the call that has set it
  tm,            \* localtime()'s static struct: the calls that have written
                 \* its date and its time
  at,            \* where each thread is: "idle", the step it takes next, or in
                 \* "exit"
  made,          \* how many calls it has made
  level,         \* the level of its macro
  line,          \* what it has collected for its line
  overlap,       \* the calls that its call has overlapped, itself included
  lines          \* the lines printed

local == <<made, level, overlap>>
vars == <<logLevel_, tm, at, line, lines, local>>

NoCall == <<"nobody", 0>>
Call(t) == <<t, made[t]>>

Init ==
  /\ logLevel_ = NoCall     \* static storage: INFO
  /\ tm = [date |-> NoCall, time |-> NoCall]
  /\ at = [t \in Threads |-> "idle"]
  /\ made = [t \in Threads |-> 0]
  /\ level = [t \in Threads |-> "INFO"]
  /\ line = [t \in Threads |-> [pre |-> logLevel_, date |-> NoCall, time |-> NoCall]]
  /\ overlap = [t \in Threads |-> {}]
  /\ lines = {}

-----------------------------------------------------------------------------

Active == {t \in Threads : at[t] \notin {"idle", "exit"}}

\* A call by t begins: it overlaps those under way, and they overlap it.
Begin(t, l) ==
  /\ made' = [made EXCEPT ![t] = @ + 1]
  /\ level' = [level EXCEPT ![t] = l]
  /\ overlap' = [u \in Threads |->
                   IF u = t THEN {<<t, made[t] + 1>>} \cup {Call(a) : a \in Active}
                   ELSE IF u \in Active THEN overlap[u] \cup {<<t, made[t] + 1>>}
                   ELSE overlap[u]]

Goes(t, from, to) ==
  /\ at[t] = from
  /\ at' = [at EXCEPT ![t] = to]

\* A macro whose level is the one set last.
MacroWithoutLevel(t, l) ==
  /\ made[t] < MaxCalls
  /\ Goes(t, "idle", "prefix")
  /\ Begin(t, l)
  /\ UNCHANGED <<logLevel_, tm, line, lines>>

\* The macro up to log(): setLogLevel(level).
Macro(t, l) ==
  /\ made[t] < MaxCalls
  /\ Goes(t, "idle", "prefix")
  /\ Begin(t, l)
  /\ logLevel_' = Call(t)'
  /\ UNCHANGED <<tm, line, lines>>

\* log(): the switch on logLevel_.
Prefix(t) ==
  /\ Goes(t, "prefix", "convert")
  /\ line' = [line EXCEPT ![t].pre = logLevel_]
  /\ UNCHANGED <<logLevel_, tm, lines, local>>

\* toString(): localtime() fills its struct ...
ConvertDate(t) ==
  /\ Goes(t, "convert", "converting")
  /\ tm' = [tm EXCEPT !.date = Call(t)]
  /\ UNCHANGED <<logLevel_, line, lines, local>>

ConvertTime(t) ==
  /\ Goes(t, "converting", "format")
  /\ tm' = [tm EXCEPT !.time = Call(t)]
  /\ UNCHANGED <<logLevel_, line, lines, local>>

\* ... and snprintf() reads it.
FormatDate(t) ==
  /\ Goes(t, "format", "formatting")
  /\ line' = [line EXCEPT ![t].date = tm.date]
  /\ UNCHANGED <<logLevel_, tm, lines, local>>

FormatTime(t) ==
  /\ Goes(t, "formatting", "print")
  /\ line' = [line EXCEPT ![t].time = tm.time]
  /\ UNCHANGED <<logLevel_, tm, lines, local>>

\* The line goes to cout.  LOG_FATAL then calls exit(-1); the other threads go
\* on until the process is gone.
PrintLine(t) ==
  /\ Goes(t, "print", IF level[t] = "FATAL" THEN "exit" ELSE "idle")
  /\ lines' = lines \cup {[call |-> Call(t), shows |-> line[t], overlap |-> overlap[t]]}
  /\ UNCHANGED <<logLevel_, tm, line, local>>

Next ==
  \E t \in Threads :
    \/ \E l \in Levels : Macro(t, l)
    \/ Prefix(t)
    \/ ConvertDate(t) \/ ConvertTime(t)
    \/ FormatDate(t) \/ FormatTime(t)
    \/ PrintLine(t)

Spec == Init /\ [][Next]_vars

-----------------------------------------------------------------------------
(***************************************************************************)
(* Properties.                                                             *)
(***************************************************************************)

\* What is printed of shared state is never older than the call: prefix, date
\* and time of a line come each from its own call or from one that overlapped
\* it, so that a program that logs from one thread prints its own level.
NothingStale ==
  \A l \in lines :
    {l.shows.pre, l.shows.date, l.shows.time} \subseteq l.overlap
=============================================================================
