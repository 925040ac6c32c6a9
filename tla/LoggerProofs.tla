----------------------------- MODULE LoggerProofs -----------------------------
(***************************************************************************)
(* Proofs about Logger: what a line shows of the state that all calls      *)
(* share, for any number of threads and calls.                             *)
(***************************************************************************)
EXTENDS Logger, TLAPS

Calls == (Threads \X Nat) \cup {NoCall}

\* The steps of a call, from its macro to its line.
Steps == {"prefix", "convert", "converting", "format", "formatting", "print"}

TypeOK ==
  /\ logLevel_ \in Calls
  /\ tm \in [date : Calls, time : Calls]
  /\ at \in [Threads -> Steps \cup {"idle", "exit"}]
  /\ made \in [Threads -> Nat]
  /\ line \in [Threads -> [pre : Calls, date : Calls, time : Calls]]
  /\ overlap \in [Threads -> SUBSET Calls]

\* Two calls that are under way know of each other.
Mutual == \A t, u \in Active : Call(u) \in overlap[t]

\* What a call under way has collected, and what it would collect of the shared
\* state from where it stands, comes from a call that it overlaps: its own
\* macro and its own conversion have written there, and whoever has written
\* after it was under way at the same time.
Fresh ==
  \A t \in Active :
    /\ logLevel_ \in overlap[t]
    /\ at[t] # "prefix" => line[t].pre \in overlap[t]
    /\ at[t] \in {"converting", "format", "formatting", "print"} =>
         tm.date \in overlap[t]
    /\ at[t] \in {"format", "formatting", "print"} => tm.time \in overlap[t]
    /\ at[t] \in {"formatting", "print"} => line[t].date \in overlap[t]
    /\ at[t] = "print" => line[t].time \in overlap[t]

LineInv == TypeOK /\ Mutual /\ Fresh /\ NothingStale

-----------------------------------------------------------------------------

\* The threads inside a macro are those at one of its steps.
LEMMA ActiveSteps ==
  ASSUME TypeOK
  PROVE  Active = {t \in Threads : at[t] \in Steps}
BY DEF TypeOK, Active, Steps

\* No macro is running at first,
LEMMA InitType == Init => TypeOK
BY DEF Init, TypeOK, Calls, NoCall

\* and nothing is overlapped.
LEMMA InitLine == Init => LineInv
<1> SUFFICES ASSUME Init PROVE LineInv OBVIOUS
<1>1. Active = {} BY DEF Init, Active
<1>2. lines = {} BY DEF Init
<1> QED BY <1>1, <1>2, InitType DEF LineInv, Mutual, Fresh, NothingStale

\* The call that t makes next, or is making.
LEMMA CallType ==
  ASSUME TypeOK, NEW t \in Threads
  PROVE  Call(t) \in Calls /\ <<t, made[t] + 1>> \in Calls
BY DEF TypeOK, Call, Calls

-----------------------------------------------------------------------------
(***************************************************************************)
(* A macro begins.                                                         *)
(***************************************************************************)

\* It adds its call to the overlap of each call under way, and all of theirs to
\* its own.
LEMMA BeginFacts ==
  ASSUME TypeOK, NEW t \in Threads, NEW l \in Levels, Macro(t, l)
  PROVE  /\ TypeOK'
         /\ t \notin Active
         /\ Active' = Active \cup {t}
         /\ Call(t)' = <<t, made[t] + 1>>
         /\ \A u \in Active : Call(u)' = Call(u)
         /\ overlap'[t] = {Call(t)'} \cup {Call(u) : u \in Active}
         /\ \A u \in Active : overlap'[u] = overlap[u] \cup {Call(t)'}
         /\ at'[t] = "prefix"
         /\ \A u \in Active : at'[u] = at[u]
<1>1. /\ at[t] = "idle"
      /\ at' = [at EXCEPT ![t] = "prefix"]
      /\ made' = [made EXCEPT ![t] = @ + 1]
      /\ logLevel_' = Call(t)'
      /\ UNCHANGED <<tm, line, lines>>
  BY DEF Macro, Goes, Begin
<1>2. t \notin Active BY <1>1 DEF Active
<1>3. Active' = Active \cup {t} BY <1>1 DEF TypeOK, Active
<1>4. made'[t] = made[t] + 1 /\ \A u \in Active : made'[u] = made[u]
  BY <1>1, <1>2 DEF TypeOK, Active
<1>5. Call(t)' = <<t, made[t] + 1>> /\ \A u \in Active : Call(u)' = Call(u)
  BY <1>4 DEF Call
<1>6. overlap' = [u \in Threads |->
                   IF u = t THEN {<<t, made[t] + 1>>} \cup {Call(a) : a \in Active}
                   ELSE IF u \in Active THEN overlap[u] \cup {<<t, made[t] + 1>>}
                   ELSE overlap[u]]
  BY DEF Macro, Begin
<1>7. overlap'[t] = {Call(t)'} \cup {Call(u) : u \in Active}
  BY <1>5, <1>6
<1>8. \A u \in Active : overlap'[u] = overlap[u] \cup {Call(t)'}
  BY <1>2, <1>5, <1>6 DEF Active
<1>9. overlap' \in [Threads -> SUBSET Calls]
  <2>1. Active \subseteq Threads BY DEF Active
  <2>2. {Call(a) : a \in Active} \subseteq Calls BY <2>1, CallType
  <2>3. <<t, made[t] + 1>> \in Calls BY CallType
  <2>4. \A u \in Threads : overlap[u] \subseteq Calls BY DEF TypeOK
  <2> QED BY <1>6, <2>2, <2>3, <2>4
<1>10. Call(t)' \in Calls BY <1>5, CallType
<1>11. TypeOK'
  <2>1. at' \in [Threads -> Steps \cup {"idle", "exit"}]
    BY <1>1 DEF TypeOK, Steps
  <2>2. made' \in [Threads -> Nat] BY <1>1 DEF TypeOK
  <2> QED BY <1>1, <1>9, <1>10, <2>1, <2>2 DEF TypeOK
<1>12. at'[t] = "prefix" /\ \A u \in Active : at'[u] = at[u]
  BY <1>1, <1>2 DEF TypeOK, Active
<1> QED BY <1>2, <1>3, <1>5, <1>7, <1>8, <1>11, <1>12

\* A LOG_ macro begins: its call overlaps those that are running.
LEMMA MacroLine ==
  ASSUME LineInv, NEW t \in Threads, NEW l \in Levels, Macro(t, l)
  PROVE  LineInv'
<1>1. TypeOK BY DEF LineInv
<1>2. Mutual'
  <2> SUFFICES ASSUME NEW u \in Active', NEW v \in Active'
               PROVE  Call(v)' \in overlap'[u]
    BY DEF Mutual
  <2>1. CASE u = t /\ v = t BY <2>1, <1>1, BeginFacts
  <2>2. CASE u = t /\ v # t
    <3>1. v \in Active BY <2>2, <1>1, BeginFacts
    <3>2. Call(v)' \in {Call(a) : a \in Active} BY <3>1, <1>1, BeginFacts
    <3> QED BY <2>2, <3>2, <1>1, BeginFacts
  <2>3. CASE u # t /\ v = t BY <2>3, <1>1, BeginFacts
  <2>4. CASE u # t /\ v # t
    <3>1. u \in Active /\ v \in Active BY <2>4, <1>1, BeginFacts
    <3>2. Call(v)' \in overlap[u] BY <3>1, <1>1, BeginFacts DEF LineInv, Mutual
    <3> QED BY <3>1, <3>2, <1>1, BeginFacts
  <2> QED BY <2>1, <2>2, <2>3, <2>4
<1>3. Fresh'
  <2>1. logLevel_' = Call(t)' /\ tm' = tm /\ line' = line BY DEF Macro
  <2> SUFFICES ASSUME NEW u \in Active'
               PROVE  /\ logLevel_' \in overlap'[u]
                      /\ at'[u] # "prefix" => line'[u].pre \in overlap'[u]
                      /\ at'[u] \in {"converting", "format", "formatting", "print"} =>
                           tm'.date \in overlap'[u]
                      /\ at'[u] \in {"format", "formatting", "print"} =>
                           tm'.time \in overlap'[u]
                      /\ at'[u] \in {"formatting", "print"} =>
                           line'[u].date \in overlap'[u]
                      /\ at'[u] = "print" => line'[u].time \in overlap'[u]
    BY DEF Fresh
  <2>2. CASE u = t
    <3>1. at'[u] = "prefix" BY <2>2, <1>1, BeginFacts
    <3>2. Call(t)' \in overlap'[u] BY <2>2, <1>1, BeginFacts
    <3> QED BY <2>1, <3>1, <3>2
  <2>3. CASE u # t
    <3>1. u \in Active /\ at'[u] = at[u] BY <2>3, <1>1, BeginFacts
    <3>2. overlap'[u] = overlap[u] \cup {Call(t)'} BY <3>1, <1>1, BeginFacts
    <3> QED BY <2>1, <3>1, <3>2 DEF LineInv, Fresh
  <2> QED BY <2>2, <2>3
<1>4. NothingStale' BY DEF Macro, LineInv, NothingStale
<1> QED BY <1>1, <1>2, <1>3, <1>4, BeginFacts DEF LineInv

-----------------------------------------------------------------------------
(***************************************************************************)
(* A call goes on: no call is added, and every overlap stays as it is.     *)
(***************************************************************************)

\* The steps of a call after its macro.
GoesOn(t) ==
  \/ Prefix(t)
  \/ ConvertDate(t) \/ ConvertTime(t)
  \/ FormatDate(t) \/ FormatTime(t)
  \/ PrintLine(t)

\* A call goes on: what it leaves to the other threads.
LEMMA StepFacts ==
  ASSUME LineInv, NEW t \in Threads, GoesOn(t)
  PROVE  /\ t \in Active
         /\ Active' \subseteq Active
         /\ UNCHANGED local
         /\ \A u \in Threads : u # t => at'[u] = at[u]
         /\ Call(t) \in overlap[t]
         /\ Mutual'
<1>1. /\ at[t] \in Steps
      /\ \E to \in Steps \cup {"idle", "exit"} : at' = [at EXCEPT ![t] = to]
      /\ UNCHANGED local
  BY DEF GoesOn, Prefix, ConvertDate, ConvertTime, FormatDate, FormatTime,
         PrintLine, Goes, Steps
<1>2. t \in Active BY <1>1 DEF Active, Steps
<1>3. \A u \in Threads : u # t => at'[u] = at[u]
  BY <1>1 DEF LineInv, TypeOK
<1>4. Active' \subseteq Active BY <1>2, <1>3 DEF Active
<1>5. \A u \in Threads : Call(u)' = Call(u) BY <1>1 DEF local, Call
<1>6. Call(t) \in overlap[t] BY <1>2 DEF LineInv, Mutual
<1>7. Mutual' BY <1>1, <1>4, <1>5 DEF LineInv, Mutual, local, Active
<1> QED BY <1>1, <1>2, <1>3, <1>4, <1>6, <1>7

\* A call goes on, within its types.
LEMMA StepType ==
  ASSUME TypeOK, NEW t \in Threads, GoesOn(t)
  PROVE  TypeOK'
<1>1. Call(t) \in Calls BY CallType
<1>2. CASE Prefix(t)
  BY <1>2 DEF Prefix, Goes, TypeOK, Steps, local
<1>3. CASE ConvertDate(t) \/ ConvertTime(t)
  BY <1>1, <1>3 DEF ConvertDate, ConvertTime, Goes, TypeOK, Steps, local
<1>4. CASE FormatDate(t) \/ FormatTime(t)
  <2>1. tm.date \in Calls /\ tm.time \in Calls BY DEF TypeOK
  <2>2. CASE FormatDate(t)
    BY <2>1, <2>2 DEF FormatDate, Goes, TypeOK, Steps, local
  <2>3. CASE FormatTime(t)
    BY <2>1, <2>3 DEF FormatTime, Goes, TypeOK, Steps, local
  <2> QED BY <1>4, <2>2, <2>3
<1>5. CASE PrintLine(t)
  BY <1>5 DEF PrintLine, Goes, TypeOK, Steps, local
<1> QED BY <1>2, <1>3, <1>4, <1>5 DEF GoesOn

\* What a call reads was written by itself or by one it overlaps.
LEMMA StepFresh ==
  ASSUME LineInv, NEW t \in Threads, GoesOn(t)
  PROVE  Fresh' /\ NothingStale'
<1>1. /\ t \in Active
      /\ \A u \in Active' : u \in Active
      /\ UNCHANGED overlap
      /\ \A u \in Active : u # t => at'[u] = at[u]
      /\ \A u \in Active : Call(t) \in overlap[u]
  BY StepFacts DEF local, LineInv, Mutual, Active
<1>2. CASE Prefix(t)
  BY <1>1, <1>2 DEF Prefix, Goes, LineInv, TypeOK, Fresh, NothingStale, Active
<1>3. CASE ConvertDate(t)
  BY <1>1, <1>3 DEF ConvertDate, Goes, LineInv, TypeOK, Fresh, NothingStale, Active
<1>4. CASE ConvertTime(t)
  BY <1>1, <1>4 DEF ConvertTime, Goes, LineInv, TypeOK, Fresh, NothingStale, Active
<1>5. CASE FormatDate(t)
  BY <1>1, <1>5 DEF FormatDate, Goes, LineInv, TypeOK, Fresh, NothingStale, Active
<1>6. CASE FormatTime(t)
  BY <1>1, <1>6 DEF FormatTime, Goes, LineInv, TypeOK, Fresh, NothingStale, Active
<1>7. CASE PrintLine(t)
  <2>1. at[t] = "print" BY <1>7 DEF PrintLine, Goes
  <2>2. {line[t].pre, line[t].date, line[t].time} \subseteq overlap[t]
    BY <1>1, <2>1 DEF LineInv, Fresh
  <2>3. NothingStale' BY <1>7, <2>2 DEF PrintLine, LineInv, NothingStale
  <2>4. t \notin Active'
    BY <1>7 DEF PrintLine, Goes, LineInv, TypeOK, Active
  <2>5. Fresh' BY <1>1, <1>7, <2>4 DEF PrintLine, LineInv, Fresh
  <2> QED BY <2>3, <2>5
<1> QED BY <1>2, <1>3, <1>4, <1>5, <1>6, <1>7 DEF GoesOn

-----------------------------------------------------------------------------

\* Every step.
LEMMA NextLine ==
  ASSUME LineInv, [Next]_vars
  PROVE  LineInv'
<1>1. ASSUME NEW t \in Threads, NEW l \in Levels, Macro(t, l)
      PROVE  LineInv'
  BY <1>1, MacroLine
<1>2. ASSUME NEW t \in Threads, GoesOn(t)
      PROVE  LineInv'
  BY <1>2, StepType, StepFacts, StepFresh DEF LineInv
<1>3. CASE UNCHANGED vars
  BY <1>3
  DEF vars, local, LineInv, TypeOK, Mutual, Fresh, NothingStale, Active, Call
<1> QED BY <1>1, <1>2, <1>3 DEF Next, GoesOn

\* Whatever threads log at once, a line shows the level and the time of its own
\* call or of one that was under way with it, never of an older one.
THEOREM LinesAreFresh == Spec => []NothingStale
<1>1. Init => LineInv BY InitLine
<1>2. LineInv /\ [Next]_vars => LineInv' BY NextLine
<1>3. LineInv => NothingStale BY DEF LineInv
<1> QED BY <1>1, <1>2, <1>3, PTL DEF Spec
=============================================================================
