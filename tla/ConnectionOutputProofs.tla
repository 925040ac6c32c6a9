----------------------- MODULE ConnectionOutputProofs -----------------------
(***************************************************************************)
(* For any way to use a connection, any sizes and any number of messages:  *)
(* the types; and, for the ways in which each of them is promised, that    *)
(* the FIN is graceful, that a closed channel stays out of the poller, and *)
(* that messages keep their order: TcpConnection implements OutputStream.  *)
(***************************************************************************)
EXTENDS ConnectionOutput, SequenceTheorems, TLAPS

(***************************************************************************)
(* The ways to use a connection for which a promise is kept.               *)
(***************************************************************************)

\* No other thread stores kDisconnecting while a string it has sent is queued.
ClosesCleanly == usage.awaits \/ ~({"send", "shutdown"} \subseteq usage.user)

\* A thread that shuts down has nothing in a functor that it has sent before.
ShutsDownCleanly ==
  \/ usage.awaits
  \/ /\ ~({"sendFile", "shutdown"} \subseteq usage.loop)
     /\ "shutdown" \in usage.user => usage.user = {"shutdown"}

\* A file does not have to share the socket with other messages.
Streams == usage.awaits \/ "sendFile" \notin usage.loop \cup usage.user

-----------------------------------------------------------------------------
(***************************************************************************)
(* The inductive invariant.  First what holds for every usage.             *)
(***************************************************************************)

Functors == [op : Ops, data : Seq(AllBytes)]

Ready == ToSet(ToRun)

RoundInv == phase = "events" => batch = <<>> /\ ran = 0

CallsInv ==
  calls + (IF user \in {"send", "sendFile"} THEN 1 ELSE 0) <= usage.max

\* index_ and the kernel agree, and the channel asks for EPOLLOUT while there
\* is something to write.  A FIN leaves nothing to write.
PollerInv ==
  /\ poller.index[Conn] = "kAdded" <=> Registered
  /\ removal = "none" => /\ IsWriting <=> outputBuffer_ # <<>>
                         /\ fin => outputBuffer_ = <<>>

\* What state_ has to do with the closing and the shutting down.
StateInv ==
  /\ state_ = "kDisconnected" => removal # "none"
  /\ state_ = "kConnected" =>
       /\ removal = "none"
       /\ ~fin
       /\ user # "stored"
       /\ \A f \in Ready : f.op # "shutdownInLoop"
  /\ \A f \in Ready : f.op = "connectDestroyed" => removal # "none"

\* The functors, the other thread and the messages are what the usage says.
UsageInv ==
  /\ user \in Calls => user \in usage.user
  /\ user = "stored" => "shutdown" \in usage.user
  /\ \A f \in Ready :
       /\ f.op = "sendInLoop" => "send" \in usage.user
       /\ f.op = "sendFileInLoop" => "sendFile" \in usage.loop \cup usage.user
  /\ \A m \in SentBy("user") : usage.user \cap {"send", "sendFile"} # {}

\* What a functor that sends is bound to.
DataInv ==
  \A f \in Ready :
    /\ f.op = "sendInLoop" => \E m \in 1 .. calls : f.data = Data(m)
    /\ f.op = "sendFileInLoop" => f.data # <<>>

\* Strings wait in the order in which they were sent.
Ascending(q) ==
  \A i, j \in 1 .. Len(q) :
    i < j /\ q[i].op = "sendInLoop" /\ q[j].op = "sendInLoop" =>
      q[i].data[1][1] < q[j].data[1][1]

OrderInv == Ascending(ToRun)

-----------------------------------------------------------------------------
(***************************************************************************)
(* Then what holds because of how the connection is used.                  *)
(***************************************************************************)

\* Once closed, the channel is out of the poller, and no sendInLoop() that
\* could bring it back finds anything but kDisconnected.
ClosedInv ==
  ClosesCleanly /\ removal # "none" =>
    /\ poller.index[Conn] # "kAdded"
    /\ state_ # "kDisconnected" =>
         user # "send" /\ \A f \in Ready : f.op # "sendInLoop"

\* The functors that have bytes to send, and those with writeComplete.
Carriers == {"sendInLoop", "sendFileInLoop"}
Awaited == Carriers \cup {"writeComplete"}

NoneAwaited(q) == \A i \in 1 .. Len(q) : q[i].op \notin Awaited

OneAwaited(q) ==
  \A i, j \in 1 .. Len(q) : q[i].op \in Awaited /\ q[j].op \in Awaited => i = j

\* A message that is awaited is in one functor, or in outputBuffer_.
OneInv ==
  usage.awaits =>
    /\ user # "idle" => ~awaiting
    /\ ~awaiting => outputBuffer_ = <<>>
    /\ ~awaiting \/ outputBuffer_ # <<>> => NoneAwaited(ToRun)
    /\ OneAwaited(ToRun)

Intact == removal = "none" /\ peer # "reset"

\* An intact connection that is not shut down is connected, and what was sent
\* on it is somewhere.
SentInv ==
  usage.awaits /\ Intact =>
    /\ state_ # "kConnected" => ~awaiting /\ user \notin Calls
    /\ \A b \in (1 .. calls) \X (1 .. Size) :
         \/ b \in ToSet(wire) \cup ToSet(outputBuffer_)
         \/ \E f \in Ready : /\ f.op \in Carriers
                             /\ b \in ToSet(f.data)

\* The same of the messages of the IO thread, when it sends strings only.
LoopSentInv ==
  "sendFile" \notin usage.loop /\ Intact =>
    \A b \in SentBy("loop") \X (1 .. Size) :
      b \in ToSet(wire) \cup ToSet(outputBuffer_)

PromisedInv ==
  ShutsDownCleanly /\ ~usage.awaits =>
    /\ promised \subseteq SentBy("loop")
    /\ "shutdown" \notin usage.loop => promised = {}

IInv ==
  /\ TypeOK /\ RoundInv /\ CallsInv /\ PollerInv /\ StateInv /\ UsageInv
  /\ DataInv /\ OrderInv
  /\ ClosedInv /\ OneInv /\ SentInv /\ LoopSentInv /\ PromisedInv

-----------------------------------------------------------------------------
(***************************************************************************)
(* Sequences as sets, the functors as a queue, the poller's operations.    *)
(***************************************************************************)

\* The elements of a queue that grows at its end and is used up at its front.
LEMMA ToSetFacts ==
  ASSUME NEW S, NEW s \in Seq(S)
  PROVE  /\ ToSet(s) \subseteq S
         /\ \A e \in S : ToSet(Append(s, e)) = ToSet(s) \cup {e}
         /\ \A t \in Seq(S) : ToSet(s \o t) = ToSet(s) \cup ToSet(t)
         /\ s # <<>> => /\ Head(s) \in ToSet(s)
                        /\ ToSet(s) = {Head(s)} \cup ToSet(Tail(s))
<1>1. ToSet(s) \subseteq S BY DEF ToSet
<1>2. ASSUME NEW e \in S PROVE ToSet(Append(s, e)) = ToSet(s) \cup {e}
  <2>1. ASSUME NEW x PROVE x \in ToSet(s) \cup {e} => x \in ToSet(Append(s, e))
    <3>1. CASE x = e
      <4>1. Append(s, e)[Len(s) + 1] = e /\ Len(s) + 1 \in DOMAIN Append(s, e)
        OBVIOUS
      <4> QED BY <3>1, <4>1 DEF ToSet
    <3>2. ASSUME x \in ToSet(s) PROVE x \in ToSet(Append(s, e))
      <4>1. PICK i \in DOMAIN s : s[i] = x BY <3>2 DEF ToSet
      <4>2. Append(s, e)[i] = x /\ i \in DOMAIN Append(s, e) BY <4>1
      <4> QED BY <4>2 DEF ToSet
    <3> QED BY <3>1, <3>2
  <2>2. ToSet(Append(s, e)) \subseteq ToSet(s) \cup {e} BY DEF ToSet
  <2> QED BY <2>1, <2>2
<1>3. ASSUME NEW t \in Seq(S) PROVE ToSet(s \o t) = ToSet(s) \cup ToSet(t)
  <2>1. ASSUME NEW x PROVE x \in ToSet(s) \cup ToSet(t) => x \in ToSet(s \o t)
    <3>1. ASSUME x \in ToSet(s) PROVE x \in ToSet(s \o t)
      <4>1. PICK i \in DOMAIN s : s[i] = x BY <3>1 DEF ToSet
      <4>2. (s \o t)[i] = x /\ i \in DOMAIN (s \o t) BY <4>1
      <4> QED BY <4>2 DEF ToSet
    <3>2. ASSUME x \in ToSet(t) PROVE x \in ToSet(s \o t)
      <4>1. PICK i \in DOMAIN t : t[i] = x BY <3>2 DEF ToSet
      <4>2. (s \o t)[Len(s) + i] = x /\ Len(s) + i \in DOMAIN (s \o t) BY <4>1
      <4> QED BY <4>2 DEF ToSet
    <3> QED BY <3>1, <3>2
  <2>2. ToSet(s \o t) \subseteq ToSet(s) \cup ToSet(t) BY DEF ToSet
  <2> QED BY <2>1, <2>2
<1>4. ASSUME s # <<>> PROVE /\ Head(s) \in ToSet(s)
                            /\ ToSet(s) = {Head(s)} \cup ToSet(Tail(s))
  <2>1. Head(s) \in ToSet(s)
    <3>1. Head(s) = s[1] /\ 1 \in DOMAIN s BY <1>4
    <3> QED BY <3>1 DEF ToSet
  <2>2. ASSUME NEW x \in ToSet(s), x # Head(s) PROVE x \in ToSet(Tail(s))
    <3>1. PICK i \in DOMAIN s : s[i] = x BY DEF ToSet
    <3>2. i # 1 BY <1>4, <2>2, <3>1
    <3>3. Tail(s)[i - 1] = x /\ i - 1 \in DOMAIN Tail(s) BY <1>4, <3>1, <3>2
    <3> QED BY <3>3 DEF ToSet
  <2>3. ToSet(Tail(s)) \subseteq ToSet(s) BY <1>4 DEF ToSet
  <2> QED BY <2>1, <2>2, <2>3
<1> QED BY <1>1, <1>2, <1>3, <1>4

\* What a round has still to run of its functors.
LEMMA RestFacts ==
  ASSUME NEW S, NEW s \in Seq(S), NEW r \in 0 .. Len(s)
  PROVE  /\ SubSeq(s, r + 1, Len(s)) \in Seq(S)
         /\ Len(SubSeq(s, r + 1, Len(s))) = Len(s) - r
         /\ r = Len(s) => SubSeq(s, r + 1, Len(s)) = <<>>
         /\ r = 0 => SubSeq(s, r + 1, Len(s)) = s
         /\ r < Len(s) =>
              /\ s[r + 1] \in S
              /\ SubSeq(s, r + 1, Len(s)) # <<>>
              /\ Head(SubSeq(s, r + 1, Len(s))) = s[r + 1]
              /\ Tail(SubSeq(s, r + 1, Len(s))) = SubSeq(s, r + 1 + 1, Len(s))
<1>1. Len(s) \in Nat /\ r \in Nat /\ r <= Len(s) BY LenProperties
<1>2. \A i \in r + 1 .. Len(s) : s[i] \in S BY <1>1, ElementOfSeq
<1>3. /\ SubSeq(s, r + 1, Len(s)) \in Seq(S)
      /\ Len(SubSeq(s, r + 1, Len(s))) = Len(s) - r
  BY <1>1, <1>2, SubSeqProperties
<1>4. r = Len(s) => SubSeq(s, r + 1, Len(s)) = <<>> BY <1>1, SubSeqEmpty
<1>5. r = 0 => SubSeq(s, r + 1, Len(s)) = s BY SubSeqFull
<1>6. ASSUME r < Len(s)
      PROVE  /\ s[r + 1] \in S
             /\ SubSeq(s, r + 1, Len(s)) # <<>>
             /\ Head(SubSeq(s, r + 1, Len(s))) = s[r + 1]
             /\ Tail(SubSeq(s, r + 1, Len(s))) = SubSeq(s, r + 1 + 1, Len(s))
  <2>1. r + 1 \in 1 .. Len(s) /\ Len(s) \in r + 1 .. Len(s) BY <1>1, <1>6
  <2>2. SubSeq(s, r + 1, Len(s)) # <<>>
    <3> DEFINE t == SubSeq(s, r + 1, Len(s))
    <3>1. Len(t) # 0 BY <1>1, <1>3, <1>6
    <3> HIDE DEF t
    <3>2. t # <<>> BY <3>1
    <3> QED BY <3>2 DEF t
  <2> QED BY <1>2, <2>1, <2>2, HeadTailOfSubSeq
<1> QED BY <1>3, <1>4, <1>5, <1>6

\* Two queues, one behind the other, are one queue.
LEMMA QueueFacts ==
  ASSUME NEW S, NEW p \in Seq(S), NEW q \in Seq(S), NEW e \in S
  PROVE  /\ p \o Append(q, e) = Append(p \o q, e)
         /\ p # <<>> => /\ p \o q # <<>>
                        /\ Head(p \o q) = Head(p)
                        /\ Tail(p \o q) = Tail(p) \o q
OBVIOUS

\* What the loop has to run is a queue of functors.
LEMMA ToRunType == ASSUME TypeOK PROVE ToRun \in Seq(Functors)
<1>1. /\ batch \in Seq(Functors) /\ pending \in Seq(Functors)
      /\ ran \in 0 .. Len(batch)
  BY DEF TypeOK, Functors
<1>2. SubSeq(batch, ran + 1, Len(batch)) \in Seq(Functors) BY <1>1, RestFacts
<1> QED BY <1>1, <1>2, ConcatProperties DEF ToRun

\* queueInLoop() puts a functor behind those that are to run.
LEMMA QueueStep ==
  ASSUME TypeOK, UNCHANGED <<batch, ran>>, NEW f \in Functors,
         pending' = Append(pending, f)
  PROVE  ToRun' = Append(ToRun, f) /\ Ready' = Ready \cup {f}
<1>1. /\ batch \in Seq(Functors) /\ pending \in Seq(Functors)
      /\ ran \in 0 .. Len(batch)
  BY DEF TypeOK, Functors
<1> DEFINE b == SubSeq(batch, ran + 1, Len(batch))
<1>2. b \in Seq(Functors) BY <1>1, RestFacts
<1>3. ToRun = b \o pending /\ ToRun' = b \o Append(pending, f) BY DEF ToRun
<1> HIDE DEF b
<1>4. ToRun' = Append(ToRun, f)
  <2>1. b \o Append(pending, f) = Append(b \o pending, f)
    BY <1>1, <1>2, QueueFacts
  <2> QED BY Zenon, <1>3, <2>1
<1>5. Ready' = ToSet(Append(ToRun, f)) BY <1>4 DEF Ready
<1> QED BY <1>4, <1>5, ToRunType, ToSetFacts DEF Ready

\* Whoever leaves the three variables of the queue alone leaves the queue.
LEMMA SameStep ==
  ASSUME UNCHANGED <<pending, batch, ran>>
  PROVE  ToRun' = ToRun /\ Ready' = Ready
BY DEF ToRun, Ready

\* doPendingFunctors() moves them and runs them from the front.
LEMMA RunStep ==
  ASSUME TypeOK, ran < Len(batch), ran' = ran + 1, batch' = batch
  PROVE  /\ batch[ran'] \in Functors
         /\ ToRun # <<>>
         /\ Head(ToRun) = batch[ran']
         /\ pending' = pending => ToRun' = Tail(ToRun)
         /\ \A f \in Functors : pending' = Append(pending, f) =>
              ToRun' = Append(Tail(ToRun), f)
<1> DEFINE b == SubSeq(batch, ran + 1, Len(batch))
           c == SubSeq(batch, ran + 1 + 1, Len(batch))
<1>1. /\ batch \in Seq(Functors) /\ pending \in Seq(Functors)
      /\ ran \in 0 .. Len(batch)
  BY DEF TypeOK, Functors
<1>2. /\ b \in Seq(Functors) /\ b # <<>> /\ Head(b) = batch[ran + 1]
      /\ Tail(b) = c /\ batch[ran + 1] \in Functors
  BY <1>1, RestFacts
<1>3. ToRun = b \o pending BY DEF ToRun
<1>4. ToRun' = c \o pending' BY DEF ToRun
<1> HIDE DEF b, c
<1>5. c \in Seq(Functors) BY <1>2, HeadTailProperties
<1>6. /\ ToRun # <<>> /\ Head(ToRun) = Head(b)
      /\ Tail(ToRun) = c \o pending
  BY <1>1, <1>2, <1>3, QueueFacts, ZenonT(30)
<1>7. ASSUME NEW f \in Functors, pending' = Append(pending, f)
      PROVE  ToRun' = Append(Tail(ToRun), f)
  <2>1. c \o Append(pending, f) = Append(c \o pending, f)
    BY <1>1, <1>5, QueueFacts
  <2> QED BY Zenon, <1>4, <1>6, <1>7, <2>1
<1> QED BY <1>2, <1>4, <1>6, <1>7

\* A round begins and ends without a change of what is to run.
LEMMA RoundStep ==
  ASSUME TypeOK, RoundInv, TakeFunctors \/ EndRound
  PROVE  ToRun' = ToRun /\ Ready' = Ready
<1>1. /\ batch \in Seq(Functors) /\ pending \in Seq(Functors)
      /\ ran \in 0 .. Len(batch)
  BY DEF TypeOK, Functors
<1>2. CASE TakeFunctors
  <2>1. /\ batch = <<>> /\ ran = 0
        /\ batch' = pending /\ ran' = 0 /\ pending' = <<>>
    BY <1>2 DEF TakeFunctors, RoundInv
  <2>2. ToRun = pending
    <3>1. SubSeq(batch, ran + 1, Len(batch)) = <<>> BY <1>1, <2>1, RestFacts
    <3> QED BY <1>1, <3>1, ConcatEmptySeq DEF ToRun
  <2>3. ToRun' = SubSeq(pending, 0 + 1, Len(pending)) \o <<>> BY <2>1 DEF ToRun
  <2>4. SubSeq(pending, 0 + 1, Len(pending)) = pending
    BY <1>1, SubSeqFull
  <2>5. ToRun' = ToRun BY <1>1, <2>2, <2>3, <2>4, ConcatEmptySeq
  <2> QED BY <2>5 DEF Ready
<1>3. CASE EndRound
  <2>1. ran = Len(batch) /\ batch' = <<>> /\ ran' = 0 /\ pending' = pending
    BY <1>3 DEF EndRound
  <2>2. SubSeq(batch, ran + 1, Len(batch)) = <<>> BY <1>1, <2>1, RestFacts
  <2>3. ToRun' = SubSeq(<<>>, 0 + 1, Len(<<>>)) \o pending BY <2>1 DEF ToRun
  <2>4. SubSeq(<<>>, 0 + 1, Len(<<>>)) = <<>> BY SubSeqEmpty, EmptySeq
  <2>5. ToRun' = ToRun BY <2>2, <2>3, <2>4 DEF ToRun
  <2> QED BY <2>5 DEF Ready
<1> QED BY <1>2, <1>3

\* Channel::update(): the events are what was asked for, and index_ follows.
LEMMA SetEventsFields ==
  ASSUME NEW p \in P!Pollers, NEW ev \in SUBSET P!Events,
         p.index[Conn] = "kAdded" <=> p.ptr["fd"] = Conn
  PROVE  LET q == P!SetEvents(p, Conn, ev) IN
         /\ q \in P!Pollers
         /\ q.events[Conn] = ev
         /\ q.index[Conn] = "kAdded" <=> q.ptr["fd"] = Conn
         /\ p.ptr["fd"] = Conn /\ ev = {} => q.index[Conn] # "kAdded"
BY ZenonT(60)
   DEF P!SetEvents, P!UpdateChannel, P!CtlAdd, P!CtlDel, P!CtlMod, P!Register,
       P!Unregister, P!Pollers, P!Index, P!Events, Conn

\* removeChannel(): the channel is out of the poller and keeps its events_.
LEMMA RemoveFields ==
  ASSUME NEW p \in P!Pollers, p.index[Conn] = "kAdded" <=> p.ptr["fd"] = Conn
  PROVE  LET q == P!RemoveChannel(p, Conn) IN
         /\ q \in P!Pollers
         /\ q.events = p.events
         /\ q.index[Conn] = "kNew"
         /\ q.ptr["fd"] # Conn
BY DEF P!RemoveChannel, P!CtlDel, P!Unregister, P!Pollers, P!Index, P!Events, Conn

-----------------------------------------------------------------------------
(***************************************************************************)
(* What sendInLoop() and sendFileInLoop() do with their bytes: a part goes *)
(* to the socket and the rest is kept, or all of it is dropped.            *)
(***************************************************************************)

\* A message is what was taken of it and the rest.
LEMMA SplitFacts ==
  ASSUME NEW S, NEW s \in Seq(S), NEW n \in 0 .. Len(s)
  PROVE  /\ First(s, n) \in Seq(S) /\ Rest(s, n) \in Seq(S)
         /\ s = First(s, n) \o Rest(s, n)
         /\ Len(First(s, n)) = n
         /\ First(s, n) = <<>> <=> n = 0
         /\ Rest(s, n) = <<>> <=> n = Len(s)
<1>1. Len(s) \in Nat /\ n \in Nat /\ n <= Len(s) BY LenProperties
<1>2. Rest(s, n) \in Seq(S) /\ Len(Rest(s, n)) = Len(s) - n
  BY RestFacts DEF Rest
<1>3. First(s, n) \in Seq(S) /\ Len(First(s, n)) = n
  <2>1. \A i \in 1 .. n : s[i] \in S BY <1>1, ElementOfSeq
  <2> QED BY <1>1, <2>1, SubSeqProperties DEF First
<1>4. First(s, n) \o Rest(s, n) = s
  <2>1. 1 \in 1 .. Len(s) + 1 /\ n \in 1 - 1 .. Len(s) /\ Len(s) \in n .. Len(s)
    BY <1>1
  <2>2. SubSeq(s, 1, n) \o SubSeq(s, n + 1, Len(s)) = SubSeq(s, 1, Len(s))
    BY <2>1, ConcatAdjacentSubSeq
  <2> QED BY <2>2, SubSeqFull DEF First, Rest
<1>5. ASSUME NEW t \in Seq(S) PROVE t = <<>> <=> Len(t) = 0 OBVIOUS
<1>6. First(s, n) = <<>> <=> n = 0 BY <1>3, <1>5
<1>7. Rest(s, n) = <<>> <=> n = Len(s)
  <2>1. Len(Rest(s, n)) = 0 <=> n = Len(s) BY <1>1, <1>2
  <2> QED BY <1>2, <1>5, <2>1
<1> QED BY <1>2, <1>3, <1>4, <1>6, <1>7

\* A message is not empty, and its bytes tell which one it is.
LEMMA DataFacts ==
  ASSUME NEW m \in Messages
  PROVE  /\ Data(m) \in Seq(AllBytes)
         /\ Data(m) # <<>>
         /\ Data(m)[1][1] = m
         /\ ToSet(Data(m)) = {m} \X (1 .. Size)
<1> USE OutputAssumption DEF Data
<1>1. Data(m) \in Seq(AllBytes) BY DEF AllBytes
<1>2. Len(Data(m)) = Size /\ 1 \in 1 .. Size OBVIOUS
<1>3. Data(m) # <<>> BY <1>2
<1>4. ToSet(Data(m)) = {<<m, i>> : i \in 1 .. Size} BY DEF ToSet
<1>5. {<<m, i>> : i \in 1 .. Size} = {m} \X (1 .. Size) OBVIOUS
<1> QED BY <1>1, <1>2, <1>3, <1>4, <1>5

\* What both leave alone, and what they never do to the types.
Sound ==
  /\ fin' = fin
  /\ process' \in {"running", "killed"}
  /\ wire' \in Seq(AllBytes) /\ outputBuffer_' \in Seq(AllBytes)
  /\ poller' \in P!Pollers
  /\ Len(wire') - read <= SendBuffer /\ Len(wire') >= Len(wire)
  /\ poller'.index[Conn] = "kAdded" <=> poller'.ptr["fd"] = Conn

Dropped(state) ==
  /\ state_ = state \/ Broken
  /\ UNCHANGED <<outVars, wire>>

\* sent goes to the socket, which takes nothing before what is older, and
\* nothing that is broken.
Writes(data, sent, kept) ==
  /\ data = sent \o kept
  /\ wire' = wire \o sent
  /\ sent # <<>> => CanWriteDirectly
  /\ CanWriteDirectly => ~Broken

Written(data) ==
  \E sent, kept \in Seq(AllBytes) :
    /\ state_ # "kDisconnected"
    /\ Writes(data, sent, kept)
    /\ outputBuffer_' = outputBuffer_ \o kept
    /\ \/ /\ kept = <<>>
          /\ CanWriteDirectly
          /\ pending' = Append(pending, Functor("writeComplete", <<>>))
          /\ poller' = poller
       \/ /\ kept # <<>>
          /\ IsWriting'
          /\ \/ pending' = pending
             \/ pending' = Append(pending, Functor("highWaterMark", <<>>))

FileWritten(data) ==
  \E sent, kept \in Seq(AllBytes) :
    /\ state_ # "kDisconnecting"
    /\ Writes(data, sent, kept)
    /\ UNCHANGED <<outputBuffer_, poller>>
    /\ \/ /\ kept = <<>>
          /\ CanWriteDirectly
          /\ pending' = Append(pending, Functor("writeComplete", <<>>))
       \/ /\ kept # <<>>
          /\ pending' = Append(pending, Functor("sendFileInLoop", kept))

\* A write that fails changes nothing that the connection keeps.
LEMMA FailingWrite ==
  ASSUME TypeOK, PollerInv, WriteFails, UNCHANGED outVars
  PROVE  Sound /\ Broken /\ UNCHANGED <<outVars, wire>>
BY DEF TypeOK, PollerInv, WriteFails, Sound, outVars, Registered

\* What the socket accepts, it has space for.
LEMMA AcceptedFacts ==
  ASSUME TypeOK, NEW data \in Seq(AllBytes), NEW n \in Accepted(Len(data))
  PROVE  /\ n \in 0 .. Len(data)
         /\ Len(wire \o First(data, n)) - read <= SendBuffer
         /\ Len(wire \o First(data, n)) >= Len(wire)
         /\ wire \o First(data, n) \in Seq(AllBytes)
<1>1. /\ wire \in Seq(AllBytes) /\ read \in 0 .. Len(wire)
      /\ Len(wire) - read <= SendBuffer /\ SendBuffer \in Nat
  BY OutputAssumption DEF TypeOK
<1>2. n \in 0 .. Len(data) /\ n <= SendBuffer - (Len(wire) - read)
  BY <1>1 DEF Accepted, Space, Least
<1>3. First(data, n) \in Seq(AllBytes) /\ Len(First(data, n)) = n
  BY <1>2, SplitFacts
<1> QED BY <1>1, <1>2, <1>3, ConcatProperties

\* What is kept goes behind outputBuffer_, and the channel asks for EPOLLOUT.
LEMMA KeepRestFacts ==
  ASSUME TypeOK, PollerInv, NEW rest \in Seq(AllBytes), KeepRest(rest)
  PROVE  /\ outputBuffer_' = outputBuffer_ \o rest
         /\ outputBuffer_' \in Seq(AllBytes)
         /\ poller' \in P!Pollers
         /\ poller'.index[Conn] = "kAdded" <=> poller'.ptr["fd"] = Conn
         /\ IsWriting'
         /\ \/ pending' = pending
            \/ pending' = Append(pending, Functor("highWaterMark", <<>>))
<1>1. /\ poller \in P!Pollers /\ outputBuffer_ \in Seq(AllBytes)
      /\ poller.index[Conn] = "kAdded" <=> poller.ptr["fd"] = Conn
  BY DEF TypeOK, PollerInv, Registered
<1>2. CASE IsWriting
  <2>1. poller' = poller BY <1>2 DEF KeepRest
  <2> QED BY <1>1, <1>2, <2>1, ConcatProperties
          DEF KeepRest, Queue, IsWriting, P!IsWriting
<1>3. CASE ~IsWriting
  <2> DEFINE ev == poller.events[Conn] \cup {"out"}
  <2>1. poller' = P!SetEvents(poller, Conn, ev)
    BY <1>3 DEF KeepRest, P!EnableWriting
  <2>2. ev \in SUBSET P!Events BY <1>1 DEF P!Pollers, P!Events, Conn
  <2>3. /\ poller' \in P!Pollers
        /\ poller'.events[Conn] = ev
        /\ poller'.index[Conn] = "kAdded" <=> poller'.ptr["fd"] = Conn
    BY <1>1, <2>1, <2>2, SetEventsFields
  <2>4. IsWriting' BY <2>3 DEF IsWriting, P!IsWriting
  <2> QED BY <1>1, <2>3, <2>4, ConcatProperties DEF KeepRest, Queue
<1> QED BY <1>2, <1>3

\* sendInLoop() drops the bytes in kDisconnected or on a fault; else they are
\* written and kept.
LEMMA SendEffect ==
  ASSUME TypeOK, PollerInv, NEW data \in Seq(AllBytes), data # <<>>,
         SendInLoop(data)
  PROVE  Sound /\ (Dropped("kDisconnected") \/ Written(data))
<1>0. /\ poller \in P!Pollers /\ outputBuffer_ \in Seq(AllBytes)
      /\ wire \in Seq(AllBytes)
      /\ Len(wire) - read <= SendBuffer /\ process \in {"running", "killed"}
      /\ poller.index[Conn] = "kAdded" <=> poller.ptr["fd"] = Conn
      /\ <<>> \in Seq(AllBytes)
      /\ Len(wire) >= Len(wire)
  BY DEF TypeOK, PollerInv, Registered
<1>1. CASE state_ = "kDisconnected" /\ UNCHANGED <<outVars, socketVars>>
  <2>1. UNCHANGED <<pending, outputBuffer_, poller, wire, fin, process>>
    BY <1>1 DEF outVars, socketVars
  <2> QED BY <1>0, <1>1, <2>1 DEF Sound, Dropped, outVars
<1>2. CASE WriteFails /\ UNCHANGED outVars
  BY <1>2, FailingWrite DEF Dropped
<1>3. ASSUME NEW n \in Accepted(Len(data)),
             state_ # "kDisconnected", CanWriteDirectly, WriteTakes(First(data, n)),
             IF n = Len(data)
             THEN Queue("writeComplete") /\ UNCHANGED <<outputBuffer_, poller>>
             ELSE KeepRest(Rest(data, n))
      PROVE  Sound /\ Written(data)
  <2> DEFINE sent == First(data, n)
             kept == Rest(data, n)
  <2>1. /\ n \in 0 .. Len(data)
        /\ Len(wire \o sent) - read <= SendBuffer
        /\ Len(wire \o sent) >= Len(wire)
        /\ wire \o sent \in Seq(AllBytes)
    BY AcceptedFacts
  <2>2. /\ sent \in Seq(AllBytes) /\ kept \in Seq(AllBytes)
        /\ data = sent \o kept
        /\ kept = <<>> <=> n = Len(data)
    BY <2>1, SplitFacts
  <2>3. /\ ~Broken /\ wire' = wire \o sent /\ fin' = fin /\ process' = process
    BY <1>3 DEF WriteTakes
  <2> HIDE DEF sent, kept
  <2>4. Writes(data, sent, kept) BY <1>3, <2>2, <2>3 DEF Writes
  <2>5. CASE n = Len(data)
    <3>1. /\ pending' = Append(pending, Functor("writeComplete", <<>>))
          /\ poller' = poller /\ outputBuffer_' = outputBuffer_ /\ kept = <<>>
      BY <1>3, <2>2, <2>5 DEF Queue
    <3>2. outputBuffer_' = outputBuffer_ \o kept BY <1>0, <3>1, ConcatEmptySeq
    <3>3. Written(data) BY <1>3, <2>2, <2>4, <3>1, <3>2 DEF Written
    <3> QED BY <1>0, <2>1, <2>3, <3>1, <3>3 DEF Sound
  <2>6. CASE n # Len(data)
    <3>1. KeepRest(kept) /\ kept # <<>> BY <1>3, <2>2, <2>6 DEF kept
    <3>2. Written(data)
      BY <1>3, <2>2, <2>4, <3>1, KeepRestFacts DEF Written
    <3> QED BY <1>0, <2>1, <2>2, <2>3, <3>1, <3>2, KeepRestFacts DEF Sound
  <2> QED BY <2>5, <2>6
<1>4. CASE state_ # "kDisconnected" /\ ~CanWriteDirectly /\ KeepRest(data)
           /\ UNCHANGED socketVars
  <2>1. wire' = wire /\ fin' = fin /\ process' = process
    BY <1>4 DEF socketVars
  <2>2. data = <<>> \o data /\ wire = wire \o <<>> BY <1>0, ConcatEmptySeq
  <2>3. Writes(data, <<>>, data) BY <1>4, <2>1, <2>2 DEF Writes
  <2>4. Written(data) BY <1>0, <1>4, <2>3, KeepRestFacts DEF Written
  <2> QED BY <1>0, <1>4, <2>1, <2>4, KeepRestFacts DEF Sound
<1> QED BY <1>1, <1>2, <1>3, <1>4 DEF SendInLoop

\* sendFileInLoop() drops them in kDisconnecting or on a fault; else they are
\* written and queued.
LEMMA SendFileEffect ==
  ASSUME TypeOK, PollerInv, NEW data \in Seq(AllBytes), data # <<>>,
         SendFileInLoop(data)
  PROVE  Sound /\ (Dropped("kDisconnecting") \/ FileWritten(data))
<1>0. /\ poller \in P!Pollers /\ outputBuffer_ \in Seq(AllBytes)
      /\ wire \in Seq(AllBytes)
      /\ Len(wire) - read <= SendBuffer /\ process \in {"running", "killed"}
      /\ poller.index[Conn] = "kAdded" <=> poller.ptr["fd"] = Conn
      /\ <<>> \in Seq(AllBytes)
      /\ Len(wire) >= Len(wire)
  BY DEF TypeOK, PollerInv, Registered
<1>1. CASE state_ = "kDisconnecting" /\ UNCHANGED <<outVars, socketVars>>
  <2>1. UNCHANGED <<pending, outputBuffer_, poller, wire, fin, process>>
    BY <1>1 DEF outVars, socketVars
  <2> QED BY <1>0, <1>1, <2>1 DEF Sound, Dropped, outVars
<1>2. CASE WriteFails /\ UNCHANGED outVars
  BY <1>2, FailingWrite DEF Dropped
<1>3. ASSUME NEW n \in Accepted(Len(data)),
             state_ # "kDisconnecting", CanWriteDirectly,
             WriteTakes(First(data, n)),
             IF n = Len(data) THEN Queue("writeComplete")
                              ELSE SendFileAgain(Rest(data, n)),
             UNCHANGED <<outputBuffer_, poller>>
      PROVE  Sound /\ FileWritten(data)
  <2> DEFINE sent == First(data, n)
             kept == Rest(data, n)
  <2>1. /\ n \in 0 .. Len(data)
        /\ Len(wire \o sent) - read <= SendBuffer
        /\ Len(wire \o sent) >= Len(wire)
        /\ wire \o sent \in Seq(AllBytes)
    BY AcceptedFacts
  <2>2. /\ sent \in Seq(AllBytes) /\ kept \in Seq(AllBytes)
        /\ data = sent \o kept
        /\ kept = <<>> <=> n = Len(data)
    BY <2>1, SplitFacts
  <2>3. /\ ~Broken /\ wire' = wire \o sent /\ fin' = fin /\ process' = process
    BY <1>3 DEF WriteTakes
  <2>4. pending' = Append(pending, IF kept = <<>> THEN Functor("writeComplete", <<>>)
                                   ELSE Functor("sendFileInLoop", kept))
    BY <1>3, <2>2 DEF Queue, SendFileAgain
  <2> HIDE DEF sent, kept
  <2>5. Writes(data, sent, kept) BY <1>3, <2>2, <2>3 DEF Writes
  <2>6. FileWritten(data) BY <1>3, <2>2, <2>4, <2>5 DEF FileWritten
  <2> QED BY <1>0, <1>3, <2>1, <2>3, <2>6 DEF Sound
<1>4. CASE state_ # "kDisconnecting" /\ ~CanWriteDirectly /\ SendFileAgain(data)
           /\ UNCHANGED <<outputBuffer_, poller, socketVars>>
  <2>1. wire' = wire /\ fin' = fin /\ process' = process
    BY <1>4 DEF socketVars
  <2>2. data = <<>> \o data /\ wire = wire \o <<>> BY <1>0, ConcatEmptySeq
  <2>3. Writes(data, <<>>, data) BY <1>4, <2>1, <2>2 DEF Writes
  <2>4. FileWritten(data) BY <1>0, <1>4, <2>3 DEF FileWritten, SendFileAgain
  <2> QED BY <1>0, <1>4, <2>1, <2>4 DEF Sound
<1> QED BY <1>1, <1>2, <1>3, <1>4 DEF SendFileInLoop

\* One functor of the round: f is the first that is to run.
Runs(f) ==
  /\ f \in Functors
  /\ ToRun # <<>> /\ f = Head(ToRun)
  /\ f.op \in RawOps => Alive
  /\ f.op = "sendInLoop" => \E m \in 1 .. calls : f.data = Data(m)
  /\ ran' \in 0 .. Len(batch)
  /\ UNCHANGED <<removal, phase, batch, userVars, usage, calls, sender,
                 promised, peerVars>>
  /\ pending' = pending => ToRun' = Tail(ToRun)
  /\ \A g \in Functors : pending' = Append(pending, g) =>
       ToRun' = Append(Tail(ToRun), g)

RunsSend(f) ==
  /\ f.op = "sendInLoop"
  /\ Sound /\ (Dropped("kDisconnected") \/ Written(f.data))
  /\ UNCHANGED <<state_, awaiting>>

RunsFile(f) ==
  /\ f.op = "sendFileInLoop"
  /\ Sound /\ (Dropped("kDisconnecting") \/ FileWritten(f.data))
  /\ UNCHANGED <<state_, awaiting>>

RunsShutdown(f) ==
  /\ f.op = "shutdownInLoop"
  /\ fin' = (fin \/ ~IsWriting)
  /\ UNCHANGED <<pending, outputBuffer_, poller, state_, awaiting, wire, process>>

RunsCallback(f) ==
  /\ f.op \in {"writeComplete", "highWaterMark"}
  /\ awaiting' = (awaiting /\ f.op = "highWaterMark")
  /\ UNCHANGED <<pending, outputBuffer_, poller, state_, wire, fin, process>>

RunsDestroy(f) ==
  /\ f.op = "connectDestroyed"
  /\ ConnectDestroyed
  /\ UNCHANGED <<pending, outputBuffer_, awaiting, wire, fin, process>>

\* doPendingFunctors() runs the first functor, which does one of five things.
LEMMA RunEffect ==
  ASSUME TypeOK, PollerInv, DataInv, RunFunctor
  PROVE  \E f \in Functors :
           /\ Runs(f)
           /\ \/ RunsSend(f) \/ RunsFile(f) \/ RunsShutdown(f)
              \/ RunsCallback(f) \/ RunsDestroy(f)
<1> DEFINE f == batch[ran']
<1>1. /\ ran < Len(batch) /\ ran' = ran + 1 /\ batch' = batch
      /\ f.op \in RawOps => Alive
      /\ UNCHANGED <<removal, phase, batch, userVars, usage, calls, sender,
                     promised, peerVars>>
  BY DEF RunFunctor
<1>2. /\ f \in Functors
      /\ ToRun # <<>> /\ f = Head(ToRun)
      /\ pending' = pending => ToRun' = Tail(ToRun)
      /\ \A g \in Functors : pending' = Append(pending, g) =>
           ToRun' = Append(Tail(ToRun), g)
  BY <1>1, RunStep
<1>3. f \in Ready BY <1>2, ToRunType, ToSetFacts DEF Ready
<1>4. Runs(f)
  <2>1. ran' \in 0 .. Len(batch) BY <1>1 DEF TypeOK
  <2> HIDE DEF f
  <2> QED BY <1>1, <1>2, <1>3, <2>1 DEF Runs, DataInv
<1>5. \/ f.op = "sendInLoop" /\ SendInLoop(f.data) /\ UNCHANGED <<state_, awaiting>>
      \/ f.op = "sendFileInLoop" /\ SendFileInLoop(f.data)
         /\ UNCHANGED <<state_, awaiting>>
      \/ f.op = "shutdownInLoop" /\ ShutdownInLoop(IsWriting)
         /\ UNCHANGED <<outVars, state_, awaiting>>
      \/ f.op = "writeComplete" /\ awaiting' = FALSE
         /\ UNCHANGED <<outVars, state_, socketVars>>
      \/ f.op = "highWaterMark" /\ UNCHANGED <<outVars, state_, awaiting, socketVars>>
      \/ f.op = "connectDestroyed" /\ ConnectDestroyed
         /\ UNCHANGED <<pending, outputBuffer_, awaiting, socketVars>>
  BY DEF RunFunctor
<1> HIDE DEF f
<1>6. f.data \in Seq(AllBytes) BY <1>2 DEF Functors
<1>7. f.op = "sendInLoop" => f.data # <<>>
  <2> SUFFICES ASSUME f.op = "sendInLoop" PROVE f.data # <<>> OBVIOUS
  <2>1. PICK m \in 1 .. calls : f.data = Data(m) BY <1>3 DEF DataInv
  <2>2. m \in Messages BY OutputAssumption DEF Messages, TypeOK
  <2> QED BY <2>1, <2>2, DataFacts
<1>8. f.op = "sendFileInLoop" => f.data # <<>> BY <1>3 DEF DataInv
<1>9. CASE f.op = "sendInLoop" /\ SendInLoop(f.data) /\ UNCHANGED <<state_, awaiting>>
  <2>1. RunsSend(f) BY <1>6, <1>7, <1>9, SendEffect DEF RunsSend
  <2> QED BY <1>2, <1>4, <2>1
<1>10. CASE f.op = "sendFileInLoop" /\ SendFileInLoop(f.data)
            /\ UNCHANGED <<state_, awaiting>>
  <2>1. RunsFile(f) BY <1>6, <1>8, <1>10, SendFileEffect DEF RunsFile
  <2> QED BY <1>2, <1>4, <2>1
<1>11. CASE f.op = "shutdownInLoop" /\ ShutdownInLoop(IsWriting)
            /\ UNCHANGED <<outVars, state_, awaiting>>
  <2>1. RunsShutdown(f) BY <1>11 DEF RunsShutdown, ShutdownInLoop, outVars
  <2> QED BY <1>2, <1>4, <2>1
<1>12. CASE f.op = "writeComplete" /\ awaiting' = FALSE
            /\ UNCHANGED <<outVars, state_, socketVars>>
  <2>1. RunsCallback(f) BY <1>12 DEF RunsCallback, outVars, socketVars
  <2> QED BY <1>2, <1>4, <2>1
<1>13. CASE f.op = "highWaterMark"
            /\ UNCHANGED <<outVars, state_, awaiting, socketVars>>
  <2>1. awaiting \in BOOLEAN BY DEF TypeOK
  <2>2. RunsCallback(f) BY <1>13, <2>1 DEF RunsCallback, outVars, socketVars
  <2> QED BY <1>2, <1>4, <2>2
<1>14. CASE f.op = "connectDestroyed" /\ ConnectDestroyed
            /\ UNCHANGED <<pending, outputBuffer_, awaiting, socketVars>>
  <2>1. RunsDestroy(f) BY <1>14 DEF RunsDestroy, socketVars
  <2> QED BY <1>2, <1>4, <2>1
<1> QED BY <1>5, <1>9, <1>10, <1>11, <1>12, <1>13, <1>14

\* The number of a message that the other thread has sent.
LEMMA UserSendNumber ==
  ASSUME TypeOK, CallsInv, UserSends \/ UserSendsFile
  PROVE  calls' = calls + 1 /\ calls' \in Messages
<1>1. user \in {"send", "sendFile"} /\ calls' = calls + 1
  BY DEF UserSends, UserSendsFile, Accept
<1> QED BY <1>1, OutputAssumption DEF TypeOK, CallsInv, Messages

\* send() and sendFile() in the IO thread, the same way.
LEMMA LoopSendEffect ==
  ASSUME TypeOK, PollerInv, CallsInv, LoopSends
  PROVE  /\ calls' = calls + 1 /\ calls' \in Messages /\ calls' <= usage.max
         /\ Data(calls') \in Seq(AllBytes) /\ Data(calls') # <<>>
         /\ Sound /\ (Dropped("kDisconnected") \/ Written(Data(calls')))
<1>1. /\ calls' = calls + 1 /\ SendInLoop(Data(calls')) /\ MayCall("send")
  BY DEF LoopSends, Accept, Calling
<1>2. calls' \in Messages /\ calls' <= usage.max
  BY <1>1, OutputAssumption DEF MayCall, TypeOK, Messages
<1>3. PICK m \in Messages : m = calls' BY <1>2
<1>4. Data(m) \in Seq(AllBytes) /\ Data(m) # <<>> BY DataFacts
<1>5. SendInLoop(Data(m)) BY <1>1, <1>3
<1> QED BY <1>1, <1>2, <1>3, <1>4, <1>5, SendEffect

\* The same of sendFile().
LEMMA LoopSendFileEffect ==
  ASSUME TypeOK, PollerInv, CallsInv, LoopSendsFile
  PROVE  /\ calls' = calls + 1 /\ calls' \in Messages /\ calls' <= usage.max
         /\ Data(calls') \in Seq(AllBytes) /\ Data(calls') # <<>>
         /\ Sound /\ (Dropped("kDisconnecting") \/ FileWritten(Data(calls')))
<1>1. /\ calls' = calls + 1 /\ SendFileInLoop(Data(calls')) /\ MayCall("sendFile")
  BY DEF LoopSendsFile, Accept, Calling
<1>2. calls' \in Messages /\ calls' <= usage.max
  BY <1>1, OutputAssumption DEF MayCall, TypeOK, Messages
<1>3. PICK m \in Messages : m = calls' BY <1>2
<1>4. Data(m) \in Seq(AllBytes) /\ Data(m) # <<>> BY DataFacts
<1>5. SendFileInLoop(Data(m)) BY <1>1, <1>3
<1> QED BY <1>1, <1>2, <1>3, <1>4, <1>5, SendFileEffect

\* handleWrite(): the socket takes more of outputBuffer_, perhaps all of it.
Drained ==
  \E sent, kept \in Seq(AllBytes) :
    /\ ~Broken
    /\ outputBuffer_ = sent \o kept
    /\ sent # <<>>
    /\ wire' = wire \o sent
    /\ outputBuffer_' = kept
    /\ \/ /\ kept = <<>>
          /\ pending' = Append(pending, Functor("writeComplete", <<>>))
          /\ fin' = (fin \/ state_ = "kDisconnecting")
          /\ ~IsWriting'
       \/ /\ kept # <<>>
          /\ UNCHANGED <<pending, poller, fin>>

\* handleWrite() fails, or drains outputBuffer_.
LEMMA WriteEffect ==
  ASSUME TypeOK, PollerInv, HandleWrite
  PROVE  /\ fin' \in BOOLEAN /\ process' \in {"running", "killed"}
         /\ wire' \in Seq(AllBytes) /\ outputBuffer_' \in Seq(AllBytes)
         /\ poller' \in P!Pollers
         /\ Len(wire') - read <= SendBuffer /\ Len(wire') >= Len(wire)
         /\ poller'.index[Conn] = "kAdded" <=> poller'.ptr["fd"] = Conn
         /\ \/ Broken /\ UNCHANGED <<outVars, wire, fin>>
            \/ Drained
<1>0. /\ poller \in P!Pollers /\ outputBuffer_ \in Seq(AllBytes)
      /\ wire \in Seq(AllBytes)
      /\ fin \in BOOLEAN /\ process \in {"running", "killed"}
      /\ poller.index[Conn] = "kAdded" <=> poller.ptr["fd"] = Conn
  BY DEF TypeOK, PollerInv, Registered
<1>1. CASE WriteFails /\ UNCHANGED outVars
  <2>1. Sound /\ Broken /\ UNCHANGED <<outVars, wire>> BY <1>1, FailingWrite
  <2>2. fin' = fin BY Zenon, <2>1 DEF Sound
  <2>3. Broken /\ UNCHANGED <<outVars, wire, fin>> BY Zenon, <2>1, <2>2
  <2>4. fin' \in BOOLEAN BY <1>0, <2>2
  <2> QED BY <2>1, <2>3, <2>4 DEF Sound
<1>2. ASSUME NEW n \in Accepted(Len(outputBuffer_)) \ {0},
             ~Broken, wire' = wire \o First(outputBuffer_, n),
             outputBuffer_' = Rest(outputBuffer_, n),
             IF n = Len(outputBuffer_) THEN Emptied
             ELSE UNCHANGED <<pending, poller, fin>>,
             process' = process
      PROVE  /\ fin' \in BOOLEAN
             /\ wire' \in Seq(AllBytes) /\ outputBuffer_' \in Seq(AllBytes)
             /\ poller' \in P!Pollers
             /\ Len(wire') - read <= SendBuffer /\ Len(wire') >= Len(wire)
             /\ poller'.index[Conn] = "kAdded" <=> poller'.ptr["fd"] = Conn
             /\ Drained
  <2> DEFINE sent == First(outputBuffer_, n)
             kept == Rest(outputBuffer_, n)
  <2>1. /\ n \in 0 .. Len(outputBuffer_)
        /\ Len(wire \o sent) - read <= SendBuffer
        /\ Len(wire \o sent) >= Len(wire)
        /\ wire \o sent \in Seq(AllBytes)
    BY <1>0, AcceptedFacts
  <2>2. /\ sent \in Seq(AllBytes) /\ kept \in Seq(AllBytes)
        /\ outputBuffer_ = sent \o kept
        /\ sent = <<>> <=> n = 0
        /\ kept = <<>> <=> n = Len(outputBuffer_)
    BY <1>0, <2>1, SplitFacts
  <2>3. wire' = wire \o sent /\ outputBuffer_' = kept BY <1>2
  <2> HIDE DEF sent, kept
  <2>6. sent # <<>> BY <1>2, <2>2
  <2>4. CASE n = Len(outputBuffer_)
    <3> DEFINE ev == poller.events[Conn] \ {"out"}
    <3>1. Emptied BY <1>2, <2>4
    <3>2. poller' = P!SetEvents(poller, Conn, ev)
      BY <3>1 DEF Emptied, P!DisableWriting
    <3>3. ev \in SUBSET P!Events BY <1>0 DEF P!Pollers, Conn
    <3>4. /\ poller' \in P!Pollers
          /\ poller'.events[Conn] = ev
          /\ poller'.index[Conn] = "kAdded" <=> poller'.ptr["fd"] = Conn
      BY <1>0, <3>2, <3>3, SetEventsFields
    <3>5. ~IsWriting' BY <3>4 DEF IsWriting, P!IsWriting
    <3>6. /\ pending' = Append(pending, Functor("writeComplete", <<>>))
          /\ fin' = (fin \/ state_ = "kDisconnecting")
      BY <3>1 DEF Emptied, Queue
    <3>7. Drained
      <4>1. kept = <<>> BY <2>2, <2>4
      <4> QED BY <1>2, <2>2, <2>3, <2>6, <3>5, <3>6, <4>1 DEF Drained
    <3> QED BY <1>0, <2>1, <2>2, <2>3, <3>4, <3>6, <3>7
  <2>5. CASE n # Len(outputBuffer_)
    <3>1. kept # <<>> /\ UNCHANGED <<pending, poller, fin>> BY <1>2, <2>2, <2>5
    <3>2. Drained BY <1>2, <2>2, <2>3, <2>6, <3>1 DEF Drained
    <3> QED BY <1>0, <2>1, <2>2, <2>3, <3>1, <3>2
  <2> QED BY <2>4, <2>5
<1> QED BY <1>0, <1>1, <1>2 DEF HandleWrite

\* connectDestroyed() after handleClose() removes the channel and no more.
LEMMA DestroyEffect ==
  ASSUME TypeOK, PollerInv, StateInv, ConnectDestroyed, removal # "none"
  PROVE  /\ state_' = state_
         /\ poller' \in P!Pollers
         /\ poller'.index[Conn] = "kNew" /\ poller'.ptr["fd"] # Conn
<1>1. state_ # "kConnected" BY DEF StateInv
<1>2. /\ poller \in P!Pollers
      /\ poller.index[Conn] = "kAdded" <=> poller.ptr["fd"] = Conn
  BY DEF TypeOK, PollerInv, Registered
<1>3. state_' = state_ /\ poller' = P!RemoveChannel(poller, Conn)
  BY <1>1 DEF ConnectDestroyed
<1> QED BY <1>2, <1>3, RemoveFields

\* handleClose() takes the channel out of the poller.
LEMMA CloseEffect ==
  ASSUME TypeOK, PollerInv, HandleClose
  PROVE  /\ state_' = "kDisconnected" /\ removal' = "asked"
         /\ Registered
         /\ poller' \in P!Pollers
         /\ poller'.index[Conn] # "kAdded" /\ poller'.ptr["fd"] # Conn
<1>1. /\ state_' = "kDisconnected" /\ removal' = "asked"
      /\ poller' = P!SetEvents(poller, Conn, {})
      /\ Registered
  BY DEF HandleClose, Close, P!DisableAll
<1>2. /\ poller \in P!Pollers
      /\ poller.index[Conn] = "kAdded" <=> poller.ptr["fd"] = Conn
      /\ poller.ptr["fd"] = Conn
  BY <1>1 DEF TypeOK, PollerInv, Registered
<1> QED BY <1>1, <1>2, SetEventsFields DEF P!Events

-----------------------------------------------------------------------------
(***************************************************************************)
(* Types.                                                                  *)
(***************************************************************************)

\* The functors that the code queues are functors.
LEMMA FunctorTypes ==
  /\ \A op \in Ops : Functor(op, <<>>) \in Functors
  /\ \A op \in Ops, data \in Seq(AllBytes) : Functor(op, data) \in Functors
BY DEF Functor, Functors

\* queueInLoop() keeps the type of the queue.
LEMMA PendingType ==
  ASSUME TypeOK, NEW op \in Ops, NEW data \in Seq(AllBytes),
         pending' = Append(pending, Functor(op, data))
  PROVE  pending' \in Seq(Functors)
BY FunctorTypes DEF TypeOK, Functors

\* The queue after either of them, and the variables they write.
LEMMA WrittenTypes ==
  ASSUME TypeOK, Sound
  PROVE  \A data : \/ Dropped("kDisconnected") \/ Written(data)
                   \/ Dropped("kDisconnecting") \/ FileWritten(data)
                   => pending' \in Seq(Functors)
<1>1. pending \in Seq(Functors) BY DEF TypeOK, Functors
<1>2. /\ {"writeComplete", "highWaterMark", "sendFileInLoop"} \subseteq Ops
      /\ <<>> \in Seq(AllBytes)
  BY DEF Ops
<1>3. ASSUME NEW data, Dropped("kDisconnected") \/ Written(data)
      PROVE  pending' \in Seq(Functors)
  BY <1>1, <1>2, <1>3, PendingType DEF Dropped, outVars, Written
<1>4. ASSUME NEW data, Dropped("kDisconnecting") \/ FileWritten(data)
      PROVE  pending' \in Seq(Functors)
  BY <1>1, <1>2, <1>4, PendingType DEF Dropped, outVars, FileWritten
<1> QED BY <1>3, <1>4

\* Every step keeps the types, the bounds of a round and of the calls.
LEMMA TypePreserved ==
  ASSUME TypeOK, RoundInv, CallsInv, PollerInv, StateInv, DataInv, [Next]_vars
  PROVE  TypeOK' /\ RoundInv' /\ CallsInv'
<1> USE OutputAssumption
<1>0. /\ usage \in Usages /\ usage.max \in 0 .. MaxCalls
      /\ usage.awaits \in BOOLEAN
      /\ \A op \in Ops : Functor(op, <<>>) \in Functors
      /\ <<>> \in Seq(AllBytes)
      /\ Ops = {"sendInLoop", "shutdownInLoop", "sendFileInLoop",
                "writeComplete", "highWaterMark", "connectDestroyed"}
  BY FunctorTypes DEF TypeOK, Ops
<1> USE DEF Functors
<1>1. CASE LoopSends
  <2>1. pending' \in Seq(Functors) BY <1>1, LoopSendEffect, WrittenTypes
  <2>2. UNCHANGED <<usage, state_, removal, loopVars, userVars, promised, peerVars>>
        /\ Accept("loop") /\ MayCall("send")
    BY <1>1 DEF LoopSends, Calling
  <2>3. /\ calls' = calls + 1 /\ calls' \in Messages /\ calls' <= usage.max
        /\ Sound
    BY <1>1, LoopSendEffect
  <2>4. fin' \in BOOLEAN /\ awaiting' \in BOOLEAN /\ userHolds' \in BOOLEAN
    BY Zenon, <1>0, <2>2, <2>3 DEF TypeOK, Accept, Sound, userVars
  <2>5. CallsInv' BY <2>2, <2>3 DEF MayCall, CallsInv, TypeOK, userVars
  <2>6. RoundInv' BY <2>2 DEF RoundInv, loopVars
  <2>7. sender' \in [Messages -> {"nobody", "loop", "user"}]
    BY <2>2, <2>3 DEF TypeOK, Accept
  <2>8. calls' \in 0 .. MaxCalls /\ promised' \subseteq 1 .. calls'
    BY <2>2, <2>3 DEF TypeOK, Messages
  <2> QED BY <2>1, <2>2, <2>3, <2>4, <2>5, <2>6, <2>7, <2>8, SMTT(30)
          DEF TypeOK, loopVars, userVars, peerVars, Sound
<1>2. CASE LoopSendsFile
  <2>1. pending' \in Seq(Functors) BY <1>2, LoopSendFileEffect, WrittenTypes
  <2>2. UNCHANGED <<usage, state_, removal, loopVars, userVars, promised, peerVars>>
        /\ Accept("loop") /\ MayCall("sendFile")
    BY <1>2 DEF LoopSendsFile, Calling
  <2>3. /\ calls' = calls + 1 /\ calls' \in Messages /\ calls' <= usage.max
        /\ Sound
    BY <1>2, LoopSendFileEffect
  <2>4. fin' \in BOOLEAN /\ awaiting' \in BOOLEAN /\ userHolds' \in BOOLEAN
    BY Zenon, <1>0, <2>2, <2>3 DEF TypeOK, Accept, Sound, userVars
  <2>5. CallsInv' BY <2>2, <2>3 DEF MayCall, CallsInv, TypeOK, userVars
  <2>6. RoundInv' BY <2>2 DEF RoundInv, loopVars
  <2>7. sender' \in [Messages -> {"nobody", "loop", "user"}]
    BY <2>2, <2>3 DEF TypeOK, Accept
  <2>8. calls' \in 0 .. MaxCalls /\ promised' \subseteq 1 .. calls'
    BY <2>2, <2>3 DEF TypeOK, Messages
  <2> QED BY <2>1, <2>2, <2>3, <2>4, <2>5, <2>6, <2>7, <2>8, SMTT(30)
          DEF TypeOK, loopVars, userVars, peerVars, Sound
<1>3. CASE LoopShutsDown
  BY <1>0, <1>3, SMTT(30)
  DEF LoopShutsDown, ShutdownInLoop, TypeOK, RoundInv, CallsInv, outVars,
      loopVars, userVars, peerVars, SentBy
<1>4. ASSUME NEW op \in Calls, UserTests(op) PROVE TypeOK' /\ RoundInv' /\ CallsInv'
  <2>1. CallsInv'
    BY <1>0, <1>4, SMTT(30)
    DEF UserTests, Calls, MayCall, CallsInv, TypeOK, callVars
  <2> QED BY <1>4, <2>1
          DEF UserTests, Calls, TypeOK, RoundInv, connVars, loopVars, callVars,
              socketVars, peerVars
<1>5. CASE UserSends
  <2>1. calls' = calls + 1 /\ calls' \in Messages /\ calls' <= usage.max
    BY <1>0, <1>5, SMTT(30) DEF UserSends, Accept, CallsInv, TypeOK, Messages
  <2>2. PICK m \in Messages : m = calls' BY <2>1
  <2>3. pending' = Append(pending, Functor("sendInLoop", Data(m)))
    BY <1>5, <2>2 DEF UserSends
  <2>4. pending' \in Seq(Functors) BY <1>0, <2>3, DataFacts, PendingType
  <2>5. CallsInv' BY <1>5, <2>1 DEF UserSends, CallsInv
  <2>6. sender' \in [Messages -> {"nobody", "loop", "user"}]
    BY <1>5, <2>1 DEF UserSends, Accept, TypeOK
  <2>7. awaiting' \in BOOLEAN /\ calls' \in 0 .. MaxCalls
        /\ freed' \subseteq Messages /\ promised' \subseteq 1 .. calls'
    BY <1>0, <1>5, <2>1, SMTT(30) DEF UserSends, Accept, TypeOK, Messages
  <2> QED BY <1>5, <2>4, <2>5, <2>6, <2>7
          DEF UserSends, TypeOK, RoundInv, connVars, loopVars,
              socketVars, peerVars
<1>6. CASE UserSendsFile
  <2>1. calls' = calls + 1 /\ calls' \in Messages /\ calls' <= usage.max
    BY <1>0, <1>6 DEF UserSendsFile, Accept, CallsInv, TypeOK, Messages
  <2>2. PICK m \in Messages : m = calls' BY <2>1
  <2>3. pending' = Append(pending, Functor("sendFileInLoop", Data(m)))
    BY <1>6, <2>2 DEF UserSendsFile, SendFileAgain
  <2>4. pending' \in Seq(Functors) BY <1>0, <2>3, DataFacts, PendingType
  <2>5. CallsInv' BY <1>6, <2>1 DEF UserSendsFile, CallsInv
  <2>6. sender' \in [Messages -> {"nobody", "loop", "user"}]
    BY <1>6, <2>1 DEF UserSendsFile, Accept, TypeOK
  <2>7. awaiting' \in BOOLEAN /\ calls' \in 0 .. MaxCalls
        /\ freed' \subseteq Messages /\ promised' \subseteq 1 .. calls'
    BY <1>0, <1>6, <2>1 DEF UserSendsFile, Accept, TypeOK, Messages
  <2> QED BY <1>6, <2>4, <2>5, <2>6, <2>7
          DEF UserSendsFile, TypeOK, RoundInv, connVars, loopVars,
              socketVars, peerVars
<1>7. CASE UserStores
  BY <1>0, <1>7
  DEF UserStores, TypeOK, RoundInv, CallsInv, outVars, loopVars, socketVars,
      peerVars, SentBy
<1>8. CASE UserShutsDown
  <2>1. pending' \in Seq(Functors)
    BY <1>0, <1>8, PendingType DEF UserShutsDown, Queue
  <2> QED BY <1>0, <1>8, <2>1, SMTT(30)
          DEF UserShutsDown, TypeOK, RoundInv, CallsInv, connVars, loopVars,
              callVars, socketVars, peerVars
<1>9. CASE UserLetsGo
  BY <1>9, ZenonT(30) DEF UserLetsGo, TypeOK, RoundInv, CallsInv, connVars, loopVars,
              callVars, socketVars, peerVars
<1>10. CASE HandleWrite
  <2>1. pending' \in Seq(Functors)
    <3>1. CASE UNCHANGED outVars BY <3>1 DEF outVars, TypeOK
    <3>2. CASE Drained BY <1>0, <3>2, PendingType DEF Drained, TypeOK
    <3> QED BY <1>10, <3>1, <3>2, WriteEffect
  <2>2. UNCHANGED <<state_, removal, loopVars, userVars, callVars, peerVars>>
    BY <1>10 DEF HandleWrite
  <2>3. /\ fin' \in BOOLEAN /\ process' \in {"running", "killed"}
        /\ wire' \in Seq(AllBytes) /\ outputBuffer_' \in Seq(AllBytes)
        /\ poller' \in P!Pollers
        /\ Len(wire') - read <= SendBuffer /\ Len(wire') >= Len(wire)
    BY <1>10, WriteEffect
  <2> QED BY <2>1, <2>2, <2>3, SMTT(30)
          DEF TypeOK, RoundInv, CallsInv, loopVars, userVars, callVars, peerVars
<1>11. CASE HandleClose
  <2>1. /\ state_' = "kDisconnected" /\ removal' = "asked"
        /\ poller' \in P!Pollers
    BY <1>11, CloseEffect
  <2> QED BY <1>11, <2>1
          DEF HandleClose, TypeOK, RoundInv, CallsInv, loopVars, userVars,
              callVars, socketVars, peerVars
<1>12. CASE BaseRemoves
  <2>1. pending' \in Seq(Functors)
    BY <1>0, <1>12, PendingType DEF BaseRemoves, Queue
  <2> QED BY <1>12, <2>1
          DEF BaseRemoves, TypeOK, RoundInv, CallsInv, loopVars, userVars,
              callVars, socketVars, peerVars
<1>13. CASE TakeFunctors
  BY <1>13 DEF TakeFunctors, TypeOK, RoundInv, CallsInv, connVars, userVars,
               callVars, socketVars, peerVars
<1>14. CASE RunFunctor
  <2>1. PICK f \in Functors :
          /\ Runs(f)
          /\ \/ RunsSend(f) \/ RunsFile(f) \/ RunsShutdown(f)
             \/ RunsCallback(f) \/ RunsDestroy(f)
    BY <1>14, RunEffect
  <2>2. /\ ran' \in 0 .. Len(batch)
        /\ phase = "functors"
        /\ UNCHANGED <<removal, phase, batch, userVars, usage, calls, sender,
                       promised, peerVars>>
    BY <1>14, <2>1 DEF Runs, RunFunctor
  <2>3. /\ state_' \in {"kConnected", "kDisconnecting", "kDisconnected"}
        /\ poller' \in P!Pollers
        /\ outputBuffer_' \in Seq(AllBytes)
        /\ pending' \in Seq(Functors)
        /\ awaiting' \in BOOLEAN
        /\ wire' \in Seq(AllBytes)
        /\ Len(wire') - read <= SendBuffer /\ Len(wire') >= Len(wire)
        /\ fin' \in BOOLEAN
        /\ process' \in {"running", "killed"}
    <3>1. CASE RunsSend(f)
      <4>1. pending' \in Seq(Functors) BY <3>1, WrittenTypes DEF RunsSend
      <4>2. fin' \in BOOLEAN /\ awaiting' \in BOOLEAN
        BY Zenon, <3>1 DEF RunsSend, Sound, TypeOK
      <4> QED BY <3>1, <4>1, <4>2 DEF RunsSend, Sound, TypeOK
    <3>2. CASE RunsFile(f)
      <4>1. pending' \in Seq(Functors) BY <3>2, WrittenTypes DEF RunsFile
      <4>2. fin' \in BOOLEAN /\ awaiting' \in BOOLEAN
        BY Zenon, <3>2 DEF RunsFile, Sound, TypeOK
      <4> QED BY <3>2, <4>1, <4>2 DEF RunsFile, Sound, TypeOK
    <3>3. CASE RunsShutdown(f) BY <3>3 DEF RunsShutdown, TypeOK
    <3>4. CASE RunsCallback(f) BY <3>4 DEF RunsCallback, TypeOK
    <3>5. CASE RunsDestroy(f)
      <4>1. f \in Ready
        BY <2>1, ToRunType, ToSetFacts DEF Runs, Ready
      <4>2. removal # "none" BY <3>5, <4>1 DEF StateInv, RunsDestroy
      <4> QED BY <3>5, <4>2, DestroyEffect DEF RunsDestroy, TypeOK
    <3> QED BY <2>1, <3>1, <3>2, <3>3, <3>4, <3>5
  <2> QED BY <2>2, <2>3, SMTT(30) DEF TypeOK, RoundInv, CallsInv, userVars, peerVars
<1>15. CASE EndRound
  BY <1>15 DEF EndRound, TypeOK, RoundInv, CallsInv, connVars, userVars,
               callVars, socketVars, peerVars
<1>16. CASE PeerReads
  BY <1>16 DEF PeerReads, TypeOK, RoundInv, CallsInv,
               connVars, loopVars, userVars, callVars, socketVars
<1>17. CASE PeerCloses \/ PeerResets
  <2>1. /\ peer' \in {"closed", "reset"}
        /\ UNCHANGED <<connVars, pending, loopVars, userVars, callVars,
                       socketVars, read>>
    BY <1>17 DEF PeerCloses, PeerResets
  <2> QED BY <2>1 DEF TypeOK, RoundInv, CallsInv, connVars, loopVars, userVars,
                      callVars, socketVars
<1>18. CASE UNCHANGED vars
  BY <1>18 DEF vars, TypeOK, RoundInv, CallsInv, connVars, loopVars, userVars,
               callVars, socketVars, peerVars
<1> QED BY <1>1, <1>2, <1>3, <1>4, <1>5, <1>6, <1>7, <1>8, <1>9, <1>10, <1>11,
           <1>12, <1>13, <1>14, <1>15, <1>16, <1>17, <1>18 DEF Next

-----------------------------------------------------------------------------
(***************************************************************************)
(* What a step does to the queue of functors, and to what decides whether  *)
(* the connection is open.                                                 *)
(***************************************************************************)

\* Which functors enter the queue, and by whom.
Enters(g) ==
  \/ g.op \in {"writeComplete", "highWaterMark"}
  \/ g.op = "sendInLoop" /\ UserSends /\ g.data = Data(calls')
  \/ /\ g.op = "sendFileInLoop" /\ g.data # <<>>
     /\ LoopSendsFile \/ UserSendsFile \/ Queued("sendFileInLoop")
  \/ g.op = "shutdownInLoop" /\ UserShutsDown
  \/ g.op = "connectDestroyed" /\ BaseRemoves

QueueMoves ==
  \/ ToRun' = ToRun
  \/ \E g \in Functors : Enters(g) /\ ToRun' = Append(ToRun, g)
  \/ RunFunctor /\ ToRun # <<>> /\ ToRun' = Tail(ToRun)
  \/ RunFunctor /\ ToRun # <<>> /\ \E g \in Functors :
       Enters(g) /\ ToRun' = Append(Tail(ToRun), g)

\* A functor of a user's callback can enter at any time.
LEMMA CallbackEnters ==
  ASSUME NEW op \in {"writeComplete", "highWaterMark"}
  PROVE  Functor(op, <<>>) \in Functors /\ Enters(Functor(op, <<>>))
BY FunctorTypes DEF Enters, Functor, Ops

\* Every step appends at most one functor and runs at most the first.
LEMMA QueueMoving ==
  ASSUME TypeOK, RoundInv, CallsInv, PollerInv, DataInv, [Next]_vars
  PROVE  QueueMoves
<1>1. ASSUME NEW op \in {"writeComplete", "highWaterMark"},
             pending' = Append(pending, Functor(op, <<>>)),
             UNCHANGED <<batch, ran>>
      PROVE  QueueMoves
  BY <1>1, CallbackEnters, QueueStep DEF QueueMoves
<1>2. ASSUME UNCHANGED <<pending, batch, ran>> PROVE QueueMoves
  BY <1>2, SameStep DEF QueueMoves
<1>3. CASE LoopSends
  <2>1. /\ Dropped("kDisconnected") \/ Written(Data(calls'))
        /\ UNCHANGED <<batch, ran>>
    BY <1>3, LoopSendEffect DEF LoopSends, loopVars
  <2> QED BY <1>1, <1>2, <2>1 DEF Dropped, outVars, Written
<1>4. CASE LoopSendsFile
  <2>1. /\ Dropped("kDisconnecting") \/ FileWritten(Data(calls'))
        /\ UNCHANGED <<batch, ran>>
    BY <1>4, LoopSendFileEffect DEF LoopSendsFile, loopVars
  <2>2. CASE Dropped("kDisconnecting") BY <1>2, <2>1, <2>2 DEF Dropped, outVars
  <2>3. ASSUME NEW kept \in Seq(AllBytes), kept # <<>>,
               pending' = Append(pending, Functor("sendFileInLoop", kept))
        PROVE  QueueMoves
    <3> DEFINE g == Functor("sendFileInLoop", kept)
    <3>1. g \in Functors BY FunctorTypes DEF Ops
    <3>2. Enters(g) BY <1>4, <2>3 DEF Enters, Functor
    <3>3. ToRun' = Append(ToRun, g) BY <2>1, <2>3, <3>1, QueueStep
    <3> QED BY <3>1, <3>2, <3>3 DEF QueueMoves
  <2> QED BY <1>1, <2>1, <2>2, <2>3 DEF FileWritten
<1>5. CASE UserSends \/ UserSendsFile
  <2>1. /\ calls' \in Messages /\ UNCHANGED <<batch, ran>>
    BY <1>5, OutputAssumption
    DEF UserSends, UserSendsFile, Accept, TypeOK, CallsInv, Messages, loopVars
  <2>2. PICK m \in Messages : m = calls' BY <2>1
  <2>3. Data(m) \in Seq(AllBytes) /\ Data(m) # <<>> BY DataFacts
  <2>4. CASE UserSends
    <3> DEFINE g == Functor("sendInLoop", Data(m))
    <3>1. g \in Functors BY <2>3, FunctorTypes DEF Ops
    <3>2. Enters(g) BY <2>2, <2>4 DEF Enters, Functor
    <3>3. pending' = Append(pending, g) BY <2>2, <2>4 DEF UserSends
    <3>4. ToRun' = Append(ToRun, g) BY <2>1, <3>1, <3>3, QueueStep
    <3> QED BY <3>1, <3>2, <3>4 DEF QueueMoves
  <2>5. CASE UserSendsFile
    <3> DEFINE g == Functor("sendFileInLoop", Data(m))
    <3>1. g \in Functors BY <2>3, FunctorTypes DEF Ops
    <3>2. Enters(g) BY <2>3, <2>5 DEF Enters, Functor
    <3>3. pending' = Append(pending, g)
      BY <2>2, <2>5 DEF UserSendsFile, SendFileAgain
    <3>4. ToRun' = Append(ToRun, g) BY <2>1, <3>1, <3>3, QueueStep
    <3> QED BY <3>1, <3>2, <3>4 DEF QueueMoves
  <2> QED BY <1>5, <2>4, <2>5
<1>6. CASE UserShutsDown
  <2> DEFINE g == Functor("shutdownInLoop", <<>>)
  <2>1. g \in Functors BY FunctorTypes DEF Ops
  <2>2. Enters(g) BY <1>6 DEF Enters, Functor
  <2>3. ToRun' = Append(ToRun, g)
    BY <1>6, <2>1, QueueStep DEF UserShutsDown, Queue, loopVars
  <2> QED BY <2>1, <2>2, <2>3 DEF QueueMoves
<1>7. CASE BaseRemoves
  <2> DEFINE g == Functor("connectDestroyed", <<>>)
  <2>1. g \in Functors BY FunctorTypes DEF Ops
  <2>2. Enters(g) BY <1>7 DEF Enters, Functor
  <2>3. ToRun' = Append(ToRun, g)
    BY <1>7, <2>1, QueueStep DEF BaseRemoves, Queue, loopVars
  <2> QED BY <2>1, <2>2, <2>3 DEF QueueMoves
<1>8. CASE HandleWrite
  <2>1. UNCHANGED <<batch, ran>> BY <1>8 DEF HandleWrite, loopVars
  <2>2. UNCHANGED outVars \/ Drained BY <1>8, WriteEffect
  <2> QED BY <1>1, <1>2, <2>1, <2>2 DEF outVars, Drained
<1>9. CASE TakeFunctors \/ EndRound
  BY <1>9, RoundStep DEF QueueMoves
<1>10. CASE RunFunctor
  <2>1. PICK f \in Functors :
          /\ Runs(f)
          /\ \/ RunsSend(f) \/ RunsFile(f) \/ RunsShutdown(f)
             \/ RunsCallback(f) \/ RunsDestroy(f)
    BY <1>10, RunEffect
  <2>2. /\ ToRun # <<>>
        /\ pending' = pending => ToRun' = Tail(ToRun)
        /\ \A g \in Functors : pending' = Append(pending, g) =>
             ToRun' = Append(Tail(ToRun), g)
    BY <2>1 DEF Runs
  <2>3. ASSUME NEW op \in {"writeComplete", "highWaterMark"},
               pending' = Append(pending, Functor(op, <<>>))
        PROVE  QueueMoves
    BY <1>10, <2>2, <2>3, CallbackEnters DEF QueueMoves
  <2>4. ASSUME pending' = pending PROVE QueueMoves
    BY <1>10, <2>2, <2>4 DEF QueueMoves
  <2>5. CASE RunsSend(f)
    BY <2>3, <2>4, <2>5 DEF RunsSend, Dropped, outVars, Written
  <2>6. CASE RunsFile(f)
    <3>1. f \in Ready BY <2>1, ToRunType, ToSetFacts DEF Runs, Ready
    <3>2. Queued("sendFileInLoop") BY <2>6, <3>1 DEF RunsFile, Ready, Queued
    <3>3. ASSUME NEW kept \in Seq(AllBytes), kept # <<>>,
                 pending' = Append(pending, Functor("sendFileInLoop", kept))
          PROVE  QueueMoves
      <4> DEFINE g == Functor("sendFileInLoop", kept)
      <4>1. g \in Functors BY FunctorTypes DEF Ops
      <4>2. Enters(g) BY <3>2, <3>3 DEF Enters, Functor
      <4>3. ToRun' = Append(Tail(ToRun), g) BY <2>2, <3>3, <4>1
      <4> QED BY <1>10, <2>2, <4>1, <4>2, <4>3 DEF QueueMoves
    <3> QED BY <2>3, <2>4, <2>6, <3>3
            DEF RunsFile, Dropped, outVars, FileWritten
  <2>7. CASE RunsShutdown(f) \/ RunsCallback(f) \/ RunsDestroy(f)
    BY <2>4, <2>7 DEF RunsShutdown, RunsCallback, RunsDestroy
  <2> QED BY <2>1, <2>5, <2>6, <2>7
<1>11. CASE \/ LoopShutsDown \/ (\E op \in Calls : UserTests(op)) \/ UserStores
            \/ UserLetsGo \/ HandleClose
            \/ PeerReads \/ PeerCloses \/ PeerResets \/ UNCHANGED vars
  <2>1. UNCHANGED <<pending, batch, ran>>
    BY <1>11
    DEF LoopShutsDown, UserTests, UserStores, UserLetsGo, HandleClose, PeerReads,
        PeerCloses, PeerResets, vars, loopVars, outVars
  <2> QED BY <1>2, <2>1
<1> QED BY <1>3, <1>4, <1>5, <1>6, <1>7, <1>8, <1>9, <1>10, <1>11 DEF Next

\* The functors that are to run after a step were so before, or enter.
LEMMA ReadyMoves ==
  ASSUME TypeOK, QueueMoves, NEW g \in Ready'
  PROVE  g \in Functors /\ (g \in Ready \/ Enters(g))
<1>1. ToRun \in Seq(Functors) BY ToRunType
<1>2. Ready \subseteq Functors BY <1>1, ToSetFacts DEF Ready
<1>3. CASE ToRun' = ToRun BY <1>2, <1>3 DEF Ready
<1>4. ASSUME NEW h \in Functors, Enters(h), ToRun' = Append(ToRun, h)
      PROVE  g \in Functors /\ (g \in Ready \/ Enters(g))
  <2>1. Ready' = Ready \cup {h} BY <1>1, <1>4, ToSetFacts DEF Ready
  <2> QED BY <1>2, <1>4, <2>1
<1>5. ASSUME ToRun # <<>>
      PROVE  /\ Tail(ToRun) \in Seq(Functors)
             /\ ToSet(Tail(ToRun)) \subseteq Ready
  BY <1>1, <1>5, HeadTailProperties, ToSetFacts DEF Ready
<1>6. CASE ToRun # <<>> /\ ToRun' = Tail(ToRun)
  BY <1>2, <1>5, <1>6 DEF Ready
<1>7. ASSUME NEW h \in Functors, Enters(h), ToRun # <<>>,
             ToRun' = Append(Tail(ToRun), h)
      PROVE  g \in Functors /\ (g \in Ready \/ Enters(g))
  <2>1. ToSet(ToRun') = ToSet(Tail(ToRun)) \cup {h}
    <3> DEFINE t == Tail(ToRun)
    <3>1. t \in Seq(Functors) BY <1>5, <1>7
    <3> HIDE DEF t
    <3>2. ToSet(Append(t, h)) = ToSet(t) \cup {h} BY <3>1, ToSetFacts
    <3> QED BY Zenon, <1>7, <3>2 DEF t
  <2> QED BY <1>2, <1>5, <1>7, <2>1 DEF Ready
<1> QED BY <1>3, <1>4, <1>6, <1>7 DEF QueueMoves

\* Who changes what.
Frame ==
  /\ usage' = usage
  /\ \/ state_' = state_
     \/ state_' = "kDisconnecting" /\ (LoopShutsDown \/ UserStores)
     \/ state_' = "kDisconnected" /\ removal' = "asked"
  /\ \/ removal' = removal
     \/ removal' = "asked" /\ HandleClose /\ state_' = "kDisconnected"
     \/ removal' = "done" /\ removal = "asked"
  /\ fin' = fin \/ (fin' /\ state_' # "kConnected")
  /\ \/ user' = user
     \/ user' = "idle"
     \/ /\ user' \in usage.user /\ user = "idle" /\ userHolds /\ userHolds'
        /\ state_ = "kConnected" /\ state_' = state_
        /\ MayCall(user') /\ UNCHANGED <<awaiting, ToRun>>
     \/ user = "shutdown" /\ user' = "stored" /\ state_' = "kDisconnecting"
  /\ \/ userHolds' = userHolds
     \/ UserLetsGo /\ user' = user /\ ToRun' = ToRun
  /\ \/ calls' = calls /\ sender' = sender /\ (awaiting' => awaiting)
     \/ /\ LoopSends \/ LoopSendsFile
        /\ calls' = calls + 1 /\ calls' \in Messages
        /\ sender' = [sender EXCEPT ![calls'] = "loop"]
     \/ /\ UserSends \/ UserSendsFile
        /\ calls' = calls + 1 /\ calls' \in Messages
        /\ sender' = [sender EXCEPT ![calls'] = "user"]
  /\ peer' = peer \/ peer # "reset"

\* Every step changes state_, removal, fin, the thread and the counts as Frame
\* says.
LEMMA Framed ==
  ASSUME TypeOK, RoundInv, CallsInv, PollerInv, StateInv, DataInv, [Next]_vars
  PROVE  Frame
<1> USE DEF Frame
<1>1. CASE LoopSends
  <2>1. fin' = fin BY Zenon, <1>1, LoopSendEffect DEF Sound
  <2>2. calls' \in Messages BY <1>1, LoopSendEffect
  <2> QED BY <1>1, <2>1, <2>2 DEF LoopSends, Accept, userVars, peerVars
<1>2. CASE LoopSendsFile
  <2>1. fin' = fin BY Zenon, <1>2, LoopSendFileEffect DEF Sound
  <2>2. calls' \in Messages BY <1>2, LoopSendFileEffect
  <2> QED BY <1>2, <2>1, <2>2 DEF LoopSendsFile, Accept, userVars, peerVars
<1>3. CASE LoopShutsDown
  <2>1. fin' = fin \/ (fin' /\ state_' # "kConnected")
    <3>1. /\ state_' = "kDisconnecting" /\ fin' = (fin \/ ~IsWriting)
          /\ fin \in BOOLEAN
      BY <1>3 DEF LoopShutsDown, ShutdownInLoop, TypeOK
    <3> QED BY <3>1
  <2> QED BY <1>3, <2>1 DEF LoopShutsDown, userVars, peerVars
<1>4. ASSUME NEW op \in Calls, UserTests(op) PROVE Frame
  <2>1. UNCHANGED <<pending, batch, ran>> BY <1>4 DEF UserTests, loopVars
  <2>2. ToRun' = ToRun BY <2>1, SameStep
  <2> QED BY <1>4, <2>2
          DEF UserTests, connVars, callVars, socketVars, peerVars
<1>5. CASE UserSends
  <2>1. calls' \in Messages
    BY <1>5, OutputAssumption DEF UserSends, Accept, TypeOK, CallsInv, Messages
  <2> QED BY <1>5, <2>1 DEF UserSends, Accept, connVars, socketVars, peerVars
<1>6. CASE UserSendsFile
  <2>1. calls' \in Messages
    BY <1>6, OutputAssumption DEF UserSendsFile, Accept, TypeOK, CallsInv, Messages
  <2> QED BY <1>6, <2>1 DEF UserSendsFile, Accept, connVars, socketVars, peerVars
<1>7. CASE UserStores
  BY <1>7 DEF UserStores, socketVars, peerVars
<1>8. CASE UserShutsDown
  BY <1>8 DEF UserShutsDown, connVars, callVars, socketVars, peerVars
<1>9. CASE UserLetsGo
  <2>1. UNCHANGED <<pending, batch, ran>> BY <1>9 DEF UserLetsGo, loopVars
  <2>2. ToRun' = ToRun BY <2>1, SameStep
  <2> QED BY <1>9, <2>2
          DEF UserLetsGo, connVars, callVars, socketVars, peerVars
<1>10. CASE HandleWrite
  <2>1. fin' = fin \/ (fin' /\ state_' # "kConnected")
    <3>1. state_' = state_ BY <1>10 DEF HandleWrite
    <3>2. fin' = fin \/ fin' = (fin \/ state_ = "kDisconnecting")
      BY Zenon, <1>10, WriteEffect DEF Drained
    <3>3. fin \in BOOLEAN BY DEF TypeOK
    <3> QED BY <3>1, <3>2, <3>3
  <2> QED BY <1>10, <2>1 DEF HandleWrite, userVars, callVars, peerVars
<1>11. CASE HandleClose
  <2>1. state_' = "kDisconnected" /\ removal' = "asked"
    BY <1>11, CloseEffect
  <2> QED BY <1>11, <2>1 DEF HandleClose, userVars, callVars, socketVars, peerVars
<1>12. CASE BaseRemoves
  BY <1>12 DEF BaseRemoves, userVars, callVars, socketVars, peerVars
<1>13. CASE TakeFunctors \/ EndRound
  BY <1>13 DEF TakeFunctors, EndRound, connVars, userVars, callVars, socketVars,
               peerVars
<1>14. CASE RunFunctor
  <2>1. PICK f \in Functors :
          /\ Runs(f)
          /\ \/ RunsSend(f) \/ RunsFile(f) \/ RunsShutdown(f)
             \/ RunsCallback(f) \/ RunsDestroy(f)
    BY <1>14, RunEffect
  <2>2. f \in Ready BY <2>1, ToRunType, ToSetFacts DEF Runs, Ready
  <2>3. state_' = state_
    <3>1. CASE RunsDestroy(f)
      <4>1. removal # "none" BY <2>2, <3>1 DEF StateInv, RunsDestroy
      <4> QED BY <3>1, <4>1, DestroyEffect DEF RunsDestroy
    <3> QED BY <2>1, <3>1 DEF RunsSend, RunsFile, RunsShutdown, RunsCallback
  <2>4. fin' = fin \/ (fin' /\ state_' # "kConnected")
    <3>1. CASE RunsShutdown(f)
      <4>1. state_ # "kConnected" BY <2>2, <3>1 DEF StateInv, RunsShutdown
      <4>2. fin' = (fin \/ ~IsWriting) /\ fin \in BOOLEAN
        BY <3>1 DEF RunsShutdown, TypeOK
      <4> QED BY <2>3, <4>1, <4>2
    <3>2. CASE RunsSend(f) \/ RunsFile(f)
      BY Zenon, <3>2 DEF RunsSend, RunsFile, Sound
    <3>3. CASE RunsCallback(f) \/ RunsDestroy(f)
      BY Zenon, <3>3 DEF RunsCallback, RunsDestroy
    <3> QED BY <2>1, <3>1, <3>2, <3>3
  <2>5. awaiting' => awaiting
    <3>1. awaiting' = awaiting \/ awaiting' = (awaiting /\ f.op = "highWaterMark")
      BY Zenon, <2>1 DEF RunsSend, RunsFile, RunsShutdown, RunsCallback, RunsDestroy
    <3>2. awaiting \in BOOLEAN BY DEF TypeOK
    <3> QED BY <3>1, <3>2
  <2> QED BY <2>1, <2>3, <2>4, <2>5 DEF Runs, userVars, peerVars
<1>15. CASE PeerReads \/ PeerCloses \/ PeerResets
  BY <1>15 DEF PeerReads, PeerCloses, PeerResets, connVars, userVars, callVars,
               socketVars
<1>16. CASE UNCHANGED vars
  BY <1>16 DEF vars, connVars, userVars, callVars, socketVars, peerVars
<1> QED BY <1>1, <1>2, <1>3, <1>4, <1>5, <1>6, <1>7, <1>8, <1>9, <1>10, <1>11,
           <1>12, <1>13, <1>14, <1>15, <1>16 DEF Next

-----------------------------------------------------------------------------
(***************************************************************************)
(* The parts of the invariant that hold for every usage.                   *)
(***************************************************************************)

\* kDisconnected comes with the closing, kConnected ends with the FIN.
LEMMA StatePreserved ==
  ASSUME TypeOK, StateInv, Frame, QueueMoves, [Next]_vars
  PROVE  StateInv'
<1>1. state_' = "kDisconnected" => removal' # "none" BY DEF StateInv, Frame
<1>2. ASSUME state_' = "kConnected"
      PROVE  /\ removal' = "none" /\ ~fin' /\ user' # "stored"
             /\ \A f \in Ready' : f.op # "shutdownInLoop"
  <2>1. state_ = "kConnected" /\ state_' = state_
    BY <1>2 DEF Frame
  <2>2. /\ removal = "none" /\ ~fin /\ user # "stored"
        /\ \A f \in Ready : f.op # "shutdownInLoop"
    BY <2>1 DEF StateInv
  <2>3. removal' = "none" BY <1>2, <2>2 DEF Frame
  <2>4. ~fin' BY <1>2, <2>2 DEF Frame
  <2>5. user' # "stored"
    <3>1. user' = "stored" => \/ user' = user
                              \/ state_' = "kDisconnecting"
                              \/ user' \in usage.user
      BY DEF Frame
    <3>2. "stored" \notin usage.user
      BY OutputAssumption DEF TypeOK, Calls
    <3> QED BY <1>2, <2>2, <3>1, <3>2
  <2>6. ~UserShutsDown BY <2>2 DEF UserShutsDown
  <2>7. \A f \in Ready' : f.op # "shutdownInLoop"
    BY <2>2, <2>6, ReadyMoves DEF Enters
  <2> QED BY <2>3, <2>4, <2>5, <2>7
<1>3. ASSUME NEW f \in Ready', f.op = "connectDestroyed"
      PROVE  removal' # "none"
  <2>1. CASE f \in Ready BY <1>3, <2>1 DEF StateInv, Frame
  <2>2. CASE Enters(f)
    <3>1. BaseRemoves BY <1>3, <2>2 DEF Enters
    <3> QED BY <3>1 DEF BaseRemoves
  <2> QED BY <2>1, <2>2, ReadyMoves
<1> QED BY <1>1, <1>2, <1>3 DEF StateInv

\* A functor is bound to a message sent, or to the rest of a file.
LEMMA DataPreserved ==
  ASSUME TypeOK, DataInv, Frame, QueueMoves, [Next]_vars
  PROVE  DataInv'
<1>1. calls \in Nat /\ (calls' = calls \/ calls' = calls + 1)
  BY OutputAssumption DEF Frame, TypeOK
<1>2. ASSUME NEW f \in Ready', f.op = "sendInLoop"
      PROVE  \E m \in 1 .. calls' : f.data = Data(m)
  <2>1. CASE f \in Ready
    <3>1. PICK m \in 1 .. calls : f.data = Data(m) BY <1>2, <2>1 DEF DataInv
    <3> QED BY <1>1, <3>1
  <2>2. CASE Enters(f)
    <3>1. UserSends /\ f.data = Data(calls') BY <1>2, <2>2 DEF Enters
    <3>2. calls' = calls + 1 BY <3>1 DEF UserSends, Accept
    <3>3. calls' \in 1 .. calls' BY <1>1, <3>2
    <3> QED BY <3>1, <3>3
  <2> QED BY <2>1, <2>2, ReadyMoves
<1>3. ASSUME NEW f \in Ready', f.op = "sendFileInLoop" PROVE f.data # <<>>
  BY <1>3, ReadyMoves DEF Enters, DataInv
<1> QED BY <1>2, <1>3 DEF DataInv

\* Concatenation with and of empty sequences.
LEMMA SequenceFacts ==
  ASSUME NEW S, NEW s \in Seq(S), NEW t \in Seq(S)
  PROVE  /\ s \o <<>> = s /\ <<>> \o s = s
         /\ s \o t \in Seq(S)
         /\ s \o t = <<>> <=> s = <<>> /\ t = <<>>
BY ConcatEmptySeq, ConcatProperties, ConcatEqualIffEmpty

\* A FIN, or a broken socket, leaves outputBuffer_ and isWriting() as they are;
\* otherwise a rest that is kept asks for EPOLLOUT.
LEMMA WritingPreserved ==
  ASSUME TypeOK, PollerInv, Sound, NEW data,
         \/ Dropped("kDisconnected") \/ Written(data)
         \/ Dropped("kDisconnecting") \/ FileWritten(data)
  PROVE  removal = "none" => /\ IsWriting' <=> outputBuffer_' # <<>>
                             /\ fin' => outputBuffer_' = <<>>
<1> SUFFICES ASSUME removal = "none"
             PROVE  /\ IsWriting' <=> outputBuffer_' # <<>>
                    /\ fin' => outputBuffer_' = <<>>
  OBVIOUS
<1>1. /\ IsWriting <=> outputBuffer_ # <<>>
      /\ fin => outputBuffer_ = <<>>
      /\ outputBuffer_ \in Seq(AllBytes)
  BY DEF PollerInv, TypeOK
<1>2. fin' = fin BY DEF Sound
<1>3. CASE UNCHANGED <<outputBuffer_, poller>>
  BY <1>1, <1>2, <1>3 DEF IsWriting, P!IsWriting
<1>4. ASSUME NEW sent \in Seq(AllBytes), NEW kept \in Seq(AllBytes),
             Writes(data, sent, kept), outputBuffer_' = outputBuffer_ \o kept,
             kept # <<>>, IsWriting'
      PROVE  /\ IsWriting' <=> outputBuffer_' # <<>>
             /\ fin' => outputBuffer_' = <<>>
  <2>1. outputBuffer_' # <<>> BY <1>1, <1>4, SequenceFacts
  <2>2. fin => CanWriteDirectly BY <1>1 DEF CanWriteDirectly
  <2>3. ~fin BY <1>4, <2>2 DEF Writes, Broken
  <2> QED BY <1>2, <1>4, <2>1, <2>3
<1>5. ASSUME NEW kept \in Seq(AllBytes), outputBuffer_' = outputBuffer_ \o kept,
             kept = <<>>, poller' = poller
      PROVE  UNCHANGED <<outputBuffer_, poller>>
  BY <1>1, <1>5, SequenceFacts
<1> QED BY <1>3, <1>4, <1>5 DEF Dropped, outVars, Written, FileWritten

\* The channel asks for EPOLLOUT exactly while outputBuffer_ has bytes.
LEMMA PollerPreserved ==
  ASSUME TypeOK, CallsInv, PollerInv, StateInv, DataInv, Frame, [Next]_vars
  PROVE  PollerInv'
<1> DEFINE Index == poller'.index[Conn] = "kAdded" <=> poller'.ptr["fd"] = Conn
           Writing == removal' = "none" => /\ IsWriting' <=> outputBuffer_' # <<>>
                                           /\ fin' => outputBuffer_' = <<>>
<1> SUFFICES Index /\ Writing BY DEF PollerInv, Registered
<1>0. /\ poller.index[Conn] = "kAdded" <=> poller.ptr["fd"] = Conn
      /\ removal' = "none" => removal = "none"
      /\ removal = "none" => /\ IsWriting <=> outputBuffer_ # <<>>
                             /\ fin => outputBuffer_ = <<>>
  BY DEF PollerInv, Registered, Frame, TypeOK
<1>1. ASSUME UNCHANGED <<poller, outputBuffer_, fin>> PROVE Index /\ Writing
  BY <1>0, <1>1 DEF IsWriting, P!IsWriting
<1>2. ASSUME Sound, NEW data,
             \/ Dropped("kDisconnected") \/ Written(data)
             \/ Dropped("kDisconnecting") \/ FileWritten(data)
      PROVE  Index /\ Writing
  <2>1. Index BY <1>2 DEF Sound
  <2>2. Writing BY <1>0, <1>2, WritingPreserved
  <2> QED BY <2>1, <2>2
<1>3. CASE LoopSends BY <1>2, <1>3, LoopSendEffect
<1>4. CASE LoopSendsFile BY <1>2, <1>4, LoopSendFileEffect
<1>5. ASSUME UNCHANGED <<poller, outputBuffer_>>, fin' = (fin \/ ~IsWriting)
      PROVE  Index /\ Writing
  BY <1>0, <1>5 DEF IsWriting, P!IsWriting, TypeOK
<1>6. CASE LoopShutsDown
  BY <1>5, <1>6 DEF LoopShutsDown, ShutdownInLoop, outVars
<1>7. CASE HandleWrite
  <2>1. Index BY <1>7, WriteEffect
  <2>2. CASE UNCHANGED <<outVars, wire, fin>> BY <1>1, <2>2 DEF outVars
  <2>3. CASE Drained
    <3>1. PICK sent, kept \in Seq(AllBytes) :
            /\ ~Broken
            /\ outputBuffer_ = sent \o kept
            /\ sent # <<>>
            /\ outputBuffer_' = kept
            /\ \/ kept = <<>> /\ ~IsWriting'
               \/ kept # <<>> /\ UNCHANGED <<poller, fin>>
      BY <2>3 DEF Drained
    <3>2. outputBuffer_ # <<>> BY <3>1, SequenceFacts
    <3> QED BY <1>0, <2>1, <3>1, <3>2 DEF IsWriting, P!IsWriting
  <2> QED BY <1>7, <2>2, <2>3, WriteEffect
<1>8. CASE HandleClose
  <2>1. removal' = "asked" /\ Index BY <1>8, CloseEffect
  <2> QED BY <2>1
<1>9. CASE RunFunctor
  <2>1. PICK f \in Functors :
          /\ Runs(f)
          /\ \/ RunsSend(f) \/ RunsFile(f) \/ RunsShutdown(f)
             \/ RunsCallback(f) \/ RunsDestroy(f)
    BY <1>9, RunEffect
  <2>2. CASE RunsSend(f) BY <1>2, <2>2 DEF RunsSend
  <2>3. CASE RunsFile(f) BY <1>2, <2>3 DEF RunsFile
  <2>4. CASE RunsShutdown(f) BY <1>5, <2>4 DEF RunsShutdown
  <2>5. CASE RunsCallback(f) BY <1>1, <2>5 DEF RunsCallback
  <2>6. CASE RunsDestroy(f)
    <3>1. f \in Ready BY <2>1, ToRunType, ToSetFacts DEF Runs, Ready
    <3>2. removal # "none" BY <2>6, <3>1 DEF StateInv, RunsDestroy
    <3>3. Index BY <2>6, <3>2, DestroyEffect DEF RunsDestroy
    <3> QED BY <1>0, <3>2, <3>3
  <2> QED BY <2>1, <2>2, <2>3, <2>4, <2>5, <2>6
<1>10. CASE \/ (\E op \in Calls : UserTests(op)) \/ UserSends \/ UserSendsFile
            \/ UserStores \/ UserShutsDown \/ UserLetsGo \/ BaseRemoves
            \/ TakeFunctors \/ EndRound
            \/ PeerReads \/ PeerCloses \/ PeerResets \/ UNCHANGED vars
  <2>1. UNCHANGED <<poller, outputBuffer_, fin>>
    BY <1>10
    DEF UserTests, UserSends, UserSendsFile, UserStores, UserShutsDown,
        UserLetsGo, BaseRemoves, TakeFunctors, EndRound, PeerReads, PeerCloses,
        PeerResets, vars, connVars, socketVars, outVars
  <2> QED BY <1>1, <2>1
<1> QED BY <1>3, <1>4, <1>6, <1>7, <1>8, <1>9, <1>10 DEF Next

\* The other thread, the queue and the messages keep to the usage.
LEMMA UsagePreserved ==
  ASSUME TypeOK, UsageInv, Frame, QueueMoves, [Next]_vars
  PROVE  UsageInv'
<1>0. /\ usage' = usage /\ usage.user \subseteq Calls /\ usage.loop \subseteq Calls
      /\ calls \in Nat
  BY OutputAssumption DEF Frame, TypeOK
<1>1. user' \in Calls => user' \in usage'.user
  BY <1>0 DEF UsageInv, Frame, Calls
<1>2. user' = "stored" => "shutdown" \in usage'.user
  BY <1>0 DEF UsageInv, Frame, Calls
<1>3. ASSUME NEW f \in Ready', f.op = "sendInLoop"
      PROVE  "send" \in usage'.user
  <2>1. CASE f \in Ready BY <1>0, <1>3, <2>1 DEF UsageInv
  <2>2. CASE Enters(f)
    <3>1. user = "send" BY <1>3, <2>2 DEF Enters, UserSends
    <3> QED BY <1>0, <3>1 DEF UsageInv, Calls
  <2> QED BY <2>1, <2>2, ReadyMoves
<1>4. ASSUME NEW f \in Ready', f.op = "sendFileInLoop"
      PROVE  "sendFile" \in usage'.loop \cup usage'.user
  <2>1. CASE f \in Ready BY <1>0, <1>4, <2>1 DEF UsageInv
  <2>2. CASE LoopSendsFile BY <1>0, <2>2 DEF LoopSendsFile, Calling
  <2>3. CASE UserSendsFile
    <3>1. user = "sendFile" BY <2>3 DEF UserSendsFile
    <3> QED BY <1>0, <3>1 DEF UsageInv, Calls
  <2>4. CASE Queued("sendFileInLoop")
    BY <1>0, <2>4 DEF Queued, Ready, UsageInv
  <2> QED BY <1>4, <2>1, <2>2, <2>3, <2>4, ReadyMoves DEF Enters
<1>5. ASSUME NEW m \in SentBy("user")'
      PROVE  usage'.user \cap {"send", "sendFile"} # {}
  <2>1. m \in 1 .. calls' /\ sender'[m] = "user" BY <1>5 DEF SentBy
  <2>2. CASE m \in SentBy("user") BY <1>0, <2>2 DEF UsageInv
  <2>3. CASE UserSends \/ UserSendsFile
    <3>1. user \in {"send", "sendFile"} BY <2>3 DEF UserSends, UserSendsFile
    <3> QED BY <1>0, <3>1 DEF UsageInv, Calls
  <2>4. CASE calls' = calls /\ sender' = sender BY <2>1, <2>2, <2>4 DEF SentBy
  <2>5. CASE /\ calls' = calls + 1 /\ calls' \in Messages
              /\ sender' = [sender EXCEPT ![calls'] = "loop"]
    <3>1. CASE m = calls' BY <2>1, <2>5, <3>1 DEF TypeOK
    <3>2. CASE m # calls'
      <4>1. m \in 1 .. calls /\ sender[m] = "user"
        BY <1>0, <2>1, <2>5, <3>2, OutputAssumption DEF TypeOK, Messages
      <4> QED BY <2>2, <4>1 DEF SentBy
    <3> QED BY <3>1, <3>2
  <2> QED BY <2>3, <2>4, <2>5 DEF Frame
<1> QED BY <1>1, <1>2, <1>3, <1>4, <1>5 DEF UsageInv

\* Ascending queues stay so, but for a string older than the last.
LEMMA AscendingFacts ==
  ASSUME NEW q \in Seq(Functors), Ascending(q)
  PROVE  /\ q # <<>> => Ascending(Tail(q))
         /\ \A g \in Functors :
              (g.op = "sendInLoop" =>
                 \A i \in 1 .. Len(q) : q[i].op = "sendInLoop" =>
                   q[i].data[1][1] < g.data[1][1])
              => Ascending(Append(q, g))
<1>1. ASSUME q # <<>> PROVE Ascending(Tail(q)) BY <1>1 DEF Ascending
<1>2. ASSUME NEW g \in Functors,
             g.op = "sendInLoop" =>
               \A i \in 1 .. Len(q) : q[i].op = "sendInLoop" =>
                 q[i].data[1][1] < g.data[1][1]
      PROVE  Ascending(Append(q, g))
  BY <1>2 DEF Ascending
<1> QED BY <1>1, <1>2

\* The message that a sendInLoop() is bound to was sent before this step.
LEMMA BoundBefore ==
  ASSUME TypeOK, DataInv, NEW f \in Ready, f.op = "sendInLoop"
  PROVE  f.data[1][1] \in 1 .. calls /\ f.data = Data(f.data[1][1])
<1>1. PICK m \in 1 .. calls : f.data = Data(m) BY DEF DataInv
<1>2. m \in Messages BY OutputAssumption DEF TypeOK, Messages
<1> QED BY <1>1, <1>2, DataFacts

\* Strings of the other thread wait in the order of its calls.
LEMMA OrderPreserved ==
  ASSUME TypeOK, CallsInv, DataInv, OrderInv, QueueMoves, [Next]_vars
  PROVE  OrderInv'
<1>1. ToRun \in Seq(Functors) /\ Ascending(ToRun) BY ToRunType DEF OrderInv
<1>2. ASSUME NEW g \in Functors, Enters(g), g.op = "sendInLoop",
             NEW f \in Ready, f.op = "sendInLoop"
      PROVE  f.data[1][1] < g.data[1][1]
  <2>1. UserSends /\ g.data = Data(calls') BY <1>2 DEF Enters
  <2>2. calls' = calls + 1 /\ calls' \in Messages
    BY <2>1, OutputAssumption DEF UserSends, Accept, TypeOK, CallsInv, Messages
  <2>3. PICK m \in Messages : m = calls' BY <2>2
  <2>4. g.data[1][1] = m BY <2>1, <2>3, DataFacts
  <2>5. f.data[1][1] \in 1 .. calls BY <1>2, BoundBefore
  <2> QED BY <2>2, <2>3, <2>4, <2>5 DEF TypeOK
<1>3. ASSUME NEW q \in Seq(Functors), Ascending(q), ToSet(q) \subseteq Ready,
             NEW g \in Functors, Enters(g)
      PROVE  Ascending(Append(q, g))
  <2>1. \A i \in 1 .. Len(q) : q[i] \in Ready BY <1>3 DEF ToSet
  <2> QED BY <1>2, <1>3, <2>1, AscendingFacts
<1>4. ASSUME ToRun # <<>>
      PROVE  /\ Tail(ToRun) \in Seq(Functors)
             /\ Ascending(Tail(ToRun))
             /\ ToSet(Tail(ToRun)) \subseteq Ready
  BY <1>1, <1>4, AscendingFacts, HeadTailProperties, ToSetFacts DEF Ready
<1>5. ToSet(ToRun) \subseteq Ready BY DEF Ready
<1>6. Ascending(ToRun')
  <2>1. CASE ToRun' = ToRun BY <1>1, <2>1
  <2>2. ASSUME NEW g \in Functors, Enters(g), ToRun' = Append(ToRun, g)
        PROVE  Ascending(ToRun')
    BY <1>1, <1>3, <1>5, <2>2
  <2>3. CASE ToRun # <<>> /\ ToRun' = Tail(ToRun) BY <1>4, <2>3
  <2>4. ASSUME ToRun # <<>>, NEW g \in Functors, Enters(g),
               ToRun' = Append(Tail(ToRun), g)
        PROVE  Ascending(ToRun')
    BY <1>3, <1>4, <2>4
  <2> QED BY <2>1, <2>2, <2>3, <2>4 DEF QueueMoves
<1> QED BY <1>6 DEF OrderInv

-----------------------------------------------------------------------------
(***************************************************************************)
(* The closing.                                                            *)
(***************************************************************************)

\* The channel of a closed connection stays out of the poller.
LEMMA ClosedPreserved ==
  ASSUME TypeOK, PollerInv, StateInv, UsageInv, DataInv, CallsInv, ClosedInv, OneInv,
         Frame, QueueMoves, [Next]_vars
  PROVE  ClosedInv'
<1> SUFFICES ASSUME ClosesCleanly, removal' # "none"
             PROVE  /\ poller'.index[Conn] # "kAdded"
                    /\ state_' # "kDisconnected" =>
                         user' # "send" /\ \A f \in Ready' : f.op # "sendInLoop"
  BY DEF ClosedInv, ClosesCleanly, Frame
<1>1. CASE HandleClose
  BY <1>1, CloseEffect
<1>2. CASE ~HandleClose
  <2>1. removal # "none" BY <1>2 DEF Frame
  <2>2. /\ poller.index[Conn] # "kAdded" /\ ~Registered
        /\ state_ # "kDisconnected" =>
             user # "send" /\ \A f \in Ready : f.op # "sendInLoop"
        /\ state_ # "kConnected"
    BY <2>1 DEF ClosedInv, PollerInv, StateInv
  <2>3. poller'.index[Conn] # "kAdded"
    <3>1. ASSUME poller' = poller PROVE poller'.index[Conn] # "kAdded"
      BY <2>2, <3>1
    <3>2. CASE RunFunctor
      <4>1. PICK f \in Functors :
              /\ Runs(f)
              /\ \/ RunsSend(f) \/ RunsFile(f) \/ RunsShutdown(f)
                 \/ RunsCallback(f) \/ RunsDestroy(f)
        BY <3>2, RunEffect
      <4>2. f \in Ready BY <4>1, ToRunType, ToSetFacts DEF Runs, Ready
      <4>3. CASE RunsSend(f)
        <5>1. state_ = "kDisconnected" BY <2>2, <4>2, <4>3 DEF RunsSend
        <5>2. Dropped("kDisconnected") BY <4>3, <5>1 DEF RunsSend, Written
        <5> QED BY <3>1, <5>2 DEF Dropped, outVars
      <4>4. CASE RunsFile(f)
        BY <3>1, <4>4 DEF RunsFile, Dropped, outVars, FileWritten
      <4>5. CASE RunsShutdown(f) \/ RunsCallback(f)
        BY <3>1, <4>5 DEF RunsShutdown, RunsCallback
      <4>6. CASE RunsDestroy(f)
        <5>1. poller'.index[Conn] = "kNew"
          BY <2>1, <4>6, DestroyEffect DEF RunsDestroy
        <5> QED BY <5>1
      <4> QED BY <4>1, <4>3, <4>4, <4>5, <4>6
    <3>3. CASE ~RunFunctor
      <4>1. ~LoopSends /\ ~LoopSendsFile
        BY <2>2 DEF LoopSends, LoopSendsFile, Calling
      <4>2. ~HandleWrite BY <2>2 DEF HandleWrite
      <4>3. poller' = poller
        BY <1>2, <3>3, <4>1, <4>2
        DEF Next, LoopShutsDown, UserTests, UserSends, UserSendsFile, UserStores,
            UserShutsDown, UserLetsGo, BaseRemoves, TakeFunctors, EndRound,
            PeerReads, PeerCloses, PeerResets, connVars, outVars, vars
      <4> QED BY <3>1, <4>3
    <3> QED BY <3>2, <3>3
  <2>4. ASSUME state_' # "kDisconnected"
        PROVE  user' # "send" /\ \A f \in Ready' : f.op # "sendInLoop"
    <3>1. CASE state_' = state_
      <4>1. user # "send" /\ \A f \in Ready : f.op # "sendInLoop"
        BY <2>2, <2>4, <3>1
      <4>2. user' # "send" BY <2>2, <4>1 DEF Frame
      <4>3. ~UserSends BY <4>1 DEF UserSends
      <4> QED BY <4>1, <4>2, <4>3, ReadyMoves DEF Enters
    <3>2. CASE UserStores
      <4>1. user = "shutdown" /\ user' = "stored" /\ ~UserSends
        BY <3>2 DEF UserStores, UserSends
      <4>2. ASSUME NEW f \in Ready, f.op = "sendInLoop" PROVE FALSE
        <5>1. "send" \in usage.user /\ "shutdown" \in usage.user
          BY <4>1, <4>2 DEF UsageInv, Calls
        <5>2. usage.awaits BY <5>1 DEF ClosesCleanly
        <5>3. NoneAwaited(ToRun) BY <4>1, <5>2 DEF OneInv
        <5>4. f.op \notin Awaited
          BY <5>3, ToRunType DEF NoneAwaited, Ready, ToSet
        <5> QED BY <4>2, <5>4 DEF Awaited, Carriers
      <4> QED BY <4>1, <4>2, ReadyMoves DEF Enters
    <3>3. ~LoopShutsDown BY <2>2 DEF LoopShutsDown, Calling
    <3> QED BY <1>2, <2>4, <3>1, <3>2, <3>3 DEF Frame
  <2> QED BY <2>3, <2>4
<1> QED BY <1>1, <1>2

-----------------------------------------------------------------------------
(***************************************************************************)
(* One message at a time.                                                  *)
(***************************************************************************)

\* Queues with no awaited functor, and with one.
LEMMA AwaitedFacts ==
  ASSUME NEW q \in Seq(Functors)
  PROVE  /\ NoneAwaited(q) => OneAwaited(q)
         /\ q # <<>> =>
              /\ Tail(q) \in Seq(Functors)
              /\ NoneAwaited(q) => NoneAwaited(Tail(q)) /\ Head(q).op \notin Awaited
              /\ OneAwaited(q) => OneAwaited(Tail(q))
              /\ OneAwaited(q) /\ Head(q).op \in Awaited => NoneAwaited(Tail(q))
         /\ \A g \in Functors :
              /\ NoneAwaited(q) => OneAwaited(Append(q, g))
              /\ NoneAwaited(q) /\ g.op \notin Awaited => NoneAwaited(Append(q, g))
              /\ OneAwaited(q) /\ g.op \notin Awaited => OneAwaited(Append(q, g))
<1>1. NoneAwaited(q) => OneAwaited(q) BY DEF NoneAwaited, OneAwaited
<1>2. ASSUME q # <<>>
      PROVE  /\ Tail(q) \in Seq(Functors)
             /\ NoneAwaited(q) => NoneAwaited(Tail(q)) /\ Head(q).op \notin Awaited
             /\ OneAwaited(q) => OneAwaited(Tail(q))
             /\ OneAwaited(q) /\ Head(q).op \in Awaited => NoneAwaited(Tail(q))
  <2>1. /\ Tail(q) \in Seq(Functors) /\ Len(Tail(q)) = Len(q) - 1
        /\ \A i \in 1 .. Len(Tail(q)) : Tail(q)[i] = q[i + 1]
        /\ Head(q) = q[1] /\ Len(q) \in Nat \ {0}
    BY <1>2
  <2>2. NoneAwaited(q) => NoneAwaited(Tail(q)) /\ Head(q).op \notin Awaited
    BY <2>1 DEF NoneAwaited
  <2>3. OneAwaited(q) => OneAwaited(Tail(q)) BY <2>1 DEF OneAwaited
  <2>4. OneAwaited(q) /\ Head(q).op \in Awaited => NoneAwaited(Tail(q))
    BY <2>1 DEF OneAwaited, NoneAwaited
  <2> QED BY <2>1, <2>2, <2>3, <2>4
<1>3. ASSUME NEW g \in Functors
      PROVE  /\ NoneAwaited(q) => OneAwaited(Append(q, g))
             /\ NoneAwaited(q) /\ g.op \notin Awaited => NoneAwaited(Append(q, g))
             /\ OneAwaited(q) /\ g.op \notin Awaited => OneAwaited(Append(q, g))
  <2>1. /\ Len(Append(q, g)) = Len(q) + 1 /\ Len(q) \in Nat
        /\ \A i \in 1 .. Len(q) : Append(q, g)[i] = q[i]
        /\ Append(q, g)[Len(q) + 1] = g
    OBVIOUS
  <2>2. NoneAwaited(q) => OneAwaited(Append(q, g))
    BY <2>1 DEF NoneAwaited, OneAwaited
  <2>3. NoneAwaited(q) /\ g.op \notin Awaited => NoneAwaited(Append(q, g))
    BY <2>1 DEF NoneAwaited
  <2>4. OneAwaited(q) /\ g.op \notin Awaited => OneAwaited(Append(q, g))
    BY <2>1 DEF OneAwaited
  <2> QED BY <2>2, <2>3, <2>4
<1> QED BY <1>1, <1>2, <1>3

\* sendInLoop() and sendFileInLoop() put the only message of q where it goes on.
LEMMA SendsOne ==
  ASSUME NEW q \in Seq(Functors), NoneAwaited(q), outputBuffer_ = <<>>,
         pending' = pending => ToRun' = q,
         \A g \in Functors : pending' = Append(pending, g) => ToRun' = Append(q, g),
         NEW data,
         \/ Dropped("kDisconnected") \/ Written(data)
         \/ Dropped("kDisconnecting") \/ FileWritten(data)
  PROVE  /\ OneAwaited(ToRun')
         /\ outputBuffer_' # <<>> => NoneAwaited(ToRun')
<1>1. ASSUME pending' = pending
      PROVE  OneAwaited(ToRun') /\ NoneAwaited(ToRun')
  BY <1>1, AwaitedFacts
<1>2. ASSUME NEW op \in {"writeComplete", "highWaterMark"},
             pending' = Append(pending, Functor(op, <<>>))
      PROVE  /\ OneAwaited(ToRun')
             /\ op = "highWaterMark" => NoneAwaited(ToRun')
  <2> DEFINE g == Functor(op, <<>>)
  <2>1. g \in Functors /\ g.op = op BY FunctorTypes DEF Ops, Functor
  <2>2. ToRun' = Append(q, g) BY <1>2, <2>1
  <2> HIDE DEF g
  <2>3. OneAwaited(Append(q, g)) BY <2>1, AwaitedFacts
  <2>4. op = "highWaterMark" => NoneAwaited(Append(q, g))
    BY <2>1, AwaitedFacts DEF Awaited, Carriers
  <2> QED BY <2>2, <2>3, <2>4
<1>3. ASSUME NEW kept \in Seq(AllBytes),
             pending' = Append(pending, Functor("sendFileInLoop", kept))
      PROVE  OneAwaited(ToRun')
  <2> DEFINE g == Functor("sendFileInLoop", kept)
  <2>1. g \in Functors BY FunctorTypes DEF Ops
  <2>2. ToRun' = Append(q, g) BY <1>3, <2>1
  <2> HIDE DEF g
  <2>3. OneAwaited(Append(q, g)) BY <2>1, AwaitedFacts
  <2> QED BY <2>2, <2>3
<1>4. <<>> \o <<>> = <<>> OBVIOUS
<1>5. CASE Dropped("kDisconnected") \/ Dropped("kDisconnecting")
  BY <1>1, <1>5 DEF Dropped, outVars
<1>6. CASE Written(data) BY <1>1, <1>2, <1>4, <1>6 DEF Written
<1>7. CASE FileWritten(data) BY <1>2, <1>3, <1>7 DEF FileWritten
<1> QED BY <1>5, <1>6, <1>7

\* With a caller that awaits, one message is under way at a time.
LEMMA OnePreserved ==
  ASSUME TypeOK, RoundInv, CallsInv, PollerInv, DataInv, OneInv, Frame,
         [Next]_vars
  PROVE  OneInv'
<1> SUFFICES ASSUME usage.awaits
             PROVE  /\ user' # "idle" => ~awaiting'
                    /\ ~awaiting' => outputBuffer_' = <<>>
                    /\ ~awaiting' \/ outputBuffer_' # <<>> => NoneAwaited(ToRun')
                    /\ OneAwaited(ToRun')
  BY DEF OneInv, Frame
<1> DEFINE Goal == /\ user' # "idle" => ~awaiting'
                   /\ ~awaiting' => outputBuffer_' = <<>>
                   /\ ~awaiting' \/ outputBuffer_' # <<>> => NoneAwaited(ToRun')
                   /\ OneAwaited(ToRun')
<1>0. /\ user # "idle" => ~awaiting
      /\ ~awaiting => outputBuffer_ = <<>>
      /\ ~awaiting \/ outputBuffer_ # <<>> => NoneAwaited(ToRun)
      /\ OneAwaited(ToRun)
      /\ ToRun \in Seq(Functors)
  BY ToRunType DEF OneInv
<1>a. /\ UNCHANGED <<batch, ran>> /\ pending' = pending => ToRun' = ToRun
      /\ UNCHANGED <<batch, ran>> => \A g \in Functors :
           pending' = Append(pending, g) => ToRun' = Append(ToRun, g)
  BY SameStep, QueueStep
<1>b. ASSUME NEW data, ~awaiting, awaiting' = TRUE, user' = "idle",
             UNCHANGED <<batch, ran>>,
             \/ Dropped("kDisconnected") \/ Written(data)
             \/ Dropped("kDisconnecting") \/ FileWritten(data)
      PROVE  Goal
  BY <1>0, <1>a, <1>b, SendsOne
<1>1. CASE LoopSends
  <2>1. /\ ~awaiting /\ awaiting' = TRUE /\ user' = "idle"
        /\ UNCHANGED <<batch, ran>>
    BY <1>1 DEF LoopSends, Calling, MayCall, Accept, loopVars, userVars
  <2> QED BY <1>1, <1>b, <2>1, LoopSendEffect
<1>2. CASE LoopSendsFile
  <2>1. /\ ~awaiting /\ awaiting' = TRUE /\ user' = "idle"
        /\ UNCHANGED <<batch, ran>>
    BY <1>2 DEF LoopSendsFile, Calling, MayCall, Accept, loopVars, userVars
  <2> QED BY <1>2, <1>b, <2>1, LoopSendFileEffect
<1>3. CASE LoopShutsDown
  BY <1>0, <1>3, <1>a DEF LoopShutsDown, loopVars, userVars, outVars
<1>4. ASSUME NEW op \in Calls, UserTests(op) PROVE Goal
  BY <1>0, <1>4, <1>a DEF UserTests, MayCall, loopVars, callVars, connVars
<1>5. CASE UserSends \/ UserSendsFile
  <2>1. /\ user # "idle" /\ user' = "idle" /\ awaiting' = TRUE
        /\ UNCHANGED <<outputBuffer_, batch, ran>>
    BY <1>5, OutputAssumption
    DEF UserSends, UserSendsFile, Accept, connVars, loopVars, TypeOK
  <2>2. PICK m \in Messages : m = calls' BY <1>5, UserSendNumber
  <2>3. PICK op \in {"sendInLoop", "sendFileInLoop"} :
          pending' = Append(pending, Functor(op, Data(m)))
    BY <1>5, <2>2 DEF UserSends, UserSendsFile, SendFileAgain
  <2> DEFINE g == Functor(op, Data(m))
  <2>4. g \in Functors BY DataFacts, FunctorTypes DEF Ops
  <2>5. ToRun' = Append(ToRun, g) BY <1>a, <2>1, <2>3, <2>4
  <2> HIDE DEF g
  <2>6. OneAwaited(Append(ToRun, g)) BY <1>0, <2>1, <2>4, AwaitedFacts
  <2> QED BY <1>0, <2>1, <2>5, <2>6
<1>6. ASSUME NEW op \in {"shutdownInLoop", "connectDestroyed"},
             pending' = Append(pending, Functor(op, <<>>)),
             UNCHANGED <<outputBuffer_, batch, ran, awaiting>>,
             user' = user \/ user' = "idle"
      PROVE  Goal
  <2> DEFINE g == Functor(op, <<>>)
  <2>1. g \in Functors /\ g.op \notin Awaited
    BY FunctorTypes DEF Ops, Functor, Awaited, Carriers
  <2>2. ToRun' = Append(ToRun, g) BY <1>6, <1>a, <2>1
  <2> HIDE DEF g
  <2>3. /\ NoneAwaited(ToRun) => NoneAwaited(Append(ToRun, g))
        /\ OneAwaited(Append(ToRun, g))
    BY <1>0, <2>1, AwaitedFacts
  <2> QED BY <1>0, <1>6, <2>2, <2>3
<1>7. CASE UserShutsDown
  BY <1>6, <1>7 DEF UserShutsDown, Queue, connVars, loopVars, callVars
<1>8. CASE BaseRemoves
  BY <1>6, <1>8 DEF BaseRemoves, Queue, loopVars, userVars, callVars
<1>9. CASE UserStores \/ UserLetsGo
  BY <1>0, <1>9, <1>a
  DEF UserStores, UserLetsGo, loopVars, outVars, connVars, callVars
<1>10. CASE HandleWrite
  <2>1. UNCHANGED <<batch, ran, awaiting, user>>
    BY <1>10 DEF HandleWrite, loopVars, callVars, userVars
  <2>2. CASE UNCHANGED outVars BY <1>0, <1>a, <2>1, <2>2 DEF outVars
  <2>3. CASE Drained
    <3>1. PICK sent, kept \in Seq(AllBytes) :
            /\ outputBuffer_ = sent \o kept
            /\ sent # <<>>
            /\ outputBuffer_' = kept
            /\ \/ /\ kept = <<>>
                  /\ pending' = Append(pending, Functor("writeComplete", <<>>))
               \/ kept # <<>> /\ pending' = pending
      BY <2>3 DEF Drained
    <3>2. outputBuffer_ # <<>> BY <3>1, SequenceFacts
    <3>3. awaiting /\ user = "idle" /\ NoneAwaited(ToRun)
      BY <1>0, <3>2 DEF TypeOK
    <3>4. CASE kept # <<>> /\ pending' = pending
      BY <1>0, <1>a, <2>1, <3>3, <3>4
    <3>5. CASE kept = <<>> /\ pending' = Append(pending, Functor("writeComplete", <<>>))
      <4> DEFINE g == Functor("writeComplete", <<>>)
      <4>1. g \in Functors BY FunctorTypes DEF Ops
      <4>2. ToRun' = Append(ToRun, g) BY <1>a, <2>1, <3>5, <4>1
      <4> HIDE DEF g
      <4>3. OneAwaited(Append(ToRun, g)) BY <1>0, <3>3, <4>1, AwaitedFacts
      <4> QED BY <2>1, <3>1, <3>3, <3>5, <4>2, <4>3
    <3> QED BY <3>1, <3>4, <3>5
  <2> QED BY <1>10, <2>2, <2>3, WriteEffect
<1>11. CASE HandleClose
  BY <1>0, <1>11, <1>a DEF HandleClose, loopVars, userVars, callVars
<1>12. CASE TakeFunctors \/ EndRound
  <2>1. ToRun' = ToRun BY <1>12, RoundStep
  <2> QED BY <1>0, <1>12, <2>1
          DEF TakeFunctors, EndRound, connVars, userVars, callVars
<1>13. CASE RunFunctor
  <2>1. PICK f \in Functors :
          /\ Runs(f)
          /\ \/ RunsSend(f) \/ RunsFile(f) \/ RunsShutdown(f)
             \/ RunsCallback(f) \/ RunsDestroy(f)
    BY <1>13, RunEffect
  <2>2. /\ ToRun # <<>> /\ f = Head(ToRun) /\ user' = user
        /\ pending' = pending => ToRun' = Tail(ToRun)
        /\ \A g \in Functors : pending' = Append(pending, g) =>
             ToRun' = Append(Tail(ToRun), g)
    BY <2>1 DEF Runs, userVars
  <2>3. /\ Tail(ToRun) \in Seq(Functors)
        /\ NoneAwaited(ToRun) => NoneAwaited(Tail(ToRun)) /\ f.op \notin Awaited
        /\ OneAwaited(Tail(ToRun))
        /\ f.op \in Awaited => NoneAwaited(Tail(ToRun))
    BY <1>0, <2>2, AwaitedFacts
  <2>4. ASSUME f.op \in Awaited
        PROVE  /\ awaiting = TRUE /\ outputBuffer_ = <<>> /\ user = "idle"
               /\ NoneAwaited(Tail(ToRun))
    BY <1>0, <2>3, <2>4 DEF TypeOK
  <2>5. CASE RunsSend(f)
    <3>1. f.op \in Awaited BY <2>5 DEF RunsSend, Awaited, Carriers
    <3>2. awaiting' = awaiting BY <2>5 DEF RunsSend
    <3>3. Dropped("kDisconnected") \/ Written(f.data) BY <2>5 DEF RunsSend
    <3>4. /\ OneAwaited(ToRun')
          /\ outputBuffer_' # <<>> => NoneAwaited(ToRun')
      BY <2>2, <2>3, <2>4, <3>1, <3>3, SendsOne
    <3> QED BY <2>2, <2>4, <3>1, <3>2, <3>4
  <2>6. CASE RunsFile(f)
    <3>1. f.op \in Awaited BY <2>6 DEF RunsFile, Awaited, Carriers
    <3>2. awaiting' = awaiting BY <2>6 DEF RunsFile
    <3>3. Dropped("kDisconnecting") \/ FileWritten(f.data) BY <2>6 DEF RunsFile
    <3>4. /\ OneAwaited(ToRun')
          /\ outputBuffer_' # <<>> => NoneAwaited(ToRun')
      BY <2>2, <2>3, <2>4, <3>1, <3>3, SendsOne
    <3> QED BY <2>2, <2>4, <3>1, <3>2, <3>4
  <2>7. CASE RunsShutdown(f) \/ RunsDestroy(f)
    <3>1. UNCHANGED <<pending, outputBuffer_, awaiting>>
      BY <2>7 DEF RunsShutdown, RunsDestroy
    <3> QED BY <1>0, <2>2, <2>3, <3>1
  <2>8. CASE RunsCallback(f)
    <3>1. UNCHANGED <<pending, outputBuffer_>> BY <2>8 DEF RunsCallback
    <3>2. CASE f.op = "highWaterMark"
      <4>1. awaiting' = awaiting BY <2>8, <3>2 DEF RunsCallback, TypeOK
      <4> QED BY <1>0, <2>2, <2>3, <3>1, <4>1
    <3>3. CASE f.op = "writeComplete"
      <4>1. awaiting' = FALSE BY <2>8, <3>3 DEF RunsCallback
      <4>2. f.op \in Awaited BY <3>3 DEF Awaited, Carriers
      <4> QED BY <2>2, <2>3, <2>4, <3>1, <4>1, <4>2
    <3> QED BY <2>8, <3>2, <3>3 DEF RunsCallback
  <2> QED BY <2>1, <2>5, <2>6, <2>7, <2>8
<1>14. CASE PeerReads \/ PeerCloses \/ PeerResets \/ UNCHANGED vars
  <2>1. UNCHANGED <<pending, batch, ran, outputBuffer_, awaiting, user>>
    BY <1>14 DEF PeerReads, PeerCloses, PeerResets, vars, connVars, loopVars,
                 userVars, callVars
  <2> QED BY <1>0, <1>a, <2>1
<1> QED BY <1>1, <1>2, <1>3, <1>4, <1>5, <1>7, <1>8, <1>9, <1>10, <1>11,
           <1>12, <1>13, <1>14 DEF Next
-----------------------------------------------------------------------------
(***************************************************************************)
(* Nothing is lost while the connection is intact.                         *)
(***************************************************************************)

Passed == ToSet(wire) \cup ToSet(outputBuffer_)

\* A string that is written is in the socket or in outputBuffer_.
LEMMA WrittenBytes ==
  ASSUME TypeOK, NEW data, Written(data)
  PROVE  Passed \cup ToSet(data) \subseteq Passed'
<1>1. PICK sent, kept \in Seq(AllBytes) :
        data = sent \o kept /\ wire' = wire \o sent
        /\ outputBuffer_' = outputBuffer_ \o kept
  BY DEF Written, Writes
<1>2. wire \in Seq(AllBytes) /\ outputBuffer_ \in Seq(AllBytes) BY DEF TypeOK
<1>3. /\ ToSet(sent \o kept) = ToSet(sent) \cup ToSet(kept)
      /\ ToSet(wire \o sent) = ToSet(wire) \cup ToSet(sent)
      /\ ToSet(outputBuffer_ \o kept) = ToSet(outputBuffer_) \cup ToSet(kept)
  BY <1>2, ToSetFacts
<1>4. /\ ToSet(data) = ToSet(sent) \cup ToSet(kept)
      /\ Passed' = (ToSet(wire) \cup ToSet(sent))
                   \cup (ToSet(outputBuffer_) \cup ToSet(kept))
  BY Zenon, <1>1, <1>3 DEF Passed
<1> QED BY <1>4 DEF Passed

\* A file that is written is in the socket or in the functor queued again.
LEMMA FileWrittenBytes ==
  ASSUME TypeOK, NEW data, FileWritten(data)
  PROVE  /\ Passed \subseteq Passed'
         /\ \A b \in ToSet(data) :
              \/ b \in Passed'
              \/ \E kept \in Seq(AllBytes) :
                   /\ pending' = Append(pending, Functor("sendFileInLoop", kept))
                   /\ b \in ToSet(kept)
<1>1. PICK sent, kept \in Seq(AllBytes) :
        /\ data = sent \o kept /\ wire' = wire \o sent
        /\ outputBuffer_' = outputBuffer_
        /\ \/ kept = <<>>
           \/ pending' = Append(pending, Functor("sendFileInLoop", kept))
  BY DEF FileWritten, Writes
<1>2. wire \in Seq(AllBytes) BY DEF TypeOK
<1>3. /\ ToSet(sent \o kept) = ToSet(sent) \cup ToSet(kept)
      /\ ToSet(wire \o sent) = ToSet(wire) \cup ToSet(sent)
  BY <1>2, ToSetFacts
<1>4. /\ ToSet(data) = ToSet(sent) \cup ToSet(kept)
      /\ Passed' = (ToSet(wire) \cup ToSet(sent)) \cup ToSet(outputBuffer_)
  BY Zenon, <1>1, <1>3 DEF Passed
<1>5. kept = <<>> => ToSet(kept) = {} BY DEF ToSet
<1> QED BY <1>1, <1>4, <1>5 DEF Passed

\* handleWrite() moves bytes, and loses none.
LEMMA DrainedBytes ==
  ASSUME TypeOK, Drained
  PROVE  Passed' = Passed
<1>1. PICK sent, kept \in Seq(AllBytes) :
        /\ outputBuffer_ = sent \o kept /\ wire' = wire \o sent
        /\ outputBuffer_' = kept
  BY DEF Drained
<1>2. wire \in Seq(AllBytes) BY DEF TypeOK
<1>3. /\ ToSet(sent \o kept) = ToSet(sent) \cup ToSet(kept)
      /\ ToSet(wire \o sent) = ToSet(wire) \cup ToSet(sent)
  BY <1>2, ToSetFacts
<1>4. /\ ToSet(outputBuffer_) = ToSet(sent) \cup ToSet(kept)
      /\ Passed' = (ToSet(wire) \cup ToSet(sent)) \cup ToSet(kept)
  BY Zenon, <1>1, <1>3 DEF Passed
<1> QED BY <1>4 DEF Passed

\* What has left the functors stays in outputBuffer_ or goes to the socket.
LEMMA PassedGrows ==
  ASSUME TypeOK, RoundInv, CallsInv, PollerInv, DataInv, [Next]_vars
  PROVE  Passed \subseteq Passed'
<1>1. ASSUME NEW state, Dropped(state) PROVE Passed \subseteq Passed'
  BY <1>1 DEF Dropped, outVars, Passed
<1>2. CASE LoopSends BY <1>1, <1>2, LoopSendEffect, WrittenBytes
<1>3. CASE LoopSendsFile BY <1>1, <1>3, LoopSendFileEffect, FileWrittenBytes
<1>4. CASE HandleWrite
  <2>1. CASE UNCHANGED <<outVars, wire, fin>> BY <2>1 DEF outVars, Passed
  <2> QED BY <1>4, <2>1, WriteEffect, DrainedBytes
<1>5. CASE RunFunctor
  <2>1. PICK f \in Functors :
          \/ RunsSend(f) \/ RunsFile(f) \/ RunsShutdown(f)
          \/ RunsCallback(f) \/ RunsDestroy(f)
    BY <1>5, RunEffect
  <2>2. CASE RunsSend(f) BY <1>1, <2>2, WrittenBytes DEF RunsSend
  <2>3. CASE RunsFile(f) BY <1>1, <2>3, FileWrittenBytes DEF RunsFile
  <2>4. CASE RunsShutdown(f) \/ RunsCallback(f) \/ RunsDestroy(f)
    BY <2>4 DEF RunsShutdown, RunsCallback, RunsDestroy, Passed
  <2> QED BY <2>1, <2>2, <2>3, <2>4
<1>6. CASE ~LoopSends /\ ~LoopSendsFile /\ ~HandleWrite /\ ~RunFunctor
  <2>1. UNCHANGED <<wire, outputBuffer_>>
    BY <1>6
    DEF Next, LoopShutsDown, ShutdownInLoop, UserTests, UserSends, UserSendsFile,
        UserStores, UserShutsDown, UserLetsGo, HandleClose, BaseRemoves,
        TakeFunctors, EndRound, PeerReads, PeerCloses, PeerResets, connVars,
        socketVars, outVars, vars
  <2> QED BY <2>1 DEF Passed
<1> QED BY <1>2, <1>3, <1>4, <1>5, <1>6

\* On an intact connection that is connected a string or file is not dropped.
LEMMA NotDropped ==
  ASSUME StateInv, state_ = "kConnected", peer # "reset",
         NEW state \in {"kDisconnecting", "kDisconnected"}
  PROVE  ~Dropped(state)
BY DEF StateInv, Dropped, Broken

\* A connection that is intact was so before.
LEMMA IntactBefore == ASSUME TypeOK, Frame, Intact' PROVE Intact
BY DEF Frame, Intact, TypeOK

\* Only the functor that runs leaves.
LEMMA ReadyStays ==
  ASSUME TypeOK, QueueMoves
  PROVE  /\ ~RunFunctor => Ready \subseteq Ready'
         /\ ToRun # <<>> => Ready \ {Head(ToRun)} \subseteq Ready'
<1>1. ToRun \in Seq(Functors) BY ToRunType
<1>2. ASSUME ToRun # <<>>
      PROVE  /\ Tail(ToRun) \in Seq(Functors)
             /\ Ready \ {Head(ToRun)} \subseteq ToSet(Tail(ToRun))
  BY <1>1, <1>2, HeadTailProperties, ToSetFacts DEF Ready
<1>3. ASSUME NEW q \in Seq(Functors), NEW g \in Functors, ToRun' = Append(q, g)
      PROVE  ToSet(q) \subseteq Ready'
  <2>1. ToSet(Append(q, g)) = ToSet(q) \cup {g} BY ToSetFacts
  <2>2. Ready' = ToSet(q) \cup {g} BY Zenon, <1>3, <2>1 DEF Ready
  <2> QED BY <2>2
<1>4. CASE ToRun' = ToRun BY <1>4 DEF Ready
<1>5. CASE \E g \in Functors : ToRun' = Append(ToRun, g)
  <2>1. Ready \subseteq Ready' BY <1>1, <1>3, <1>5 DEF Ready
  <2> QED BY <2>1
<1>6. CASE RunFunctor /\ ToRun # <<>> /\ ToRun' = Tail(ToRun)
  <2>1. Ready' = ToSet(Tail(ToRun)) BY <1>6 DEF Ready
  <2> QED BY <1>2, <1>6, <2>1
<1>7. CASE /\ RunFunctor /\ ToRun # <<>>
           /\ \E g \in Functors : ToRun' = Append(Tail(ToRun), g)
  <2>1. ToSet(Tail(ToRun)) \subseteq Ready' BY <1>2, <1>3, <1>7
  <2> QED BY <1>2, <1>7, <2>1
<1> QED BY <1>4, <1>5, <1>6, <1>7 DEF QueueMoves

\* A step that accepts no message leaves every byte where it is, moves it from
\* a functor to outputBuffer_ and the socket, or into the next functor.
LEMMA CarriedStays ==
  ASSUME TypeOK, RoundInv, CallsInv, PollerInv, StateInv, DataInv, OneInv,
         SentInv, Frame, QueueMoves, [Next]_vars, usage.awaits, Intact,
         NEW g \in Ready, g.op \in Carriers, NEW b \in ToSet(g.data)
  PROVE  b \in Passed' \/ \E f \in Ready' : f.op \in Carriers /\ b \in ToSet(f.data)
<1>1. CASE ~RunFunctor BY <1>1, ReadyStays
<1>2. CASE RunFunctor
  <2>1. PICK f \in Functors :
          /\ Runs(f)
          /\ \/ RunsSend(f) \/ RunsFile(f) \/ RunsShutdown(f)
             \/ RunsCallback(f) \/ RunsDestroy(f)
    BY <1>2, RunEffect
  <2>2. /\ ToRun # <<>> /\ f = Head(ToRun)
        /\ \A h \in Functors : pending' = Append(pending, h) =>
             ToRun' = Append(Tail(ToRun), h)
    BY <2>1 DEF Runs
  <2>3. CASE g # f BY <2>2, <2>3, ReadyStays
  <2>4. CASE g = f
    <3>1. state_ = "kConnected"
      <4>1. ~NoneAwaited(ToRun)
        <5>1. PICK i \in 1 .. Len(ToRun) : ToRun[i] = g
          BY ToRunType DEF Ready, ToSet
        <5> QED BY <5>1 DEF NoneAwaited, Awaited, Carriers
      <4> QED BY <4>1 DEF OneInv, SentInv
    <3>2. ~Dropped("kDisconnected") /\ ~Dropped("kDisconnecting")
      BY <3>1, NotDropped DEF Intact
    <3>3. CASE RunsSend(f) BY <2>4, <3>2, <3>3, WrittenBytes DEF RunsSend
    <3>4. CASE RunsFile(f)
      <4>1. CASE b \in Passed' BY <4>1
      <4>2. ASSUME NEW kept \in Seq(AllBytes), b \in ToSet(kept),
                   pending' = Append(pending, Functor("sendFileInLoop", kept))
            PROVE  \E h \in Ready' : h.op \in Carriers /\ b \in ToSet(h.data)
        <5> DEFINE h == Functor("sendFileInLoop", kept)
        <5>1. h \in Functors BY FunctorTypes DEF Ops
        <5>2. ToRun' = Append(Tail(ToRun), h) BY <2>2, <4>2, <5>1
        <5>3. h.op \in Carriers /\ b \in ToSet(h.data)
          BY <4>2 DEF Carriers, Functor
        <5> HIDE DEF h
        <5>4. Tail(ToRun) \in Seq(Functors)
          BY <2>2, ToRunType, HeadTailProperties
        <5>5. h \in Ready'
          <6> DEFINE t == Tail(ToRun)
          <6>1. t \in Seq(Functors) BY <5>4
          <6> HIDE DEF t
          <6>2. h \in ToSet(Append(t, h)) BY <5>1, <6>1, ToSetFacts
          <6> QED BY Zenon, <5>2, <6>2 DEF Ready, t
        <5> QED BY <5>3, <5>5
      <4> QED BY <2>4, <3>2, <3>4, <4>1, <4>2, FileWrittenBytes DEF RunsFile
    <3>5. CASE RunsShutdown(f) \/ RunsCallback(f) \/ RunsDestroy(f)
      BY <2>4, <3>5 DEF RunsShutdown, RunsCallback, RunsDestroy, Carriers
    <3> QED BY <2>1, <3>3, <3>4, <3>5
  <2> QED BY <2>3, <2>4
<1> QED BY <1>1, <1>2

\* A message that is accepted is not dropped.
LEMMA AcceptedCarried ==
  ASSUME TypeOK, RoundInv, CallsInv, PollerInv, StateInv, usage.awaits, Intact,
         LoopSends \/ LoopSendsFile \/ UserSends \/ UserSendsFile,
         NEW b \in {calls'} \X (1 .. Size)
  PROVE  b \in Passed' \/ \E f \in Ready' : f.op \in Carriers /\ b \in ToSet(f.data)
<1>0. /\ UNCHANGED <<batch, ran>>
      /\ LoopSends \/ LoopSendsFile => state_ = "kConnected"
  BY DEF LoopSends, LoopSendsFile, UserSends, UserSendsFile, loopVars, Calling
<1>1. PICK m \in Messages : m = calls'
  BY LoopSendEffect, LoopSendFileEffect, UserSendNumber
<1>2. b \in ToSet(Data(m)) /\ Data(m) \in Seq(AllBytes) BY <1>1, DataFacts
<1>3. ASSUME NEW op \in Carriers, NEW data \in Seq(AllBytes), b \in ToSet(data),
             pending' = Append(pending, Functor(op, data))
      PROVE  \E f \in Ready' : f.op \in Carriers /\ b \in ToSet(f.data)
  <2> DEFINE h == Functor(op, data)
  <2>1. h \in Functors BY FunctorTypes DEF Ops, Carriers
  <2>2. h \in Ready' BY <1>0, <1>3, <2>1, QueueStep
  <2>3. h.op \in Carriers /\ b \in ToSet(h.data) BY <1>3 DEF Functor
  <2> QED BY <2>2, <2>3
<1>4. ASSUME LoopSends \/ LoopSendsFile
      PROVE  ~Dropped("kDisconnected") /\ ~Dropped("kDisconnecting")
  BY <1>0, <1>4, NotDropped DEF Intact
<1>5. CASE LoopSends
  <2>1. Written(Data(m)) BY <1>1, <1>4, <1>5, LoopSendEffect
  <2> QED BY <1>2, <2>1, WrittenBytes
<1>6. CASE LoopSendsFile
  <2>1. FileWritten(Data(m)) BY <1>1, <1>4, <1>6, LoopSendFileEffect
  <2> QED BY <1>2, <1>3, <2>1, FileWrittenBytes DEF Carriers
<1>7. CASE UserSends \/ UserSendsFile
  <2>1. \E op \in Carriers : pending' = Append(pending, Functor(op, Data(m)))
    BY <1>1, <1>7 DEF UserSends, UserSendsFile, SendFileAgain, Carriers
  <2> QED BY <1>2, <1>3, <2>1
<1> QED BY <1>5, <1>6, <1>7

\* On an intact connection every byte of a caller that awaits is somewhere.
LEMMA SentPreserved ==
  ASSUME TypeOK, RoundInv, CallsInv, PollerInv, StateInv, DataInv, OneInv,
         SentInv, Frame, QueueMoves, [Next]_vars
  PROVE  SentInv'
<1> DEFINE Carried(b) == \E f \in Ready' : f.op \in Carriers /\ b \in ToSet(f.data)
<1> SUFFICES ASSUME usage.awaits, Intact'
             PROVE  /\ state_' # "kConnected" => ~awaiting' /\ user' \notin Calls
                    /\ \A b \in (1 .. calls') \X (1 .. Size) :
                         b \in Passed' \/ Carried(b)
  BY DEF SentInv, Frame, Passed
<1>0. /\ Intact
      /\ state_ # "kConnected" => ~awaiting /\ user \notin Calls
      /\ user # "idle" => ~awaiting
      /\ calls \in Nat /\ Size \in Nat
      /\ \A b \in (1 .. calls) \X (1 .. Size) :
           \/ b \in Passed
           \/ \E f \in Ready : f.op \in Carriers /\ b \in ToSet(f.data)
  BY IntactBefore, OutputAssumption DEF SentInv, OneInv, Passed, TypeOK
<1>1. ASSUME state_' # "kConnected" PROVE ~awaiting' /\ user' \notin Calls
  <2>1. CASE state_ # "kConnected"
    <3>1. ~awaiting /\ user \notin Calls BY <1>0, <2>1
    <3>2. /\ ~LoopSends /\ ~LoopSendsFile /\ ~UserSends /\ ~UserSendsFile
      BY <2>1, <3>1
      DEF LoopSends, LoopSendsFile, Calling, UserSends, UserSendsFile, Calls
    <3>3. ~awaiting' BY <3>1, <3>2 DEF Frame
    <3>4. user' \notin Calls BY <2>1, <3>1 DEF Frame, Calls
    <3> QED BY <3>3, <3>4
  <2>2. CASE state_ = "kConnected" /\ LoopShutsDown
    BY <2>2 DEF LoopShutsDown, Calling, MayCall, userVars, Calls
  <2>3. CASE state_ = "kConnected" /\ UserStores
    BY <1>0, <2>3 DEF UserStores, Calls
  <2>4. CASE removal' = "asked" BY <2>4 DEF Intact
  <2> QED BY <1>1, <2>1, <2>2, <2>3, <2>4 DEF Frame
<1>2. ASSUME NEW b \in (1 .. calls) \X (1 .. Size) PROVE b \in Passed' \/ Carried(b)
  BY <1>0, PassedGrows, CarriedStays
<1>3. CASE calls' = calls BY <1>1, <1>2, <1>3
<1>4. CASE /\ LoopSends \/ LoopSendsFile \/ UserSends \/ UserSendsFile
           /\ calls' = calls + 1
  <2>1. ASSUME NEW b \in (1 .. calls') \X (1 .. Size)
        PROVE  \/ b \in (1 .. calls) \X (1 .. Size)
               \/ b \in {calls'} \X (1 .. Size)
    BY <1>0, <1>4
  <2> QED BY <1>0, <1>1, <1>2, <1>4, <2>1, AcceptedCarried
<1> QED BY <1>3, <1>4 DEF Frame

\* A message accepted adds to those of its sender only.
LEMMA SentByMoves ==
  ASSUME TypeOK, NEW thread \in {"loop", "user"}, NEW by \in {"loop", "user"},
         calls' = calls + 1, calls' \in Messages,
         sender' = [sender EXCEPT ![calls'] = by]
  PROVE  /\ SentBy(thread) \subseteq SentBy(thread)'
         /\ SentBy(thread)' \subseteq SentBy(thread) \cup {calls'}
         /\ thread # by => SentBy(thread)' \subseteq SentBy(thread)
<1>1. /\ calls \in 0 .. MaxCalls /\ MaxCalls \in Nat
      /\ sender \in [Messages -> {"nobody", "loop", "user"}]
  BY OutputAssumption DEF TypeOK
<1>2. /\ \A m \in 1 .. calls : sender'[m] = sender[m] /\ m \in 1 .. calls'
      /\ sender'[calls'] = by
  BY <1>1 DEF Messages
<1>3. \A m \in 1 .. calls' : m \in 1 .. calls \/ m = calls' BY <1>1
<1> QED BY <1>2, <1>3 DEF SentBy

\* What the IO thread has sent as strings is in the socket or outputBuffer_.
LEMMA LoopSentPreserved ==
  ASSUME TypeOK, RoundInv, CallsInv, PollerInv, StateInv, DataInv, LoopSentInv,
         Frame, [Next]_vars
  PROVE  LoopSentInv'
<1> SUFFICES ASSUME "sendFile" \notin usage.loop, Intact'
             PROVE  SentBy("loop")' \X (1 .. Size) \subseteq Passed'
  BY DEF LoopSentInv, Passed, Frame
<1>0. Intact /\ SentBy("loop") \X (1 .. Size) \subseteq Passed
  BY IntactBefore DEF LoopSentInv, Passed
<1>1. Passed \subseteq Passed' BY PassedGrows
<1>2. ASSUME SentBy("loop")' \subseteq SentBy("loop")
      PROVE  SentBy("loop")' \X (1 .. Size) \subseteq Passed'
  BY <1>0, <1>1, <1>2
<1>3. CASE calls' = calls /\ sender' = sender BY <1>2, <1>3 DEF SentBy
<1>4. CASE LoopSends \/ LoopSendsFile
  <2>1. LoopSends /\ state_ = "kConnected"
    BY <1>4 DEF LoopSends, LoopSendsFile, Calling
  <2>2. PICK m \in Messages : m = calls' BY <2>1, LoopSendEffect
  <2>3. Written(Data(m))
    BY <1>0, <2>1, <2>2, LoopSendEffect, NotDropped DEF Intact
  <2>4. {m} \X (1 .. Size) \subseteq Passed' BY <2>3, WrittenBytes, DataFacts
  <2>5. SentBy("loop")' \subseteq SentBy("loop") \cup {m}
    BY <2>1, <2>2, LoopSendEffect, SentByMoves DEF LoopSends, Accept
  <2> QED BY <1>0, <1>1, <2>4, <2>5
<1>5. CASE UserSends \/ UserSendsFile
  <2>1. SentBy("loop")' \subseteq SentBy("loop")
    BY <1>5, UserSendNumber, SentByMoves DEF UserSends, UserSendsFile, Accept
  <2> QED BY <1>2, <2>1
<1> QED BY <1>3, <1>4, <1>5 DEF Frame

\* What shutdown() promises are messages of the IO thread.
LEMMA PromisedPreserved ==
  ASSUME TypeOK, UsageInv, PromisedInv, Frame, [Next]_vars
  PROVE  PromisedInv'
<1> SUFFICES ASSUME ShutsDownCleanly, ~usage.awaits
             PROVE  /\ promised' \subseteq SentBy("loop")'
                    /\ "shutdown" \notin usage.loop => promised' = {}
  BY DEF PromisedInv, Frame, ShutsDownCleanly
<1>0. /\ promised \subseteq SentBy("loop")
      /\ "shutdown" \notin usage.loop => promised = {}
  BY DEF PromisedInv
<1>1. SentBy("loop") \subseteq SentBy("loop")'
  <2>1. CASE calls' = calls /\ sender' = sender BY <2>1 DEF SentBy
  <2>2. CASE ~(calls' = calls /\ sender' = sender)
    BY <2>2, SentByMoves DEF Frame
  <2> QED BY <2>1, <2>2
<1>2. CASE LoopShutsDown
  <2>1. /\ promised' = SentBy("loop") /\ "shutdown" \in usage.loop
    BY <1>2 DEF LoopShutsDown, Calling
  <2> QED BY <1>1, <2>1
<1>3. CASE UserStores
  <2>1. user = "shutdown" /\ promised' = promised \cup SentBy("user")
    BY <1>3 DEF UserStores
  <2>2. usage.user = {"shutdown"}
    BY <2>1 DEF UsageInv, ShutsDownCleanly, Calls
  <2>3. SentBy("user") = {} BY <2>2 DEF UsageInv
  <2> QED BY <1>0, <1>1, <2>1, <2>3
<1>4. CASE ~LoopShutsDown /\ ~UserStores
  <2>1. promised' = promised
    BY <1>4
    DEF Next, LoopSends, LoopSendsFile, UserTests, UserSends, UserSendsFile,
        UserShutsDown, UserLetsGo, HandleWrite, HandleClose, BaseRemoves,
        TakeFunctors, RunFunctor, EndRound, PeerReads, PeerCloses, PeerResets,
        callVars, vars
  <2> QED BY <1>0, <1>1, <2>1
<1> QED BY <1>2, <1>3, <1>4

-----------------------------------------------------------------------------
(***************************************************************************)
(* The invariant.                                                          *)
(***************************************************************************)

\* The invariant holds of a connection that has just been established.
LEMMA InitIInv == Init => IInv
<1> SUFFICES ASSUME Init PROVE IInv OBVIOUS
<1> USE OutputAssumption
<1>1. /\ poller \in P!Pollers
      /\ poller.index[Conn] = "kAdded" /\ Registered
      /\ poller.events[Conn] = {"in", "pri"}
  BY ZenonT(30)
     DEF Init, P!EnableReading, P!EmptyPoller, P!SetEvents, P!UpdateChannel, P!CtlAdd,
         P!Register, P!Pollers, P!Index, P!Events, Conn, Registered
<1>2. ToRun = <<>>
  <2>1. SubSeq(<<>>, 0 + 1, Len(<<>>)) = <<>> BY SubSeqEmpty, EmptySeq
  <2> QED BY <2>1 DEF Init, ToRun
<1>3. Ready = {} BY <1>2 DEF Ready, ToSet
<1>4. TypeOK
  <2>1. <<>> \in Seq(AllBytes) /\ <<>> \in Seq([op : Ops, data : Seq(AllBytes)])
    OBVIOUS
  <2>2. /\ Len(<<>>) = 0 /\ 0 \in 0 .. Len(<<>>)
        /\ Len(<<>>) - 0 <= SendBuffer
    OBVIOUS
  <2>3. sender \in [Messages -> {"nobody", "loop", "user"}] BY DEF Init
  <2>4. calls \in 0 .. MaxCalls /\ promised \subseteq 1 .. calls BY DEF Init
  <2>5. usage \in Usages BY DEF Init
  <2>6. userHolds \in BOOLEAN BY DEF Init
  <2>7. read \in 0 .. Len(wire) /\ Len(wire) - read <= SendBuffer
    BY <2>2 DEF Init
  <2> QED BY <1>1, <2>1, <2>2, <2>3, <2>4, <2>5, <2>6, <2>7 DEF Init, TypeOK
<1>5. RoundInv /\ CallsInv BY DEF Init, RoundInv, CallsInv
<1>6. PollerInv BY <1>1 DEF Init, PollerInv, IsWriting, P!IsWriting
<1>7. StateInv BY <1>3 DEF Init, StateInv
<1>8. UsageInv BY <1>3 DEF Init, UsageInv, SentBy, Calls
<1>9. DataInv BY <1>3 DEF DataInv, Init
<1>10. OrderInv BY <1>2 DEF OrderInv, Ascending
<1>11. ClosedInv BY DEF Init, ClosedInv
<1>12. OneInv BY <1>2 DEF Init, OneInv, OneAwaited, NoneAwaited
<1>13. SentInv /\ LoopSentInv BY DEF Init, SentInv, LoopSentInv, SentBy, Calls
<1>14. PromisedInv BY DEF Init, PromisedInv
<1> QED BY <1>4, <1>5, <1>6, <1>7, <1>8, <1>9, <1>10, <1>11, <1>12, <1>13,
           <1>14 DEF IInv

\* Every step keeps it, and the usage.
LEMMA Inductive == IInv /\ [Next]_vars => IInv' /\ usage' = usage
<1> SUFFICES ASSUME IInv, [Next]_vars PROVE IInv' /\ usage' = usage OBVIOUS
<1> USE DEF IInv
<1>1. Frame /\ QueueMoves BY Framed, QueueMoving
<1>2. usage' = usage BY <1>1 DEF Frame
<1>3. TypeOK' /\ RoundInv' /\ CallsInv' BY TypePreserved
<1>4. PollerInv' BY <1>1, PollerPreserved
<1>5. StateInv' BY <1>1, StatePreserved
<1>6. UsageInv' BY <1>1, UsagePreserved
<1>7. DataInv' BY <1>1, DataPreserved
<1>8. OrderInv' BY <1>1, OrderPreserved
<1>9. ClosedInv' BY <1>1, ClosedPreserved
<1>10. OneInv' BY <1>1, OnePreserved
<1>11. SentInv' BY <1>1, SentPreserved
<1>12. LoopSentInv' BY <1>1, LoopSentPreserved
<1>13. PromisedInv' BY <1>1, PromisedPreserved
<1> QED BY <1>2, <1>3, <1>4, <1>5, <1>6, <1>7, <1>8, <1>9, <1>10,
           <1>11, <1>12, <1>13

\* The inductive invariant holds of every connection, however it is used.
THEOREM Invariant == Spec => []IInv
<1>1. Init => IInv BY InitIInv
<1>2. IInv /\ [Next]_vars => IInv' BY Inductive
<1> QED BY <1>1, <1>2, PTL DEF Spec

\* Every variable has its type: the socket never holds more than SendBuffer,
\* and no more than usage.max messages are accepted.
THEOREM TypeCorrect == Spec => []TypeOK
<1>1. IInv => TypeOK BY DEF IInv
<1> QED BY <1>1, Invariant, PTL

\* handleClose() takes the channel out of the poller for good, when no other
\* thread stores kDisconnecting over kDisconnected while a string of its own is
\* queued.
THEOREM ClosedStaysDown == Spec => [](ClosesCleanly => ClosedIsDown)
<1>1. IInv => (ClosesCleanly => ClosedIsDown)
  BY DEF IInv, ClosedInv, ClosedIsDown
<1> QED BY <1>1, Invariant, PTL

\* shutdown(): the FIN goes behind what its caller had sent, when each call
\* awaits the one before, or nothing that the caller sends waits in a functor.
THEOREM FinIsGraceful == Spec => [](ShutsDownCleanly => GracefulFin)
<1>1. ASSUME IInv, ShutsDownCleanly PROVE GracefulFin
  <2> SUFFICES ASSUME fin, removal = "none", peer # "reset"
               PROVE  promised \X (1 .. Size) \subseteq ToSet(wire)
    BY DEF GracefulFin
  <2>1. outputBuffer_ = <<>> BY <1>1 DEF IInv, PollerInv
  <2>2. Passed = ToSet(wire) BY <2>1 DEF Passed, ToSet
  <2>3. CASE usage.awaits
    <3>1. state_ # "kConnected" BY <1>1 DEF IInv, StateInv
    <3>2. ~awaiting BY <1>1, <2>3, <3>1 DEF IInv, SentInv, Intact
    <3>3. NoneAwaited(ToRun) BY <1>1, <2>3, <3>2 DEF IInv, OneInv
    <3>4. \A f \in Ready : f.op \notin Carriers
      BY <3>3 DEF NoneAwaited, Ready, ToSet, Awaited, Carriers
    <3>5. (1 .. calls) \X (1 .. Size) \subseteq ToSet(wire)
      BY <1>1, <2>2, <2>3, <3>4 DEF IInv, SentInv, Intact, Passed
    <3>6. promised \subseteq 1 .. calls BY <1>1 DEF IInv, TypeOK
    <3> QED BY <3>5, <3>6
  <2>4. CASE ~usage.awaits
    <3>1. /\ promised \subseteq SentBy("loop")
          /\ "shutdown" \notin usage.loop => promised = {}
      BY <1>1, <2>4 DEF IInv, PromisedInv
    <3>2. CASE "sendFile" \notin usage.loop
      <4>1. SentBy("loop") \X (1 .. Size) \subseteq ToSet(wire)
        BY <1>1, <2>2, <3>2 DEF IInv, LoopSentInv, Intact, Passed
      <4> QED BY <3>1, <4>1
    <3>3. CASE "sendFile" \in usage.loop
      <4>1. promised = {} BY <1>1, <2>4, <3>1, <3>3 DEF ShutsDownCleanly
      <4> QED BY <4>1
    <3> QED BY <3>2, <3>3
  <2> QED BY <2>3, <2>4
<1>2. IInv => (ShutsDownCleanly => GracefulFin) BY <1>1
<1> QED BY <1>2, Invariant, PTL

-----------------------------------------------------------------------------
(***************************************************************************)
(* The order of messages: a connection that Streams implements             *)
(* OutputStream, one step by at most one step.                             *)
(***************************************************************************)

InStream == wire \o outputBuffer_ \o FileRest
IsBroken == removal # "none" \/ peer = "reset"

\* What a queue of functors has to send.
FilesIn(q) == {f \in ToSet(q) : f.op = "sendFileInLoop"}
StringsIn(q) == {m \in Messages : Functor("sendInLoop", Data(m)) \in ToSet(q)}

\* What a queue has to send, as it grows and is used up.
LEMMA QueueContents ==
  ASSUME NEW q \in Seq(Functors)
  PROVE  /\ \A g \in Functors :
              /\ FilesIn(Append(q, g)) =
                   IF g.op = "sendFileInLoop" THEN FilesIn(q) \cup {g} ELSE FilesIn(q)
              /\ g.op # "sendInLoop" => StringsIn(Append(q, g)) = StringsIn(q)
              /\ \A m \in Messages : g = Functor("sendInLoop", Data(m)) =>
                   StringsIn(Append(q, g)) = StringsIn(q) \cup {m}
         /\ q # <<>> =>
              /\ Head(q).op # "sendFileInLoop" => FilesIn(Tail(q)) = FilesIn(q)
              /\ FilesIn(Tail(q)) \subseteq FilesIn(q)
              /\ Head(q).op # "sendInLoop" => StringsIn(Tail(q)) = StringsIn(q)
<1>1. ASSUME NEW m \in Messages, NEW n \in Messages,
             Functor("sendInLoop", Data(m)) = Functor("sendInLoop", Data(n))
      PROVE  m = n
  <2>1. Data(m) = Data(n) BY <1>1 DEF Functor
  <2> QED BY <2>1, DataFacts
<1>2. \A m \in Messages : Functor("sendInLoop", Data(m)).op = "sendInLoop"
  BY DEF Functor
<1>3. ASSUME NEW g \in Functors
      PROVE  /\ FilesIn(Append(q, g)) =
                  IF g.op = "sendFileInLoop" THEN FilesIn(q) \cup {g} ELSE FilesIn(q)
             /\ g.op # "sendInLoop" => StringsIn(Append(q, g)) = StringsIn(q)
             /\ \A m \in Messages : g = Functor("sendInLoop", Data(m)) =>
                  StringsIn(Append(q, g)) = StringsIn(q) \cup {m}
  <2>1. ToSet(Append(q, g)) = ToSet(q) \cup {g} BY ToSetFacts
  <2>2. FilesIn(Append(q, g)) =
          IF g.op = "sendFileInLoop" THEN FilesIn(q) \cup {g} ELSE FilesIn(q)
    BY <2>1 DEF FilesIn
  <2>3. g.op # "sendInLoop" => StringsIn(Append(q, g)) = StringsIn(q)
    BY <1>2, <2>1 DEF StringsIn
  <2>4. ASSUME NEW m \in Messages, g = Functor("sendInLoop", Data(m))
        PROVE  StringsIn(Append(q, g)) = StringsIn(q) \cup {m}
    BY <1>1, <2>1, <2>4 DEF StringsIn
  <2> QED BY <2>2, <2>3, <2>4
<1>4. ASSUME q # <<>>
      PROVE  /\ Head(q).op # "sendFileInLoop" => FilesIn(Tail(q)) = FilesIn(q)
             /\ FilesIn(Tail(q)) \subseteq FilesIn(q)
             /\ Head(q).op # "sendInLoop" => StringsIn(Tail(q)) = StringsIn(q)
  <2>1. ToSet(q) = {Head(q)} \cup ToSet(Tail(q)) BY <1>4, ToSetFacts
  <2> QED BY <1>2, <2>1 DEF FilesIn, StringsIn
<1> QED BY <1>3, <1>4

\* FileRest is the data of the one sendFileInLoop() that is queued.
LEMMA FileRestIs ==
  /\ Bound = StringsIn(ToRun) /\ Bound' = StringsIn(ToRun')
  /\ FilesIn(ToRun) = {} => FileRest = <<>>
  /\ \A g : FilesIn(ToRun) = {g} => FileRest = g.data
  /\ FilesIn(ToRun') = {} => FileRest' = <<>>
  /\ \A g : FilesIn(ToRun') = {g} => FileRest' = g.data
<1>1. FilesIn(ToRun) = {} => FileRest = <<>> BY DEF FilesIn, FileRest, Queued
<1>2. FilesIn(ToRun') = {} => FileRest' = <<>> BY DEF FilesIn, FileRest, Queued
<1> DEFINE File(q) == CHOOSE f \in ToSet(q) : f.op = "sendFileInLoop"
           HasFile(q) == \E f \in ToSet(q) : f.op = "sendFileInLoop"
<1>3. ASSUME NEW q, NEW g, FilesIn(q) = {g} PROVE HasFile(q) /\ File(q) = g
  <2>1. \A f : f \in ToSet(q) /\ f.op = "sendFileInLoop" <=> f = g
    BY <1>3 DEF FilesIn
  <2> QED BY <2>1
<1>a. /\ FileRest = IF HasFile(ToRun) THEN File(ToRun).data ELSE <<>>
      /\ FileRest' = IF HasFile(ToRun') THEN File(ToRun').data ELSE <<>>
  BY Zenon DEF FileRest, Queued
<1> HIDE DEF File, HasFile
<1>4. ASSUME NEW g, FilesIn(ToRun) = {g} PROVE FileRest = g.data
  BY <1>3, <1>4, <1>a
<1>5. ASSUME NEW g, FilesIn(ToRun') = {g} PROVE FileRest' = g.data
  BY <1>3, <1>5, <1>a
<1> QED BY <1>1, <1>2, <1>4, <1>5 DEF Bound, StringsIn

\* A file that is queued is alone: nothing else waits for the socket.
LEMMA FileIsAlone ==
  ASSUME IInv, Streams
  PROVE  /\ FilesIn(ToRun) # {} =>
              /\ \E g \in Functors :
                   FilesIn(ToRun) = {g} /\ g.op = "sendFileInLoop" /\ g \in Ready
              /\ usage.awaits /\ awaiting
              /\ outputBuffer_ = <<>> /\ Bound = {}
         /\ FileRest \in Seq(AllBytes)
         /\ outputBuffer_ # <<>> => FileRest = <<>>
         /\ usage.awaits /\ ~awaiting =>
              /\ FilesIn(ToRun) = {} /\ Bound = {} /\ FileRest = <<>>
              /\ outputBuffer_ = <<>>
         /\ ~usage.awaits => FilesIn(ToRun) = {} /\ FileRest = <<>>
<1> USE DEF IInv
<1>1. ToRun \in Seq(Functors) /\ Ready \subseteq Functors
  BY ToRunType, ToSetFacts DEF Ready
<1>2. \A f \in Ready : \E i \in 1 .. Len(ToRun) : f = ToRun[i]
  BY <1>1 DEF Ready, ToSet
<1>3. ~usage.awaits => FilesIn(ToRun) = {}
  BY DEF UsageInv, Streams, FilesIn, Ready
<1>4. ASSUME NEW g \in Ready, g.op \in Carriers
      PROVE  usage.awaits =>
               /\ awaiting /\ outputBuffer_ = <<>>
               /\ \A f \in Ready : f.op \in Carriers => f = g
  <2> SUFFICES ASSUME usage.awaits
               PROVE  /\ awaiting /\ outputBuffer_ = <<>>
                      /\ \A f \in Ready : f.op \in Carriers => f = g
    OBVIOUS
  <2>1. PICK i \in 1 .. Len(ToRun) : g = ToRun[i] BY <1>2
  <2>2. ~NoneAwaited(ToRun) BY <1>4, <2>1 DEF NoneAwaited, Awaited
  <2>3. awaiting /\ outputBuffer_ = <<>> BY <2>2 DEF OneInv
  <2>4. ASSUME NEW f \in Ready, f.op \in Carriers PROVE f = g
    <3>1. PICK j \in 1 .. Len(ToRun) : f = ToRun[j] BY <1>2
    <3>2. i = j BY <1>4, <2>1, <2>4, <3>1 DEF OneInv, OneAwaited, Awaited
    <3> QED BY <2>1, <3>1, <3>2
  <2> QED BY <2>3, <2>4
<1>5. ASSUME NEW m \in Bound
      PROVE  \E f \in Ready : f.op = "sendInLoop"
  BY DEF Bound, Functor, Ready
<1>6. ASSUME FilesIn(ToRun) # {}
      PROVE  /\ \E g \in Functors :
                  FilesIn(ToRun) = {g} /\ g.op = "sendFileInLoop" /\ g \in Ready
             /\ usage.awaits /\ awaiting
             /\ outputBuffer_ = <<>> /\ Bound = {}
  <2>1. PICK g \in Ready : g.op = "sendFileInLoop" BY <1>6 DEF FilesIn, Ready
  <2>2. g.op \in Carriers BY <2>1 DEF Carriers
  <2>3. usage.awaits BY <1>3, <1>6
  <2>4. /\ awaiting /\ outputBuffer_ = <<>>
        /\ \A f \in Ready : f.op \in Carriers => f = g
    BY <1>4, <2>2, <2>3
  <2>5. FilesIn(ToRun) = {g} BY <2>1, <2>4 DEF FilesIn, Ready, Carriers
  <2>6. Bound = {} BY <1>5, <2>1, <2>4 DEF Carriers
  <2> QED BY <1>1, <2>1, <2>3, <2>4, <2>5, <2>6
<1>7. FilesIn(ToRun) = {} => FileRest = <<>> BY FileRestIs
<1>8. FileRest \in Seq(AllBytes)
  <2>1. CASE FilesIn(ToRun) = {} BY <1>7, <2>1
  <2>2. ASSUME NEW g \in Functors, FilesIn(ToRun) = {g}
        PROVE  FileRest \in Seq(AllBytes)
    BY <2>2, FileRestIs DEF Functors
  <2> QED BY <1>6, <2>1, <2>2
<1>9. usage.awaits /\ ~awaiting => Bound = {} /\ outputBuffer_ = <<>>
  BY <1>4, <1>5 DEF OneInv, Carriers
<1> QED BY <1>3, <1>6, <1>7, <1>8, <1>9

\* A sequence begins with its first part.
LEMMA PrefixFacts ==
  ASSUME NEW S, NEW s \in Seq(S), NEW t \in Seq(S)
  PROVE  IsPrefix(s, s \o t)
<1>1. Len(s) \in Nat /\ Len(t) \in Nat /\ Len(s \o t) = Len(s) + Len(t)
  BY ConcatProperties, LenProperties
<1>2. \A i \in 1 .. Len(s) : (s \o t)[i] = s[i] BY <1>1, ConcatProperties
<1>3. SubSeq(s \o t, 1, Len(s)) = SubSeq(s, 1, Len(s)) BY <1>1, <1>2
<1> QED BY <1>1, <1>3 DEF IsPrefix

\* The socket takes sent, and what is to follow is rest.
LEMMA Transmits ==
  ASSUME TypeOK, NEW sent \in Seq(AllBytes), NEW rest \in Seq(AllBytes),
         wire' = wire \o sent, InStream' = (wire \o sent) \o rest,
         fin => sent = <<>> /\ fin',
         fin' /\ ~fin => IsBroken \/ rest = <<>>,
         IsBroken' <=> IsBroken
  PROVE  Stream!Transmit
<1>1. wire \in Seq(AllBytes) BY DEF TypeOK
<1>2. wire \o sent \in Seq(AllBytes) BY <1>1, SequenceFacts
<1>3. IsPrefix(wire, wire') BY <1>1, PrefixFacts
<1>4. IsPrefix(wire', InStream') BY <1>2, PrefixFacts
<1>5. fin => fin' /\ wire' = wire BY <1>1, SequenceFacts
<1>6. fin' /\ ~fin => IsBroken \/ wire' = InStream' BY <1>2, SequenceFacts
<1>7. /\ Stream!IsPrefix(wire, wire')
      /\ Stream!IsPrefix(wire', (wire \o outputBuffer_ \o FileRest)')
  BY <1>3, <1>4 DEF Stream!IsPrefix, IsPrefix, InStream
<1>8. /\ fin => fin' /\ wire' = wire
      /\ fin' /\ ~fin => \/ removal # "none" \/ peer = "reset"
                        \/ wire' = (wire \o outputBuffer_ \o FileRest)'
  BY <1>5, <1>6 DEF IsBroken, InStream
<1>9. UNCHANGED (removal # "none" \/ peer = "reset") BY DEF IsBroken
<1> QED BY Zenon, <1>7, <1>8, <1>9 DEF Stream!Transmit

\* A step that moves nothing is a stutter of OutputStream.
LEMMA Unmoved ==
  ASSUME TypeOK, UNCHANGED <<calls, wire, fin>>, InStream' = InStream,
         Bound' = Bound, IsBroken' <=> IsBroken
  PROVE  UNCHANGED Stream!streamVars
BY DEF Stream!streamVars, InStream, IsBroken

\* A message of which the socket takes a part joins the stream at its end.
LEMMA StringJoins ==
  ASSUME TypeOK, NEW data \in Seq(AllBytes), Written(data), fin' = fin,
         FileRest = <<>>, FileRest' = <<>>, IsBroken' <=> IsBroken
  PROVE  Stream!Transmit /\ InStream' = InStream \o data
<1>0. /\ wire \in Seq(AllBytes) /\ outputBuffer_ \in Seq(AllBytes)
      /\ fin \in BOOLEAN
  BY DEF TypeOK
<1>1. PICK sent \in Seq(AllBytes), kept \in Seq(AllBytes) :
        /\ Writes(data, sent, kept)
        /\ outputBuffer_' = outputBuffer_ \o kept
  BY DEF Written
<1>2. /\ data = sent \o kept /\ wire' = wire \o sent
      /\ sent # <<>> => outputBuffer_ = <<>> /\ ~fin
  BY <1>1 DEF Writes, CanWriteDirectly, Broken
<1> DEFINE rest == outputBuffer_ \o kept
<1>3. /\ rest \in Seq(AllBytes) /\ wire \o sent \in Seq(AllBytes)
      /\ (wire \o sent) \o rest \in Seq(AllBytes)
  BY <1>0, SequenceFacts
<1>4. InStream' = (wire \o sent) \o rest
  <2>1. InStream' = (wire \o sent) \o rest \o <<>> BY <1>1, <1>2 DEF InStream
  <2> HIDE DEF rest
  <2> QED BY <1>3, <2>1, SequenceFacts
<1>5. Stream!Transmit
  <2>1. rest \in Seq(AllBytes) BY <1>3
  <2> HIDE DEF rest
  <2>2. fin => sent = <<>> /\ fin' BY <1>2
  <2>3. ~(fin' /\ ~fin) OBVIOUS
  <2> QED BY <1>2, <1>4, <2>1, <2>2, <2>3, Transmits
<1>6. InStream = wire \o outputBuffer_
  BY <1>0, SequenceFacts DEF InStream
<1>7. (wire \o sent) \o rest = (wire \o outputBuffer_) \o (sent \o kept)
  <2>1. CASE sent = <<>>
    <3>1. wire \o sent = wire /\ sent \o kept = kept
      BY <1>0, <2>1, SequenceFacts
    <3>2. (wire \o outputBuffer_) \o kept = wire \o (outputBuffer_ \o kept)
      BY <1>0, ConcatAssociative, SMTT(30)
    <3> QED BY Zenon, <3>1, <3>2
  <2>2. CASE outputBuffer_ = <<>>
    <3>1. wire \o outputBuffer_ = wire /\ outputBuffer_ \o kept = kept
      BY <1>0, <2>2, SequenceFacts
    <3>2. (wire \o sent) \o kept = wire \o (sent \o kept)
      BY <1>0, ConcatAssociative, SMTT(30)
    <3> QED BY Zenon, <3>1, <3>2
  <2> QED BY <1>2, <2>1, <2>2
<1>8. InStream' = InStream \o data BY Zenon, <1>2, <1>4, <1>6, <1>7
<1> QED BY <1>5, <1>8

\* So does a file, of which the functor holds the rest.
LEMMA FileJoins ==
  ASSUME TypeOK, NEW sent \in Seq(AllBytes), NEW kept \in Seq(AllBytes),
         wire' = wire \o sent, sent # <<>> => ~Broken, fin' = fin,
         outputBuffer_ = <<>>, outputBuffer_' = <<>>, FileRest' = kept,
         IsBroken' <=> IsBroken
  PROVE  /\ Stream!Transmit
         /\ InStream' = wire \o (sent \o kept)
<1>0. wire \in Seq(AllBytes) /\ fin \in BOOLEAN BY DEF TypeOK
<1>1. wire \o sent \in Seq(AllBytes) BY <1>0, SequenceFacts
<1>2. InStream' = (wire \o sent) \o kept
  <2>1. InStream' = ((wire \o sent) \o <<>>) \o kept BY DEF InStream
  <2>2. (wire \o sent) \o <<>> = wire \o sent BY <1>1, SequenceFacts
  <2> QED BY Zenon, <2>1, <2>2
<1>3. Stream!Transmit
  <2>1. fin => sent = <<>> /\ fin' BY DEF Broken
  <2>2. ~(fin' /\ ~fin) OBVIOUS
  <2> QED BY <1>2, <2>1, <2>2, Transmits
<1>4. (wire \o sent) \o kept = wire \o (sent \o kept)
  BY <1>0, ConcatAssociative
<1> QED BY <1>2, <1>3, <1>4

\* What is queued has no bytes to send.
LEMMA SameContents ==
  ASSUME NEW q \in Seq(Functors),
         pending' = pending => ToRun' = q,
         \A g \in Functors : pending' = Append(pending, g) => ToRun' = Append(q, g),
         \/ pending' = pending
         \/ \E op \in Ops \ Carriers : pending' = Append(pending, Functor(op, <<>>))
  PROVE  FilesIn(ToRun') = FilesIn(q) /\ Bound' = StringsIn(q)
<1>1. CASE pending' = pending BY <1>1, FileRestIs
<1>2. ASSUME NEW op \in Ops \ Carriers, pending' = Append(pending, Functor(op, <<>>))
      PROVE  FilesIn(ToRun') = FilesIn(q) /\ Bound' = StringsIn(q)
  <2> DEFINE g == Functor(op, <<>>)
  <2>1. g \in Functors /\ g.op \notin Carriers BY FunctorTypes DEF Functor
  <2>2. ToRun' = Append(q, g) BY <1>2, <2>1
  <2> HIDE DEF g
  <2>3. /\ FilesIn(Append(q, g)) = FilesIn(q)
        /\ StringsIn(Append(q, g)) = StringsIn(q)
    BY <2>1, QueueContents DEF Carriers
  <2> QED BY Zenon, <2>2, <2>3, FileRestIs
<1> QED BY <1>1, <1>2

\* The same, at the end of the whole queue.
LEMMA SameQueue ==
  ASSUME TypeOK, UNCHANGED <<batch, ran>>,
         \/ pending' = pending
         \/ \E op \in Ops \ Carriers : pending' = Append(pending, Functor(op, <<>>))
  PROVE  FilesIn(ToRun') = FilesIn(ToRun) /\ Bound' = Bound
<1>1. /\ pending' = pending => ToRun' = ToRun
      /\ \A g \in Functors : pending' = Append(pending, g) =>
           ToRun' = Append(ToRun, g)
  BY SameStep, QueueStep
<1> QED BY <1>1, ToRunType, SameContents, FileRestIs

\* With the same file in the queue, the same rest of it.
LEMMA SameRest ==
  ASSUME IInv, Streams, FilesIn(ToRun') = FilesIn(ToRun)
  PROVE  FileRest' = FileRest
BY FileIsAlone, FileRestIs

\* sendInLoop() puts nothing with bytes into the queue.
LEMMA StringQueues ==
  ASSUME NEW data,
         Dropped("kDisconnected") \/ Written(data) \/ Dropped("kDisconnecting")
  PROVE  \/ pending' = pending
         \/ \E op \in Ops \ Carriers : pending' = Append(pending, Functor(op, <<>>))
BY DEF Dropped, Written, outVars, Ops, Carriers

Step == Stream!Next \/ UNCHANGED Stream!streamVars

\* send() in the IO thread is Send, or Lose on a connection that is broken.
LEMMA LoopSendsStep == ASSUME IInv, Streams, LoopSends PROVE Step
<1> USE DEF IInv
<1>1. PICK m \in Messages : m = calls' BY LoopSendEffect
<1>2. /\ m = calls + 1
      /\ Sound /\ (Dropped("kDisconnected") \/ Written(Data(m)))
  BY <1>1, LoopSendEffect
<1>3. /\ UNCHANGED <<removal, peer, batch, ran>>
      /\ state_ = "kConnected"
      /\ usage.awaits => ~awaiting
  BY DEF LoopSends, Calling, MayCall, loopVars, peerVars
<1>4. IsBroken' <=> IsBroken BY <1>3 DEF IsBroken
<1>5. FilesIn(ToRun) = {} /\ FileRest = <<>> BY <1>3, FileIsAlone
<1>6. FilesIn(ToRun') = {} /\ Bound' = Bound /\ FileRest' = <<>>
  BY <1>2, <1>3, <1>5, StringQueues, SameQueue, FileRestIs
<1>7. fin' = fin BY Zenon, <1>2 DEF Sound
<1>8. CASE Dropped("kDisconnected")
  <2>1. fin \/ IsBroken BY <1>3, <1>8 DEF Dropped, Broken, IsBroken
  <2>2. InStream' = InStream /\ wire' = wire
    BY <1>5, <1>6, <1>8 DEF Dropped, outVars, InStream
  <2>3. Stream!Lose
    <3>1. calls' = calls + 1 BY <1>1, <1>2
    <3>2. UNCHANGED (removal # "none" \/ peer = "reset") BY <1>3
    <3> QED BY <1>6, <1>7, <2>1, <2>2, <3>1, <3>2 DEF Stream!Lose, IsBroken, InStream
  <2> QED BY <2>3 DEF Step, Stream!Next
<1>9. CASE Written(Data(m))
  <2>1. Stream!Transmit /\ InStream' = InStream \o Data(m)
    BY <1>4, <1>5, <1>6, <1>7, <1>9, DataFacts, StringJoins
  <2>2. Stream!Send BY <1>1, <1>2, <1>6, <2>1 DEF Stream!Send, InStream
  <2> QED BY <2>2 DEF Step, Stream!Next
<1> QED BY <1>2, <1>8, <1>9

\* A file that nothing is queued or kept beside.
LEMMA LoopSendsFileStep == ASSUME IInv, Streams, LoopSendsFile PROVE Step
<1> USE DEF IInv
<1>1. PICK m \in Messages : m = calls' BY LoopSendFileEffect
<1>2. /\ m = calls + 1
      /\ Sound /\ (Dropped("kDisconnecting") \/ FileWritten(Data(m)))
  BY <1>1, LoopSendFileEffect
<1>3. /\ UNCHANGED <<removal, peer, batch, ran>>
      /\ state_ = "kConnected" /\ usage.awaits /\ ~awaiting
  BY DEF LoopSendsFile, Calling, MayCall, loopVars, peerVars, Streams
<1>4. IsBroken' <=> IsBroken BY <1>3 DEF IsBroken
<1>5. /\ FilesIn(ToRun) = {} /\ FileRest = <<>> /\ Bound = {}
      /\ outputBuffer_ = <<>> /\ wire \in Seq(AllBytes)
  BY <1>3, FileIsAlone DEF TypeOK
<1>6. InStream = wire BY <1>5, SequenceFacts DEF InStream
<1>7. fin' = fin BY Zenon, <1>2 DEF Sound
<1>8. CASE Dropped("kDisconnecting")
  <2>1. fin \/ IsBroken BY <1>3, <1>8 DEF Dropped, Broken, IsBroken
  <2>2. FilesIn(ToRun') = {} /\ Bound' = Bound /\ FileRest' = <<>>
    BY <1>3, <1>5, <1>8, StringQueues, SameQueue, FileRestIs
  <2>3. InStream' = InStream /\ wire' = wire
    BY <1>5, <1>8, <2>2 DEF Dropped, outVars, InStream
  <2>4. Stream!Lose
    <3>1. calls' = calls + 1 BY <1>1, <1>2
    <3>2. UNCHANGED (removal # "none" \/ peer = "reset") BY <1>3
    <3> QED BY <1>7, <2>1, <2>2, <2>3, <3>1, <3>2 DEF Stream!Lose, IsBroken, InStream
  <2> QED BY <2>4 DEF Step, Stream!Next
<1>9. CASE FileWritten(Data(m))
  <2>1. PICK sent \in Seq(AllBytes), kept \in Seq(AllBytes) :
          /\ Writes(Data(m), sent, kept)
          /\ UNCHANGED outputBuffer_
          /\ \/ /\ kept = <<>>
                /\ pending' = Append(pending, Functor("writeComplete", <<>>))
             \/ pending' = Append(pending, Functor("sendFileInLoop", kept))
    BY <1>9 DEF FileWritten
  <2>2. FileRest' = kept /\ Bound' = {}
    <3>1. CASE kept = <<>> /\ pending' = Append(pending, Functor("writeComplete", <<>>))
      <4>1. "writeComplete" \in Ops \ Carriers BY DEF Ops, Carriers
      <4> QED BY <1>3, <1>5, <3>1, <4>1, SameQueue, FileRestIs
    <3>2. CASE pending' = Append(pending, Functor("sendFileInLoop", kept))
      <4> DEFINE g == Functor("sendFileInLoop", kept)
      <4>1. g \in Functors /\ g.op = "sendFileInLoop" /\ g.data = kept
        BY FunctorTypes DEF Ops, Functor
      <4>2. ToRun' = Append(ToRun, g) BY <1>3, <3>2, <4>1, QueueStep
      <4> HIDE DEF g
      <4>3. /\ FilesIn(Append(ToRun, g)) = {g}
            /\ StringsIn(Append(ToRun, g)) = {}
        BY <1>5, <4>1, QueueContents, ToRunType, FileRestIs
      <4> QED BY <4>1, <4>2, <4>3, FileRestIs
    <3> QED BY <2>1, <3>1, <3>2
  <2>3. wire' = wire \o sent /\ Data(m) = sent \o kept /\ (sent # <<>> => ~Broken)
    BY <2>1 DEF Writes
  <2>4. outputBuffer_' = <<>> BY <1>5, <2>1
  <2>5. Stream!Transmit /\ InStream' = wire \o Data(m)
    BY <1>4, <1>5, <1>7, <2>2, <2>3, <2>4, FileJoins
  <2>6. Stream!Send BY <1>1, <1>2, <1>5, <1>6, <2>2, <2>5 DEF Stream!Send, InStream
  <2> QED BY <2>6 DEF Step, Stream!Next
<1> QED BY <1>2, <1>8, <1>9

\* A string waits for its place in the stream, a file has it at once.
LEMMA UserSendsStep == ASSUME IInv, Streams, UserSends PROVE Step
<1> USE DEF IInv
<1>1. PICK m \in Messages : m = calls' BY UserSendNumber
<1>2. /\ UNCHANGED <<removal, peer, batch, ran, wire, outputBuffer_, fin>>
      /\ pending' = Append(pending, Functor("sendInLoop", Data(m)))
      /\ calls' = calls + 1
  BY <1>1, UserSendNumber
  DEF UserSends, connVars, loopVars, socketVars, peerVars
<1> DEFINE g == Functor("sendInLoop", Data(m))
<1>3. g \in Functors /\ g.op = "sendInLoop"
  BY DataFacts, FunctorTypes DEF Ops, Functor
<1>4. ToRun' = Append(ToRun, g) BY <1>2, <1>3, QueueStep
<1>5. g = Functor("sendInLoop", Data(m)) OBVIOUS
<1> HIDE DEF g
<1>6. /\ FilesIn(Append(ToRun, g)) = FilesIn(ToRun)
      /\ StringsIn(Append(ToRun, g)) = StringsIn(ToRun) \cup {m}
  BY <1>3, <1>5, QueueContents, ToRunType
<1>7. FileRest' = FileRest BY <1>4, <1>6, SameRest
<1>8. Bound' = Bound \cup {m} BY <1>4, <1>6, FileRestIs
<1>9. Stream!Hand BY <1>1, <1>2, <1>7, <1>8 DEF Stream!Hand
<1> QED BY <1>9 DEF Step, Stream!Next

\* sendFile() of another thread is Send.
LEMMA UserSendsFileStep == ASSUME IInv, Streams, UserSendsFile PROVE Step
<1> USE DEF IInv
<1>1. PICK m \in Messages : m = calls' BY UserSendNumber
<1>2. /\ UNCHANGED <<removal, peer, batch, ran, wire, outputBuffer_, fin>>
      /\ pending' = Append(pending, Functor("sendFileInLoop", Data(m)))
      /\ calls' = calls + 1 /\ user = "sendFile"
  BY <1>1, UserSendNumber
  DEF UserSendsFile, SendFileAgain, connVars, loopVars, socketVars, peerVars
<1>3. usage.awaits /\ ~awaiting
  BY <1>2 DEF UsageInv, OneInv, Streams, Calls
<1>4. /\ FilesIn(ToRun) = {} /\ FileRest = <<>> /\ Bound = {}
      /\ outputBuffer_ = <<>> /\ wire \in Seq(AllBytes)
  BY <1>3, FileIsAlone DEF TypeOK
<1> DEFINE g == Functor("sendFileInLoop", Data(m))
<1>5. g \in Functors /\ g.op = "sendFileInLoop" /\ g.data = Data(m)
  BY DataFacts, FunctorTypes DEF Ops, Functor
<1>6. ToRun' = Append(ToRun, g) BY <1>2, <1>5, QueueStep
<1> HIDE DEF g
<1>7. /\ FilesIn(Append(ToRun, g)) = {g}
      /\ StringsIn(Append(ToRun, g)) = {}
  BY <1>4, <1>5, QueueContents, ToRunType, FileRestIs
<1>8. FileRest' = Data(m) /\ Bound' = {} BY <1>5, <1>6, <1>7, FileRestIs
<1>9. Stream!Transmit /\ InStream' = wire \o Data(m)
  <2>1. /\ Data(m) \in Seq(AllBytes) /\ <<>> \in Seq(AllBytes)
        /\ wire' = wire \o <<>> /\ <<>> \o Data(m) = Data(m)
    BY <1>2, <1>4, DataFacts, SequenceFacts
  <2>2. outputBuffer_' = <<>> /\ fin' = fin /\ (IsBroken' <=> IsBroken)
    BY <1>2, <1>4 DEF IsBroken
  <2>3. /\ Stream!Transmit
        /\ InStream' = wire \o (<<>> \o Data(m))
    BY <1>4, <1>8, <2>1, <2>2, FileJoins
  <2> QED BY <2>1, <2>3
<1>10. InStream = wire BY <1>4, SequenceFacts DEF InStream
<1>11. Stream!Send
  BY <1>1, <1>2, <1>4, <1>8, <1>9, <1>10 DEF Stream!Send, InStream
<1> QED BY <1>11 DEF Step, Stream!Next

\* handleWrite(): the FIN comes when the last of outputBuffer_ is written, and
\* then nothing waits in a functor.
LEMMA HandleWriteStep == ASSUME IInv, Streams, HandleWrite PROVE Step
<1> USE DEF IInv
<1>1. /\ UNCHANGED <<calls, batch, ran, removal, peer>>
      /\ IsBroken' <=> IsBroken
  BY DEF HandleWrite, callVars, loopVars, peerVars, IsBroken
<1>2. CASE UNCHANGED <<outVars, wire, fin>>
  <2>1. Bound' = Bound /\ FileRest' = FileRest
    BY <1>1, <1>2, SameQueue, SameRest DEF outVars
  <2>2. InStream' = InStream BY <1>2, <2>1 DEF InStream, outVars
  <2> QED BY <1>1, <1>2, <2>1, <2>2, Unmoved DEF Step
<1>3. CASE Drained
  <2>1. PICK sent \in Seq(AllBytes), kept \in Seq(AllBytes) :
          /\ ~Broken
          /\ outputBuffer_ = sent \o kept /\ sent # <<>>
          /\ wire' = wire \o sent /\ outputBuffer_' = kept
          /\ \/ /\ kept = <<>>
                /\ pending' = Append(pending, Functor("writeComplete", <<>>))
             \/ kept # <<>> /\ UNCHANGED <<pending, fin>>
    BY <1>3 DEF Drained
  <2>2. outputBuffer_ # <<>> BY <2>1, SequenceFacts
  <2>3. FileRest = <<>> BY <2>2, FileIsAlone
  <2>4. Bound' = Bound /\ FileRest' = <<>>
    <3>1. "writeComplete" \in Ops \ Carriers BY DEF Ops, Carriers
    <3> QED BY <1>1, <2>1, <2>3, <3>1, SameQueue, SameRest
  <2>5. wire \in Seq(AllBytes) /\ wire \o sent \in Seq(AllBytes)
    BY SequenceFacts DEF TypeOK
  <2>6. InStream = (wire \o sent) \o kept
    <3>1. InStream = (wire \o (sent \o kept)) \o <<>> BY <2>1, <2>3 DEF InStream
    <3>2. wire \o (sent \o kept) \in Seq(AllBytes)
      BY <2>1, <2>5, SequenceFacts
    <3>3. (wire \o sent) \o kept = wire \o (sent \o kept)
      BY <2>1, <2>5, ConcatAssociative
    <3>4. (wire \o (sent \o kept)) \o <<>> = wire \o (sent \o kept)
      BY <3>2, SequenceFacts
    <3> QED BY Zenon, <3>1, <3>3, <3>4
  <2>7. InStream' = (wire \o sent) \o kept
    <3>1. InStream' = ((wire \o sent) \o kept) \o <<>> BY <2>1, <2>4 DEF InStream
    <3>2. (wire \o sent) \o kept \in Seq(AllBytes) BY <2>5, SequenceFacts
    <3>3. ((wire \o sent) \o kept) \o <<>> = (wire \o sent) \o kept
      BY <3>2, SequenceFacts
    <3> QED BY Zenon, <3>1, <3>3
  <2>8. Stream!Transmit
    <3>1. ~fin BY <2>1 DEF Broken
    <3>2. fin' => kept = <<>> BY <2>1, <3>1
    <3> QED BY <1>1, <2>1, <2>7, <3>1, <3>2, Transmits
  <2>9. Stream!Advance
    BY <1>1, <2>4, <2>6, <2>7, <2>8 DEF Stream!Advance, InStream
  <2> QED BY <2>9 DEF Step, Stream!Next
<1> QED BY <1>2, <1>3, WriteEffect

\* A FIN by shutdownInLoop(): outputBuffer_ is empty unless the channel waits to
\* write, and a file that is queued is one whose sender has not shut down.
LEMMA FinStep ==
  ASSUME IInv, Streams, UNCHANGED <<calls, wire, outputBuffer_, removal, peer>>,
         fin' = (fin \/ ~IsWriting),
         FilesIn(ToRun') = FilesIn(ToRun), Bound' = Bound,
         state_ # "kConnected" \/ (usage.awaits => ~awaiting)
  PROVE  Step
<1> USE DEF IInv
<1>1. wire \in Seq(AllBytes) /\ outputBuffer_ \in Seq(AllBytes) /\ fin \in BOOLEAN
  BY DEF TypeOK
<1>2. FileRest' = FileRest /\ FileRest \in Seq(AllBytes)
  BY SameRest, FileIsAlone
<1>3. IsBroken' <=> IsBroken BY DEF IsBroken
<1>4. ASSUME ~IsBroken, ~IsWriting PROVE outputBuffer_ = <<>> /\ FileRest = <<>>
  <2>1. outputBuffer_ = <<>> BY <1>4 DEF PollerInv, IsBroken
  <2>2. usage.awaits => ~awaiting BY <1>4 DEF SentInv, Intact, IsBroken
  <2> QED BY <2>1, <2>2, FileIsAlone
<1> DEFINE rest == outputBuffer_ \o FileRest
<1>5. rest \in Seq(AllBytes) BY <1>1, <1>2, SequenceFacts
<1>6. ~IsBroken /\ ~IsWriting => rest = <<>> BY <1>1, <1>2, <1>4, SequenceFacts
<1>7. InStream = (wire \o <<>>) \o rest
  <2>1. wire \o <<>> = wire BY <1>1, SequenceFacts
  <2>2. (wire \o outputBuffer_) \o FileRest = wire \o rest
    BY <1>1, <1>2, ConcatAssociative
  <2> HIDE DEF rest
  <2> QED BY Zenon, <2>1, <2>2 DEF InStream
<1>8. InStream' = InStream BY <1>2 DEF InStream
<1>9. wire' = wire \o <<>> /\ <<>> \in Seq(AllBytes) BY <1>1, SequenceFacts
<1> HIDE DEF rest
<1>10. Stream!Transmit
  <2>1. fin => <<>> = <<>> /\ fin' OBVIOUS
  <2>2. fin' /\ ~fin => IsBroken \/ rest = <<>> BY <1>6
  <2> QED BY <1>3, <1>5, <1>7, <1>8, <1>9, <2>1, <2>2, Transmits
<1>11. Stream!Advance
  BY <1>2, <1>8, <1>10 DEF Stream!Advance, InStream
<1> QED BY <1>11 DEF Step, Stream!Next

\* sendInLoop() as a functor: the string is the first of those that wait.
LEMMA RunSendStep ==
  ASSUME IInv, Streams, NEW f \in Functors, Runs(f), RunsSend(f)
  PROVE  Step
<1> USE DEF IInv
<1>1. /\ ToRun # <<>> /\ f = Head(ToRun) /\ f.op = "sendInLoop"
      /\ UNCHANGED <<calls, removal, peer, state_>>
      /\ pending' = pending => ToRun' = Tail(ToRun)
      /\ \A g \in Functors : pending' = Append(pending, g) =>
           ToRun' = Append(Tail(ToRun), g)
      /\ Sound /\ (Dropped("kDisconnected") \/ Written(f.data))
  BY DEF Runs, RunsSend, peerVars
<1>2. f \in Ready BY <1>1, ToRunType, ToSetFacts DEF Ready
<1>3. PICK m \in 1 .. calls : f.data = Data(m) BY <1>1 DEF Runs
<1>4. m \in Messages BY OutputAssumption DEF TypeOK, Messages
<1>5. f = Functor("sendInLoop", Data(m)) BY <1>1, <1>3 DEF Functor, Functors
<1>6. /\ Tail(ToRun) \in Seq(Functors) /\ Len(ToRun) \in Nat \ {0}
      /\ Len(Tail(ToRun)) = Len(ToRun) - 1 /\ ToRun[1] = f
      /\ \A i \in 1 .. Len(ToRun) - 1 : Tail(ToRun)[i] = ToRun[i + 1]
  BY <1>1, ToRunType, HeadTailProperties
\* The strings behind it are later ones.
<1>7. ASSUME NEW n \in StringsIn(Tail(ToRun)) PROVE n \in Messages /\ m < n
  <2>1. n \in Messages /\ Functor("sendInLoop", Data(n)) \in ToSet(Tail(ToRun))
    BY DEF StringsIn
  <2>2. PICK i \in 1 .. Len(ToRun) - 1 :
          Tail(ToRun)[i] = Functor("sendInLoop", Data(n))
    BY <1>6, <2>1 DEF ToSet
  <2>3. ToRun[i + 1] = Functor("sendInLoop", Data(n)) BY <1>6, <2>2
  <2>4. /\ ToRun[1].op = "sendInLoop" /\ ToRun[1].data = Data(m)
        /\ ToRun[i + 1].op = "sendInLoop" /\ ToRun[i + 1].data = Data(n)
    BY <1>1, <1>3, <1>6, <2>3 DEF Functor
  <2>5. 1 \in 1 .. Len(ToRun) /\ i + 1 \in 1 .. Len(ToRun) /\ 1 < i + 1
    BY <1>6
  <2>6. Data(m)[1][1] < Data(n)[1][1] BY <2>4, <2>5 DEF OrderInv, Ascending
  <2> QED BY <1>4, <2>1, <2>6, DataFacts
<1>8. Bound = StringsIn(Tail(ToRun)) \cup {m}
  <2>1. ToSet(ToRun) = {f} \cup ToSet(Tail(ToRun)) BY <1>1, ToRunType, ToSetFacts
  <2>2. ASSUME NEW n \in Messages, Functor("sendInLoop", Data(n)) = f PROVE n = m
    <3>1. Data(n) = Data(m) BY <1>5, <2>2 DEF Functor
    <3> QED BY <1>4, <3>1, DataFacts
  <2>3. StringsIn(ToRun) = StringsIn(Tail(ToRun)) \cup {m}
    BY <1>4, <1>5, <2>1, <2>2 DEF StringsIn
  <2> QED BY <2>3, FileRestIs
<1>9. Stream!FirstWaiting(m) /\ Bound \ {m} = StringsIn(Tail(ToRun)) /\ m \in Bound
  <2>1. \A n \in Bound : m <= n BY <1>4, <1>7, <1>8 DEF Messages
  <2>2. m \in Bound /\ Bound \ {m} = StringsIn(Tail(ToRun))
    BY <1>4, <1>7, <1>8 DEF Messages
  <2> QED BY <2>1, <2>2 DEF Stream!FirstWaiting
\* No file waits beside it.
<1>10. FilesIn(ToRun) = {} /\ FileRest = <<>>
  BY <1>8, FileIsAlone, FileRestIs
<1>11. FilesIn(Tail(ToRun)) = {} BY <1>1, <1>10, QueueContents, ToRunType
<1>12. FilesIn(ToRun') = {} /\ Bound' = Bound \ {m} /\ FileRest' = <<>>
  BY <1>1, <1>6, <1>9, <1>11, StringQueues, SameContents, FileRestIs
<1>13. fin' = fin BY Zenon, <1>1 DEF Sound
<1>14. IsBroken' <=> IsBroken BY <1>1 DEF IsBroken
<1>15. CASE Dropped("kDisconnected")
  <2>1. fin \/ IsBroken BY <1>15 DEF Dropped, Broken, IsBroken, StateInv
  <2>2. InStream' = InStream /\ wire' = wire
    BY <1>10, <1>12, <1>15 DEF Dropped, outVars, InStream
  <2>3. UNCHANGED (removal # "none" \/ peer = "reset") BY <1>1
  <2>4. Stream!Lose
    BY <1>1, <1>9, <1>12, <1>13, <2>1, <2>2, <2>3
    DEF Stream!Lose, IsBroken, InStream
  <2> QED BY <2>4 DEF Step, Stream!Next
<1>16. CASE Written(f.data)
  <2>1. Stream!Transmit /\ InStream' = InStream \o Data(m)
    BY <1>3, <1>4, <1>10, <1>12, <1>13, <1>14, <1>16, DataFacts, StringJoins
  <2>2. Stream!Place(m)
    BY <1>1, <1>9, <1>12, <2>1 DEF Stream!Place, InStream
  <2> QED BY <1>9, <2>2 DEF Step, Stream!Next
<1> QED BY <1>1, <1>15, <1>16

\* sendFileInLoop() as a functor: it goes on where it was.
LEMMA RunFileStep ==
  ASSUME IInv, Streams, NEW f \in Functors, Runs(f), RunsFile(f)
  PROVE  Step
<1> USE DEF IInv
<1>1. /\ ToRun # <<>> /\ f = Head(ToRun) /\ f.op = "sendFileInLoop"
      /\ UNCHANGED <<calls, removal, peer, state_>>
      /\ pending' = pending => ToRun' = Tail(ToRun)
      /\ \A g \in Functors : pending' = Append(pending, g) =>
           ToRun' = Append(Tail(ToRun), g)
      /\ Sound /\ (Dropped("kDisconnecting") \/ FileWritten(f.data))
  BY DEF Runs, RunsFile, peerVars
<1>2. f \in FilesIn(ToRun) BY <1>1, ToRunType, ToSetFacts DEF FilesIn
<1>3. /\ FilesIn(ToRun) = {f} /\ usage.awaits /\ awaiting
      /\ outputBuffer_ = <<>> /\ Bound = {} /\ FileRest = f.data
      /\ FileRest \in Seq(AllBytes) /\ wire \in Seq(AllBytes)
  BY <1>2, FileIsAlone, FileRestIs DEF TypeOK
<1>4. Tail(ToRun) \in Seq(Functors) BY <1>1, ToRunType, HeadTailProperties
<1>5. FilesIn(Tail(ToRun)) = {} /\ StringsIn(Tail(ToRun)) = {}
  <2>1. \A g \in ToSet(Tail(ToRun)) : g.op \notin Carriers
    <3>1. f.op \in Awaited BY <1>1 DEF Awaited, Carriers
    <3>2. NoneAwaited(Tail(ToRun))
      BY <1>1, <1>3, <3>1, AwaitedFacts, ToRunType DEF OneInv
    <3> QED BY <3>2 DEF NoneAwaited, Awaited, ToSet
  <2> QED BY <2>1 DEF FilesIn, StringsIn, Functor, Carriers
<1>6. InStream = wire \o f.data
  BY <1>3, SequenceFacts DEF InStream
<1>7. fin' = fin BY Zenon, <1>1 DEF Sound
<1>8. IsBroken' <=> IsBroken BY <1>1 DEF IsBroken
<1>9. CASE Dropped("kDisconnecting")
  <2>1. fin \/ IsBroken
    <3>1. CASE state_ = "kDisconnecting"
      BY <1>3, <3>1 DEF SentInv, Intact, IsBroken
    <3> QED BY <1>9, <3>1 DEF Dropped, Broken, IsBroken
  <2>2. FileRest' = <<>> /\ Bound' = {}
    BY <1>1, <1>4, <1>5, <1>9, StringQueues, SameContents, FileRestIs
  <2>3. wire' = wire /\ InStream' = wire
    <3>1. wire' = wire /\ outputBuffer_' = <<>>
      BY <1>3, <1>9 DEF Dropped, outVars
    <3>2. InStream' = (wire \o <<>>) \o <<>> BY <2>2, <3>1 DEF InStream
    <3>3. wire \o <<>> = wire BY <1>3, SequenceFacts
    <3> QED BY <3>1, <3>2, <3>3
  <2>4. UNCHANGED (removal # "none" \/ peer = "reset") BY <1>1
  <2>5. Stream!Lose
    BY <1>1, <1>3, <1>7, <2>1, <2>2, <2>3, <2>4
    DEF Stream!Lose, IsBroken, InStream
  <2> QED BY <2>5 DEF Step, Stream!Next
<1>10. CASE FileWritten(f.data)
  <2>1. PICK sent \in Seq(AllBytes), kept \in Seq(AllBytes) :
          /\ Writes(f.data, sent, kept)
          /\ UNCHANGED outputBuffer_
          /\ \/ /\ kept = <<>>
                /\ pending' = Append(pending, Functor("writeComplete", <<>>))
             \/ pending' = Append(pending, Functor("sendFileInLoop", kept))
    BY <1>10 DEF FileWritten
  <2>2. FileRest' = kept /\ Bound' = {}
    <3>1. CASE kept = <<>> /\ pending' = Append(pending, Functor("writeComplete", <<>>))
      <4>1. "writeComplete" \in Ops \ Carriers BY DEF Ops, Carriers
      <4> QED BY <1>1, <1>4, <1>5, <3>1, <4>1, SameContents, FileRestIs
    <3>2. CASE pending' = Append(pending, Functor("sendFileInLoop", kept))
      <4> DEFINE g == Functor("sendFileInLoop", kept)
                 q == Tail(ToRun)
      <4>1. g \in Functors /\ g.op = "sendFileInLoop" /\ g.data = kept
        BY FunctorTypes DEF Ops, Functor
      <4>2. ToRun' = Append(q, g) BY <1>1, <3>2, <4>1
      <4>3. q \in Seq(Functors) /\ FilesIn(q) = {} /\ StringsIn(q) = {}
        BY <1>4, <1>5
      <4> HIDE DEF g, q
      <4>4. /\ FilesIn(Append(q, g)) = {g}
            /\ StringsIn(Append(q, g)) = {}
        BY <4>1, <4>3, QueueContents
      <4> QED BY <4>1, <4>2, <4>4, FileRestIs
    <3> QED BY <2>1, <3>1, <3>2
  <2>3. wire' = wire \o sent /\ f.data = sent \o kept /\ (sent # <<>> => ~Broken)
    BY <2>1 DEF Writes
  <2>4. outputBuffer_' = <<>> BY <1>3, <2>1
  <2>5. /\ Stream!Transmit
        /\ InStream' = wire \o (sent \o kept)
    BY <1>3, <1>7, <1>8, <2>2, <2>3, <2>4, FileJoins
  <2>6. InStream' = InStream BY Zenon, <1>6, <2>3, <2>5
  <2>7. Stream!Advance
    BY <1>1, <1>3, <2>2, <2>5, <2>6 DEF Stream!Advance, InStream
  <2> QED BY <2>7 DEF Step, Stream!Next
<1> QED BY <1>1, <1>9, <1>10

\* The other functors leave what is to be sent as it is.
LEMMA RunOtherStep ==
  ASSUME IInv, Streams, NEW f \in Functors, Runs(f),
         RunsShutdown(f) \/ RunsCallback(f) \/ RunsDestroy(f)
  PROVE  Step
<1> USE DEF IInv
<1>1. /\ ToRun # <<>> /\ f = Head(ToRun) /\ f.op \notin Carriers
      /\ UNCHANGED <<calls, removal, peer, wire, outputBuffer_>>
      /\ ToRun' = Tail(ToRun)
  BY DEF Runs, RunsShutdown, RunsCallback, RunsDestroy, peerVars, Carriers
<1>2. FilesIn(ToRun') = FilesIn(ToRun) /\ Bound' = Bound
  BY <1>1, QueueContents, ToRunType, FileRestIs DEF Carriers
<1>3. CASE RunsShutdown(f)
  <2>1. f \in Ready /\ f.op = "shutdownInLoop"
    BY <1>1, <1>3, ToRunType, ToSetFacts DEF Ready, RunsShutdown
  <2>2. state_ # "kConnected" BY <2>1 DEF StateInv
  <2>3. fin' = (fin \/ ~IsWriting) BY <1>3 DEF RunsShutdown
  <2> QED BY <1>1, <1>2, <2>2, <2>3, FinStep
<1>4. CASE RunsCallback(f) \/ RunsDestroy(f)
  <2>1. fin' = fin BY <1>4 DEF RunsCallback, RunsDestroy
  <2>2. InStream' = InStream BY <1>1, <1>2, SameRest DEF InStream
  <2>3. IsBroken' <=> IsBroken BY <1>1 DEF IsBroken
  <2> QED BY <1>1, <1>2, <2>1, <2>2, <2>3, Unmoved DEF Step
<1> QED BY <1>3, <1>4

\* What breaks the connection, and what leaves the stream as it is.
LEMMA QuietStep ==
  ASSUME IInv, Streams, [Next]_vars,
         ~LoopSends, ~LoopSendsFile, ~LoopShutsDown, ~UserSends, ~UserSendsFile,
         ~HandleWrite, ~RunFunctor
  PROVE  Step
<1> USE DEF IInv
<1>1. UNCHANGED <<calls, wire, outputBuffer_, fin>>
  BY DEF Next, UserTests, UserStores, UserShutsDown, UserLetsGo, HandleClose,
         BaseRemoves, TakeFunctors, EndRound, PeerReads, PeerCloses, PeerResets,
         vars, connVars, callVars, socketVars, outVars
<1>2. FilesIn(ToRun') = FilesIn(ToRun) /\ Bound' = Bound
  <2>1. CASE TakeFunctors \/ EndRound
    <3>1. ToRun' = ToRun BY <2>1, RoundStep
    <3> QED BY <3>1, FileRestIs
  <2>2. CASE UserShutsDown \/ BaseRemoves
    <3>1. \E op \in Ops \ Carriers : pending' = Append(pending, Functor(op, <<>>))
      BY <2>2 DEF UserShutsDown, BaseRemoves, Queue, Ops, Carriers
    <3>2. UNCHANGED <<batch, ran>>
      BY <2>2 DEF UserShutsDown, BaseRemoves, loopVars
    <3> QED BY <3>1, <3>2, SameQueue
  <2>3. CASE ~TakeFunctors /\ ~EndRound /\ ~UserShutsDown /\ ~BaseRemoves
    <3>1. UNCHANGED <<pending, batch, ran>>
      BY <2>3 DEF Next, UserTests, UserStores, UserLetsGo, HandleClose, PeerReads,
                  PeerCloses, PeerResets, vars, loopVars, outVars
    <3> QED BY <3>1, SameQueue
  <2> QED BY <2>1, <2>2, <2>3
<1>3. FileRest' = FileRest BY <1>2, SameRest
<1>4. InStream' = InStream BY <1>1, <1>3 DEF InStream
<1>5. CASE IsBroken' <=> IsBroken BY <1>1, <1>2, <1>4, <1>5, Unmoved DEF Step
<1>6. CASE ~(IsBroken' <=> IsBroken)
  <2>1. IsBroken => IsBroken'
    <3>1. /\ removal # "none" => removal' # "none"
          /\ peer = "reset" => peer' = "reset"
      BY Framed DEF Frame
    <3> QED BY <3>1 DEF IsBroken
  <2>2. IsBroken' BY <1>6, <2>1
  <2>3. Stream!Break
    <3>1. (removal # "none" \/ peer = "reset")' = TRUE BY <2>2 DEF IsBroken
    <3> QED BY Zenon, <1>1, <1>2, <1>4, <3>1 DEF Stream!Break, InStream
  <2> QED BY <2>3 DEF Step, Stream!Next
<1> QED BY <1>5, <1>6

\* Every step is one of OutputStream, or a stutter.
LEMMA StreamStep == IInv /\ Streams /\ [Next]_vars => Step
<1> SUFFICES ASSUME IInv, Streams, [Next]_vars PROVE Step OBVIOUS
<1>1. CASE LoopSends BY <1>1, LoopSendsStep
<1>2. CASE LoopSendsFile BY <1>2, LoopSendsFileStep
<1>3. CASE LoopShutsDown
  <2>1. /\ UNCHANGED <<calls, wire, outputBuffer_, removal, peer>>
        /\ UNCHANGED <<pending, batch, ran>>
        /\ fin' = (fin \/ ~IsWriting)
        /\ usage.awaits => ~awaiting
    BY <1>3 DEF LoopShutsDown, Calling, MayCall, ShutdownInLoop, outVars,
                loopVars, peerVars
  <2>2. FilesIn(ToRun') = FilesIn(ToRun) /\ Bound' = Bound
    BY <2>1, SameQueue DEF IInv
  <2> QED BY <2>1, <2>2, FinStep
<1>4. CASE UserSends BY <1>4, UserSendsStep
<1>5. CASE UserSendsFile BY <1>5, UserSendsFileStep
<1>6. CASE HandleWrite BY <1>6, HandleWriteStep
<1>7. CASE RunFunctor
  <2>1. PICK f \in Functors :
          /\ Runs(f)
          /\ \/ RunsSend(f) \/ RunsFile(f) \/ RunsShutdown(f)
             \/ RunsCallback(f) \/ RunsDestroy(f)
    BY <1>7, RunEffect DEF IInv
  <2> QED BY <2>1, RunSendStep, RunFileStep, RunOtherStep
<1> QED BY <1>1, <1>2, <1>3, <1>4, <1>5, <1>6, <1>7, QuietStep

\* send(), sendFile() and shutdown() keep OutputStream's promise: messages go
\* out whole and in order and the FIN behind them, for a connection whose files
\* do not share the socket with messages that are not awaited.
THEOREM StreamInOrder == Spec /\ Streams => Ordered
<1>1. Init => Stream!Init
  <2> SUFFICES ASSUME Init PROVE Stream!Init OBVIOUS
  <2>1. ToRun = <<>>
    <3>1. SubSeq(<<>>, 0 + 1, Len(<<>>)) = <<>> BY SubSeqEmpty, EmptySeq
    <3> QED BY <3>1 DEF Init, ToRun
  <2>2. Bound = {} /\ FilesIn(ToRun) = {}
    BY <2>1 DEF Bound, FilesIn, ToSet
  <2>3. FileRest = <<>> BY <2>2, FileRestIs
  <2>4. wire \o outputBuffer_ \o FileRest = <<>> BY <2>3 DEF Init
  <2>5. (removal # "none" \/ peer = "reset") = FALSE BY DEF Init
  <2> QED BY <2>2, <2>4, <2>5 DEF Init, Stream!Init
<1>2. IInv /\ Streams /\ [Next]_vars => [Stream!Next]_(Stream!streamVars)
  BY StreamStep DEF Step
<1>3. IInv /\ Streams /\ [Next]_vars => Streams' BY Inductive DEF Streams
<1> QED BY <1>1, <1>2, <1>3, Invariant, PTL DEF Spec, Ordered, Stream!Spec

=============================================================================
