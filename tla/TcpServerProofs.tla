--------------------------- MODULE TcpServerProofs ---------------------------
(***************************************************************************)
(* Proofs about TcpServer: that a TcpConnection is not destroyed while its *)
(* Channel is in a poller, that it is removed once and for good, that the  *)
(* server implements ConnectionLife, and that the loops of the pool are    *)
(* used in turn, for any pool and any number of connections.               *)
(***************************************************************************)
EXTENDS TcpServer, SequenceTheorems, FiniteSetTheorems, TLAPS

(***************************************************************************)
(* Queues of functors.                                                     *)
(***************************************************************************)

\* No functor is queued twice.
Distinct(q) == \A i, j \in DOMAIN q : q[i] = q[j] => i = j

\* connectEstablished() comes before whatever else is queued for a connection.
EstablishedFirst(q) ==
  \A i, j \in DOMAIN q :
    q[i].op = "connectEstablished" /\ q[j].conn = q[i].conn => i <= j

Established(c) == Functor("connectEstablished", c)
Destroyed(c) == Functor("connectDestroyed", c)

\* A functor at the end of a queue.
LEMMA AppendQueue ==
  ASSUME NEW q \in Seq(FunctorRecords), NEW f \in FunctorRecords
  PROVE  /\ Append(q, f) \in Seq(FunctorRecords)
         /\ ToSet(Append(q, f)) = ToSet(q) \cup {f}
         /\ Distinct(q) /\ f \notin ToSet(q) => Distinct(Append(q, f))
         /\ (/\ EstablishedFirst(q)
             /\ \/ f.op # "connectEstablished"
                \/ \A g \in ToSet(q) : g.conn # f.conn)
            => EstablishedFirst(Append(q, f))
<1> DEFINE r == Append(q, f)
<1>1. /\ r \in Seq(FunctorRecords)
      /\ Len(r) = Len(q) + 1
      /\ \A i \in 1 .. Len(q) : r[i] = q[i]
      /\ r[Len(q) + 1] = f
  BY AppendProperties
<1>2. /\ Len(q) \in Nat
      /\ DOMAIN q = 1 .. Len(q)
      /\ DOMAIN r = 1 .. Len(q) + 1
  BY <1>1, LenProperties
<1> HIDE DEF r
<1>3. \A i \in DOMAIN r : i \in DOMAIN q \/ i = Len(q) + 1 BY <1>2
<1>4. \A i \in DOMAIN q : i \in DOMAIN r /\ i <= Len(q) + 1 BY <1>2
<1>5. Len(q) + 1 \in DOMAIN r /\ Len(q) + 1 \notin DOMAIN q BY <1>2
<1>6. \A i \in DOMAIN q : r[i] = q[i] BY <1>1, <1>2
<1>7. ToSet(r) = ToSet(q) \cup {f}
  BY <1>1, <1>3, <1>4, <1>5, <1>6 DEF ToSet
<1>8. ASSUME Distinct(q), f \notin ToSet(q) PROVE Distinct(r)
  <2> SUFFICES ASSUME NEW i \in DOMAIN r, NEW j \in DOMAIN r, r[i] = r[j]
               PROVE  i = j
    BY DEF Distinct
  <2>1. \A k \in DOMAIN q : r[k] # f BY <1>6, <1>8 DEF ToSet
  <2>2. CASE i \in DOMAIN q /\ j \in DOMAIN q BY <1>6, <1>8, <2>2 DEF Distinct
  <2> QED BY <1>1, <1>3, <2>1, <2>2
<1>9. ASSUME EstablishedFirst(q),
             f.op # "connectEstablished" \/ \A g \in ToSet(q) : g.conn # f.conn
      PROVE  EstablishedFirst(r)
  <2> SUFFICES ASSUME NEW i \in DOMAIN r, NEW j \in DOMAIN r,
                      r[i].op = "connectEstablished", r[j].conn = r[i].conn
               PROVE  i <= j
    BY DEF EstablishedFirst
  <2>1. CASE i \in DOMAIN q /\ j \in DOMAIN q
    BY <1>6, <1>9, <2>1 DEF EstablishedFirst
  <2>2. CASE i \in DOMAIN q /\ j = Len(q) + 1 BY <1>4, <2>2
  <2>3. CASE i = Len(q) + 1 /\ j \in DOMAIN q
    <3>1. f.op = "connectEstablished" /\ r[j].conn = f.conn BY <1>1, <2>3
    <3>2. r[j] \in ToSet(q) BY <1>6, <2>3 DEF ToSet
    <3> QED BY <1>9, <3>1, <3>2
  <2>4. CASE i = Len(q) + 1 /\ j = Len(q) + 1 BY <1>2, <2>4
  <2> QED BY <1>3, <2>1, <2>2, <2>3, <2>4
<1> QED BY <1>1, <1>7, <1>8, <1>9 DEF r

\* The first functor leaves a queue.
LEMMA TailQueue ==
  ASSUME NEW q \in Seq(FunctorRecords), q # <<>>
  PROVE  /\ Tail(q) \in Seq(FunctorRecords)
         /\ Head(q) \in ToSet(q)
         /\ ToSet(Tail(q)) \subseteq ToSet(q)
         /\ ToSet(q) = ToSet(Tail(q)) \cup {Head(q)}
         /\ Distinct(q) => Distinct(Tail(q)) /\ Head(q) \notin ToSet(Tail(q))
         /\ EstablishedFirst(q) =>
              /\ EstablishedFirst(Tail(q))
              /\ \A g \in ToSet(Tail(q)) :
                   g.op = "connectEstablished" => g.conn # Head(q).conn
<1> DEFINE r == Tail(q)
<1>1. /\ Head(q) = q[1]
      /\ r \in Seq(FunctorRecords)
      /\ Len(r) = Len(q) - 1
      /\ \A i \in 1 .. Len(r) : r[i] = q[i + 1]
  BY HeadTailProperties
<1>2. /\ Len(q) \in Nat \ {0}
      /\ DOMAIN q = 1 .. Len(q)
      /\ DOMAIN r = 1 .. Len(q) - 1
  BY <1>1, LenProperties, EmptySeq
<1> HIDE DEF r
<1>3. 1 \in DOMAIN q /\ \A i \in DOMAIN r : i + 1 \in DOMAIN q /\ i + 1 # 1
  BY <1>2
<1>4. \A i \in DOMAIN q : i = 1 \/ (i - 1 \in DOMAIN r /\ (i - 1) + 1 = i)
  BY <1>2
<1>5. \A i \in DOMAIN r : r[i] = q[i + 1] BY <1>1, <1>2
<1>6. \A i, j \in DOMAIN r : (i + 1 = j + 1 => i = j) /\ (i + 1 <= j + 1 => i <= j)
  BY <1>2
<1>7. ToSet(q) = ToSet(r) \cup {Head(q)}
  <2>1. ASSUME NEW i \in DOMAIN q PROVE q[i] \in ToSet(r) \cup {Head(q)}
    BY <1>1, <1>4, <1>5 DEF ToSet
  <2>2. ASSUME NEW i \in DOMAIN r PROVE r[i] \in ToSet(q)
    BY <1>3, <1>5 DEF ToSet
  <2>3. Head(q) \in ToSet(q) BY <1>1, <1>3 DEF ToSet
  <2> QED BY <2>1, <2>2, <2>3 DEF ToSet
<1>8. ASSUME Distinct(q) PROVE Distinct(r) /\ Head(q) \notin ToSet(r)
  <2>1. Distinct(r) BY <1>3, <1>5, <1>6, <1>8 DEF Distinct
  <2>2. \A i \in DOMAIN r : r[i] # q[1] BY <1>3, <1>5, <1>8 DEF Distinct
  <2> QED BY <1>1, <2>1, <2>2 DEF ToSet
<1>9. ASSUME EstablishedFirst(q)
      PROVE  /\ EstablishedFirst(r)
             /\ \A g \in ToSet(r) :
                  g.op = "connectEstablished" => g.conn # Head(q).conn
  <2>1. EstablishedFirst(r) BY <1>3, <1>5, <1>6, <1>9 DEF EstablishedFirst
  <2>2. ASSUME NEW i \in DOMAIN r, r[i].op = "connectEstablished",
               r[i].conn = q[1].conn
        PROVE  FALSE
    <3>1. i + 1 <= 1 BY <1>3, <1>5, <1>9, <2>2 DEF EstablishedFirst
    <3> QED BY <1>2, <3>1
  <2> QED BY <1>1, <2>1, <2>2 DEF ToSet
<1> QED BY <1>1, <1>7, <1>8, <1>9 DEF r

\* Head and tail of a queue.
LEMMA ConsQueue ==
  ASSUME NEW S, NEW x \in S, NEW u \in Seq(S)
  PROVE  <<x>> \o u # <<>> /\ Head(<<x>> \o u) = x /\ Tail(<<x>> \o u) = u
<1> DEFINE r == <<x>> \o u
<1>1. <<x>> \in Seq(S) /\ Len(<<x>>) = 1 /\ <<x>>[1] = x OBVIOUS
<1>2. /\ r \in Seq(S)
      /\ Len(r) = 1 + Len(u)
      /\ \A i \in 1 .. 1 + Len(u) :
           r[i] = IF i <= 1 THEN <<x>>[i] ELSE u[i - 1]
  BY <1>1, ConcatProperties
<1>3. Len(u) \in Nat BY LenProperties
<1> HIDE DEF r
<1>4. r # <<>> BY <1>2, <1>3, EmptySeq
<1>5. r[1] = x BY <1>1, <1>2, <1>3
<1>6. Head(r) = r[1] BY <1>2, <1>4
<1>7. /\ Tail(r) \in Seq(S)
      /\ Len(Tail(r)) = Len(r) - 1
      /\ \A i \in 1 .. Len(Tail(r)) : Tail(r)[i] = r[i + 1]
  BY <1>2, <1>4, HeadTailProperties
<1>8. Len(Tail(r)) = Len(u) BY <1>2, <1>3, <1>7
<1>9. ASSUME NEW i \in 1 .. Len(Tail(r)) PROVE Tail(r)[i] = u[i]
  <2>1. /\ i \in Nat /\ i + 1 \in 1 .. 1 + Len(u)
        /\ ~(i + 1 <= 1) /\ (i + 1) - 1 = i
    BY <1>3, <1>8, <1>9
  <2>2. r[i + 1] = u[(i + 1) - 1] BY <1>2, <2>1
  <2> QED BY <1>7, <1>9, <2>1, <2>2
<1>10. Tail(r) = u BY <1>7, <1>8, <1>9, SeqEqual
<1> QED BY <1>4, <1>5, <1>6, <1>10 DEF r

-----------------------------------------------------------------------------
(***************************************************************************)
(* What a loop has still to run, as its steps change it.                   *)
(***************************************************************************)

\* What is left of the vector, and the pending functors.
LEMMA ToRunType ==
  ASSUME TypeOK, NEW l \in Loops
  PROVE  /\ pending[l] \in Seq(FunctorRecords)
         /\ batch[l] \in Seq(FunctorRecords)
         /\ Len(batch[l]) \in Nat /\ ran[l] \in Nat /\ ran[l] <= Len(batch[l])
         /\ SubSeq(batch[l], ran[l] + 1, Len(batch[l])) \in Seq(FunctorRecords)
         /\ ToRun(l) \in Seq(FunctorRecords)
<1>1. /\ pending[l] \in Seq(FunctorRecords)
      /\ batch[l] \in Seq(FunctorRecords)
      /\ ran[l] \in Nat /\ ran[l] <= Len(batch[l])
  BY DEF TypeOK
<1>2. /\ Len(batch[l]) \in Nat
      /\ \A i \in 1 .. Len(batch[l]) : batch[l][i] \in FunctorRecords
  BY <1>1, LenProperties
<1>3. \A i \in ran[l] + 1 .. Len(batch[l]) : batch[l][i] \in FunctorRecords
  BY <1>1, <1>2
<1>4. SubSeq(batch[l], ran[l] + 1, Len(batch[l])) \in Seq(FunctorRecords)
  BY <1>1, <1>2, <1>3, SubSeqProperties
<1> QED BY <1>1, <1>2, <1>4, ConcatProperties DEF ToRun

\* Queues put together.
LEMMA QueueAssociative ==
  \A q, r, s \in Seq(FunctorRecords) : (q \o r) \o s = q \o (r \o s)
BY ConcatAssociative

\* runInLoop() or queueInLoop() of a functor, into the loop m.
LEMMA QueueStep ==
  ASSUME TypeOK, NEW m \in Loops, NEW f \in FunctorRecords,
         pending' = [pending EXCEPT ![m] = Append(@, f)],
         UNCHANGED <<batch, ran>>
  PROVE  /\ pending' \in [Loops -> Seq(FunctorRecords)]
         /\ ToRun(m)' = Append(ToRun(m), f)
         /\ \A l \in Loops \ {m} : ToRun(l)' = ToRun(l)
<1> DEFINE rest == SubSeq(batch[m], ran[m] + 1, Len(batch[m]))
<1>1. /\ pending[m] \in Seq(FunctorRecords)
      /\ rest \in Seq(FunctorRecords)
  BY ToRunType
<1>2. pending'[m] = Append(pending[m], f) BY DEF TypeOK
<1>3. Append(pending[m], f) \in Seq(FunctorRecords) BY <1>1, AppendProperties
<1>4. pending' \in [Loops -> Seq(FunctorRecords)] BY <1>3 DEF TypeOK
<1>5. ToRun(m)' = rest \o Append(pending[m], f) BY <1>2 DEF ToRun
<1>6. <<f>> \in Seq(FunctorRecords) OBVIOUS
<1>7. Append(pending[m], f) = pending[m] \o <<f>> BY <1>1, AppendIsConcat
<1>8. rest \o (pending[m] \o <<f>>) = (rest \o pending[m]) \o <<f>>
  BY <1>1, <1>6, QueueAssociative
<1>9. rest \o pending[m] \in Seq(FunctorRecords) BY <1>1, ConcatProperties
<1>10. Append(rest \o pending[m], f) = (rest \o pending[m]) \o <<f>>
  BY <1>9, AppendIsConcat
<1>11. ToRun(m)' = Append(ToRun(m), f)
  <2>1. ToRun(m)' = Append(rest \o pending[m], f)
    <3> HIDE DEF rest
    <3> QED BY <1>5, <1>7, <1>8, <1>10
  <2> QED BY <2>1 DEF ToRun
<1>12. \A l \in Loops \ {m} : ToRun(l)' = ToRun(l)
  BY DEF ToRun, TypeOK
<1> QED BY <1>4, <1>11, <1>12

\* The functor that a loop runs next is the head of its queue.
LEMMA RunStep ==
  ASSUME TypeOK, NEW l \in Loops, ran[l] < Len(batch[l])
  PROVE  /\ ToRun(l) # <<>>
         /\ Head(ToRun(l)) = batch[l][ran[l] + 1]
         /\ Tail(ToRun(l)) =
              SubSeq(batch[l], ran[l] + 2, Len(batch[l])) \o pending[l]
         /\ batch[l][ran[l] + 1] \in FunctorRecords
<1> DEFINE n == Len(batch[l])
           x == batch[l][ran[l] + 1]
           rest == SubSeq(batch[l], ran[l] + 2, n)
<1>1. /\ pending[l] \in Seq(FunctorRecords)
      /\ batch[l] \in Seq(FunctorRecords)
      /\ n \in Nat /\ ran[l] \in Nat
  BY ToRunType
<1>2. /\ ran[l] + 1 \in 1 .. n
      /\ n \in ran[l] + 1 .. n
      /\ (ran[l] + 1) + 1 = ran[l] + 2
      /\ \A i \in ran[l] + 2 .. n : i \in 1 .. n
  BY <1>1
<1>3. \A i \in 1 .. n : batch[l][i] \in FunctorRecords
  BY <1>1, LenProperties
<1>4. rest \in Seq(FunctorRecords)
  BY <1>1, <1>2, <1>3, SubSeqProperties
<1>5. SubSeq(batch[l], ran[l] + 1, n) = <<x>> \o rest
  BY <1>1, <1>2, SubSeqRecursiveFirst
<1>6. x \in FunctorRecords BY <1>2, <1>3
<1>7. <<x>> \in Seq(FunctorRecords) BY <1>6
<1>8. ToRun(l) = <<x>> \o (rest \o pending[l])
  <2>1. ToRun(l) = (<<x>> \o rest) \o pending[l] BY <1>5 DEF ToRun
  <2> HIDE DEF x, rest, n
  <2> QED BY <1>1, <1>4, <1>7, <2>1, QueueAssociative
<1>9. rest \o pending[l] \in Seq(FunctorRecords)
  BY <1>1, <1>4, ConcatProperties
<1> QED BY ZenonT(40), <1>6, <1>8, <1>9, ConsQueue

\* Between two rounds everything that is queued is in pendingFunctors_.
LEMMA IdleQueue ==
  ASSUME TypeOK, NEW l \in Loops, ran[l] = Len(batch[l])
  PROVE  ToRun(l) = pending[l]
<1>1. /\ pending[l] \in Seq(FunctorRecords)
      /\ Len(batch[l]) \in Nat
  BY ToRunType
<1>2. SubSeq(batch[l], ran[l] + 1, Len(batch[l])) = <<>>
  BY <1>1, SubSeqEmpty
<1> QED BY <1>1, <1>2, ConcatEmptySeq DEF ToRun

-----------------------------------------------------------------------------
(***************************************************************************)
(* The invariant.                                                          *)
(***************************************************************************)

Up == server \in {"constructed", "started"}

\* The base loop runs only while the server is up, no loop before it is
\* started; only the destructor ends the loops of the pool, one at a time; and
\* the vector of functors is empty outside doPendingFunctors().
PhaseInv ==
  /\ server = "constructed" =>
       loops_ = <<>> /\ joined = 0 /\ \A l \in Loops : phase[l] = "off"
  /\ server = "waiting" => joined < Len(loops_)
  /\ phase[Base] # "starting"
  /\ phase[Base] \in {"events", "functors"} => server = "started"
  /\ phase[Base] = "destroyed" => server = "gone"
  /\ \A l \in PoolLoops :
       quit_[l] \/ phase[l] \in {"stopped", "destroyed"} => ~Up
  /\ \A l \in Loops : phase[l] # "functors" => batch[l] = <<>> /\ ran[l] = 0

\* The names that newConnection() has not given yet belong to nobody.
NameInv ==
  /\ \A c \in Connections : c >= nextConnId_ => conn[c] = Unborn
  /\ \A c \in Connections : conn[c].loop_ = NoLoop => conn[c] = Unborn
  /\ \A c \in connections_ : conn[c].loop_ # NoLoop

QueueInv ==
  \A l \in Loops : Distinct(ToRun(l)) /\ EstablishedFirst(ToRun(l))

\* What a functor queued in the loop l tells of its connection.
FunctorOK(l, f) ==
  LET k == conn[f.conn] IN
  /\ k.loop_ # NoLoop
  /\ f.op = "connectEstablished" =>
       l = k.loop_ /\ l # Base /\ k.index_ = "kNew"
  /\ f.op = "connectDestroyed" =>
       /\ l = k.loop_
       /\ f.conn \notin connections_
       /\ k.index_ # "removed"
       /\ l = Base => k.index_ = "kDeleted"
  /\ f.op = "removeConnectionInLoop" =>
       /\ l = Base
       /\ k.loop_ # Base
       /\ k.index_ \in {"kDeleted", "removed"}
       /\ Up => f.conn \in connections_

FunctorInv == \A l \in Loops : \A f \in ToSet(ToRun(l)) : FunctorOK(l, f)

\* Where a connection is that is not removed yet: in the map, in the functor
\* that will remove it, or in a loop that is gone; and a new one is in the
\* functor that will establish it.
ConnOK(c) ==
  LET k == conn[c] IN
  k.loop_ # NoLoop =>
    /\ Up /\ k.index_ \in {"kNew", "kAdded"} => c \in connections_
    /\ c \in connections_ => k.index_ # "removed"
    /\ \/ c \in connections_
       \/ Destroyed(c) \in ToSet(ToRun(k.loop_))
       \/ k.index_ = "removed"
       \/ /\ phase[k.loop_] = "destroyed"
          /\ k.loop_ = Base => k.index_ = "kDeleted"
    /\ k.index_ = "kNew" =>
         \/ Established(c) \in ToSet(ToRun(k.loop_))
         \/ phase[k.loop_] = "destroyed"

ConnInv == \A c \in Connections : ConnOK(c)

ServerInv ==
  TypeOK /\ PhaseInv /\ NameInv /\ QueueInv /\ FunctorInv /\ ConnInv

-----------------------------------------------------------------------------
(***************************************************************************)
(* Types.                                                                  *)
(***************************************************************************)

\* A functor, and what is bound in it.
LEMMA FunctorType ==
  \A c \in Connections : \A op \in Ops :
    /\ Functor(op, c) \in FunctorRecords
    /\ Functor(op, c).op = op
    /\ Functor(op, c).conn = c
BY DEF Functor, FunctorRecords

\* A connection that does not exist yet, and a new one.
LEMMA UnbornType ==
  ASSUME NEW l \in Loops \cup {NoLoop}
  PROVE  /\ Unborn \in ConnectionRecords
         /\ Unborn.loop_ = NoLoop
         /\ Unborn.index_ = "kNew"
         /\ [Unborn EXCEPT !.loop_ = l] \in ConnectionRecords
         /\ [Unborn EXCEPT !.loop_ = l].loop_ = l
         /\ [Unborn EXCEPT !.loop_ = l].index_ = "kNew"
<1>1. <<>> \in Seq({"UP", "DOWN"}) OBVIOUS
<1> QED BY <1>1 DEF Unborn, ConnectionRecords

\* The functions of a TcpConnection, by the index of its channel.
LEMMA ConnectionSteps ==
  ASSUME NEW k \in ConnectionRecords
  PROVE  /\ ConnectEstablished(k) \in ConnectionRecords
         /\ ConnectEstablished(k).loop_ = k.loop_
         /\ ConnectEstablished(k).index_ = "kAdded"
         /\ ConnectDestroyed(k) \in ConnectionRecords
         /\ ConnectDestroyed(k).loop_ = k.loop_
         /\ ConnectDestroyed(k).index_ = "removed"
         /\ Closed(k) \in ConnectionRecords
         /\ Closed(k).loop_ = k.loop_
         /\ Closed(k).index_ = "kDeleted"
<1>1. /\ Append(k.told, "UP") \in Seq({"UP", "DOWN"})
      /\ Append(k.told, "DOWN") \in Seq({"UP", "DOWN"})
  BY AppendProperties DEF ConnectionRecords
<1>2. /\ ConnectEstablished(k) \in ConnectionRecords
      /\ Closed(k) \in ConnectionRecords
  BY <1>1 DEF ConnectEstablished, Closed, ConnectionRecords
<1>3. ConnectDestroyed(k) \in ConnectionRecords
  BY <1>1 DEF ConnectDestroyed, ConnectionRecords
<1>4. /\ ConnectEstablished(k).loop_ = k.loop_
      /\ ConnectEstablished(k).index_ = "kAdded"
  BY DEF ConnectEstablished, ConnectionRecords
<1>5. /\ ConnectDestroyed(k).loop_ = k.loop_
      /\ ConnectDestroyed(k).index_ = "removed"
  BY DEF ConnectDestroyed, ConnectionRecords
<1>6. Closed(k).loop_ = k.loop_ /\ Closed(k).index_ = "kDeleted"
  BY DEF Closed, ConnectionRecords
<1> QED BY <1>2, <1>3, <1>4, <1>5, <1>6

\* The two steps of shutdown() change the state_ of a connection that exists,
\* and nothing else that the queues and the user's view depend on.
LEMMA ShutdownSteps ==
  ASSUME TypeOK, NameInv, NEW c \in Connections,
         ShutdownTests(c) \/ ShutdownStores(c)
  PROVE  /\ conn[c].loop_ # NoLoop
         /\ \E k \in ConnectionRecords :
              /\ conn' = [conn EXCEPT ![c] = k]
              /\ k.loop_ = conn[c].loop_
              /\ k.index_ = conn[c].index_
              /\ k.told = conn[c].told
              /\ \/ /\ conn[c].state_ = "kConnected" /\ k.state_ = "kConnected"
                    /\ k.ending
                 \/ /\ conn[c].ending /\ ~k.ending
                    /\ k.state_ = "kDisconnecting"
<1>1. conn[c] \in ConnectionRecords BY DEF TypeOK
<1>2. conn[c].loop_ # NoLoop
  <2>1. Unborn.state_ = "kConnecting" /\ ~Unborn.ending BY DEF Unborn
  <2> QED BY <2>1 DEF NameInv, ShutdownTests, ShutdownStores
<1>3. CASE ShutdownTests(c)
  <2> DEFINE k == [conn[c] EXCEPT !.ending = TRUE]
  <2>1. conn' = [conn EXCEPT ![c] = k] BY <1>3 DEF ShutdownTests
  <2>2. /\ k \in ConnectionRecords
        /\ k.loop_ = conn[c].loop_ /\ k.index_ = conn[c].index_
        /\ k.told = conn[c].told /\ k.state_ = conn[c].state_ /\ k.ending
    BY <1>1 DEF ConnectionRecords
  <2>3. conn[c].state_ = "kConnected" BY <1>3 DEF ShutdownTests
  <2> QED BY Zenon, <1>2, <2>1, <2>2, <2>3
<1>4. CASE ShutdownStores(c)
  <2> DEFINE k == [conn[c] EXCEPT !.ending = FALSE, !.state_ = "kDisconnecting"]
  <2>1. conn' = [conn EXCEPT ![c] = k] BY <1>4 DEF ShutdownStores, TypeOK
  <2>2. /\ k \in ConnectionRecords
        /\ k.loop_ = conn[c].loop_ /\ k.index_ = conn[c].index_
        /\ k.told = conn[c].told /\ k.state_ = "kDisconnecting" /\ ~k.ending
    BY <1>1 DEF ConnectionRecords
  <2>3. conn[c].ending BY <1>4 DEF ShutdownStores
  <2> QED BY Zenon, <1>2, <2>1, <2>2, <2>3
<1> QED BY <1>3, <1>4

\* The loops that start() has started are loops of the pool.
LEMMA PoolType ==
  ASSUME TypeOK
  PROVE  /\ Len(Pool) \in Nat
         /\ SubSeq(Pool, 1, numThreads_) \in Seq(PoolLoops)
         /\ loops_ \in Seq(PoolLoops)
         /\ Len(loops_) \in Nat
         /\ \A i \in 1 .. Len(loops_) : loops_[i] \in PoolLoops
<1>1. Pool \in Seq(PoolLoops) BY ServerAssumption
<1>2. /\ Len(Pool) \in Nat
      /\ \A i \in 1 .. Len(Pool) : Pool[i] \in PoolLoops
  BY <1>1, LenProperties
<1>3. \A i \in 1 .. numThreads_ : Pool[i] \in PoolLoops
  BY <1>2 DEF TypeOK
<1>4. SubSeq(Pool, 1, numThreads_) \in Seq(PoolLoops)
  BY <1>2, <1>3, SubSeqProperties DEF TypeOK
<1>5. <<>> \in Seq(PoolLoops) OBVIOUS
<1>6. loops_ \in Seq(PoolLoops) BY <1>4, <1>5 DEF TypeOK
<1> QED BY <1>2, <1>4, <1>6, LenProperties

\* getNextLoop() returns a loop of the pool, or the base loop,
LEMMA NextLoopType ==
  ASSUME TypeOK
  PROVE  NextLoop \in Loops /\ (NextLoop # Base => NextLoop \in PoolLoops)
<1>1. CASE loops_ = <<>> BY <1>1 DEF NextLoop, Loops
<1>2. CASE loops_ # <<>>
  <2>1. next_ \in Nat /\ next_ < Len(loops_) BY <1>2, PoolType DEF TypeOK
  <2>2. next_ + 1 \in 1 .. Len(loops_) BY <2>1, PoolType
  <2> QED BY <1>2, <2>2, PoolType DEF NextLoop, Loops
<1> QED BY <1>1, <1>2

\* and leaves next_ within loops_.
LEMMA NextIndexType ==
  ASSUME TypeOK
  PROVE  /\ NextIndex \in 0 .. Len(loops_)
         /\ loops_ # <<>> => NextIndex < Len(loops_)
<1>1. CASE loops_ = <<>> BY <1>1 DEF NextIndex, TypeOK
<1>2. CASE loops_ # <<>>
  <2>1. next_ \in Nat /\ next_ < Len(loops_) /\ Len(loops_) \in Nat
    BY <1>2, PoolType DEF TypeOK
  <2> QED BY <1>2, <2>1 DEF NextIndex
<1> QED BY <1>1, <1>2

\* The types at first.
LEMMA InitType == Init => TypeOK
<1>1. Len(Pool) \in Nat BY ServerAssumption, LenProperties
<1>2. /\ Unborn \in ConnectionRecords
      /\ <<>> \in Seq(FunctorRecords)
      /\ Len(<<>>) = 0
  <2>1. Unborn \in ConnectionRecords BY UnbornType
  <2> QED BY <2>1
<1>3. MaxConnections \in Nat BY ServerAssumption
<1> SUFFICES ASSUME Init PROVE TypeOK OBVIOUS
<1>4. /\ conn \in [Connections -> ConnectionRecords]
      /\ phase \in [Loops -> Phases]
      /\ quit_ \in [Loops -> BOOLEAN]
  BY <1>2 DEF Init, Phases
<1>5. /\ pending \in [Loops -> Seq(FunctorRecords)]
      /\ batch \in [Loops -> Seq(FunctorRecords)]
      /\ ran \in [Loops -> Nat]
      /\ \A l \in Loops : ran[l] <= Len(batch[l])
  BY <1>2 DEF Init
<1>6. /\ numThreads_ \in 0 .. Len(Pool)
      /\ loops_ = <<>> /\ next_ \in 0 .. Len(loops_) /\ joined \in 0 .. Len(loops_)
      /\ nextConnId_ \in 1 .. MaxConnections + 1
      /\ connections_ \subseteq 1 .. nextConnId_ - 1
  BY <1>1, <1>2, <1>3 DEF Init
<1> QED BY <1>4, <1>5, <1>6 DEF Init, TypeOK

\* The steps of the server's own thread, but for the loop over connections_.
OwnerStep ==
  \/ \E n \in 1 .. Len(Pool) : SetThreadNum(n)
  \/ Start \/ BaseLoops \/ BaseQuits
  \/ BeginDestroy \/ BeginJoin \/ QuitThread \/ JoinThread \/ EndDestroy

\* The thread of the server keeps the types,
LEMMA OwnerType ==
  ASSUME TypeOK, PhaseInv, OwnerStep
  PROVE  TypeOK'
<1>0. /\ Len(Pool) \in Nat /\ Len(loops_) \in Nat
      /\ <<>> \in Seq(PoolLoops) /\ Len(<<>>) = 0
  BY PoolType
<1>1. ASSUME NEW n \in 1 .. Len(Pool), SetThreadNum(n) PROVE TypeOK'
  <2>1. loops_ = <<>> BY <1>1 DEF SetThreadNum, PhaseInv
  <2> QED BY <1>0, <1>1, <2>1 DEF SetThreadNum, loopVars, TypeOK
<1>2. CASE Start
  <2>1. loops_ = <<>> /\ joined = 0 BY <1>2 DEF Start, PhaseInv
  <2>2. next_ = 0 BY <1>0, <2>1 DEF TypeOK
  <2>3. SubSeq(Pool, 1, numThreads_) \in Seq(PoolLoops) BY PoolType
  <2>4. /\ Len(loops_') \in Nat
        /\ loops_' # <<>> => Len(loops_') > 0
    BY <1>2, <2>3, LenProperties, EmptySeq DEF Start
  <2>5. phase' \in [Loops -> Phases]
    <3>1. \A l \in Loops : phase[l] \in Phases
      BY DEF TypeOK
    <3>2. phase' = [l \in Loops |-> IF l \in ToSet(loops_') THEN "starting" ELSE phase[l]]
      BY <1>2 DEF Start
    <3>3. "starting" \in Phases BY DEF Phases
    <3> QED BY <3>1, <3>2, <3>3
  <2>6. /\ next_' \in 0 .. Len(loops_')
        /\ loops_' # <<>> => next_' < Len(loops_')
        /\ joined' \in 0 .. Len(loops_')
    <3>1. next_' = 0 /\ joined' = 0 BY <1>2, <2>1, <2>2 DEF Start
    <3> QED BY <2>4, <3>1
  <2>7. server' = "started" /\ loops_' = SubSeq(Pool, 1, numThreads_)
    BY <1>2 DEF Start
  <2>8. UNCHANGED <<numThreads_, nextConnId_, connections_, conn, quit_, pending,
                    batch, ran>>
    BY <1>2 DEF Start
  <2> QED BY <2>5, <2>6, <2>7, <2>8 DEF TypeOK
<1>3. CASE BaseLoops BY <1>3 DEF BaseLoops, poolVars, TypeOK, Phases
<1>4. CASE BaseQuits BY <1>4 DEF BaseQuits, poolVars, TypeOK
<1>5. CASE BeginDestroy \/ BeginJoin \/ EndDestroy
  BY <1>5 DEF BeginDestroy, BeginJoin, EndDestroy, poolVars, loopVars, TypeOK
<1>6. CASE QuitThread BY <1>6 DEF QuitThread, poolVars, TypeOK
<1>7. CASE JoinThread
  <2>1. joined' \in 0 .. Len(loops_)
    BY <1>0, <1>7 DEF JoinThread, PhaseInv, TypeOK
  <2> QED BY <1>7, <2>1 DEF JoinThread, loopVars, TypeOK
<1> QED BY <1>1, <1>2, <1>3, <1>4, <1>5, <1>6, <1>7 DEF OwnerStep

\* what happens to a connection keeps them,
LEMMA ConnectionType ==
  ASSUME TypeOK, NameInv,
         \/ NewConnection
         \/ \E c \in Connections :
              \/ DestroyConnection(c) \/ HandleClose(c)
              \/ ShutdownTests(c) \/ ShutdownStores(c)
  PROVE  TypeOK'
<1>1. CASE NewConnection
  <2> DEFINE k == [Unborn EXCEPT !.loop_ = NextLoop]
             f == Functor("connectEstablished", nextConnId_)
  <2>1. NextLoop \in Loops BY NextLoopType
  <2>2. k \in ConnectionRecords BY <2>1, UnbornType
  <2>3. ConnectEstablished(k) \in ConnectionRecords BY <2>2, ConnectionSteps
  <2>4. /\ nextConnId_ \in Connections
        /\ nextConnId_' \in 1 .. MaxConnections + 1
        /\ connections_' \subseteq 1 .. nextConnId_' - 1
    BY SMTT(30), <1>1, ServerAssumption DEF NewConnection, TypeOK, Connections
  <2>5. f \in FunctorRecords BY <2>4, FunctorType DEF Ops
  <2>6. conn' = [conn EXCEPT ![nextConnId_] = ConnectEstablished(k)]
        \/ conn' = [conn EXCEPT ![nextConnId_] = k]
    BY <1>1 DEF NewConnection
  <2>7. conn' \in [Connections -> ConnectionRecords]
    <3> HIDE DEF k
    <3> QED BY <2>2, <2>3, <2>6 DEF TypeOK
  <2>8. \/ pending' = pending
        \/ pending' = [pending EXCEPT ![NextLoop] = Append(@, f)]
    BY <1>1 DEF NewConnection
  <2>9. UNCHANGED <<batch, ran>> BY <1>1 DEF NewConnection
  <2>10. pending' \in [Loops -> Seq(FunctorRecords)]
    <3>1. CASE pending' = pending BY <3>1 DEF TypeOK
    <3>2. CASE pending' = [pending EXCEPT ![NextLoop] = Append(@, f)]
      <4> HIDE DEF f
      <4> QED BY <2>1, <2>5, <2>9, <3>2, QueueStep
    <3> QED BY <2>8, <3>1, <3>2
  <2>11. /\ next_' \in 0 .. Len(loops_)
         /\ loops_ # <<>> => next_' < Len(loops_)
    BY <1>1, NextIndexType DEF NewConnection
  <2> QED BY <1>1, <2>4, <2>7, <2>10, <2>11 DEF NewConnection, TypeOK
<1>2. ASSUME NEW c \in Connections, DestroyConnection(c) PROVE TypeOK'
  <2>1. conn[c] \in ConnectionRecords BY DEF TypeOK
  <2>2. ConnectDestroyed(conn[c]) \in ConnectionRecords BY <2>1, ConnectionSteps
  <2>3. Functor("connectDestroyed", c) \in FunctorRecords BY FunctorType DEF Ops
  <2>4. connections_' \subseteq 1 .. nextConnId_ - 1
    BY <1>2 DEF DestroyConnection, TypeOK
  <2>5. CASE conn[c].loop_ = Base
    <3>1. conn' \in [Connections -> ConnectionRecords] /\ pending' = pending
      BY <1>2, <2>2, <2>5 DEF DestroyConnection, TypeOK
    <3> QED BY <1>2, <2>4, <3>1 DEF DestroyConnection, poolVars, TypeOK
  <2>6. CASE conn[c].loop_ # Base
    <3>1. Append(pending[conn[c].loop_], Functor("connectDestroyed", c))
            \in Seq(FunctorRecords)
          \/ conn[c].loop_ \notin Loops
      BY <2>3, AppendProperties DEF TypeOK
    <3>2. pending' \in [Loops -> Seq(FunctorRecords)] /\ conn' = conn
      BY ZenonT(40), <1>2, <2>6, <3>1 DEF DestroyConnection, TypeOK
    <3> QED BY <1>2, <2>4, <3>2 DEF DestroyConnection, poolVars, TypeOK
  <2> QED BY <2>5, <2>6
<1>3. ASSUME NEW c \in Connections, ShutdownTests(c) \/ ShutdownStores(c)
      PROVE  TypeOK'
  <2>1. PICK k \in ConnectionRecords : conn' = [conn EXCEPT ![c] = k]
    BY <1>3, ShutdownSteps
  <2>2. conn' \in [Connections -> ConnectionRecords] BY <2>1 DEF TypeOK
  <2> QED BY <1>3, <2>2
          DEF ShutdownTests, ShutdownStores, poolVars, loopVars, TypeOK
<1>4. ASSUME NEW c \in Connections, HandleClose(c) PROVE TypeOK'
  <2>1. conn[c] \in ConnectionRecords BY DEF TypeOK
  <2>2. Closed(conn[c]) \in ConnectionRecords BY <2>1, ConnectionSteps
  <2>3. conn' \in [Connections -> ConnectionRecords]
    BY <1>4, <2>2 DEF HandleClose, TypeOK
  <2>4. /\ Functor("connectDestroyed", c) \in FunctorRecords
        /\ Functor("removeConnectionInLoop", c) \in FunctorRecords
    BY FunctorType DEF Ops
  <2>5. /\ Append(pending[Base], Functor("connectDestroyed", c))
              \in Seq(FunctorRecords)
        /\ Append(pending[Base], Functor("removeConnectionInLoop", c))
              \in Seq(FunctorRecords)
    BY <2>4, AppendProperties DEF TypeOK, Loops
  <2>6. pending' \in [Loops -> Seq(FunctorRecords)]
    BY <1>4, <2>5 DEF HandleClose, TypeOK
  <2>7. connections_' \subseteq 1 .. nextConnId_ - 1
    BY <1>4 DEF HandleClose, TypeOK
  <2> QED BY <1>4, <2>3, <2>6, <2>7 DEF HandleClose, poolVars, TypeOK
<1> QED BY <1>1, <1>2, <1>3, <1>4

\* and so do the loops.
LEMMA LoopType ==
  ASSUME TypeOK, PhaseInv, NEW l \in Loops, LoopStep(l)
  PROVE  TypeOK'
<1>0. /\ <<>> \in Seq(FunctorRecords) /\ Len(<<>>) = 0
      /\ \A m \in Loops : Len(batch[m]) \in Nat /\ Len(pending[m]) \in Nat
  BY LenProperties DEF TypeOK
<1>1. CASE TakeFunctors(l)
  <2>1. ran[l] = 0 BY <1>1 DEF TakeFunctors, PhaseInv
  <2>2. /\ phase' \in [Loops -> Phases]
        /\ pending' \in [Loops -> Seq(FunctorRecords)]
        /\ batch' \in [Loops -> Seq(FunctorRecords)]
    BY <1>0, <1>1 DEF TakeFunctors, TypeOK, Phases
  <2>3. \A m \in Loops : ran[m] <= Len(batch'[m])
    BY <1>0, <1>1, <2>1 DEF TakeFunctors, TypeOK
  <2> QED BY <1>1, <2>2, <2>3 DEF TakeFunctors, poolVars, TypeOK
<1>2. CASE RunFunctor(l)
  <2>1. ran[l] < Len(batch[l]) BY <1>2 DEF RunFunctor
  <2> DEFINE f == batch[l][ran[l] + 1]
  <2>2. f \in FunctorRecords BY <2>1, RunStep
  <2>3. f.conn \in Connections BY <2>2 DEF FunctorRecords
  <2>4. conn[f.conn] \in ConnectionRecords BY <2>3 DEF TypeOK
  <2>5. /\ ran' \in [Loops -> Nat]
        /\ \A m \in Loops : ran'[m] <= Len(batch[m])
    BY <1>0, <1>2, <2>1 DEF RunFunctor, TypeOK
  <2>6. RunEstablished(f.conn) \/ RunDestroyed(f.conn) \/ RunRemove(f.conn)
    BY <1>2 DEF RunFunctor
  <2>7. Functor("connectDestroyed", f.conn) \in FunctorRecords
    BY <2>3, FunctorType DEF Ops
  <2> HIDE DEF f
  <2>8. conn' \in [Connections -> ConnectionRecords]
    BY <2>4, <2>6, ConnectionSteps
    DEF RunEstablished, RunDestroyed, RunRemove, TypeOK
  <2>9. /\ connections_' \subseteq 1 .. nextConnId_ - 1
        /\ \A m \in Loops : Append(pending[m], Functor("connectDestroyed", f.conn))
                              \in Seq(FunctorRecords)
    BY <2>6, <2>7, AppendProperties
    DEF RunEstablished, RunDestroyed, RunRemove, TypeOK
  <2>10. pending' \in [Loops -> Seq(FunctorRecords)]
    <3>1. CASE pending' = pending BY <3>1 DEF TypeOK
    <3>2. CASE RunRemove(f.conn)
      <4>1. pending' = [pending EXCEPT ![conn[f.conn].loop_] =
                       Append(@, Functor("connectDestroyed", f.conn))]
        BY <3>2 DEF RunRemove
      <4> QED BY <2>9, <4>1 DEF TypeOK
    <3> QED BY <2>6, <3>1, <3>2 DEF RunEstablished, RunDestroyed
  <2> QED BY <1>2, <2>5, <2>8, <2>9, <2>10 DEF RunFunctor, poolVars, TypeOK
<1>3. CASE FunctorsDone(l)
  BY <1>0, <1>3 DEF FunctorsDone, poolVars, TypeOK, Phases
<1>4. CASE DestroyLoop(l)
  BY <1>0, <1>4 DEF DestroyLoop, poolVars, TypeOK, Phases
<1>5. CASE EnterLoop(l) BY <1>5 DEF EnterLoop, poolVars, TypeOK, Phases
<1> QED BY <1>1, <1>2, <1>3, <1>4, <1>5 DEF LoopStep

-----------------------------------------------------------------------------
(***************************************************************************)
(* The two simple parts of the invariant.                                  *)
(***************************************************************************)

\* The base loop is not one of the pool.
LEMMA BaseIsLoop == Base \in Loops /\ \A l \in PoolLoops : l \in Loops /\ l # Base
BY ServerAssumption DEF Loops

\* Where the server and its loops are.
LEMMA NextPhase ==
  ASSUME TypeOK, PhaseInv, [Next]_vars
  PROVE  PhaseInv'
<1> USE BaseIsLoop DEF PhaseInv, Up
<1>1. CASE \E n \in 1 .. Len(Pool) : SetThreadNum(n)
  BY <1>1 DEF SetThreadNum, loopVars
<1>2. CASE Start
  <2>1. loops_' \in Seq(PoolLoops) BY <1>2, PoolType DEF Start
  <2>2. Base \notin ToSet(loops_')
    BY <2>1, ServerAssumption, LenProperties DEF ToSet
  <2>3. phase'[Base] = "off" BY <1>2, <2>2 DEF Start
  <2>4. \A l \in Loops : phase[l] = "off" /\ phase'[l] \in {"off", "starting"}
    BY <1>2 DEF Start
  <2> QED BY <1>2, <2>3, <2>4 DEF Start
<1>3. CASE BaseLoops BY <1>3 DEF BaseLoops, poolVars, TypeOK
<1>4. CASE BaseQuits BY <1>4 DEF BaseQuits, poolVars, TypeOK
<1>5. CASE BeginDestroy \/ BeginJoin \/ EndDestroy
  BY <1>5 DEF BeginDestroy, BeginJoin, EndDestroy, poolVars, loopVars
<1>6. CASE \E c \in Connections : DestroyConnection(c)
  BY <1>6 DEF DestroyConnection, poolVars
<1>7. CASE QuitThread \/ JoinThread
  BY <1>7 DEF QuitThread, JoinThread, poolVars, loopVars
<1>8. CASE NewConnection BY <1>8 DEF NewConnection
<1>9. CASE \E c \in Connections :
             ShutdownTests(c) \/ ShutdownStores(c) \/ HandleClose(c)
  BY <1>9 DEF ShutdownTests, ShutdownStores, HandleClose, poolVars, loopVars
<1>10. ASSUME NEW l \in Loops, TakeFunctors(l) PROVE PhaseInv'
  BY <1>10 DEF TakeFunctors, TypeOK, poolVars
<1>11. ASSUME NEW l \in Loops, RunFunctor(l) PROVE PhaseInv'
  BY <1>11 DEF RunFunctor, TypeOK, poolVars
<1>12. ASSUME NEW l \in Loops, FunctorsDone(l) PROVE PhaseInv'
  BY <1>12 DEF FunctorsDone, TypeOK, poolVars
<1>13. ASSUME NEW l \in Loops, DestroyLoop(l) PROVE PhaseInv'
  BY <1>13 DEF DestroyLoop, TypeOK, poolVars
<1>14. ASSUME NEW l \in Loops, EnterLoop(l) PROVE PhaseInv'
  BY <1>14 DEF EnterLoop, TypeOK, poolVars
<1>15. CASE UNCHANGED vars BY <1>15 DEF vars, poolVars, loopVars
<1> QED
  BY <1>1, <1>2, <1>3, <1>4, <1>5, <1>6, <1>7, <1>8, <1>9, <1>10, <1>11, <1>12,
     <1>13, <1>14, <1>15
  DEF Next, DestructorStep, LoopStep

\* A loop is destroyed for good.
LEMMA DestroyedStays ==
  ASSUME TypeOK, PhaseInv, [Next]_vars, NEW l \in Loops, phase[l] = "destroyed"
  PROVE  phase'[l] = "destroyed"
<1>1. CASE Start BY <1>1 DEF Start, PhaseInv
<1>2. CASE BaseLoops BY <1>2 DEF BaseLoops, TypeOK
<1>3. ASSUME NEW m \in Loops, LoopStep(m) PROVE phase'[l] = "destroyed"
  BY <1>3
  DEF LoopStep, EnterLoop, TakeFunctors, RunFunctor, FunctorsDone, DestroyLoop,
      TypeOK
<1>4. CASE UNCHANGED phase BY <1>4
<1> QED
  BY <1>1, <1>2, <1>3, <1>4
  DEF Next, DestructorStep, SetThreadNum, BaseQuits, BeginDestroy, BeginJoin,
      EndDestroy, DestroyConnection, QuitThread, JoinThread, NewConnection,
      ShutdownTests, ShutdownStores, HandleClose, vars, loopVars

-----------------------------------------------------------------------------
(***************************************************************************)
(* Lemmas on a change of one connection, and of one queue.                 *)
(***************************************************************************)

\* What the four parts about queues and connections depend on.
Parts == NameInv /\ QueueInv /\ FunctorInv /\ ConnInv

\* One connection that exists changes, and no other.
LEMMA OneConnection ==
  ASSUME TypeOK, NameInv, NEW c \in Connections, NEW k \in ConnectionRecords,
         conn[c].loop_ # NoLoop, k.loop_ = conn[c].loop_,
         conn' = [conn EXCEPT ![c] = k],
         nextConnId_' = nextConnId_, connections_' \subseteq connections_
  PROVE  /\ conn'[c] = k
         /\ \A d \in Connections : d # c => conn'[d] = conn[d]
         /\ NameInv'
<1>1. conn'[c] = k /\ \A d \in Connections : d # c => conn'[d] = conn[d]
  BY DEF TypeOK
<1>2. Unborn.loop_ = NoLoop BY UnbornType
<1>3. ~(c >= nextConnId_) BY <1>2 DEF NameInv
<1>4. \A d \in connections_ : d \in Connections
  BY ServerAssumption DEF TypeOK, Connections
<1>5. \A d \in connections_' : conn'[d].loop_ # NoLoop
  BY <1>1, <1>4 DEF NameInv
<1>6. \A d \in Connections : conn'[d].loop_ = NoLoop => conn'[d] = Unborn
  BY <1>1 DEF NameInv
<1> QED BY <1>1, <1>3, <1>5, <1>6 DEF NameInv

\* What is queued are functors.
LEMMA FunctorOfQueue ==
  ASSUME TypeOK, NEW l \in Loops, NEW f \in ToSet(ToRun(l))
  PROVE  f \in FunctorRecords /\ f.op \in Ops /\ f.conn \in Connections
<1>1. ToRun(l) \in Seq(FunctorRecords) BY ToRunType
<1>2. f \in FunctorRecords BY <1>1, LenProperties DEF ToSet
<1> QED BY <1>2 DEF FunctorRecords

\* Two functors with the same function and the same connection are the same.
LEMMA SameFunctor ==
  ASSUME NEW f \in FunctorRecords, NEW g \in FunctorRecords,
         f.op = g.op, f.conn = g.conn
  PROVE  f = g
BY DEF FunctorRecords

\* A functor that is queued nowhere in the loop is queued there.
LEMMA QueueGrows ==
  ASSUME TypeOK, QueueInv, NEW m \in Loops, NEW f \in FunctorRecords,
         f \notin ToSet(ToRun(m)),
         \/ f.op # "connectEstablished"
         \/ \A g \in ToSet(ToRun(m)) : g.conn # f.conn,
         pending' = [pending EXCEPT ![m] = Append(@, f)],
         UNCHANGED <<batch, ran>>
  PROVE  /\ QueueInv'
         /\ ToSet(ToRun(m)') = ToSet(ToRun(m)) \cup {f}
         /\ \A l \in Loops \ {m} : ToRun(l)' = ToRun(l)
<1>1. /\ ToRun(m)' = Append(ToRun(m), f)
      /\ \A l \in Loops \ {m} : ToRun(l)' = ToRun(l)
  BY QueueStep
<1>2. ToRun(m) \in Seq(FunctorRecords) BY ToRunType
<1>3. /\ ToSet(ToRun(m)') = ToSet(ToRun(m)) \cup {f}
      /\ Distinct(ToRun(m)') /\ EstablishedFirst(ToRun(m)')
  BY <1>1, <1>2, AppendQueue DEF QueueInv
<1> QED BY <1>1, <1>3 DEF QueueInv

-----------------------------------------------------------------------------
(***************************************************************************)
(* Steps that leave queues and connections alone.                          *)
(***************************************************************************)

\* Nothing happens to a queue or a connection.
LEMMA CalmStep ==
  ASSUME TypeOK, Parts,
         \A l \in Loops : ToRun(l)' = ToRun(l),
         UNCHANGED <<conn, connections_, nextConnId_>>,
         Up' => Up,
         \A l \in Loops : phase[l] = "destroyed" => phase'[l] = "destroyed"
  PROVE  Parts'
<1>1. NameInv' BY DEF Parts, NameInv
<1>2. QueueInv' BY DEF Parts, QueueInv
<1>3. FunctorInv' BY DEF Parts, FunctorInv, FunctorOK
<1>4. ConnInv'
  <2> SUFFICES ASSUME NEW c \in Connections PROVE ConnOK(c)' BY DEF ConnInv
  <2>1. conn[c].loop_ \in Loops \cup {NoLoop} BY DEF TypeOK, ConnectionRecords
  <2> QED BY <2>1 DEF Parts, ConnInv, ConnOK
<1> QED BY <1>1, <1>2, <1>3, <1>4 DEF Parts

\* The thread of the server, but for its destructor's loop over connections_.
LEMMA OwnerParts ==
  ASSUME TypeOK, PhaseInv, Parts, [Next]_vars,
         OwnerStep \/ UNCHANGED vars
  PROVE  Parts'
<1>1. /\ UNCHANGED <<conn, connections_, nextConnId_, pending, batch, ran>>
      /\ Up' => Up
  BY DEF OwnerStep, SetThreadNum, Start, BaseLoops, BaseQuits, BeginDestroy,
         BeginJoin, QuitThread, JoinThread, EndDestroy, vars, loopVars, Up
<1>2. \A l \in Loops : ToRun(l)' = ToRun(l) BY <1>1 DEF ToRun
<1> QED BY <1>1, <1>2, DestroyedStays, CalmStep

\* The beginning of loop(), the swap, and the end of a round.
LEMMA RoundParts ==
  ASSUME TypeOK, PhaseInv, Parts, [Next]_vars, NEW l \in Loops,
         EnterLoop(l) \/ TakeFunctors(l) \/ FunctorsDone(l)
  PROVE  Parts'
<1>1. /\ UNCHANGED <<conn, connections_, nextConnId_, server>>
      /\ \A m \in Loops \ {l} :
           pending'[m] = pending[m] /\ batch'[m] = batch[m] /\ ran'[m] = ran[m]
  BY DEF EnterLoop, TakeFunctors, FunctorsDone, TypeOK
<1>2. \A m \in Loops \ {l} : ToRun(m)' = ToRun(m) BY <1>1 DEF ToRun
<1>3. ToRun(l)' = ToRun(l)
  <2>0. <<>> \in Seq(FunctorRecords) /\ Len(<<>>) = 0 OBVIOUS
  <2>1. CASE TakeFunctors(l)
    <3>1. /\ batch[l] = <<>> /\ ran[l] = 0
          /\ batch'[l] = pending[l] /\ pending'[l] = <<>> /\ ran'[l] = 0
      BY <2>1 DEF TakeFunctors, PhaseInv, TypeOK
    <3>2. ToRun(l) = pending[l] BY <2>0, <3>1, IdleQueue
    <3>3. pending[l] \in Seq(FunctorRecords) BY ToRunType
    <3>4. SubSeq(pending[l], 1, Len(pending[l])) = pending[l]
      BY <3>3, SubSeqFull
    <3>5. pending[l] \o <<>> = pending[l] BY <3>3, ConcatEmptySeq
    <3>6. ToRun(l)' = SubSeq(pending[l], 0 + 1, Len(pending[l])) \o <<>>
      BY <3>1 DEF ToRun
    <3> QED BY <3>2, <3>4, <3>5, <3>6
  <2>2. CASE FunctorsDone(l)
    <3>1. /\ ran[l] = Len(batch[l])
          /\ batch'[l] = <<>> /\ ran'[l] = 0 /\ pending'[l] = pending[l]
      BY <2>2 DEF FunctorsDone, TypeOK
    <3>2. ToRun(l) = pending[l] BY <3>1, IdleQueue
    <3>3. ToRun(l)' = SubSeq(<<>>, 0 + 1, 0) \o pending[l]
      BY <2>0, <3>1 DEF ToRun
    <3>4. SubSeq(<<>>, 0 + 1, 0) = <<>> BY SubSeqEmpty
    <3>5. pending[l] \in Seq(FunctorRecords) BY ToRunType
    <3> QED BY <3>2, <3>3, <3>4, <3>5, ConcatEmptySeq
  <2>3. CASE EnterLoop(l) BY <2>3 DEF EnterLoop, ToRun
  <2> QED BY <2>1, <2>2, <2>3
<1>4. \A m \in Loops : ToRun(m)' = ToRun(m) BY <1>2, <1>3
<1> QED BY <1>1, <1>4, DestroyedStays, CalmStep DEF Up

\* What the destroyed loop had still to run is thrown away.
LEMMA DestroyLoopParts ==
  ASSUME TypeOK, PhaseInv, Parts, [Next]_vars, NEW l \in Loops, DestroyLoop(l)
  PROVE  Parts'
<1>1. /\ UNCHANGED <<conn, connections_, nextConnId_, server, batch, ran>>
      /\ \A m \in Loops \ {l} : pending'[m] = pending[m]
      /\ pending'[l] = <<>> /\ batch[l] = <<>> /\ ran[l] = 0
      /\ phase'[l] = "destroyed"
  BY DEF DestroyLoop, PhaseInv, TypeOK
<1>2. \A m \in Loops \ {l} : ToRun(m)' = ToRun(m) BY <1>1 DEF ToRun
<1>3. ToRun(l)' = <<>>
  <2>1. SubSeq(<<>>, 0 + 1, Len(<<>>)) = <<>> BY SubSeqEmpty
  <2>2. ToRun(l)' = SubSeq(<<>>, 0 + 1, Len(<<>>)) \o <<>> BY <1>1 DEF ToRun
  <2> QED BY <2>1, <2>2
<1>4. NameInv' BY <1>1 DEF Parts, NameInv
<1>5. QueueInv'
  <2>1. Distinct(<<>>) /\ EstablishedFirst(<<>>) BY DEF Distinct, EstablishedFirst
  <2> QED BY <1>2, <1>3, <2>1 DEF Parts, QueueInv
<1>6. FunctorInv'
  <2> SUFFICES ASSUME NEW m \in Loops, NEW f \in ToSet(ToRun(m)')
               PROVE  FunctorOK(m, f)'
    BY DEF FunctorInv
  <2>1. m # l BY <1>3 DEF ToSet
  <2>2. FunctorOK(m, f) BY <1>2, <2>1 DEF Parts, FunctorInv
  <2> QED BY <1>1, <2>2 DEF FunctorOK, Up
<1>7. ConnInv'
  <2> SUFFICES ASSUME NEW c \in Connections PROVE ConnOK(c)' BY DEF ConnInv
  <2>1. ConnOK(c) BY DEF Parts, ConnInv
  <2>2. conn[c].loop_ \in Loops \cup {NoLoop} BY DEF TypeOK, ConnectionRecords
  <2>3. CASE conn[c].loop_ = l
    <3>1. Destroyed(c).op = "connectDestroyed" /\ Destroyed(c).conn = c
      BY FunctorType DEF Ops, Destroyed
    <3>2. l = Base /\ Destroyed(c) \in ToSet(ToRun(l))
            => conn[c].index_ = "kDeleted"
      BY <3>1 DEF Parts, FunctorInv, FunctorOK
    <3>3. phase[l] # "destroyed" BY DEF DestroyLoop
    <3> QED BY <1>1, <2>1, <2>3, <3>2, <3>3 DEF ConnOK, Up
  <2>4. CASE conn[c].loop_ # l
    BY <1>1, <1>2, <2>1, <2>2, <2>4, DestroyedStays DEF ConnOK, Up
  <2> QED BY <2>3, <2>4
<1> QED BY <1>4, <1>5, <1>6, <1>7 DEF Parts

-----------------------------------------------------------------------------
(***************************************************************************)
(* A connection is made, shut down and closed.                             *)
(***************************************************************************)

\* shutdown().
LEMMA ShutdownParts ==
  ASSUME TypeOK, Parts, NEW c \in Connections,
         ShutdownTests(c) \/ ShutdownStores(c)
  PROVE  Parts'
<1>1. PICK k \in ConnectionRecords :
        /\ conn' = [conn EXCEPT ![c] = k]
        /\ k.loop_ = conn[c].loop_ /\ k.index_ = conn[c].index_
        /\ conn[c].loop_ # NoLoop
  BY ShutdownSteps DEF Parts
<1>2. UNCHANGED <<server, connections_, nextConnId_, phase, pending, batch, ran>>
  BY DEF ShutdownTests, ShutdownStores, poolVars, loopVars
<1>3. /\ \A d \in Connections : /\ conn'[d].loop_ = conn[d].loop_
                                /\ conn'[d].index_ = conn[d].index_
      /\ NameInv'
  BY ZenonT(40), <1>1, <1>2, OneConnection DEF Parts
<1>4. \A l \in Loops : ToRun(l)' = ToRun(l) BY <1>2 DEF ToRun
<1>5. QueueInv' BY <1>4 DEF Parts, QueueInv
<1>6. FunctorInv'
  <2> SUFFICES ASSUME NEW m \in Loops, NEW f \in ToSet(ToRun(m))
               PROVE  FunctorOK(m, f)'
    BY <1>4 DEF FunctorInv
  <2>1. FunctorOK(m, f) /\ f.conn \in Connections
    BY FunctorOfQueue DEF Parts, FunctorInv
  <2> QED BY <1>2, <1>3, <2>1 DEF FunctorOK, Up
<1>7. ConnInv'
  <2> SUFFICES ASSUME NEW d \in Connections PROVE ConnOK(d)' BY DEF ConnInv
  <2>1. ConnOK(d) /\ conn[d].loop_ \in Loops \cup {NoLoop}
    BY DEF Parts, ConnInv, TypeOK, ConnectionRecords
  <2> QED BY <1>2, <1>3, <1>4, <2>1 DEF ConnOK, Up
<1> QED BY <1>3, <1>5, <1>6, <1>7 DEF Parts

\* The destructor goes on to the next connection.
LEMMA DestroyConnectionParts ==
  ASSUME TypeOK, Parts, NEW c \in Connections, DestroyConnection(c)
  PROVE  Parts'
<1> DEFINE f == Destroyed(c)
<1>1. /\ ~Up /\ ~Up'
      /\ c \in connections_ /\ connections_' = connections_ \ {c}
      /\ UNCHANGED <<nextConnId_, phase, batch, ran>>
  BY DEF DestroyConnection, Up, poolVars
<1>2. PICK l \in Loops : l = conn[c].loop_
  BY <1>1 DEF Parts, NameInv, TypeOK, ConnectionRecords
<1>3. conn[c].index_ # "removed" /\ conn[c].loop_ # NoLoop
  BY <1>1 DEF Parts, NameInv, ConnInv, ConnOK
<1>4. f \in FunctorRecords /\ f.op = "connectDestroyed" /\ f.conn = c
  BY FunctorType DEF Ops, Destroyed
<1>5. \A m \in Loops : \A g \in ToSet(ToRun(m)) :
        /\ FunctorOK(m, g) /\ g.conn \in Connections
        /\ g.op \in Ops
        /\ g.op = "connectDestroyed" => g.conn # c
  BY <1>1, FunctorOfQueue DEF Parts, FunctorInv, FunctorOK
<1>6. CASE l = Base
  <2> DEFINE k == ConnectDestroyed(conn[c])
  <2>1. /\ k \in ConnectionRecords /\ k.loop_ = l /\ k.index_ = "removed"
    BY <1>2, ConnectionSteps DEF TypeOK
  <2>2. conn' = [conn EXCEPT ![c] = k] /\ pending' = pending
    BY <1>2, <1>6 DEF DestroyConnection
  <2> HIDE DEF k
  <2>3. /\ conn'[c] = k /\ \A d \in Connections : d # c => conn'[d] = conn[d]
        /\ NameInv'
    BY <1>1, <1>2, <1>3, <2>1, <2>2, OneConnection DEF Parts
  <2>4. \A m \in Loops : ToRun(m)' = ToRun(m) BY <1>1, <2>2 DEF ToRun
  <2>5. QueueInv' BY <2>4 DEF Parts, QueueInv
  <2>6. FunctorInv'
    <3> SUFFICES ASSUME NEW m \in Loops, NEW g \in ToSet(ToRun(m))
                 PROVE  FunctorOK(m, g)'
      BY <2>4 DEF FunctorInv
    <3>1. CASE g.conn = c
      <4>1. FALSE BY ZenonT(40), <1>2, <1>5, <1>6, <3>1 DEF FunctorOK, Ops
      <4> QED BY <4>1
    <3>2. CASE g.conn # c BY <1>1, <1>5, <2>3, <3>2 DEF FunctorOK
    <3> QED BY <3>1, <3>2
  <2>7. ConnInv'
    <3> SUFFICES ASSUME NEW d \in Connections PROVE ConnOK(d)' BY DEF ConnInv
    <3>1. CASE d = c BY <1>1, <2>1, <2>3, <3>1 DEF ConnOK
    <3>2. CASE d # c
      <4>1. ConnOK(d) /\ conn[d].loop_ \in Loops \cup {NoLoop}
        BY DEF Parts, ConnInv, TypeOK, ConnectionRecords
      <4> QED BY <1>1, <2>3, <2>4, <3>2, <4>1 DEF ConnOK
    <3> QED BY <3>1, <3>2
  <2> QED BY <2>3, <2>5, <2>6, <2>7 DEF Parts
<1>7. CASE l # Base
  <2>1. conn' = conn /\ pending' = [pending EXCEPT ![l] = Append(@, f)]
    BY <1>2, <1>7 DEF DestroyConnection, Destroyed
  <2>2. f \notin ToSet(ToRun(l)) BY <1>2, <1>4, <1>5
  <2> HIDE DEF f
  <2>3. /\ QueueInv'
        /\ ToSet(ToRun(l)') = ToSet(ToRun(l)) \cup {f}
        /\ \A m \in Loops \ {l} : ToRun(m)' = ToRun(m)
    BY <1>1, <1>2, <1>4, <2>1, <2>2, QueueGrows DEF Parts
  <2>4. NameInv' BY <1>1, <2>1 DEF Parts, NameInv
  <2>5. FunctorInv'
    <3> SUFFICES ASSUME NEW m \in Loops, NEW g \in ToSet(ToRun(m)')
                 PROVE  FunctorOK(m, g)'
      BY DEF FunctorInv
    <3>1. CASE m = l /\ g = f
      BY <1>1, <1>2, <1>3, <1>4, <1>7, <2>1, <3>1 DEF FunctorOK
    <3>2. CASE g \in ToSet(ToRun(m)) BY <1>1, <1>5, <2>1, <3>2 DEF FunctorOK
    <3> QED BY <2>3, <3>1, <3>2
  <2>6. ConnInv'
    <3> SUFFICES ASSUME NEW d \in Connections PROVE ConnOK(d)' BY DEF ConnInv
    <3>1. ConnOK(d) /\ conn[d].loop_ \in Loops \cup {NoLoop}
      BY DEF Parts, ConnInv, TypeOK, ConnectionRecords
    <3>2. \A m \in Loops : ToSet(ToRun(m)) \subseteq ToSet(ToRun(m)')
      BY <2>3
    <3>3. CASE d = c
      <4>1. f \in ToSet(ToRun(l)') /\ f = Destroyed(c) BY <2>3 DEF f
      <4>2. /\ conn'[d].loop_ = l /\ conn'[d].index_ = conn[d].index_
            /\ conn'[d].index_ # "removed"
        BY <1>2, <1>3, <2>1, <3>3
      <4>3. conn[d].index_ = "kNew" =>
              Established(d) \in ToSet(ToRun(l)') \/ phase[l] = "destroyed"
        BY <1>2, <1>3, <3>1, <3>2, <3>3 DEF ConnOK
      <4> QED BY <1>1, <3>3, <4>1, <4>2, <4>3 DEF ConnOK
    <3>4. CASE d # c BY <1>1, <2>1, <3>1, <3>2, <3>4 DEF ConnOK
    <3> QED BY <3>3, <3>4
  <2> QED BY <2>3, <2>4, <2>5, <2>6 DEF Parts
<1> QED BY <1>6, <1>7

\* handleClose() hands the connection to the base loop, or to connectDestroyed().
LEMMA HandleCloseParts ==
  ASSUME TypeOK, Parts, NEW c \in Connections, HandleClose(c)
  PROVE  Parts'
<1> DEFINE k == Closed(conn[c])
<1>1. /\ conn[c].loop_ # NoLoop /\ conn[c].index_ = "kAdded"
      /\ conn' = [conn EXCEPT ![c] = k]
      /\ connections_' \subseteq connections_
      /\ UNCHANGED <<server, nextConnId_, phase, batch, ran>>
  BY DEF HandleClose, poolVars
<1>2. PICK l \in Loops : l = conn[c].loop_
  BY <1>1 DEF TypeOK, ConnectionRecords
<1>3. k \in ConnectionRecords /\ k.loop_ = l /\ k.index_ = "kDeleted"
  BY <1>2, ConnectionSteps DEF TypeOK
<1> HIDE DEF k
<1>4. /\ conn'[c] = k /\ \A d \in Connections : d # c => conn'[d] = conn[d]
      /\ NameInv'
  BY <1>1, <1>2, <1>3, OneConnection DEF Parts
<1>5. \A m \in Loops : \A g \in ToSet(ToRun(m)) :
        /\ FunctorOK(m, g) /\ g.conn \in Connections /\ g.op \in Ops
        /\ g.conn = c => g.op = "connectDestroyed" /\ m = l /\ m # Base
  BY <1>1, <1>2, FunctorOfQueue DEF Parts, FunctorInv, FunctorOK, Ops
<1>6. \A d \in Connections :
        ConnOK(d) /\ conn[d].loop_ \in Loops \cup {NoLoop}
  BY DEF Parts, ConnInv, TypeOK, ConnectionRecords
<1>7. CASE l = Base
  <2> DEFINE f == Destroyed(c)
  <2>1. f \in FunctorRecords /\ f.op = "connectDestroyed" /\ f.conn = c
    BY FunctorType DEF Ops, Destroyed
  <2>2. /\ connections_' = connections_ \ {c}
        /\ pending' = [pending EXCEPT ![Base] = Append(@, f)]
    BY <1>2, <1>7 DEF HandleClose, Destroyed
  <2>3. f \notin ToSet(ToRun(l)) BY <1>5, <1>7, <2>1
  <2> HIDE DEF f
  <2>4. /\ QueueInv'
        /\ ToSet(ToRun(l)') = ToSet(ToRun(l)) \cup {f}
        /\ \A m \in Loops \ {l} : ToRun(m)' = ToRun(m)
    BY <1>1, <1>7, <2>1, <2>2, <2>3, QueueGrows DEF Parts
  <2>5. FunctorInv'
    <3> SUFFICES ASSUME NEW m \in Loops, NEW g \in ToSet(ToRun(m)')
                 PROVE  FunctorOK(m, g)'
      BY DEF FunctorInv
    <3>1. CASE m = l /\ g = f
      BY <1>3, <1>4, <2>1, <2>2, <3>1, ServerAssumption DEF FunctorOK
    <3>2. CASE g \in ToSet(ToRun(m))
      <4>1. g.conn # c BY <1>5, <1>7, <3>2
      <4> QED BY <1>1, <1>4, <1>5, <2>2, <3>2, <4>1 DEF FunctorOK, Up
    <3> QED BY <2>4, <3>1, <3>2
  <2>6. ConnInv'
    <3> SUFFICES ASSUME NEW d \in Connections PROVE ConnOK(d)' BY DEF ConnInv
    <3>1. \A m \in Loops : ToSet(ToRun(m)) \subseteq ToSet(ToRun(m)')
      BY <2>4
    <3>2. CASE d = c BY <1>3, <1>4, <2>2, <2>4, <3>2 DEF ConnOK, f
    <3>3. CASE d # c BY <1>1, <1>4, <1>6, <2>2, <3>1, <3>3 DEF ConnOK, Up
    <3> QED BY <3>2, <3>3
  <2> QED BY <1>4, <2>4, <2>5, <2>6 DEF Parts
<1>8. CASE l # Base
  <2> DEFINE f == Functor("removeConnectionInLoop", c)
  <2>1. f \in FunctorRecords /\ f.op = "removeConnectionInLoop" /\ f.conn = c
    BY FunctorType DEF Ops
  <2>2. /\ connections_' = connections_
        /\ pending' = [pending EXCEPT ![Base] = Append(@, f)]
    BY <1>2, <1>8 DEF HandleClose
  <2> HIDE DEF f
  <2>3. f \notin ToSet(ToRun(Base)) BY <1>5, <2>1, BaseIsLoop
  <2>4. /\ QueueInv'
        /\ ToSet(ToRun(Base)') = ToSet(ToRun(Base)) \cup {f}
        /\ \A m \in Loops \ {Base} : ToRun(m)' = ToRun(m)
    BY <1>1, <2>1, <2>2, <2>3, BaseIsLoop, QueueGrows DEF Parts
  <2>5. Up => c \in connections_ BY <1>1, <1>6 DEF ConnOK
  <2>6. FunctorInv'
    <3> SUFFICES ASSUME NEW m \in Loops, NEW g \in ToSet(ToRun(m)')
                 PROVE  FunctorOK(m, g)'
      BY DEF FunctorInv
    <3>1. CASE m = Base /\ g = f
      BY <1>1, <1>2, <1>3, <1>4, <1>8, <2>1, <2>2, <2>5, <3>1 DEF FunctorOK, Up
    <3>2. CASE g \in ToSet(ToRun(m)) /\ g.conn = c
      BY <1>1, <1>2, <1>3, <1>4, <1>5, <2>2, <3>2 DEF FunctorOK
    <3>3. CASE g \in ToSet(ToRun(m)) /\ g.conn # c
      BY <1>1, <1>4, <1>5, <2>2, <3>3 DEF FunctorOK, Up
    <3> QED BY <2>4, <3>1, <3>2, <3>3
  <2>7. ConnInv'
    <3> SUFFICES ASSUME NEW d \in Connections PROVE ConnOK(d)' BY DEF ConnInv
    <3>1. \A m \in Loops : ToSet(ToRun(m)) \subseteq ToSet(ToRun(m)')
      BY <2>4
    <3>2. CASE d = c
      BY <1>1, <1>2, <1>3, <1>4, <1>6, <2>2, <3>1, <3>2 DEF ConnOK
    <3>3. CASE d # c BY <1>1, <1>4, <1>6, <2>2, <3>1, <3>3 DEF ConnOK, Up
    <3> QED BY <3>2, <3>3
  <2> QED BY <1>4, <2>4, <2>6, <2>7 DEF Parts
<1> QED BY <1>7, <1>8

\* newConnection() queues connectEstablished(), or calls it.
LEMMA NewConnectionParts ==
  ASSUME TypeOK, Parts, NewConnection
  PROVE  Parts'
<1>1. PICK c \in Connections : c = nextConnId_
  BY ServerAssumption DEF NewConnection, TypeOK, Connections
<1>2. PICK l \in Loops : l = NextLoop
  BY NextLoopType
<1> DEFINE new == [Unborn EXCEPT !.loop_ = l]
<1>3. /\ new \in ConnectionRecords /\ new.loop_ = l /\ new.index_ = "kNew"
      /\ Unborn.loop_ = NoLoop
  BY UnbornType
<1>4. /\ connections_' = connections_ \cup {c}
      /\ nextConnId_' = nextConnId_ + 1
      /\ UNCHANGED <<server, phase, batch, ran>>
      /\ IF l = Base
         THEN /\ conn' = [conn EXCEPT ![c] = ConnectEstablished(new)]
              /\ UNCHANGED pending
         ELSE /\ conn' = [conn EXCEPT ![c] = new]
              /\ pending' = [pending EXCEPT ![l] = Append(@, Established(c))]
  BY <1>1, <1>2 DEF NewConnection, Established
<1> HIDE DEF new
<1>5. conn[c].loop_ = NoLoop /\ l # NoLoop
  BY <1>1, <1>3, ServerAssumption DEF Parts, NameInv, Connections
<1>6. \A m \in Loops : \A g \in ToSet(ToRun(m)) :
        FunctorOK(m, g) /\ g.conn \in Connections /\ g.conn # c
  BY <1>5, FunctorOfQueue DEF Parts, FunctorInv, FunctorOK
<1>7. \A d \in Connections :
        ConnOK(d) /\ conn[d].loop_ \in Loops \cup {NoLoop}
  BY DEF Parts, ConnInv, TypeOK, ConnectionRecords
<1>8. PICK k \in ConnectionRecords :
        /\ conn' = [conn EXCEPT ![c] = k]
        /\ k.loop_ = l
        /\ k.index_ = IF l = Base THEN "kAdded" ELSE "kNew"
  BY <1>3, <1>4, ConnectionSteps
<1>9. conn'[c] = k /\ \A d \in Connections : d # c => conn'[d] = conn[d]
  BY <1>8 DEF TypeOK
<1>10. NameInv'
  <2>1. \A d \in Connections : d >= nextConnId_ + 1 => d >= nextConnId_ /\ d # c
    BY <1>1 DEF Connections
  <2>2. \A d \in connections_ : d \in Connections
    BY ServerAssumption DEF TypeOK, Connections
  <2>3. \A d \in connections_ \cup {c} : conn'[d].loop_ # NoLoop
    BY <1>5, <1>8, <1>9, <2>2 DEF Parts, NameInv
  <2> QED BY <1>4, <1>9, <2>1, <2>3 DEF Parts, NameInv
<1>11. /\ QueueInv' /\ FunctorInv'
       /\ \A m \in Loops : ToSet(ToRun(m)) \subseteq ToSet(ToRun(m)')
       /\ l # Base => Established(c) \in ToSet(ToRun(l)')
  <2>1. CASE l = Base
    <3>1. \A m \in Loops : ToRun(m)' = ToRun(m) BY <1>4, <2>1 DEF ToRun
    <3>2. QueueInv' BY <3>1 DEF Parts, QueueInv
    <3>3. FunctorInv'
      <4> SUFFICES ASSUME NEW m \in Loops, NEW g \in ToSet(ToRun(m))
                   PROVE  FunctorOK(m, g)'
        BY <3>1 DEF FunctorInv
      <4> QED BY <1>4, <1>6, <1>9 DEF FunctorOK, Up
    <3> QED BY <2>1, <3>1, <3>2, <3>3
  <2>2. CASE l # Base
    <3> DEFINE f == Established(c)
    <3>1. f \in FunctorRecords /\ f.op = "connectEstablished" /\ f.conn = c
      BY FunctorType DEF Ops, Established
    <3>2. pending' = [pending EXCEPT ![l] = Append(@, f)] BY <1>4, <2>2
    <3> HIDE DEF f
    <3>3. f \notin ToSet(ToRun(l)) /\ \A g \in ToSet(ToRun(l)) : g.conn # f.conn
      BY <1>6, <3>1
    <3>4. /\ QueueInv'
          /\ ToSet(ToRun(l)') = ToSet(ToRun(l)) \cup {f}
          /\ \A m \in Loops \ {l} : ToRun(m)' = ToRun(m)
      BY <1>4, <3>1, <3>2, <3>3, QueueGrows DEF Parts
    <3>5. FunctorInv'
      <4> SUFFICES ASSUME NEW m \in Loops, NEW g \in ToSet(ToRun(m)')
                   PROVE  FunctorOK(m, g)'
        BY DEF FunctorInv
      <4>1. CASE m = l /\ g = f
        BY <1>5, <1>8, <1>9, <2>2, <3>1, <4>1 DEF FunctorOK
      <4>2. CASE g \in ToSet(ToRun(m))
        BY <1>4, <1>6, <1>9, <4>2 DEF FunctorOK, Up
      <4> QED BY <3>4, <4>1, <4>2
    <3> QED BY <2>2, <3>4, <3>5 DEF f
  <2> QED BY <2>1, <2>2
<1>12. ConnInv'
  <2> SUFFICES ASSUME NEW d \in Connections PROVE ConnOK(d)' BY DEF ConnInv
  <2>1. CASE d = c BY <1>4, <1>8, <1>9, <1>11, <2>1 DEF ConnOK
  <2>2. CASE d # c BY <1>4, <1>7, <1>9, <1>11, <2>2 DEF ConnOK, Up
  <2> QED BY <2>1, <2>2
<1> QED BY <1>10, <1>11, <1>12 DEF Parts

-----------------------------------------------------------------------------
(***************************************************************************)
(* A functor runs.                                                         *)
(***************************************************************************)

\* The functor that runs leaves its queue, whatever it adds to another.
LEMMA RunShrinks ==
  ASSUME TypeOK, QueueInv, NEW l \in Loops, ran[l] < Len(batch[l]),
         ran' = [ran EXCEPT ![l] = @ + 1], batch' = batch,
         pending'[l] = pending[l]
  PROVE  LET f == batch[l][ran[l] + 1] IN
         /\ f \in ToSet(ToRun(l))
         /\ ToSet(ToRun(l)) = ToSet(ToRun(l)') \cup {f}
         /\ f \notin ToSet(ToRun(l)')
         /\ \A g \in ToSet(ToRun(l)') :
              g.op = "connectEstablished" => g.conn # f.conn
         /\ Distinct(ToRun(l)') /\ EstablishedFirst(ToRun(l)')
<1> DEFINE q == ToRun(l)
<1>1. /\ q # <<>>
      /\ Head(q) = batch[l][ran[l] + 1]
      /\ Tail(q) = SubSeq(batch[l], ran[l] + 2, Len(batch[l])) \o pending[l]
  BY RunStep
<1>2. ToRun(l)' = Tail(q)
  <2>1. ran'[l] = ran[l] + 1 /\ ran[l] \in Nat BY DEF TypeOK
  <2>2. ran'[l] + 1 = ran[l] + 2 BY <2>1
  <2>3. ToRun(l)' = SubSeq(batch[l], ran'[l] + 1, Len(batch[l])) \o pending[l]
    BY DEF ToRun
  <2> QED BY <1>1, <2>2, <2>3
<1>3. q \in Seq(FunctorRecords) /\ Distinct(q) /\ EstablishedFirst(q)
  BY ToRunType DEF QueueInv
<1> HIDE DEF q
<1>4. /\ Head(q) \in ToSet(q)
      /\ ToSet(q) = ToSet(Tail(q)) \cup {Head(q)}
      /\ Distinct(Tail(q)) /\ Head(q) \notin ToSet(Tail(q))
      /\ EstablishedFirst(Tail(q))
      /\ \A g \in ToSet(Tail(q)) :
           g.op = "connectEstablished" => g.conn # Head(q).conn
  BY <1>1, <1>3, TailQueue
<1> QED BY <1>1, <1>2, <1>4 DEF q

\* A functor leaves the queue; removeConnectionInLoop() queues the next.
LEMMA RunFunctorParts ==
  ASSUME TypeOK, PhaseInv, Parts, NEW l \in Loops, RunFunctor(l)
  PROVE  Parts'
<1>1. /\ phase[l] = "functors" /\ ran[l] < Len(batch[l])
      /\ ran' = [ran EXCEPT ![l] = @ + 1]
      /\ UNCHANGED <<server, nextConnId_, phase, batch>>
  BY DEF RunFunctor, poolVars
<1>2. PICK f \in FunctorRecords : f = batch[l][ran[l] + 1]
  BY <1>1, RunStep
<1>3. PICK c \in Connections : c = f.conn
  BY <1>2 DEF FunctorRecords
<1>4. \/ f.op = "connectEstablished" /\ RunEstablished(c)
      \/ f.op = "connectDestroyed" /\ RunDestroyed(c)
      \/ f.op = "removeConnectionInLoop" /\ RunRemove(c)
  BY <1>2, <1>3 DEF RunFunctor
<1>5. f \in ToSet(ToRun(l)) /\ FunctorOK(l, f)
  <2>1. ToRun(l) \in Seq(FunctorRecords) BY ToRunType
  <2>2. ToRun(l) # <<>> /\ Head(ToRun(l)) = f BY <1>1, <1>2, RunStep
  <2>3. f \in ToSet(ToRun(l)) BY <2>1, <2>2, TailQueue
  <2> QED BY <2>3 DEF Parts, FunctorInv
<1>6. conn[c].loop_ \in Loops /\ conn[c].loop_ # NoLoop
  BY <1>3, <1>5 DEF FunctorOK, TypeOK, ConnectionRecords
<1>7. \A m \in Loops : \A g \in ToSet(ToRun(m)) :
        /\ FunctorOK(m, g) /\ g.conn \in Connections
        /\ g \in FunctorRecords /\ g.op \in Ops
  BY FunctorOfQueue DEF Parts, FunctorInv
<1>8. \A d \in Connections :
        ConnOK(d) /\ conn[d].loop_ \in Loops \cup {NoLoop}
  BY DEF Parts, ConnInv, TypeOK, ConnectionRecords
<1>9. \A m \in Loops \ {l} : ran'[m] = ran[m] BY <1>1 DEF TypeOK
<1>10. ASSUME pending'[l] = pending[l]
       PROVE  /\ ToSet(ToRun(l)) = ToSet(ToRun(l)') \cup {f}
              /\ f \notin ToSet(ToRun(l)')
              /\ \A g \in ToSet(ToRun(l)') :
                   g.op = "connectEstablished" => g.conn # c
              /\ Distinct(ToRun(l)') /\ EstablishedFirst(ToRun(l)')
  BY <1>1, <1>2, <1>3, <1>10, RunShrinks DEF Parts
<1>11. \A d \in Connections :
         /\ Destroyed(d) \in FunctorRecords
         /\ Destroyed(d).op = "connectDestroyed" /\ Destroyed(d).conn = d
         /\ Established(d).conn = d
  BY FunctorType DEF Ops, Destroyed, Established
<1>12. CASE f.op \in {"connectEstablished", "connectDestroyed"}
  <2>1. PICK k \in ConnectionRecords :
          /\ conn' = [conn EXCEPT ![c] = k]
          /\ k.loop_ = conn[c].loop_
          /\ f.op = "connectEstablished" => k.index_ = "kAdded"
          /\ f.op = "connectDestroyed" => k.index_ = "removed"
    BY <1>4, <1>12, ConnectionSteps DEF RunEstablished, RunDestroyed, TypeOK
  <2>2. connections_' = connections_ /\ pending' = pending
    BY <1>4, <1>12 DEF RunEstablished, RunDestroyed
  <2>3. /\ conn'[c] = k /\ \A d \in Connections : d # c => conn'[d] = conn[d]
        /\ NameInv'
    BY <1>1, <1>6, <2>1, <2>2, OneConnection DEF Parts
  <2>4. \A m \in Loops \ {l} : ToRun(m)' = ToRun(m)
    BY <1>1, <1>9, <2>2 DEF ToRun
  <2>5. QueueInv' BY <1>10, <2>2, <2>4 DEF Parts, QueueInv
  <2>6. conn[c].loop_ = l
    BY <1>3, <1>5, <1>12 DEF FunctorOK
  <2>7. FunctorInv'
    <3> SUFFICES ASSUME NEW m \in Loops, NEW g \in ToSet(ToRun(m)')
                 PROVE  FunctorOK(m, g)'
      BY DEF FunctorInv
    <3>1. g \in ToSet(ToRun(m)) BY <1>10, <2>2, <2>4
    <3>2. FunctorOK(m, g) /\ g.conn \in Connections /\ g \in FunctorRecords
      BY <1>7, <3>1
    <3>3. CASE g.conn # c BY <1>1, <2>2, <2>3, <3>2, <3>3 DEF FunctorOK, Up
    <3>4. CASE g.conn = c
      <4>1. g.op # "connectEstablished"
        BY <1>10, <2>2, <2>6, <3>2, <3>4 DEF FunctorOK
      <4>2. CASE f.op = "connectEstablished"
        <5>1. conn[c].index_ = "kNew" /\ l # Base
          BY <1>3, <1>5, <4>2 DEF FunctorOK
        <5> QED BY <2>1, <2>2, <2>3, <2>6, <3>2, <3>4, <4>1, <4>2, <5>1
                DEF FunctorOK
      <4>3. CASE f.op = "connectDestroyed"
        <5>1. g.op = "connectDestroyed" => m = l BY <2>6, <3>2, <3>4 DEF FunctorOK
        <5>2. g.op = "connectDestroyed" => g = f
          BY <1>3, <3>2, <3>4, <4>3, SameFunctor
        <5>3. g.op # "connectDestroyed" BY <1>10, <2>2, <5>1, <5>2
        <5> QED BY <1>1, <2>1, <2>2, <2>3, <3>2, <3>4, <4>1, <4>3, <5>3
                DEF FunctorOK, Up
      <4> QED BY <1>12, <4>2, <4>3
    <3> QED BY <3>3, <3>4
  <2>8. ConnInv'
    <3> SUFFICES ASSUME NEW d \in Connections PROVE ConnOK(d)' BY DEF ConnInv
    <3>1. \A m \in Loops : Destroyed(d) \in ToSet(ToRun(m)) /\ f # Destroyed(d)
                           => Destroyed(d) \in ToSet(ToRun(m)')
      BY <1>10, <2>2, <2>4
    <3>2. CASE d # c
      <4>1. f # Destroyed(d) BY <1>3, <1>11, <3>2
      <4>2. f # Established(d) BY <1>3, <1>11, <3>2
      <4>3. \A m \in Loops : Established(d) \in ToSet(ToRun(m))
                             => Established(d) \in ToSet(ToRun(m)')
        BY <1>10, <2>2, <2>4, <4>2
      <4> QED BY <1>1, <1>8, <2>2, <2>3, <3>1, <3>2, <4>1, <4>3 DEF ConnOK, Up
    <3>3. CASE d = c /\ f.op = "connectEstablished"
      <4>1. f # Destroyed(d) BY <1>11, <3>3
      <4>2. conn[c].index_ = "kNew" BY <1>3, <1>5, <3>3 DEF FunctorOK
      <4> QED BY <1>1, <1>8, <2>1, <2>2, <2>3, <2>6, <3>1, <3>3, <4>1, <4>2
              DEF ConnOK, Up
    <3>4. CASE d = c /\ f.op = "connectDestroyed"
      <4>1. c \notin connections_ BY <1>3, <1>5, <3>4 DEF FunctorOK
      <4> QED BY <2>1, <2>2, <2>3, <3>4, <4>1 DEF ConnOK
    <3> QED BY <1>12, <3>2, <3>3, <3>4
  <2> QED BY <2>3, <2>5, <2>7, <2>8 DEF Parts
<1>13. CASE f.op = "removeConnectionInLoop"
  <2>1. PICK m \in Loops : m = conn[c].loop_ BY <1>6
  <2>2. /\ l = Base /\ m # Base
        /\ conn[c].index_ \in {"kDeleted", "removed"}
        /\ Up => c \in connections_
    BY <1>3, <1>5, <1>13, <2>1 DEF FunctorOK
  <2>3. Up /\ c \in connections_ BY <1>1, <2>2 DEF PhaseInv, Up
  <2>4. /\ connections_' = connections_ \ {c} /\ conn' = conn
        /\ pending' = [pending EXCEPT ![m] = Append(@, Destroyed(c))]
    BY <1>4, <1>13, <2>1 DEF RunRemove, Destroyed
  <2>5. pending'[l] = pending[l] BY <2>2, <2>4 DEF TypeOK
  <2>6. \A o \in Loops : Destroyed(c) \notin ToSet(ToRun(o))
    BY <1>7, <1>11, <2>3 DEF FunctorOK
  <2>7. /\ ToSet(ToRun(m)') = ToSet(ToRun(m)) \cup {Destroyed(c)}
        /\ Distinct(ToRun(m)') /\ EstablishedFirst(ToRun(m)')
    <3>1. ToRun(m) \in Seq(FunctorRecords) /\ pending[m] \in Seq(FunctorRecords)
      BY ToRunType
    <3>2. ToRun(m)' = Append(ToRun(m), Destroyed(c))
      <4> DEFINE rest == SubSeq(batch[m], ran[m] + 1, Len(batch[m]))
                 p == pending[m]
                 e == <<Destroyed(c)>>
      <4>1. /\ rest \in Seq(FunctorRecords) /\ p \in Seq(FunctorRecords)
            /\ e \in Seq(FunctorRecords)
        <5>1. Destroyed(c) \in FunctorRecords BY <1>11
        <5>2. e \in Seq(FunctorRecords) BY <5>1
        <5> QED BY <3>1, <5>2, ToRunType
      <4>2. pending'[m] = Append(p, Destroyed(c)) BY <2>4 DEF TypeOK
      <4>3. ran'[m] = ran[m] BY <1>9, <2>2
      <4>4. ToRun(m)' = rest \o Append(p, Destroyed(c))
        BY <1>1, <4>2, <4>3 DEF ToRun
      <4>5. Append(p, Destroyed(c)) = p \o e BY <1>11, <4>1, AppendIsConcat
      <4>6. ToRun(m) = rest \o p BY DEF ToRun
      <4>7. Append(ToRun(m), Destroyed(c)) = ToRun(m) \o e
        BY <1>11, <3>1, AppendIsConcat
      <4> HIDE DEF rest, p, e
      <4>8. rest \o (p \o e) = (rest \o p) \o e BY <4>1, QueueAssociative
      <4> QED BY <4>4, <4>5, <4>6, <4>7, <4>8
    <3> QED BY <1>11, <2>6, <3>1, <3>2, AppendQueue DEF Parts, QueueInv
  <2>8. \A o \in Loops \ {l, m} : ToRun(o)' = ToRun(o)
    <3>1. \A o \in Loops \ {l, m} : pending'[o] = pending[o] /\ ran'[o] = ran[o]
      BY <1>9, <2>4 DEF TypeOK
    <3> QED BY <1>1, <3>1 DEF ToRun
  <2>9. NameInv' BY <1>1, <2>4 DEF Parts, NameInv
  <2>10. QueueInv' BY <1>10, <2>5, <2>7, <2>8 DEF Parts, QueueInv
  <2>11. FunctorInv'
    <3> SUFFICES ASSUME NEW o \in Loops, NEW g \in ToSet(ToRun(o)')
                 PROVE  FunctorOK(o, g)'
      BY DEF FunctorInv
    <3>1. conn[c].index_ # "removed"
      BY <1>6, <1>8, <2>3 DEF ConnOK
    <3>2. CASE o = m /\ g = Destroyed(c)
      BY <1>6, <1>11, <2>1, <2>2, <2>4, <3>1, <3>2 DEF FunctorOK
    <3>3. CASE g \in ToSet(ToRun(o)) /\ g.conn # c
      BY <1>1, <1>7, <2>4, <3>3 DEF FunctorOK, Up
    <3>4. CASE g \in ToSet(ToRun(o)) /\ g.conn = c
      <4>1. FunctorOK(o, g) /\ g \in FunctorRecords BY <1>7, <3>4
      <4>2. g.op = "removeConnectionInLoop" => o = l /\ g = f
        BY <1>3, <1>13, <2>2, <3>4, <4>1, SameFunctor DEF FunctorOK
      <4>3. g.op # "removeConnectionInLoop" BY <1>10, <2>5, <4>2
      <4> QED BY <2>4, <3>4, <4>1, <4>3 DEF FunctorOK
    <3>5. g \in ToSet(ToRun(o)) \/ (o = m /\ g = Destroyed(c))
      BY <1>10, <2>5, <2>7, <2>8
    <3> QED BY <3>2, <3>3, <3>4, <3>5
  <2>12. ConnInv'
    <3> SUFFICES ASSUME NEW d \in Connections PROVE ConnOK(d)' BY DEF ConnInv
    <3>1. CASE d = c BY <1>6, <2>1, <2>2, <2>4, <2>7, <3>1 DEF ConnOK
    <3>2. CASE d # c
      <4>1. f # Destroyed(d) /\ f # Established(d) BY <1>3, <1>11, <3>2
      <4>2. \A o \in Loops : \A g \in {Destroyed(d), Established(d)} :
              g \in ToSet(ToRun(o)) => g \in ToSet(ToRun(o)')
        BY <1>10, <2>5, <2>7, <2>8, <4>1
      <4> QED BY <1>1, <1>8, <2>4, <3>2, <4>2 DEF ConnOK, Up
    <3> QED BY <3>1, <3>2
  <2> QED BY <2>9, <2>10, <2>11, <2>12 DEF Parts
<1> QED BY <1>4, <1>12, <1>13

-----------------------------------------------------------------------------
(***************************************************************************)
(* The theorems.                                                           *)
(***************************************************************************)

\* The invariant at first ...
LEMMA InitServer == Init => ServerInv
<1> SUFFICES ASSUME Init PROVE ServerInv OBVIOUS
<1>1. TypeOK BY InitType
<1>2. Len(<<>>) = 0 OBVIOUS
<1>3. PhaseInv BY BaseIsLoop DEF Init, PhaseInv
<1>4. Unborn.loop_ = NoLoop BY UnbornType
<1>5. NameInv BY DEF Init, NameInv
<1>6. \A l \in Loops : ToRun(l) = <<>>
  <2> SUFFICES ASSUME NEW l \in Loops PROVE ToRun(l) = <<>> OBVIOUS
  <2>1. ran[l] = 0 /\ batch[l] = <<>> /\ pending[l] = <<>> BY DEF Init
  <2> QED BY <1>1, <1>2, <2>1, IdleQueue
<1>7. QueueInv BY <1>6 DEF QueueInv, Distinct, EstablishedFirst
<1>8. FunctorInv BY <1>6 DEF FunctorInv, ToSet
<1>9. ConnInv BY <1>4 DEF Init, ConnInv, ConnOK
<1> QED BY <1>1, <1>3, <1>5, <1>7, <1>8, <1>9 DEF ServerInv

\* ... and after every step.
LEMMA NextServer == ServerInv /\ [Next]_vars => ServerInv'
<1> SUFFICES ASSUME ServerInv, [Next]_vars PROVE ServerInv' OBVIOUS
<1>1. TypeOK /\ PhaseInv /\ Parts BY DEF ServerInv, Parts
<1>2. PhaseInv' BY <1>1, NextPhase
<1>3. ASSUME OwnerStep PROVE TypeOK' /\ Parts'
  <2>1. TypeOK' BY <1>1, <1>3, OwnerType
  <2>2. Parts' BY <1>1, <1>3, OwnerParts
  <2> QED BY <2>1, <2>2
<1>4. ASSUME UNCHANGED vars PROVE TypeOK' /\ Parts'
  <2>1. UNCHANGED <<server, numThreads_, loops_, next_, joined, nextConnId_,
                    connections_, conn, phase, quit_, pending, batch, ran>>
    BY <1>4 DEF vars, poolVars, loopVars
  <2>2. TypeOK' BY <1>1, <2>1 DEF TypeOK
  <2>3. Parts' BY <1>1, <1>4, OwnerParts
  <2> QED BY <2>2, <2>3
<1>5. ASSUME NewConnection PROVE TypeOK' /\ Parts'
  BY <1>1, <1>5, ConnectionType, NewConnectionParts DEF Parts
<1>6. ASSUME NEW c \in Connections, DestroyConnection(c) PROVE TypeOK' /\ Parts'
  <2>1. TypeOK' BY <1>1, <1>6, ConnectionType DEF Parts
  <2> QED BY <1>1, <1>6, <2>1, DestroyConnectionParts
<1>7. ASSUME NEW c \in Connections,
             ShutdownTests(c) \/ ShutdownStores(c) \/ HandleClose(c)
      PROVE  TypeOK' /\ Parts'
  <2>1. TypeOK' BY <1>1, <1>7, ConnectionType DEF Parts
  <2> QED BY <1>1, <1>7, <2>1, ShutdownParts, HandleCloseParts
<1>8. ASSUME NEW l \in Loops, LoopStep(l) PROVE TypeOK' /\ Parts'
  <2>1. TypeOK' BY <1>1, <1>8, LoopType
  <2>2. Parts'
    BY <1>1, <1>8, RoundParts, RunFunctorParts, DestroyLoopParts DEF LoopStep
  <2> QED BY <2>1, <2>2
<1>9. TypeOK' /\ Parts'
  BY <1>3, <1>4, <1>5, <1>6, <1>7, <1>8 DEF Next, DestructorStep, OwnerStep
<1> QED BY <1>2, <1>9 DEF ServerInv, Parts

\* The invariant holds of every pool and any number of connections.
THEOREM ServerCorrect == Spec => []ServerInv
<1>1. Init => ServerInv BY InitServer
<1>2. ServerInv /\ [Next]_vars => ServerInv' BY NextServer
<1> QED BY <1>1, <1>2, PTL DEF Spec

\* The pool's index stays inside the loops that were started, the map holds
\* names that were given, and no loop runs past its vector of functors.
THEOREM TypeCorrect == Spec => []TypeOK
<1>1. ServerInv => TypeOK BY DEF ServerInv
<1> QED BY <1>1, ServerCorrect, PTL

\* A functor still to be run is in one of the two vectors of its loop.
LEMMA ToRunIsHeld ==
  ASSUME TypeOK, NEW l \in Loops, NEW f \in ToSet(ToRun(l))
  PROVE  f.conn \in HeldBy(l)
<1> DEFINE n == Len(batch[l])
           rest == SubSeq(batch[l], ran[l] + 1, n)
           p == pending[l]
<1>1. /\ p \in Seq(FunctorRecords) /\ rest \in Seq(FunctorRecords)
      /\ batch[l] \in Seq(FunctorRecords)
      /\ n \in Nat /\ ran[l] \in Nat /\ ran[l] <= n
  BY ToRunType
<1>2. \A i \in ran[l] + 1 .. n : batch[l][i] \in FunctorRecords /\ i \in 1 .. n
  BY <1>1, LenProperties
<1>3. /\ Len(rest) = IF ran[l] + 1 <= n THEN n - (ran[l] + 1) + 1 ELSE 0
      /\ \A i \in 1 .. n - (ran[l] + 1) + 1 : rest[i] = batch[l][ran[l] + 1 + i - 1]
  BY <1>1, <1>2, SubSeqProperties
<1>4. ASSUME NEW i \in 1 .. Len(rest) PROVE rest[i] \in ToSet(batch[l])
  <2>1. PICK r \in Nat : r = ran[l] BY <1>1
  <2>2. PICK m \in Nat : m = n BY <1>1
  <2>3. PICK k \in Nat : k = i BY <1>1, <1>3, <1>4
  <2>4. Len(rest) = (IF r + 1 <= m THEN m - (r + 1) + 1 ELSE 0)
    BY <1>3, <2>1, <2>2
  <2>5. PICK h \in Nat : h = Len(rest) BY <1>1, LenProperties
  <2>6. 1 <= k /\ k <= h
    <3> HIDE DEF rest
    <3> QED BY <1>4, <2>3, <2>5
  <2>7. k \in 1 .. m - (r + 1) + 1 /\ r + 1 + k - 1 \in 1 .. m
    <3>1. h = (IF r + 1 <= m THEN m - (r + 1) + 1 ELSE 0) BY <2>4, <2>5
    <3> HIDE DEF rest, n
    <3> QED BY <2>6, <3>1
  <2>8. rest[k] = batch[l][r + 1 + k - 1] BY <1>3, <2>1, <2>2, <2>7
  <2>9. DOMAIN batch[l] = 1 .. m BY <1>1, <2>2, LenProperties
  <2> QED BY <2>3, <2>7, <2>8, <2>9 DEF ToSet
<1> HIDE DEF rest, p, n
<1>5. ToRun(l) = rest \o p BY DEF ToRun, rest, p, n
<1>6. /\ rest \o p \in Seq(FunctorRecords)
      /\ Len(rest \o p) = Len(rest) + Len(p)
      /\ \A i \in 1 .. Len(rest) + Len(p) :
           (rest \o p)[i] = IF i <= Len(rest) THEN rest[i] ELSE p[i - Len(rest)]
  BY <1>1, ConcatProperties
<1>7. PICK i \in DOMAIN (rest \o p) : f = (rest \o p)[i] BY <1>5 DEF ToSet
<1>8. /\ Len(rest) \in Nat /\ Len(p) \in Nat /\ DOMAIN p = 1 .. Len(p)
      /\ i \in 1 .. Len(rest) + Len(p)
  BY <1>1, <1>6, <1>7, LenProperties
<1>9. f \in ToSet(batch[l]) \cup ToSet(p)
  <2>1. CASE i <= Len(rest)
    <3>1. i \in 1 .. Len(rest) /\ f = rest[i] BY <1>6, <1>7, <1>8, <2>1
    <3> QED BY <1>4, <3>1
  <2>2. CASE ~(i <= Len(rest))
    <3>1. i - Len(rest) \in 1 .. Len(p) BY <1>8, <2>2
    <3>2. f = p[i - Len(rest)] BY <1>6, <1>7, <1>8, <2>2
    <3> QED BY <1>8, <3>1, <3>2 DEF ToSet
  <2> QED BY <2>1, <2>2
<1> QED BY <1>9 DEF HeldBy, p

\* What is left in the poller of a loop is in the map, or in the functor that
\* will remove it.
LEMMA PolledIsAlive == ServerInv => RegisteredAlive
<1> SUFFICES ASSUME ServerInv, NEW c \in Connections,
                    conn[c].loop_ # NoLoop,
                    phase[conn[c].loop_] # "destroyed",
                    conn[c].index_ \in {"kAdded", "kDeleted"}
             PROVE  Alive(c)
  BY DEF RegisteredAlive
<1>1. TypeOK /\ ConnOK(c) BY DEF ServerInv, ConnInv
<1>2. conn[c].loop_ \in Loops BY <1>1 DEF TypeOK, ConnectionRecords
<1>3. CASE c \in connections_ BY <1>3 DEF Alive
<1>4. CASE Destroyed(c) \in ToSet(ToRun(conn[c].loop_))
  <2>1. Destroyed(c).conn = c BY FunctorType DEF Ops, Destroyed
  <2>2. c \in HeldBy(conn[c].loop_) BY <1>1, <1>2, <1>4, <2>1, ToRunIsHeld
  <2> QED BY <1>2, <2>2 DEF Alive
<1> QED BY <1>1, <1>3, <1>4 DEF ConnOK

\* While a loop exists, its poller holds no Channel of a TcpConnection that was
\* destroyed: the chain from handleClose() to connectDestroyed(), and that from
\* the server's destructor, keep a reference until channel_->remove().
THEOREM ChannelsAlive == Spec => []RegisteredAlive
BY PolledIsAlive, ServerCorrect, PTL

\* connectDestroyed() is queued at most once for a connection, and only for one
\* that has left the map and is not removed yet, however closing connections
\* and the server's destructor race.
THEOREM ConnectDestroyedOnce == Spec => []DestroyedOnce
<1>1. ServerInv => DestroyedOnce
  <2> SUFFICES ASSUME ServerInv, NEW c \in Connections, conn[c].loop_ # NoLoop
               PROVE  LET waiting == DestroyCalls(c, ToRun(conn[c].loop_)) IN
                      /\ Cardinality(waiting) <= 1
                      /\ waiting # {} => c \notin connections_
                                         /\ conn[c].index_ # "removed"
    BY DEF DestroyedOnce
  <2>1. PICK l \in Loops : l = conn[c].loop_
    BY DEF ServerInv, TypeOK, ConnectionRecords
  <2> DEFINE q == ToRun(l)
             waiting == DestroyCalls(c, q)
  <2>2. Distinct(q) /\ FunctorInv BY DEF ServerInv, QueueInv
  <2>3. \A i \in waiting : i \in DOMAIN q /\ q[i] = Destroyed(c)
    BY DEF DestroyCalls, Destroyed
  <2>4. Cardinality(waiting) <= 1
    <3>1. CASE waiting = {}
      <4>1. Cardinality({}) = 0 BY FS_EmptySet
      <4> HIDE DEF waiting
      <4> QED BY <3>1, <4>1
    <3>2. CASE waiting # {}
      <4>1. PICK i \in waiting : TRUE BY <3>2
      <4>2. waiting = {i} BY <2>2, <2>3, <4>1 DEF Distinct
      <4> HIDE DEF waiting
      <4>3. Cardinality({i}) = 1 BY FS_Singleton
      <4> QED BY <4>2, <4>3
    <3> QED BY <3>1, <3>2
  <2>5. ASSUME waiting # {}
        PROVE  c \notin connections_ /\ conn[c].index_ # "removed"
    <3>1. Destroyed(c) \in ToSet(q) BY <2>3, <2>5 DEF ToSet
    <3>2. FunctorOK(l, Destroyed(c)) BY <2>2, <3>1 DEF FunctorInv
    <3>3. Destroyed(c).op = "connectDestroyed" /\ Destroyed(c).conn = c
      BY FunctorType DEF Ops, Destroyed
    <3> QED BY <3>2, <3>3 DEF FunctorOK
  <2> QED BY <2>1, <2>4, <2>5
<1> QED BY <1>1, ServerCorrect, PTL

\* connectDestroyed() is the last that happens to a channel: connectEstablished()
\* is never run after it.
THEOREM RemovalIsFinal == Spec => RemovedForGood
<1> DEFINE Stays == \A c \in Connections :
                      conn[c].index_ = "removed" => conn'[c].index_ = "removed"
<1>1. ServerInv /\ [Next]_vars => Stays
  <2> SUFFICES ASSUME ServerInv, [Next]_vars, NEW c \in Connections,
                      conn[c].index_ = "removed"
               PROVE  conn'[c].index_ = "removed"
    OBVIOUS
  <2>1. TypeOK BY DEF ServerInv
  <2>2. CASE NewConnection
    <3>1. Unborn.index_ = "kNew" BY UnbornType
    <3>2. nextConnId_ \in Nat BY <2>1, ServerAssumption DEF TypeOK
    <3>3. c # nextConnId_
      BY <3>1, <3>2 DEF ServerInv, NameInv, Connections
    <3>4. conn'[c] = conn[c] BY <2>1, <2>2, <3>3 DEF NewConnection, TypeOK
    <3> QED BY <3>4
  <2>3. ASSUME NEW d \in Connections, DestroyConnection(d)
        PROVE  conn'[c].index_ = "removed"
    <3>1. ConnectDestroyed(conn[d]).index_ = "removed"
      BY <2>1, ConnectionSteps DEF TypeOK
    <3> QED BY <2>1, <2>3, <3>1 DEF DestroyConnection, TypeOK
  <2>4. ASSUME NEW d \in Connections,
               ShutdownTests(d) \/ ShutdownStores(d) \/ HandleClose(d)
        PROVE  conn'[c].index_ = "removed"
    <3>1. CASE HandleClose(d)
      <4>1. d # c BY <3>1 DEF HandleClose
      <4>2. conn'[c] = conn[c] BY <2>1, <3>1, <4>1 DEF HandleClose, TypeOK
      <4> QED BY <4>2
    <3>2. CASE ShutdownTests(d) \/ ShutdownStores(d)
      <4>1. PICK k \in ConnectionRecords :
              conn' = [conn EXCEPT ![d] = k] /\ k.index_ = conn[d].index_
        BY <2>1, <3>2, ShutdownSteps DEF ServerInv
      <4> QED BY <2>1, <4>1 DEF TypeOK
    <3> QED BY <2>4, <3>1, <3>2
  <2>5. ASSUME NEW l \in Loops, RunFunctor(l)
        PROVE  conn'[c].index_ = "removed"
    <3>1. ran[l] < Len(batch[l]) BY <2>5 DEF RunFunctor
    <3>2. PICK f \in FunctorRecords : f = batch[l][ran[l] + 1]
      BY <2>1, <3>1, RunStep
    <3>3. f.conn \in Connections /\ conn[f.conn] \in ConnectionRecords
      BY <2>1 DEF FunctorRecords, TypeOK
    <3>4. FunctorOK(l, f)
      <4>1. ToRun(l) \in Seq(FunctorRecords) BY <2>1, ToRunType
      <4>2. ToRun(l) # <<>> /\ Head(ToRun(l)) = f BY <2>1, <3>1, <3>2, RunStep
      <4>3. f \in ToSet(ToRun(l)) BY <4>1, <4>2, TailQueue
      <4> QED BY <4>3 DEF ServerInv, FunctorInv
    <3>5. CASE f.op = "connectEstablished" /\ RunEstablished(f.conn)
      <4>1. f.conn # c BY <3>4, <3>5 DEF FunctorOK
      <4>2. conn'[c] = conn[c] BY <2>1, <3>5, <4>1 DEF RunEstablished, TypeOK
      <4> QED BY <4>2
    <3>6. CASE RunDestroyed(f.conn)
      <4>1. ConnectDestroyed(conn[f.conn]).index_ = "removed"
        BY <3>3, ConnectionSteps
      <4> QED BY <2>1, <3>3, <3>6, <4>1 DEF RunDestroyed, TypeOK
    <3>7. CASE RunRemove(f.conn) BY <3>7 DEF RunRemove
    <3> QED BY <2>5, <3>2, <3>5, <3>6, <3>7 DEF RunFunctor
  <2>6. CASE conn' = conn BY <2>6
  <2> QED
    BY <2>2, <2>3, <2>4, <2>5, <2>6
    DEF Next, DestructorStep, LoopStep, SetThreadNum, Start, BaseLoops,
        BaseQuits, BeginDestroy, BeginJoin, EndDestroy, QuitThread, JoinThread,
        EnterLoop, TakeFunctors, FunctorsDone, DestroyLoop, vars
<1>2. ServerInv /\ [Next]_vars => [Stays]_vars BY <1>1
<1> HIDE DEF Stays
<1>3. Spec => [][Stays]_vars BY <1>2, ServerCorrect, PTL DEF Spec
<1> QED BY <1>3 DEF RemovedForGood, Stays
-----------------------------------------------------------------------------
(***************************************************************************)
(* What the connection callback has been told.                             *)
(***************************************************************************)

\* The channel tells how far the user has been told, and the state_ almost: a
\* late shutdown() overwrites it.  Only the server's destructor removes a
\* connection without a DOWN, and only one that is being shut down.
ToldOK(c) ==
  LET k == conn[c] IN
  /\ k.index_ = "kNew" =>
       k.state_ = "kConnecting" /\ k.told = <<>> /\ ~k.ending
  /\ k.index_ = "kAdded" =>
       k.state_ \in {"kConnected", "kDisconnecting"} /\ k.told = <<"UP">>
  /\ k.index_ = "kDeleted" => k.state_ # "kConnected" /\ k.told = Life!Whole
  /\ k.index_ = "removed" =>
       /\ k.state_ # "kConnected"
       /\ \/ k.told = Life!Whole
          \/ ~Up /\ k.state_ = "kDisconnecting" /\ k.told = <<"UP">>

ToldInv == \A c \in Connections : ToldOK(c)

LifeInv == ServerInv /\ ToldInv

\* UP and DOWN, one after the other.
LEMMA Heard ==
  /\ Append(<<>>, "UP") = <<"UP">>
  /\ Append(<<"UP">>, "DOWN") = Life!Whole
  /\ Life!Whole = <<"UP", "DOWN">>
  /\ Len(<<>>) = 0 /\ Len(<<"UP">>) = 1 /\ Len(Life!Whole) = 2
  /\ Life!Whole[1] = "UP" /\ Life!Whole[2] = "DOWN"
  /\ <<"UP">> # Life!Whole /\ <<>> # <<"UP">> /\ <<>> # Life!Whole
<1>1. Append(<<>>, "UP") = <<"UP">> OBVIOUS
<1>2. Append(<<"UP">>, "DOWN") = <<"UP", "DOWN">>
  <2> DEFINE S == {"UP", "DOWN"}
             q == Append(<<"UP">>, "DOWN")
             r == <<"UP", "DOWN">>
  <2>1. <<"UP">> \in Seq(S) /\ Len(<<"UP">>) = 1 /\ <<"UP">>[1] = "UP" OBVIOUS
  <2>2. r \in Seq(S) /\ Len(r) = 2 /\ r[1] = "UP" /\ r[2] = "DOWN" OBVIOUS
  <2>3. q \in Seq(S) /\ Len(q) = 1 + 1 /\ q[1] = "UP" /\ q[1 + 1] = "DOWN"
    BY <2>1, AppendProperties
  <2> HIDE DEF q, r
  <2>4. Len(q) = Len(r) /\ \A i \in 1 .. Len(q) : i = 1 \/ i = 2 BY <2>2, <2>3
  <2>5. \A i \in 1 .. Len(q) : q[i] = r[i] BY <2>2, <2>3, <2>4
  <2>6. q = r BY <2>2, <2>3, <2>4, <2>5, SeqEqual
  <2> QED BY <2>6 DEF q, r
<1>3. Len(<<>>) = 0 /\ Len(<<"UP">>) = 1 /\ Len(<<"UP", "DOWN">>) = 2 OBVIOUS
<1>4. <<"UP", "DOWN">>[1] = "UP" /\ <<"UP", "DOWN">>[2] = "DOWN" OBVIOUS
<1>5. <<"UP">> # <<"UP", "DOWN">> /\ <<>> # <<"UP">> /\ <<>> # <<"UP", "DOWN">>
  OBVIOUS
<1> QED BY <1>1, <1>2, <1>3, <1>4, <1>5 DEF Life!Whole

\* What the functions of a connection tell, and the state they leave.
LEMMA ToldSteps ==
  ASSUME NEW k \in ConnectionRecords
  PROVE  /\ k.told = <<>> => ConnectEstablished(k).told = <<"UP">>
         /\ ConnectEstablished(k).state_ = "kConnected"
         /\ k.told = <<"UP">> => Closed(k).told = Life!Whole
         /\ Closed(k).state_ = "kDisconnected"
         /\ ConnectDestroyed(k).state_ # "kConnected"
         /\ k.state_ = "kConnected" /\ k.told = <<"UP">>
              => ConnectDestroyed(k).told = Life!Whole
         /\ k.state_ # "kConnected" =>
              /\ ConnectDestroyed(k).told = k.told
              /\ ConnectDestroyed(k).state_ = k.state_
         /\ ConnectEstablished(k).ending = k.ending
         /\ ConnectDestroyed(k).ending = k.ending
         /\ Closed(k).ending = k.ending
<1>1. /\ ConnectEstablished(k).told = Append(k.told, "UP")
      /\ ConnectEstablished(k).state_ = "kConnected"
      /\ ConnectEstablished(k).ending = k.ending
  BY DEF ConnectEstablished, ConnectionRecords
<1>2. /\ Closed(k).told = Append(k.told, "DOWN")
      /\ Closed(k).state_ = "kDisconnected"
      /\ Closed(k).ending = k.ending
  BY DEF Closed, ConnectionRecords
<1>3. /\ ConnectDestroyed(k).state_ # "kConnected"
      /\ k.state_ = "kConnected"
           => ConnectDestroyed(k).told = Append(k.told, "DOWN")
      /\ k.state_ # "kConnected" =>
           /\ ConnectDestroyed(k).told = k.told
           /\ ConnectDestroyed(k).state_ = k.state_
      /\ ConnectDestroyed(k).ending = k.ending
  BY DEF ConnectDestroyed, ConnectionRecords
<1>4. k.told = <<>> => Append(k.told, "UP") = <<"UP">> BY Zenon, Heard
<1>5. k.told = <<"UP">> => Append(k.told, "DOWN") = Life!Whole BY Zenon, Heard
<1> QED BY Zenon, <1>1, <1>2, <1>3, <1>4, <1>5

\* The functor that a loop is about to run, and the connection it holds.
LEMMA NextFunctor ==
  ASSUME ServerInv, NEW l \in Loops, RunFunctor(l)
  PROVE  \E f \in FunctorRecords :
           /\ f = batch[l][ran[l] + 1]
           /\ f \in ToSet(batch[l])
           /\ f.conn \in Connections
           /\ conn[f.conn].loop_ \in Loops
           /\ FunctorOK(l, f)
<1>1. TypeOK /\ ran[l] < Len(batch[l]) BY DEF ServerInv, RunFunctor
<1>2. PICK f \in FunctorRecords : f = batch[l][ran[l] + 1] BY <1>1, RunStep
<1>3. f.conn \in Connections BY <1>2 DEF FunctorRecords
<1>4. FunctorOK(l, f)
  <2>1. ToRun(l) \in Seq(FunctorRecords) BY <1>1, ToRunType
  <2>2. ToRun(l) # <<>> /\ Head(ToRun(l)) = f BY <1>1, <1>2, RunStep
  <2>3. f \in ToSet(ToRun(l)) BY <2>1, <2>2, TailQueue
  <2> QED BY <2>3 DEF ServerInv, FunctorInv
<1>5. f \in ToSet(batch[l])
  <2>1. batch[l] \in Seq(FunctorRecords) /\ Len(batch[l]) \in Nat /\ ran[l] \in Nat
    BY <1>1, ToRunType
  <2>2. ran[l] + 1 \in DOMAIN batch[l] BY <1>1, <2>1, LenProperties
  <2> QED BY <1>2, <2>2 DEF ToSet
<1>6. conn[f.conn].loop_ \in Loops
  BY <1>1, <1>3, <1>4 DEF FunctorOK, TypeOK, ConnectionRecords
<1> QED BY <1>2, <1>3, <1>4, <1>5, <1>6

\* connectEstablished() is never queued in the base loop.
LEMMA EstablishedElsewhere ==
  ASSUME FunctorInv, NEW c \in Connections
  PROVE  Established(c) \notin ToSet(ToRun(Base))
<1>1. Established(c).op = "connectEstablished"
  BY FunctorType DEF Ops, Established
<1> QED BY <1>1, BaseIsLoop DEF FunctorInv, FunctorOK

\* A connection is established before it is destroyed.
LEMMA DestroyedIsEstablished ==
  ASSUME ServerInv, NEW l \in Loops, RunFunctor(l),
         NEW f \in FunctorRecords, f = batch[l][ran[l] + 1],
         f.op = "connectDestroyed", FunctorOK(l, f)
  PROVE  conn[f.conn].index_ # "kNew"
<1>1. /\ TypeOK /\ QueueInv /\ ConnInv
      /\ phase[l] = "functors" /\ ran[l] < Len(batch[l])
  BY DEF ServerInv, RunFunctor
<1>2. PICK c \in Connections : c = f.conn BY DEF FunctorRecords
<1>3. conn[c].loop_ = l /\ l # NoLoop BY <1>2, ServerAssumption DEF FunctorOK
<1>4. Established(c).op = "connectEstablished" /\ Established(c).conn = c
  BY FunctorType DEF Ops, Established
<1>5. Established(c) \notin ToSet(ToRun(l))
  <2>1. ToRun(l) \in Seq(FunctorRecords) /\ EstablishedFirst(ToRun(l))
    BY <1>1, ToRunType DEF QueueInv
  <2>2. ToRun(l) # <<>> /\ Head(ToRun(l)) = f BY <1>1, RunStep
  <2>3. /\ ToSet(ToRun(l)) = ToSet(Tail(ToRun(l))) \cup {f}
        /\ \A g \in ToSet(Tail(ToRun(l))) :
             g.op = "connectEstablished" => g.conn # f.conn
    BY <2>1, <2>2, TailQueue
  <2> QED BY <1>2, <1>4, <2>3
<1> QED BY <1>1, <1>2, <1>3, <1>5 DEF ConnInv, ConnOK

\* The destructor of the server never ends.
LEMMA DownStays == [Next]_vars /\ Up' => Up
BY DEF Next, DestructorStep, LoopStep, SetThreadNum, Start, BaseLoops,
       BaseQuits, BeginDestroy, DestroyConnection, BeginJoin, EndDestroy,
       QuitThread, JoinThread, NewConnection, ShutdownTests, ShutdownStores,
       HandleClose, EnterLoop, TakeFunctors, RunFunctor, FunctorsDone,
       DestroyLoop, vars, Up

\* Only one connection changes, and keeps to ToldOK.
LEMMA ToldOfOne ==
  ASSUME TypeOK, ToldInv, Up' => Up,
         NEW c \in Connections, NEW k, conn' = [conn EXCEPT ![c] = k],
         conn'[c] = k => ToldOK(c)'
  PROVE  ToldInv'
<1>1. conn'[c] = k /\ \A d \in Connections : d # c => conn'[d] = conn[d]
  BY DEF TypeOK
<1>2. ASSUME NEW d \in Connections, d # c PROVE ToldOK(d)'
  <2>1. ToldOK(d) /\ conn'[d] = conn[d] BY <1>1, <1>2 DEF ToldInv
  <2> QED BY <2>1 DEF ToldOK
<1> QED BY <1>1, <1>2 DEF ToldInv

\* Whatever happens to a connection, its channel goes on telling.
LEMMA NextTold == LifeInv /\ [Next]_vars => ToldInv'
<1> SUFFICES ASSUME LifeInv, [Next]_vars PROVE ToldInv' OBVIOUS
<1>1. /\ ServerInv /\ TypeOK /\ ToldInv /\ (Up' => Up)
      /\ \A c \in Connections : conn[c] \in ConnectionRecords
  BY DownStays DEF LifeInv, ServerInv, TypeOK
<1>2. CASE conn' = conn BY <1>1, <1>2 DEF ToldInv, ToldOK
<1>3. CASE NewConnection
  <2> DEFINE k == [Unborn EXCEPT !.loop_ = NextLoop]
  <2>1. PICK c \in Connections : c = nextConnId_
    BY <1>1, <1>3, ServerAssumption DEF NewConnection, TypeOK, Connections
  <2>2. /\ k.index_ = "kNew" /\ k.state_ = "kConnecting" /\ k.told = <<>>
        /\ ~k.ending
    BY DEF Unborn
  <2>3. k \in ConnectionRecords BY <1>1, NextLoopType, UnbornType
  <2>4. /\ ConnectEstablished(k).index_ = "kAdded"
        /\ ConnectEstablished(k).state_ = "kConnected"
        /\ ConnectEstablished(k).told = <<"UP">>
    BY <2>2, <2>3, ConnectionSteps, ToldSteps, Heard
  <2>5. \/ conn' = [conn EXCEPT ![c] = k]
        \/ conn' = [conn EXCEPT ![c] = ConnectEstablished(k)]
    BY <1>3, <2>1 DEF NewConnection
  <2> HIDE DEF k
  <2>6. CASE conn' = [conn EXCEPT ![c] = k]
    <3>1. conn'[c] = k => ToldOK(c)' BY <2>2 DEF ToldOK
    <3> QED BY <1>1, <2>1, <2>6, <3>1, ToldOfOne
  <2>7. CASE conn' = [conn EXCEPT ![c] = ConnectEstablished(k)]
    <3>1. conn'[c] = ConnectEstablished(k) => ToldOK(c)' BY <2>4 DEF ToldOK
    <3> QED BY <1>1, <2>1, <2>7, <3>1, ToldOfOne
  <2> QED BY <2>5, <2>6, <2>7
<1>4. ASSUME NEW c \in Connections, conn[c].index_ \in {"kAdded", "kDeleted"},
             Up => conn[c].index_ = "kDeleted",
             conn' = [conn EXCEPT ![c] = ConnectDestroyed(@)]
      PROVE  ToldInv'
  <2> DEFINE k == ConnectDestroyed(conn[c])
  <2>1. k.index_ = "removed" /\ k.state_ # "kConnected"
    BY <1>1, ConnectionSteps, ToldSteps
  <2>2. ToldOK(c) /\ conn[c] \in ConnectionRecords BY <1>1 DEF ToldInv
  <2>3. \/ k.told = Life!Whole
        \/ ~Up /\ k.state_ = "kDisconnecting" /\ k.told = <<"UP">>
    <3>1. CASE conn[c].index_ = "kDeleted" BY <2>2, <3>1, ToldSteps DEF ToldOK
    <3>2. CASE conn[c].index_ = "kAdded"
      BY <1>4, <2>2, <3>2, ToldSteps DEF ToldOK
    <3> QED BY <1>4, <3>1, <3>2
  <2>4. conn' = [conn EXCEPT ![c] = k] BY <1>4
  <2> HIDE DEF k
  <2>5. conn'[c] = k => ToldOK(c)' BY <1>1, <2>1, <2>3 DEF ToldOK
  <2> QED BY <1>1, <2>4, <2>5, ToldOfOne
<1>5. ASSUME NEW c \in Connections, DestroyConnection(c) PROVE ToldInv'
  <2>1. ~Up BY <1>5 DEF DestroyConnection, Up
  <2>2. CASE conn[c].loop_ = Base
    <3>1. c \in connections_ /\ conn[c].loop_ # NoLoop
      BY <1>1, <1>5 DEF DestroyConnection, ServerInv, NameInv
    <3>2. conn[c].index_ # "removed"
      BY <1>1, <3>1 DEF ServerInv, ConnInv, ConnOK
    <3>3. conn[c].index_ # "kNew"
      <4>1. phase[Base] # "destroyed"
        <5>1. server = "destroying" BY <1>5 DEF DestroyConnection
        <5> QED BY <1>1, <5>1 DEF ServerInv, PhaseInv
      <4>2. Established(c) \notin ToSet(ToRun(Base))
        BY <1>1, EstablishedElsewhere DEF ServerInv
      <4> QED BY <1>1, <2>2, <3>1, <4>1, <4>2 DEF ServerInv, ConnInv, ConnOK
    <3>4. conn[c].index_ \in {"kAdded", "kDeleted"}
      BY <1>1, <3>2, <3>3 DEF ConnectionRecords
    <3> QED BY <1>4, <1>5, <2>1, <2>2, <3>4 DEF DestroyConnection
  <2>3. CASE conn[c].loop_ # Base BY <1>2, <1>5, <2>3 DEF DestroyConnection
  <2> QED BY <2>2, <2>3
<1>6. ASSUME NEW c \in Connections, ShutdownTests(c) \/ ShutdownStores(c)
      PROVE  ToldInv'
  <2>1. PICK k \in ConnectionRecords :
          /\ conn' = [conn EXCEPT ![c] = k]
          /\ k.index_ = conn[c].index_ /\ k.told = conn[c].told
          /\ \/ conn[c].state_ = "kConnected" /\ k.state_ = "kConnected"
             \/ conn[c].ending /\ k.state_ = "kDisconnecting"
    BY <1>1, <1>6, ShutdownSteps DEF ServerInv
  <2>2. ToldOK(c) /\ conn[c] \in ConnectionRecords BY <1>1 DEF ToldInv
  <2>3. conn'[c] = k => ToldOK(c)' BY <1>1, <2>1, <2>2 DEF ToldOK
  <2> QED BY <1>1, <2>1, <2>3, ToldOfOne
<1>7. ASSUME NEW c \in Connections, HandleClose(c) PROVE ToldInv'
  <2> DEFINE k == Closed(conn[c])
  <2>1. /\ k.index_ = "kDeleted" /\ k.state_ = "kDisconnected"
        /\ k.told = Life!Whole
    BY <1>1, <1>7, ConnectionSteps, ToldSteps, Heard
    DEF HandleClose, ToldInv, ToldOK
  <2>2. conn' = [conn EXCEPT ![c] = k] BY <1>7 DEF HandleClose
  <2> HIDE DEF k
  <2>3. conn'[c] = k => ToldOK(c)' BY <2>1 DEF ToldOK
  <2> QED BY <1>1, <2>2, <2>3, ToldOfOne
<1>8. ASSUME NEW l \in Loops, RunFunctor(l) PROVE ToldInv'
  <2>1. PICK f \in FunctorRecords :
          /\ f = batch[l][ran[l] + 1] /\ f.conn \in Connections /\ FunctorOK(l, f)
    BY <1>1, <1>8, NextFunctor
  <2>2. CASE f.op = "connectEstablished" /\ RunEstablished(f.conn)
    <3>0. PICK c \in Connections : c = f.conn BY <2>1
    <3> DEFINE k == ConnectEstablished(conn[c])
    <3>1. /\ k.index_ = "kAdded" /\ k.state_ = "kConnected"
          /\ k.told = <<"UP">>
      BY <1>1, <2>1, <2>2, <3>0, ConnectionSteps, ToldSteps, Heard
      DEF FunctorOK, ToldInv, ToldOK
    <3>2. conn' = [conn EXCEPT ![c] = k] BY <2>2, <3>0 DEF RunEstablished
    <3> HIDE DEF k
    <3>4. conn'[c] = k => ToldOK(c)' BY <3>1 DEF ToldOK
    <3> QED BY <1>1, <3>2, <3>4, ToldOfOne
  <2>3. CASE f.op = "connectDestroyed" /\ RunDestroyed(f.conn)
    <3>1. /\ conn[f.conn].index_ # "removed"
          /\ conn[f.conn].loop_ # NoLoop
          /\ f.conn \notin connections_
      BY <2>1, <2>3 DEF FunctorOK
    <3>2. conn[f.conn].index_ # "kNew"
      BY <1>1, <1>8, <2>1, <2>3, DestroyedIsEstablished
    <3>3. Up => conn[f.conn].index_ = "kDeleted"
      BY <1>1, <2>1, <3>1 DEF ServerInv, ConnInv, ConnOK, ConnectionRecords
    <3>4. conn[f.conn].index_ \in {"kAdded", "kDeleted"}
      BY <1>1, <2>1, <3>1, <3>2 DEF ConnectionRecords
    <3> QED BY <1>4, <2>1, <2>3, <3>3, <3>4 DEF RunDestroyed
  <2>4. CASE RunRemove(f.conn) BY <1>2, <2>4 DEF RunRemove
  <2> QED BY <1>8, <2>1, <2>2, <2>3, <2>4 DEF RunFunctor
<1> QED
  BY <1>2, <1>3, <1>5, <1>6, <1>7, <1>8
  DEF Next, DestructorStep, LoopStep, SetThreadNum, Start, BaseLoops,
      BaseQuits, BeginDestroy, BeginJoin, EndDestroy, QuitThread, JoinThread,
      EnterLoop, TakeFunctors, FunctorsDone, DestroyLoop, vars

-----------------------------------------------------------------------------
(***************************************************************************)
(* TcpServer implements ConnectionLife.                                    *)
(***************************************************************************)

\* The variables of ConnectionLife, as Lifecycle maps them.
LifeOf == [c \in Connections |-> IF conn[c].loop_ = NoLoop THEN "absent"
                                 ELSE IF Alive(c) THEN "alive"
                                 ELSE "destroyed"]
ToldOf == [c \in Connections |-> conn[c].told]
ShutOf == {c \in Connections : ShutByUser(c)}
CutOf == {c \in Connections : LoopEnded(c)}
Closing == server \notin {"constructed", "started"}

\* A step of the server as one of ConnectionLife.
LifeStep == Life!Next \/ UNCHANGED Life!lifeVars

\* Nothing that ConnectionLife sees has changed.
LEMMA Unseen ==
  ASSUME LifeOf' = LifeOf, ToldOf' = ToldOf, ShutOf' = ShutOf, CutOf' = CutOf,
         Closing' = Closing
  PROVE  LifeStep
BY DEF LifeStep, Life!lifeVars, LifeOf, ToldOf, ShutOf, CutOf, Closing

\* The connection callback hears the next of UP and DOWN.
LEMMA OneTold ==
  ASSUME NEW c \in Connections, LifeOf[c] = "alive", LifeOf' = LifeOf,
         NEW h, ToldOf' = [ToldOf EXCEPT ![c] = h],
         \/ ToldOf[c] = <<>> /\ h = <<"UP">> /\ ShutOf' = ShutOf
         \/ ToldOf[c] = <<"UP">> /\ h = Life!Whole /\ ShutOf' = ShutOf \ {c},
         CutOf' = CutOf, Closing' = Closing
  PROVE  LifeStep
<1>1. /\ Len(ToldOf[c]) < Len(Life!Whole)
      /\ h = Append(ToldOf[c], Life!Whole[Len(ToldOf[c]) + 1])
  <2>1. CASE ToldOf[c] = <<>> /\ h = <<"UP">>
    <3>1. Len(ToldOf[c]) = 0 BY <2>1, Heard
    <3>2. Len(ToldOf[c]) + 1 = 1 /\ Len(ToldOf[c]) < 2 BY <3>1
    <3> QED BY Zenon, <2>1, <3>2, Heard
  <2>2. CASE ToldOf[c] = <<"UP">> /\ h = Life!Whole
    <3>1. Len(ToldOf[c]) = 1 BY <2>2, Heard
    <3>2. Len(ToldOf[c]) + 1 = 2 /\ Len(ToldOf[c]) < 2 BY <3>1
    <3> QED BY Zenon, <2>2, <3>2, Heard
  <2> QED BY <2>1, <2>2
<1>2. Life!Tell(c) <=>
        /\ LifeOf[c] = "alive"
        /\ Len(ToldOf[c]) < Len(Life!Whole)
        /\ ToldOf' = [ToldOf EXCEPT
                        ![c] = Append(@, Life!Whole[Len(@) + 1])]
        /\ ShutOf' = IF ToldOf'[c] = Life!Whole THEN ShutOf \ {c} ELSE ShutOf
        /\ LifeOf' = LifeOf /\ CutOf' = CutOf /\ Closing' = Closing
  BY DEF Life!Tell, LifeOf, ToldOf, ShutOf, CutOf, Closing
<1>3. ToldOf' = [ToldOf EXCEPT ![c] = Append(@, Life!Whole[Len(@) + 1])]
  BY Zenon, <1>1
<1>4. ToldOf'[c] = h BY DEF ToldOf
<1>5. ShutOf' = IF ToldOf'[c] = Life!Whole THEN ShutOf \ {c} ELSE ShutOf
  BY Zenon, <1>4, Heard
<1> QED BY Zenon, <1>1, <1>2, <1>3, <1>5 DEF LifeStep, Life!Next

\* The user has begun to shut a connection down, and not been told DOWN.
Shutting(k) == /\ k.told # <<"UP", "DOWN">>
               /\ k.ending \/ k.state_ = "kDisconnecting"

\* A connection that is destroyed without having been told of in full.
Untold ==
  \A c \in Connections : conn[c].loop_ # NoLoop /\ ~Alive(c) =>
    \/ conn[c].told = Life!Whole
    \/ /\ Closing
       /\ \/ ShutByUser(c)
          \/ /\ conn[c].loop_ \in PoolLoops
             /\ phase[conn[c].loop_] = "destroyed"

LEMMA UntoldIsExcused == LifeInv => Untold
<1> SUFFICES ASSUME LifeInv, NEW c \in Connections, conn[c].loop_ # NoLoop,
                    ~Alive(c)
             PROVE  \/ conn[c].told = Life!Whole
                    \/ /\ Closing
                       /\ \/ ShutByUser(c)
                          \/ /\ conn[c].loop_ \in PoolLoops
                             /\ phase[conn[c].loop_] = "destroyed"
  BY DEF Untold
<1>1. TypeOK /\ PhaseInv /\ ConnOK(c) /\ ToldOK(c)
  BY DEF LifeInv, ServerInv, ConnInv, ToldInv
<1>2. PICK l \in Loops : l = conn[c].loop_
  BY <1>1 DEF TypeOK, ConnectionRecords
<1>3. c \notin connections_ BY DEF Alive
<1>4. Destroyed(c) \notin ToSet(ToRun(l))
  <2>1. Destroyed(c).conn = c BY FunctorType DEF Ops, Destroyed
  <2>2. c \notin HeldBy(l) BY DEF Alive
  <2> QED BY <1>1, <2>1, <2>2, ToRunIsHeld
<1>5. CASE conn[c].index_ = "removed"
  <2>1. Closing <=> ~Up BY DEF Closing, Up
  <2>2. <<"UP">> # <<"UP", "DOWN">> BY Heard
  <2> QED BY <1>1, <1>5, <2>1, <2>2 DEF ToldOK, ShutByUser
<1>6. CASE /\ phase[l] = "destroyed"
           /\ l = Base => conn[c].index_ = "kDeleted"
  <2>1. CASE l = Base BY <1>1, <1>6, <2>1 DEF ToldOK
  <2>2. CASE l \in PoolLoops
    <3>1. Closing BY <1>1, <1>6, <2>2 DEF PhaseInv, Up, Closing
    <3> QED BY <1>2, <1>6, <2>2, <3>1
  <2> QED BY <2>1, <2>2 DEF Loops
<1> QED BY <1>1, <1>2, <1>3, <1>4, <1>5, <1>6 DEF ConnOK

\* The same in the state that a step leads to.
LEMMA UntoldIsExcusedNext == LifeInv' => Untold'
BY UntoldIsExcused, PTL

\* The last references to some connections go, or a loop ends.
LEMMA LetGo ==
  ASSUME LifeInv', ToldOf' = ToldOf, ShutOf' = ShutOf, server' = server,
         \A c \in Connections : /\ conn'[c].loop_ = conn[c].loop_
                                /\ Alive(c)' => Alive(c),
         \A l \in PoolLoops :
           /\ phase[l] \in {"stopped", "destroyed"}
                => phase'[l] \in {"stopped", "destroyed"}
           /\ phase'[l] = "destroyed" => phase[l] \in {"stopped", "destroyed"}
  PROVE  LifeStep
<1>1. PICK S \in SUBSET Connections :
        S = {c \in Connections : LifeOf'[c] # LifeOf[c]}
  OBVIOUS
<1>2. PICK T \in SUBSET Connections : T = CutOf' \ CutOf BY DEF CutOf
<1>3. Closing' = Closing BY DEF Closing
<1>4. /\ LifeOf' = [c \in Connections |-> LifeOf'[c]]
      /\ \A c \in Connections :
           /\ LifeOf[c] = IF conn[c].loop_ = NoLoop THEN "absent"
                          ELSE IF Alive(c) THEN "alive" ELSE "destroyed"
           /\ LifeOf'[c] = IF conn[c].loop_ = NoLoop THEN "absent"
                           ELSE IF Alive(c)' THEN "alive" ELSE "destroyed"
           /\ ToldOf[c] = conn[c].told /\ ToldOf'[c] = conn'[c].told
  BY DEF LifeOf, ToldOf
<1>5. ASSUME NEW c \in S
      PROVE  /\ LifeOf[c] = "alive" /\ LifeOf'[c] = "destroyed"
             /\ ToldOf[c] = Life!Whole \/ (Closing /\ c \in ShutOf \cup CutOf)
  <2>1. c \in Connections /\ LifeOf'[c] # LifeOf[c] BY <1>1
  <2>2. conn[c].loop_ # NoLoop /\ Alive(c) /\ ~Alive(c)' BY <1>4, <2>1
  <2>3. \/ conn'[c].told = Life!Whole
        \/ /\ Closing'
           /\ \/ ShutByUser(c)'
              \/ /\ conn'[c].loop_ \in PoolLoops
                 /\ phase'[conn'[c].loop_] = "destroyed"
    BY <2>1, <2>2, UntoldIsExcusedNext DEF Untold
  <2>4. CASE conn'[c].told = Life!Whole BY <1>4, <2>1, <2>2, <2>4
  <2>5. CASE Closing' /\ ShutByUser(c)'
    <3>1. c \in ShutOf BY <2>1, <2>5 DEF ShutOf
    <3> QED BY <1>3, <1>4, <2>1, <2>2, <2>5, <3>1
  <2>6. CASE /\ Closing' /\ conn'[c].loop_ \in PoolLoops
             /\ phase'[conn'[c].loop_] = "destroyed"
    <3>1. c \in CutOf BY <2>1, <2>6 DEF CutOf, LoopEnded
    <3> QED BY <1>3, <1>4, <2>1, <2>2, <2>6, <3>1
  <2> QED BY <2>3, <2>4, <2>5, <2>6
<1>6. CutOf' = CutOf \cup T
  <2>1. CutOf \subseteq CutOf' BY DEF CutOf, LoopEnded
  <2> QED BY <1>2, <2>1
<1>7. T # {} => Closing
  <2> SUFFICES ASSUME NEW c \in T PROVE Closing OBVIOUS
  <2>1. /\ conn'[c].loop_ \in PoolLoops
        /\ phase'[conn'[c].loop_] \in {"stopped", "destroyed"}
    BY <1>2 DEF CutOf, LoopEnded
  <2>2. ~Up' BY <2>1 DEF LifeInv, ServerInv, PhaseInv
  <2> QED BY <2>2 DEF Up, Closing
<1>8. LifeOf' = [c \in Connections |-> IF c \in S THEN "destroyed" ELSE LifeOf[c]]
  <2>1. \A c \in Connections :
          LifeOf'[c] = IF c \in S THEN "destroyed" ELSE LifeOf[c]
    BY <1>1, <1>5
  <2> QED BY <1>4, <2>1
<1>9. Life!LetGo(S, T) <=>
        /\ \A c \in S : /\ LifeOf[c] = "alive"
                        /\ \/ ToldOf[c] = Life!Whole
                           \/ Closing /\ c \in ShutOf \cup CutOf
        /\ T # {} => Closing
        /\ LifeOf' = [c \in Connections |->
                        IF c \in S THEN "destroyed" ELSE LifeOf[c]]
        /\ CutOf' = CutOf \cup T
        /\ ToldOf' = ToldOf /\ ShutOf' = ShutOf /\ Closing' = Closing
  BY DEF Life!LetGo, LifeOf, ToldOf, ShutOf, CutOf, Closing
<1>10. Life!LetGo(S, T) BY <1>3, <1>5, <1>6, <1>7, <1>8, <1>9
<1> QED BY <1>10 DEF LifeStep, Life!Next

\* Queueing a functor, which holds its connection.
LEMMA HeldGrows ==
  ASSUME TypeOK, NEW m \in Loops, NEW f \in FunctorRecords,
         pending' = [pending EXCEPT ![m] = Append(@, f)], batch' = batch
  PROVE  /\ HeldBy(m)' = HeldBy(m) \cup {f.conn}
         /\ \A l \in Loops \ {m} : HeldBy(l)' = HeldBy(l)
<1>1. pending[m] \in Seq(FunctorRecords) BY DEF TypeOK
<1>2. /\ pending'[m] = Append(pending[m], f)
      /\ \A l \in Loops \ {m} : pending'[l] = pending[l]
  BY DEF TypeOK
<1>3. ToSet(pending'[m]) = ToSet(pending[m]) \cup {f}
  BY <1>1, <1>2, AppendQueue
<1>4. HeldBy(m)' = HeldBy(m) \cup {f.conn} BY Zenon, <1>3 DEF HeldBy
<1>5. \A l \in Loops \ {m} : HeldBy(l)' = HeldBy(l) BY <1>2 DEF HeldBy
<1> QED BY <1>4, <1>5

\* Who is alive decides the life of a connection that exists.
LEMMA SameLife ==
  ASSUME \A c \in Connections :
           /\ conn'[c].loop_ = conn[c].loop_
           /\ conn[c].loop_ # NoLoop => (Alive(c)' <=> Alive(c))
  PROVE  LifeOf' = LifeOf
BY Zenon DEF LifeOf

\* No loop ends, and no connection changes its loop.
LEMMA SameCut ==
  ASSUME \A c \in Connections : conn'[c].loop_ = conn[c].loop_,
         \A l \in PoolLoops : phase'[l] \in {"stopped", "destroyed"}
                              <=> phase[l] \in {"stopped", "destroyed"}
  PROVE  CutOf' = CutOf
<1>1. \A c \in Connections : LoopEnded(c)' <=> LoopEnded(c) BY DEF LoopEnded
<1> QED BY Zenon, <1>1 DEF CutOf

\* One connection changes, and stays in its loop.
LEMMA OneChanges ==
  ASSUME TypeOK, NEW c \in Connections, NEW k, conn' = [conn EXCEPT ![c] = k],
         k.loop_ = conn[c].loop_
  PROVE  /\ conn'[c] = k
         /\ \A d \in Connections : conn'[d].loop_ = conn[d].loop_
         /\ \A d \in Connections \ {c} : conn'[d] = conn[d]
         /\ ToldOf' = [ToldOf EXCEPT ![c] = k.told]
         /\ k.told = conn[c].told => ToldOf' = ToldOf
         /\ Shutting(k) => ShutOf' = ShutOf \cup {c}
         /\ ~Shutting(k) => ShutOf' = ShutOf \ {c}
         /\ (Shutting(k) <=> Shutting(conn[c])) => ShutOf' = ShutOf
<1>1. conn'[c] = k /\ \A d \in Connections : d # c => conn'[d] = conn[d]
  BY DEF TypeOK
<1>2. \A d \in Connections :
        conn'[d].told = IF d = c THEN k.told ELSE conn[d].told
  BY <1>1
<1>3. ToldOf' = [d \in Connections |-> conn'[d].told] BY DEF ToldOf
<1>4. ToldOf' = [ToldOf EXCEPT ![c] = k.told] BY <1>2, <1>3 DEF ToldOf
<1>5. k.told = conn[c].told => ToldOf' = ToldOf BY <1>2, <1>3 DEF ToldOf
<1>6. \A d \in Connections : /\ d \in ShutOf <=> Shutting(conn[d])
                             /\ d \in ShutOf' <=> Shutting(conn'[d])
  BY DEF ShutOf, ShutByUser, Shutting
<1>7. ShutOf \subseteq Connections /\ ShutOf' \subseteq Connections
  BY DEF ShutOf
<1>8. \A d \in Connections \ {c} : d \in ShutOf' <=> d \in ShutOf
  BY Zenon, <1>1, <1>6
<1>9. (c \in ShutOf' <=> Shutting(k)) /\ (c \in ShutOf <=> Shutting(conn[c]))
  BY Zenon, <1>1, <1>6
<1> QED BY <1>1, <1>4, <1>5, <1>7, <1>8, <1>9

\* What the thread of the server does outside its loop is not seen, except that
\* the destructor begins.
LEMMA OwnerLife ==
  ASSUME LifeInv, OwnerStep \/ UNCHANGED vars
  PROVE  LifeStep
<1>1. /\ UNCHANGED <<conn, connections_, pending, batch>>
      /\ Closing' = Closing \/ Closing' = TRUE
  BY DEF OwnerStep, SetThreadNum, Start, BaseLoops, BaseQuits, BeginDestroy,
         BeginJoin, QuitThread, JoinThread, EndDestroy, vars, loopVars, Closing
<1>2. \A c \in Connections : Alive(c)' <=> Alive(c) BY <1>1 DEF Alive, HeldBy
<1>3. LifeOf' = LifeOf /\ ToldOf' = ToldOf /\ ShutOf' = ShutOf
  BY <1>1, <1>2, SameLife DEF ToldOf, ShutOf, ShutByUser
<1>4. CutOf' = CutOf
  <2>1. TypeOK /\ PhaseInv BY DEF LifeInv, ServerInv
  <2>2. \A l \in PoolLoops : phase'[l] \in {"stopped", "destroyed"}
                             <=> phase[l] \in {"stopped", "destroyed"}
    <3>1. CASE Start BY <2>1, <3>1, BaseIsLoop DEF Start, PhaseInv
    <3>2. CASE BaseLoops BY <2>1, <3>2, BaseIsLoop DEF BaseLoops, TypeOK
    <3>3. CASE UNCHANGED phase BY <3>3
    <3> QED
      BY <3>1, <3>2, <3>3
      DEF OwnerStep, SetThreadNum, BaseQuits, BeginDestroy, BeginJoin,
          QuitThread, JoinThread, EndDestroy, vars, loopVars
  <2> QED BY <1>1, <2>2, SameCut
<1>5. CASE Closing' = Closing BY <1>3, <1>4, <1>5, Unseen
<1>6. CASE Closing' = TRUE
  <2>1. Life!Close <=> /\ Closing' = TRUE
                       /\ LifeOf' = LifeOf /\ ToldOf' = ToldOf
                       /\ ShutOf' = ShutOf /\ CutOf' = CutOf
    BY DEF Life!Close, LifeOf, ToldOf, ShutOf, CutOf, Closing
  <2> QED BY <1>3, <1>4, <1>6, <2>1 DEF LifeStep, Life!Next
<1> QED BY <1>1, <1>5, <1>6

\* A new connection, told of at once in the base loop.
LEMMA NewConnectionLife ==
  ASSUME LifeInv, NewConnection
  PROVE  LifeStep
<1> DEFINE k == [Unborn EXCEPT !.loop_ = NextLoop]
<1>1. /\ TypeOK /\ PhaseInv
      /\ NextLoop \in Loops /\ (NextLoop # Base => NextLoop \in PoolLoops)
      /\ NoLoop \notin Loops /\ NoLoop \notin PoolLoops
  BY NextLoopType, ServerAssumption DEF LifeInv, ServerInv, Loops
<1>2. PICK c \in Connections : c = nextConnId_
  BY <1>1, ServerAssumption DEF NewConnection, TypeOK, Connections
<1>3. conn[c] = Unborn
  <2>1. c >= nextConnId_ BY <1>2, ServerAssumption DEF Connections
  <2> QED BY <2>1 DEF LifeInv, ServerInv, NameInv
<1>4. /\ k \in ConnectionRecords /\ k.loop_ = NextLoop /\ k.told = <<>>
      /\ k.state_ = "kConnecting" /\ ~k.ending
      /\ Unborn.told = <<>> /\ Unborn.loop_ = NoLoop
      /\ Unborn.state_ = "kConnecting" /\ ~Unborn.ending
  BY <1>1, UnbornType DEF Unborn
<1>5. /\ ConnectEstablished(k).loop_ = NextLoop
      /\ ConnectEstablished(k).told = <<"UP">>
      /\ ConnectEstablished(k).state_ = "kConnected"
      /\ ConnectEstablished(k).ending = k.ending
  BY <1>4, ConnectionSteps, ToldSteps
<1>6. PICK h \in {k, ConnectEstablished(k)} : conn' = [conn EXCEPT ![c] = h]
  BY <1>2 DEF NewConnection
<1>7. /\ h.loop_ = NextLoop /\ h.told \in {<<>>, <<"UP">>}
      /\ h.state_ # "kDisconnecting" /\ ~h.ending
  <2>1. CASE h = k BY <1>4, <2>1
  <2>2. CASE h = ConnectEstablished(k) BY <1>4, <1>5, <2>2
  <2> QED BY <1>6, <2>1, <2>2
<1>8. conn'[c] = h /\ \A d \in Connections : d # c => conn'[d] = conn[d]
  BY <1>1, <1>6 DEF TypeOK
<1> HIDE DEF k
<1>9. \A l \in Loops : \A d \in Connections \ {c} : d \in HeldBy(l)' <=> d \in HeldBy(l)
  <2>1. CASE NextLoop = Base BY <2>1 DEF NewConnection, HeldBy
  <2>2. CASE NextLoop # Base
    <3>1. PICK m \in Loops : m = NextLoop BY <1>1
    <3>2. PICK f \in FunctorRecords :
            f = Functor("connectEstablished", c) /\ f.conn = c
      BY FunctorType DEF Ops
    <3>3. pending' = [pending EXCEPT ![m] = Append(@, f)] /\ batch' = batch
      BY <1>2, <2>2, <3>1, <3>2 DEF NewConnection
    <3>4. /\ HeldBy(m)' = HeldBy(m) \cup {c}
          /\ \A l \in Loops \ {m} : HeldBy(l)' = HeldBy(l)
      BY <1>1, <3>2, <3>3, HeldGrows
    <3> QED BY <3>4
  <2> QED BY <2>1, <2>2
<1>10. connections_' = connections_ \cup {c} BY <1>2 DEF NewConnection
<1>11. /\ Alive(c)'
       /\ \A d \in Connections \ {c} : Alive(d)' <=> Alive(d)
  BY <1>8, <1>9, <1>10 DEF Alive
<1>12. Closing' = Closing /\ ~Closing /\ phase' = phase
  BY DEF NewConnection, Closing
<1>13. LifeOf[c] = "absent" BY <1>3, <1>4 DEF LifeOf
<1>14. LifeOf' = [LifeOf EXCEPT ![c] = "alive"]
  <2>1. \A d \in Connections :
          LifeOf'[d] = IF d = c THEN "alive" ELSE LifeOf[d]
    BY <1>1, <1>7, <1>8, <1>11 DEF LifeOf
  <2>2. LifeOf' = [d \in Connections |-> LifeOf'[d]] BY DEF LifeOf
  <2> QED BY <2>1, <2>2 DEF LifeOf
<1>15. ToldOf' = [ToldOf EXCEPT ![c] = h.told]
  <2>1. \A d \in Connections :
          ToldOf'[d] = IF d = c THEN h.told ELSE ToldOf[d]
    BY <1>8 DEF ToldOf
  <2>2. ToldOf' = [d \in Connections |-> ToldOf'[d]] BY DEF ToldOf
  <2> QED BY <2>1, <2>2 DEF ToldOf
<1>16. ShutOf' = ShutOf
  <2>1. ~ShutByUser(c) /\ ~ShutByUser(c)'
    BY <1>3, <1>4, <1>7, <1>8 DEF ShutByUser
  <2>2. \A d \in Connections \ {c} : ShutByUser(d)' <=> ShutByUser(d)
    BY <1>8 DEF ShutByUser
  <2> QED BY <2>1, <2>2 DEF ShutOf
<1>17. CutOf' = CutOf
  <2>1. ~LoopEnded(c) BY <1>1, <1>3, <1>4 DEF LoopEnded
  <2>2. ~LoopEnded(c)'
    <3>1. Up BY <1>12 DEF Closing, Up
    <3> QED BY <1>1, <1>7, <1>8, <1>12, <3>1 DEF LoopEnded, PhaseInv
  <2>3. \A d \in Connections \ {c} : LoopEnded(d)' <=> LoopEnded(d)
    BY <1>8, <1>12 DEF LoopEnded
  <2> QED BY <2>1, <2>2, <2>3 DEF CutOf
<1>18. Life!Accept(c) <=>
         /\ LifeOf[c] = "absent"
         /\ LifeOf' = [LifeOf EXCEPT ![c] = "alive"]
         /\ \E t \in {<<>>, <<"UP">>} : ToldOf' = [ToldOf EXCEPT ![c] = t]
         /\ ShutOf' = ShutOf /\ CutOf' = CutOf /\ Closing' = Closing
  BY DEF Life!Accept, LifeOf, ToldOf, ShutOf, CutOf, Closing
<1> QED
  BY <1>7, <1>12, <1>13, <1>14, <1>15, <1>16, <1>17, <1>18
  DEF LifeStep, Life!Next

\* A connection that is up has been told so, and no more.
LEMMA UpIsTold ==
  ASSUME LifeInv, NEW c \in Connections, conn[c].state_ = "kConnected"
  PROVE  conn[c].index_ = "kAdded" /\ conn[c].told = <<"UP">>
<1>1. conn[c] \in ConnectionRecords BY DEF LifeInv, ServerInv, TypeOK
<1>2. conn[c].index_ \in {"kNew", "kAdded", "kDeleted", "removed"}
  BY <1>1 DEF ConnectionRecords
<1> QED BY <1>2 DEF LifeInv, ToldInv, ToldOK

\* A connection that leaves the map for a functor stays alive.
LEMMA QueuedLife ==
  ASSUME TypeOK, NEW m \in Loops, NEW f \in FunctorRecords,
         NEW c \in Connections, f.conn = c,
         pending' = [pending EXCEPT ![m] = Append(@, f)], batch' = batch,
         connections_' \in {connections_, connections_ \ {c}},
         \A d \in Connections \ {c} : conn'[d] = conn[d]
  PROVE  /\ Alive(c)'
         /\ \A d \in Connections \ {c} : Alive(d)' <=> Alive(d)
<1>1. /\ HeldBy(m)' = HeldBy(m) \cup {c}
      /\ \A l \in Loops \ {m} : HeldBy(l)' = HeldBy(l)
  BY HeldGrows
<1> QED BY <1>1 DEF Alive

\* The user begins to shut down a connection, and holds it for that time.
LEMMA ShutdownLife ==
  ASSUME LifeInv, LifeInv', NEW c \in Connections,
         ShutdownTests(c) \/ ShutdownStores(c)
  PROVE  LifeStep
<1>1. TypeOK /\ conn[c] \in ConnectionRecords /\ conn'[c] \in ConnectionRecords
  BY DEF LifeInv, ServerInv, TypeOK
<1>2. PICK k \in ConnectionRecords :
        /\ conn[c].loop_ # NoLoop
        /\ conn' = [conn EXCEPT ![c] = k]
        /\ k.loop_ = conn[c].loop_ /\ k.told = conn[c].told
        /\ \/ /\ conn[c].state_ = "kConnected" /\ k.state_ = "kConnected"
              /\ k.ending
           \/ conn[c].ending /\ ~k.ending /\ k.state_ = "kDisconnecting"
  BY <1>1, ShutdownSteps DEF LifeInv, ServerInv
<1>3. /\ conn'[c] = k /\ ToldOf' = ToldOf
      /\ \A d \in Connections : conn'[d].loop_ = conn[d].loop_
      /\ \A d \in Connections \ {c} : conn'[d] = conn[d]
      /\ Shutting(k) => ShutOf' = ShutOf \cup {c}
      /\ (Shutting(k) <=> Shutting(conn[c])) => ShutOf' = ShutOf
  BY <1>1, <1>2, OneChanges
<1>4. UNCHANGED <<server, connections_, phase, pending, batch>>
  BY DEF ShutdownTests, ShutdownStores, loopVars
<1>5. \A d \in Connections \ {c} : Alive(d)' <=> Alive(d)
  BY <1>3, <1>4 DEF Alive, HeldBy
<1>6. CASE ShutdownTests(c)
  <2>1. Alive(c) /\ conn[c].state_ = "kConnected" BY <1>6 DEF ShutdownTests
  <2>2. conn[c].told = <<"UP">> /\ conn[c].told # <<"UP", "DOWN">>
    BY <2>1, UpIsTold, Heard
  <2>3. k.ending
    <3>1. conn'[c].ending BY <1>1, <1>6 DEF ShutdownTests, TypeOK, ConnectionRecords
    <3> QED BY <1>3, <3>1
  <2>4. ShutOf' = ShutOf \cup {c} BY <1>2, <1>3, <2>2, <2>3 DEF Shutting
  <2>5. Alive(c)' BY <1>3, <2>3 DEF Alive
  <2>6. LifeOf' = LifeOf BY <1>3, <1>5, <2>1, <2>5, SameLife
  <2>7. LifeOf[c] = "alive" /\ ToldOf[c] = <<"UP">>
    BY <1>2, <2>1, <2>2 DEF LifeOf, ToldOf
  <2>8. CutOf' = CutOf /\ Closing' = Closing
    BY <1>3, <1>4, SameCut DEF Closing
  <2>9. Life!ShutDown(c) <=>
          /\ LifeOf[c] = "alive" /\ ToldOf[c] = <<"UP">>
          /\ ShutOf' = ShutOf \cup {c}
          /\ LifeOf' = LifeOf /\ ToldOf' = ToldOf /\ CutOf' = CutOf
          /\ Closing' = Closing
    BY DEF Life!ShutDown, LifeOf, ToldOf, ShutOf, CutOf, Closing
  <2> QED BY <1>3, <2>4, <2>6, <2>7, <2>8, <2>9 DEF LifeStep, Life!Next
<1>7. CASE ShutdownStores(c)
  <2>1. conn[c].ending /\ Alive(c) BY <1>7 DEF ShutdownStores, Alive
  <2>2. k.state_ = "kDisconnecting"
    <3>1. conn'[c].state_ = "kDisconnecting"
      BY <1>1, <1>7 DEF ShutdownStores, TypeOK, ConnectionRecords
    <3> QED BY <1>3, <3>1
  <2>3. Shutting(k) <=> Shutting(conn[c]) BY <1>2, <2>1, <2>2 DEF Shutting
  <2>4. \A d \in Connections : Alive(d)' => Alive(d) BY <1>5, <2>1
  <2> QED BY <1>3, <1>4, <2>3, <2>4, LetGo
<1> QED BY <1>6, <1>7

\* DOWN, while the map or the queued functor holds the connection.
LEMMA HandleCloseLife ==
  ASSUME LifeInv, NEW c \in Connections, HandleClose(c)
  PROVE  LifeStep
<1>1. TypeOK /\ conn[c] \in ConnectionRecords /\ NoLoop \notin Loops
  BY ServerAssumption DEF LifeInv, ServerInv, TypeOK
<1>2. PICK k \in ConnectionRecords :
        /\ k = Closed(conn[c])
        /\ k.loop_ = conn[c].loop_
        /\ k.told = Life!Whole
        /\ conn[c].told = <<"UP">>
  BY <1>1, ConnectionSteps, ToldSteps DEF LifeInv, ToldInv, ToldOK, HandleClose
<1>3. conn' = [conn EXCEPT ![c] = k] BY <1>2 DEF HandleClose
<1>4. ~Shutting(k) BY <1>2, Heard DEF Shutting
<1>5. /\ ToldOf' = [ToldOf EXCEPT ![c] = Life!Whole]
      /\ ToldOf[c] = <<"UP">> /\ ShutOf' = ShutOf \ {c}
      /\ \A d \in Connections : conn'[d].loop_ = conn[d].loop_
      /\ \A d \in Connections \ {c} : conn'[d] = conn[d]
  BY <1>1, <1>2, <1>3, <1>4, OneChanges DEF ToldOf
<1>6. Alive(c)
  <2>1. /\ conn[c].loop_ # NoLoop /\ phase[conn[c].loop_] # "destroyed"
        /\ conn[c].index_ \in {"kAdded", "kDeleted"}
    BY DEF HandleClose
  <2>2. RegisteredAlive BY PolledIsAlive DEF LifeInv
  <2> QED BY <2>1, <2>2 DEF RegisteredAlive
<1>7. /\ Alive(c)'
      /\ \A d \in Connections \ {c} : Alive(d)' <=> Alive(d)
  <2>1. PICK m \in Loops : m = Base BY BaseIsLoop
  <2>2. PICK f \in FunctorRecords :
          /\ f.conn = c
          /\ pending' = [pending EXCEPT ![m] = Append(@, f)]
    BY <2>1, FunctorType DEF HandleClose, Ops
  <2>3. batch' = batch /\ connections_' \in {connections_, connections_ \ {c}}
    BY DEF HandleClose
  <2> QED BY <1>1, <1>5, <2>2, <2>3, QueuedLife
<1>8. LifeOf' = LifeOf BY <1>5, <1>6, <1>7, SameLife
<1>9. LifeOf[c] = "alive" BY <1>6 DEF LifeOf, HandleClose
<1>10. Closing' = Closing /\ CutOf' = CutOf
  BY <1>5, SameCut DEF HandleClose, Closing
<1> QED BY <1>5, <1>8, <1>9, <1>10, OneTold

\* The destructor tells of a connection of the base loop, and queues the others.
LEMMA DestroyConnectionLife ==
  ASSUME LifeInv, LifeInv', NEW c \in Connections, DestroyConnection(c)
  PROVE  LifeStep
<1>1. TypeOK /\ conn[c] \in ConnectionRecords /\ NoLoop \notin Loops
  BY ServerAssumption DEF LifeInv, ServerInv, TypeOK
<1>2. /\ Closing /\ Closing' = Closing /\ UNCHANGED <<server, phase, batch>>
      /\ connections_' = connections_ \ {c}
  BY DEF DestroyConnection, Closing
<1>3. Alive(c) /\ conn[c].loop_ # NoLoop /\ LifeOf[c] = "alive"
  BY DEF DestroyConnection, Alive, LifeInv, ServerInv, NameInv, LifeOf
<1>4. CASE conn[c].loop_ # Base
  <2>1. PICK m \in Loops : m = conn[c].loop_
    BY <1>1, <1>3 DEF ConnectionRecords
  <2>2. PICK f \in FunctorRecords :
          /\ f.conn = c
          /\ pending' = [pending EXCEPT ![m] = Append(@, f)]
    BY <1>4, <2>1, FunctorType DEF DestroyConnection, Ops
  <2>3. conn' = conn BY <1>4 DEF DestroyConnection
  <2>4. /\ Alive(c)'
        /\ \A d \in Connections \ {c} : Alive(d)' <=> Alive(d)
    BY <1>1, <1>2, <2>2, <2>3, QueuedLife
  <2>5. LifeOf' = LifeOf BY <1>3, <2>3, <2>4, SameLife
  <2>6. ToldOf' = ToldOf /\ ShutOf' = ShutOf
    BY <2>3 DEF ToldOf, ShutOf, ShutByUser
  <2>7. CutOf' = CutOf BY <1>2, <2>3, SameCut
  <2> QED BY <1>2, <2>5, <2>6, <2>7, Unseen
<1>5. CASE conn[c].loop_ = Base
  <2>1. PICK k \in ConnectionRecords :
          k = ConnectDestroyed(conn[c]) /\ k.loop_ = conn[c].loop_
    BY <1>1, ConnectionSteps
  <2>2. conn' = [conn EXCEPT ![c] = k] /\ pending' = pending
    BY <1>5, <2>1 DEF DestroyConnection
  <2>3. /\ ToldOf' = [ToldOf EXCEPT ![c] = k.told]
        /\ k.told = conn[c].told => ToldOf' = ToldOf
        /\ conn'[c].loop_ # NoLoop
        /\ \A d \in Connections : conn'[d].loop_ = conn[d].loop_
        /\ \A d \in Connections \ {c} : conn'[d] = conn[d]
        /\ ~Shutting(k) => ShutOf' = ShutOf \ {c}
        /\ (Shutting(k) <=> Shutting(conn[c])) => ShutOf' = ShutOf
    BY <1>1, <1>3, <2>1, <2>2, OneChanges
  <2>4. \A d \in Connections \ {c} : Alive(d)' <=> Alive(d)
    BY <1>2, <2>2, <2>3 DEF Alive, HeldBy
  <2>5. CutOf' = CutOf BY <1>2, <2>3, SameCut
  <2>6. CASE conn[c].state_ # "kConnected"
    <3>1. /\ k.told = conn[c].told /\ k.state_ = conn[c].state_
          /\ k.ending = conn[c].ending
      BY <1>1, <2>1, <2>6, ToldSteps
    <3>2. Shutting(k) <=> Shutting(conn[c]) BY <3>1 DEF Shutting
    <3>3. \A d \in Connections : Alive(d)' => Alive(d) BY <1>3, <2>4
    <3> QED BY <1>2, <2>3, <3>1, <3>2, <3>3, LetGo
  <2>7. CASE conn[c].state_ = "kConnected"
    <3>1. ToldOf[c] = <<"UP">> BY <2>7, UpIsTold DEF ToldOf
    <3>2. k.told = Life!Whole BY <1>1, <2>1, <2>7, UpIsTold, ToldSteps
    <3>3. ToldOf' = [ToldOf EXCEPT ![c] = Life!Whole] BY <2>3, <3>2
    <3>4. ShutOf' = ShutOf \ {c} BY <2>3, <3>2, Heard DEF Shutting
    <3>5. CASE Alive(c)'
      <4>1. LifeOf' = LifeOf BY <1>3, <2>3, <2>4, <3>5, SameLife
      <4> QED BY <1>2, <1>3, <2>5, <3>1, <3>3, <3>4, <4>1, OneTold
    <3>6. CASE ~Alive(c)'
      <4>1. LifeOf' = [LifeOf EXCEPT ![c] = "destroyed"]
        <5>1. \A d \in Connections :
                LifeOf'[d] = IF d = c THEN "destroyed" ELSE LifeOf[d]
          BY <2>3, <2>4, <3>6 DEF LifeOf
        <5>2. LifeOf' = [d \in Connections |-> LifeOf'[d]] BY DEF LifeOf
        <5> QED BY <5>1, <5>2 DEF LifeOf
      <4>2. Life!CloseOne(c) <=>
              /\ Closing
              /\ LifeOf[c] = "alive"
              /\ ToldOf[c] = <<"UP">>
              /\ ToldOf' = [ToldOf EXCEPT ![c] = Life!Whole]
              /\ LifeOf' = [LifeOf EXCEPT ![c] = "destroyed"]
              /\ ShutOf' = ShutOf \ {c}
              /\ CutOf' = CutOf /\ Closing' = Closing
        BY DEF Life!CloseOne, LifeOf, ToldOf, ShutOf, CutOf, Closing
      <4> QED
        BY Zenon, <1>2, <1>3, <2>5, <3>1, <3>3, <3>4, <4>1, <4>2
        DEF LifeStep, Life!Next
    <3> QED BY <3>5, <3>6
  <2> QED BY <2>6, <2>7
<1> QED BY <1>4, <1>5

\* A functor holds its connection while it runs.
LEMMA RunFunctorLife ==
  ASSUME LifeInv, NEW l \in Loops, RunFunctor(l)
  PROVE  LifeStep
<1>1. ServerInv /\ TypeOK /\ NoLoop \notin Loops
  BY ServerAssumption DEF LifeInv, ServerInv
<1>2. PICK f \in FunctorRecords :
        /\ f = batch[l][ran[l] + 1] /\ f \in ToSet(batch[l])
        /\ f.conn \in Connections /\ conn[f.conn].loop_ \in Loops
        /\ FunctorOK(l, f)
  BY <1>1, NextFunctor
<1>3. PICK c \in Connections : c = f.conn BY <1>2
<1>4. conn[c] \in ConnectionRecords /\ conn[c].loop_ # NoLoop
  BY <1>1, <1>2, <1>3 DEF TypeOK
<1>5. c \in HeldBy(l) BY <1>2, <1>3 DEF HeldBy
<1>6. Alive(c) /\ LifeOf[c] = "alive" BY <1>4, <1>5 DEF Alive, LifeOf
<1>7. UNCHANGED <<batch, phase>> /\ Closing' = Closing
  BY DEF RunFunctor, Closing
<1>8. ASSUME NEW k \in ConnectionRecords, conn' = [conn EXCEPT ![c] = k],
             k.loop_ = conn[c].loop_, UNCHANGED <<connections_, pending>>,
             k.ending = conn[c].ending,
             \/ k.told = conn[c].told /\ k.state_ = conn[c].state_
             \/ /\ conn[c].told = <<>> /\ k.told = <<"UP">>
                /\ ~Shutting(conn[c]) /\ ~Shutting(k)
             \/ conn[c].told = <<"UP">> /\ k.told = Life!Whole
      PROVE  LifeStep
  <2>1. /\ conn'[c] = k
        /\ ToldOf' = [ToldOf EXCEPT ![c] = k.told]
        /\ k.told = conn[c].told => ToldOf' = ToldOf
        /\ \A d \in Connections : conn'[d].loop_ = conn[d].loop_
        /\ \A d \in Connections \ {c} : conn'[d] = conn[d]
        /\ ~Shutting(k) => ShutOf' = ShutOf \ {c}
        /\ (Shutting(k) <=> Shutting(conn[c])) => ShutOf' = ShutOf
    BY <1>1, <1>8, OneChanges
  <2>2. \A d \in Connections : conn'[d].ending = conn[d].ending
    BY <1>8, <2>1
  <2>3. \A d \in Connections : Alive(d)' <=> Alive(d)
    BY <1>7, <1>8, <2>2 DEF Alive, HeldBy
  <2>4. LifeOf' = LifeOf /\ CutOf' = CutOf BY <1>7, <2>1, <2>3, SameLife, SameCut
  <2>5. ToldOf[c] = conn[c].told BY DEF ToldOf
  <2>6. CASE k.told = conn[c].told /\ k.state_ = conn[c].state_
    <3>1. Shutting(k) <=> Shutting(conn[c]) BY <1>8, <2>6 DEF Shutting
    <3> QED BY <1>7, <2>1, <2>4, <2>6, <3>1, Unseen
  <2>7. CASE /\ ToldOf[c] = <<>> /\ k.told = <<"UP">>
             /\ ~Shutting(conn[c]) /\ ~Shutting(k)
    <3>1. ShutOf' = ShutOf BY <2>1, <2>7
    <3> QED BY <1>6, <1>7, <2>1, <2>4, <2>7, <3>1, OneTold
  <2>8. CASE ToldOf[c] = <<"UP">> /\ k.told = Life!Whole
    <3>1. ShutOf' = ShutOf \ {c} BY <2>1, <2>8, Heard DEF Shutting
    <3> QED BY <1>6, <1>7, <2>1, <2>4, <2>8, <3>1, OneTold
  <2> QED BY <1>8, <2>5, <2>6, <2>7, <2>8
<1>9. CASE f.op = "connectEstablished" /\ RunEstablished(f.conn)
  <2>1. /\ conn[c].told = <<>> /\ conn[c].state_ = "kConnecting"
        /\ ~conn[c].ending
    BY <1>2, <1>3, <1>9 DEF FunctorOK, LifeInv, ToldInv, ToldOK
  <2>2. PICK k \in ConnectionRecords :
          /\ k = ConnectEstablished(conn[c])
          /\ k.loop_ = conn[c].loop_ /\ k.told = <<"UP">>
          /\ k.state_ = "kConnected" /\ k.ending = conn[c].ending
    BY <1>4, <2>1, ConnectionSteps, ToldSteps
  <2>3. ~Shutting(conn[c]) /\ ~Shutting(k) BY <2>1, <2>2 DEF Shutting
  <2> QED BY <1>3, <1>8, <1>9, <2>1, <2>2, <2>3 DEF RunEstablished
<1>10. CASE f.op = "connectDestroyed" /\ RunDestroyed(f.conn)
  <2>1. PICK k \in ConnectionRecords :
          /\ k = ConnectDestroyed(conn[c]) /\ k.loop_ = conn[c].loop_
          /\ k.ending = conn[c].ending
    BY <1>4, ConnectionSteps, ToldSteps
  <2>2. \/ k.told = conn[c].told /\ k.state_ = conn[c].state_
        \/ conn[c].told = <<"UP">> /\ k.told = Life!Whole
    BY <1>4, <2>1, UpIsTold, ToldSteps
  <2> QED BY <1>3, <1>8, <1>10, <2>1, <2>2 DEF RunDestroyed
<1>11. CASE RunRemove(f.conn)
  <2>1. PICK m \in Loops : m = conn[c].loop_ BY <1>2, <1>3
  <2>2. PICK g \in FunctorRecords :
          /\ g.conn = c
          /\ pending' = [pending EXCEPT ![m] = Append(@, g)]
    BY <1>3, <1>11, <2>1, FunctorType DEF RunRemove, Ops
  <2>3. conn' = conn /\ connections_' = connections_ \ {c}
    BY <1>3, <1>11 DEF RunRemove
  <2>4. /\ Alive(c)'
        /\ \A d \in Connections \ {c} : Alive(d)' <=> Alive(d)
    BY <1>1, <1>7, <2>2, <2>3, QueuedLife
  <2>5. LifeOf' = LifeOf BY <1>6, <2>3, <2>4, SameLife
  <2>6. ToldOf' = ToldOf /\ ShutOf' = ShutOf
    BY <2>3 DEF ToldOf, ShutOf, ShutByUser
  <2>7. CutOf' = CutOf BY <1>7, <2>3, SameCut
  <2> QED BY <1>7, <2>5, <2>6, <2>7, Unseen
<1> QED BY <1>2, <1>9, <1>10, <1>11 DEF RunFunctor

\* The other steps of a loop only drop functors, or end the loop.
LEMMA RoundLife ==
  ASSUME LifeInv, LifeInv', NEW l \in Loops,
         EnterLoop(l) \/ TakeFunctors(l) \/ FunctorsDone(l) \/ DestroyLoop(l)
  PROVE  LifeStep
<1>1. TypeOK /\ PhaseInv BY DEF LifeInv, ServerInv
<1>2. UNCHANGED <<conn, connections_, server>>
  BY DEF EnterLoop, TakeFunctors, FunctorsDone, DestroyLoop
<1>3. /\ \A o \in Loops \ {l} : pending'[o] = pending[o] /\ batch'[o] = batch[o]
      /\ ToSet(pending'[l]) \cup ToSet(batch'[l])
           \subseteq ToSet(pending[l]) \cup ToSet(batch[l])
  <2>1. ToSet(<<>>) = {} BY DEF ToSet
  <2>2. CASE TakeFunctors(l)
    BY <1>1, <2>1, <2>2 DEF TakeFunctors, TypeOK
  <2>3. CASE FunctorsDone(l)
    BY <1>1, <2>1, <2>3 DEF FunctorsDone, TypeOK
  <2>4. CASE DestroyLoop(l)
    BY <1>1, <2>1, <2>4 DEF DestroyLoop, TypeOK
  <2>5. CASE EnterLoop(l) BY <2>5 DEF EnterLoop
  <2> QED BY <2>2, <2>3, <2>4, <2>5
<1>4. \A o \in Loops : HeldBy(o)' \subseteq HeldBy(o)
  <2>1. HeldBy(l)' \subseteq HeldBy(l) BY <1>3 DEF HeldBy
  <2>2. \A o \in Loops \ {l} : HeldBy(o)' = HeldBy(o) BY <1>3 DEF HeldBy
  <2> QED BY <2>1, <2>2
<1>5. \A c \in Connections : Alive(c)' => Alive(c) BY <1>2, <1>4 DEF Alive
<1>6. ToldOf' = ToldOf /\ ShutOf' = ShutOf
  BY <1>2 DEF ToldOf, ShutOf, ShutByUser
<1>7. \A m \in PoolLoops :
        /\ phase[m] \in {"stopped", "destroyed"}
             => phase'[m] \in {"stopped", "destroyed"}
        /\ phase'[m] = "destroyed" => phase[m] \in {"stopped", "destroyed"}
  BY <1>1, BaseIsLoop
  DEF EnterLoop, TakeFunctors, FunctorsDone, DestroyLoop, TypeOK
<1> QED BY <1>2, <1>5, <1>6, <1>7, LetGo

\* At first nobody exists and nothing was told.
LEMMA InitLife == Init => ToldInv /\ Life!Init
<1> SUFFICES ASSUME Init PROVE ToldInv /\ Life!Init OBVIOUS
<1>1. /\ Unborn.index_ = "kNew" /\ Unborn.state_ = "kConnecting"
      /\ Unborn.told = <<>> /\ Unborn.loop_ = NoLoop /\ ~Unborn.ending
  BY DEF Unborn
<1>2. \A c \in Connections : conn[c] = Unborn BY DEF Init
<1>3. ToldInv BY <1>1, <1>2 DEF ToldInv, ToldOK
<1>4. LifeOf = [c \in Connections |-> "absent"] BY <1>1, <1>2 DEF LifeOf
<1>5. ToldOf = [c \in Connections |-> <<>>] BY <1>1, <1>2 DEF ToldOf
<1>6. Closing = FALSE BY DEF Init, Closing
<1>7. ShutOf = {} /\ CutOf = {}
  <2>1. Unborn.state_ = "kConnecting" /\ ~Unborn.ending BY DEF Unborn
  <2>2. NoLoop \notin PoolLoops BY ServerAssumption DEF Loops
  <2> QED BY <1>1, <1>2, <2>1, <2>2 DEF ShutOf, ShutByUser, CutOf, LoopEnded
<1>8. Life!Init <=> /\ LifeOf = [c \in Connections |-> "absent"]
                    /\ ToldOf = [c \in Connections |-> <<>>]
                    /\ ShutOf = {} /\ CutOf = {}
                    /\ Closing = FALSE
  BY DEF Life!Init, LifeOf, ToldOf, ShutOf, CutOf, Closing
<1> QED BY <1>3, <1>4, <1>5, <1>6, <1>7, <1>8

\* The user's view of the server, for every pool and any number of connections:
\* whatever loops do the work, the connection callback hears UP and then DOWN,
\* both while the TcpConnection exists; no TcpConnection is destroyed that has
\* not been told of in full, but by the server's destructor, and then only one
\* that the user was shutting down, or whose loop had ended.
THEOREM LifecycleCorrect == Spec => Lifecycle
<1>1. Init => LifeInv /\ Life!Init BY InitServer, InitLife DEF LifeInv
<1>2. LifeInv /\ [Next]_vars => LifeInv' BY NextServer, NextTold DEF LifeInv
<1>3. LifeInv /\ [Next]_vars => [Life!Next]_(Life!lifeVars)
  <2> SUFFICES ASSUME LifeInv, [Next]_vars PROVE LifeStep BY DEF LifeStep
  <2>0. LifeInv' BY <1>2
  <2>1. CASE OwnerStep \/ UNCHANGED vars BY <2>1, OwnerLife
  <2>2. CASE NewConnection BY <2>2, NewConnectionLife
  <2>3. ASSUME NEW c \in Connections, DestroyConnection(c) PROVE LifeStep
    BY <2>0, <2>3, DestroyConnectionLife
  <2>4. ASSUME NEW c \in Connections,
               ShutdownTests(c) \/ ShutdownStores(c) \/ HandleClose(c)
        PROVE  LifeStep
    BY <2>0, <2>4, ShutdownLife, HandleCloseLife
  <2>5. ASSUME NEW l \in Loops, LoopStep(l) PROVE LifeStep
    BY <2>0, <2>5, RunFunctorLife, RoundLife DEF LoopStep
  <2> QED
    BY <2>1, <2>2, <2>3, <2>4, <2>5 DEF Next, DestructorStep, OwnerStep
<1> QED BY <1>1, <1>2, <1>3, PTL DEF Spec, Lifecycle, Life!Spec

-----------------------------------------------------------------------------
(***************************************************************************)
(* Round robin.                                                            *)
(***************************************************************************)

\* The loops before next_ have been given one connection more than the others;
\* before start() there is no connection.
BalanceInv ==
  /\ server = "constructed" => \A c \in Connections : conn[c].loop_ = NoLoop
  /\ \E r \in Nat : \A i \in 1 .. Len(loops_) :
       Given(loops_[i]) = IF i <= next_ THEN r + 1 ELSE r

\* The pool has started its loops in their order, each once.
LEMMA LoopsDiffer ==
  ASSUME TypeOK
  PROVE  \A i, j \in 1 .. Len(loops_) : loops_[i] = loops_[j] => i = j
<1>1. PICK n \in Nat : n = numThreads_ /\ n <= Len(Pool)
  BY PoolType DEF TypeOK
<1>2. Len(Pool) \in Nat /\ \A i \in 1 .. Len(Pool) : Pool[i] \in PoolLoops
  BY ServerAssumption, LenProperties
<1>3. \A i \in 1 .. n : i \in 1 .. Len(Pool) /\ Pool[i] \in PoolLoops
  BY <1>1, <1>2
<1>4. /\ Len(SubSeq(Pool, 1, n)) = IF 1 <= n THEN n - 1 + 1 ELSE 0
      /\ \A i \in 1 .. n - 1 + 1 : SubSeq(Pool, 1, n)[i] = Pool[1 + i - 1]
  BY <1>1, <1>3, SubSeqProperties
<1>5. /\ Len(SubSeq(Pool, 1, n)) = n
      /\ \A i \in 1 .. n : SubSeq(Pool, 1, n)[i] = Pool[i]
  <2>1. n - 1 + 1 = n /\ ((IF 1 <= n THEN n - 1 + 1 ELSE 0) = n) BY <1>1
  <2>2. \A i \in 1 .. n : 1 + i - 1 = i BY <1>1
  <2> QED BY <1>4, <2>1, <2>2
<1>6. CASE loops_ = <<>>
  <2>1. Len(<<>>) = 0 OBVIOUS
  <2> QED BY <1>6, <2>1
<1>7. CASE loops_ = SubSeq(Pool, 1, n)
  BY <1>3, <1>5, <1>7, ServerAssumption
<1> QED BY <1>1, <1>6, <1>7 DEF TypeOK

\* The connections of a loop are counted by a natural number.
LEMMA GivenType ==
  ASSUME NEW l
  PROVE  /\ IsFiniteSet({c \in Connections : conn[c].loop_ = l})
         /\ Given(l) \in Nat
<1>1. IsFiniteSet(Connections)
  BY ServerAssumption, FS_Interval DEF Connections
<1>2. IsFiniteSet({c \in Connections : conn[c].loop_ = l}) BY <1>1, FS_Subset
<1> QED BY <1>2, FS_CardinalityType DEF Given

\* Only newConnection() gives a connection to a loop, and only start() makes
\* loops.
LEMMA OnlyNewConnectionGives ==
  ASSUME ServerInv, [Next]_vars, ~NewConnection
  PROVE  \A c \in Connections : conn'[c].loop_ = conn[c].loop_
<1>1. /\ TypeOK /\ \A c \in Connections : conn[c] \in ConnectionRecords
  BY DEF ServerInv, TypeOK
<1>2. ASSUME NEW c \in Connections, NEW k, conn' = [conn EXCEPT ![c] = k],
             k.loop_ = conn[c].loop_
      PROVE  \A d \in Connections : conn'[d].loop_ = conn[d].loop_
  BY <1>1, <1>2, OneChanges
<1>3. ASSUME NEW c \in Connections, DestroyConnection(c)
      PROVE  \A d \in Connections : conn'[d].loop_ = conn[d].loop_
  <2>1. PICK k : k = ConnectDestroyed(conn[c]) /\ k.loop_ = conn[c].loop_
    BY <1>1, ConnectionSteps
  <2>2. conn' = conn \/ conn' = [conn EXCEPT ![c] = k]
    BY <1>3, <2>1 DEF DestroyConnection
  <2> QED BY <1>2, <2>1, <2>2
<1>4. ASSUME NEW c \in Connections, ShutdownTests(c) \/ ShutdownStores(c)
      PROVE  \A d \in Connections : conn'[d].loop_ = conn[d].loop_
  <2>1. PICK k \in ConnectionRecords :
          conn' = [conn EXCEPT ![c] = k] /\ k.loop_ = conn[c].loop_
    BY <1>4, ShutdownSteps DEF ServerInv
  <2> QED BY <1>2, <2>1
<1>5. ASSUME NEW c \in Connections, HandleClose(c)
      PROVE  \A d \in Connections : conn'[d].loop_ = conn[d].loop_
  <2>1. PICK k : k = Closed(conn[c]) /\ k.loop_ = conn[c].loop_
    BY <1>1, ConnectionSteps
  <2>2. conn' = [conn EXCEPT ![c] = k] BY <1>5, <2>1 DEF HandleClose
  <2> QED BY <1>2, <2>1, <2>2
<1>6. ASSUME NEW l \in Loops, RunFunctor(l)
      PROVE  \A d \in Connections : conn'[d].loop_ = conn[d].loop_
  <2>1. PICK f \in FunctorRecords :
          f = batch[l][ran[l] + 1] /\ f.conn \in Connections
    BY <1>6, NextFunctor
  <2>2. PICK c \in Connections : c = f.conn BY <2>1
  <2>3. PICK k : k = ConnectEstablished(conn[c]) /\ k.loop_ = conn[c].loop_
    BY <1>1, ConnectionSteps
  <2>4. PICK h : h = ConnectDestroyed(conn[c]) /\ h.loop_ = conn[c].loop_
    BY <1>1, ConnectionSteps
  <2>5. \/ conn' = conn
        \/ conn' = [conn EXCEPT ![c] = k]
        \/ conn' = [conn EXCEPT ![c] = h]
    BY <1>6, <2>1, <2>2, <2>3, <2>4
    DEF RunFunctor, RunEstablished, RunDestroyed, RunRemove
  <2> QED BY <1>2, <2>3, <2>4, <2>5
<1>7. CASE conn' = conn BY <1>7
<1> QED
  BY <1>3, <1>4, <1>5, <1>6, <1>7
  DEF Next, DestructorStep, LoopStep, SetThreadNum, Start, BaseLoops,
      BaseQuits, BeginDestroy, BeginJoin, EndDestroy, QuitThread, JoinThread,
      EnterLoop, TakeFunctors, FunctorsDone, DestroyLoop, vars

\* newConnection() gives one connection to the loop whose turn it is.
LEMMA NewConnectionGives ==
  ASSUME ServerInv, NewConnection
  PROVE  \E m \in Loops : /\ m = NextLoop
                          /\ Given(m)' = Given(m) + 1
                          /\ \A l \in Loops \ {m} : Given(l)' = Given(l)
<1> DEFINE k == [Unborn EXCEPT !.loop_ = NextLoop]
<1>1. TypeOK /\ NextLoop \in Loops /\ NoLoop \notin Loops
  BY NextLoopType, ServerAssumption DEF ServerInv
<1>2. PICK c \in Connections : c = nextConnId_
  BY <1>1, ServerAssumption DEF NewConnection, TypeOK, Connections
<1>3. conn[c].loop_ = NoLoop
  <2>1. c >= nextConnId_ BY <1>2, ServerAssumption DEF Connections
  <2>2. conn[c] = Unborn BY <2>1 DEF ServerInv, NameInv
  <2> QED BY <2>2, UnbornType
<1>4. k \in ConnectionRecords /\ k.loop_ = NextLoop BY <1>1, UnbornType
<1>5. ConnectEstablished(k).loop_ = NextLoop BY <1>4, ConnectionSteps
<1>6. PICK h : h.loop_ = NextLoop /\ conn' = [conn EXCEPT ![c] = h]
  BY <1>2, <1>4, <1>5 DEF NewConnection
<1>7. /\ conn'[c].loop_ = NextLoop
      /\ \A d \in Connections : d # c => conn'[d] = conn[d]
  BY <1>1, <1>6 DEF TypeOK
<1> DEFINE Of(l) == {d \in Connections : conn[d].loop_ = l}
           OfNow(l) == {d \in Connections : conn'[d].loop_ = l}
<1> HIDE DEF k
<1>8. PICK m \in Loops : m = NextLoop BY <1>1
<1>9. OfNow(m) = Of(m) \cup {c} /\ c \notin Of(m)
  BY <1>1, <1>3, <1>7, <1>8
<1>10. ASSUME NEW l \in Loops \ {m} PROVE OfNow(l) = Of(l)
  BY <1>1, <1>3, <1>7, <1>8
<1>11. Cardinality(OfNow(m)) = Cardinality(Of(m)) + 1
  <2>1. IsFiniteSet(Of(m)) BY GivenType
  <2> HIDE DEF Of, OfNow
  <2> QED BY <1>9, <2>1, FS_AddElement
<1> QED BY <1>8, <1>10, <1>11 DEF Given

\* The turn goes round.
LEMMA NextBalance == ServerInv /\ BalanceInv /\ [Next]_vars => BalanceInv'
<1> SUFFICES ASSUME ServerInv, BalanceInv, [Next]_vars PROVE BalanceInv'
  OBVIOUS
<1>1. /\ TypeOK /\ PhaseInv /\ Len(loops_) \in Nat /\ next_ \in Nat
      /\ \A i \in 1 .. Len(loops_) : loops_[i] \in Loops
  <2>1. TypeOK /\ PhaseInv BY DEF ServerInv
  <2>2. /\ Len(loops_) \in Nat
        /\ \A i \in 1 .. Len(loops_) : loops_[i] \in PoolLoops
    BY <2>1, PoolType
  <2>3. next_ \in 0 .. Len(loops_) BY <2>1 DEF TypeOK
  <2>4. next_ \in Nat BY <2>2, <2>3
  <2>5. \A i \in 1 .. Len(loops_) : loops_[i] \in Loops BY <2>2, BaseIsLoop
  <2> QED BY <2>1, <2>2, <2>4, <2>5
<1>2. PICK r \in Nat : \A i \in 1 .. Len(loops_) :
        Given(loops_[i]) = IF i <= next_ THEN r + 1 ELSE r
  BY DEF BalanceInv
<1>3. CASE NewConnection
  <2>1. UNCHANGED <<server, loops_>> /\ server = "started" /\ next_' = NextIndex
    BY <1>3 DEF NewConnection
  <2>2. CASE loops_ = <<>>
    <3>1. Len(<<>>) = 0 OBVIOUS
    <3> QED BY <2>1, <2>2, <3>1 DEF BalanceInv
  <2>3. CASE loops_ # <<>>
    <3>1. PICK t \in Nat : t = next_ /\ t < Len(loops_)
      BY <1>1, <2>3 DEF TypeOK
    <3>2. PICK n \in Nat : n = Len(loops_) BY <1>1
    <3>3. t + 1 \in 1 .. n BY <3>1, <3>2
    <3>4. NextLoop = loops_[t + 1] BY <2>3, <3>1 DEF NextLoop
    <3>5. next_' = IF t + 1 >= n THEN 0 ELSE t + 1
      BY <2>1, <2>3, <3>1, <3>2 DEF NextIndex
    <3>6. PICK m \in Loops : /\ m = NextLoop
                             /\ Given(m)' = Given(m) + 1
                             /\ \A l \in Loops \ {m} : Given(l)' = Given(l)
      BY <1>3, NewConnectionGives
    <3>7. ASSUME NEW i \in 1 .. n, NEW l, l = loops_[i]
          PROVE  Given(l)' = IF i <= t + 1 THEN r + 1 ELSE r
      <4>1. Given(l) = IF i <= t THEN r + 1 ELSE r
        BY <1>2, <3>1, <3>2, <3>7
      <4>2. CASE i = t + 1
        <5>1. Given(l) = r BY <3>1, <4>1, <4>2
        <5>2. l = m BY <3>4, <3>6, <3>7, <4>2
        <5> QED BY <3>1, <3>6, <4>2, <5>1, <5>2
      <4>3. CASE i # t + 1
        <5>1. l # m /\ l \in Loops
          BY <1>1, <3>2, <3>3, <3>4, <3>6, <3>7, <4>3, LoopsDiffer
        <5>2. Given(l)' = Given(l) BY <3>6, <5>1
        <5>3. i <= t <=> i <= t + 1 BY <3>1, <3>2, <4>3
        <5> QED BY <4>1, <5>2, <5>3
      <4> QED BY <4>2, <4>3
    <3>8. CASE t + 1 >= n
      <4>1. \A i \in 1 .. n : i <= t + 1 /\ ~(i <= 0) BY <3>1, <3>2, <3>8
      <4>2. next_' = 0 BY <3>5, <3>8
      <4>3. PICK q \in Nat : q = r + 1 OBVIOUS
      <4>4. \A i \in 1 .. Len(loops_)' :
              Given(loops_[i])' = IF i <= next_' THEN q + 1 ELSE q
        BY <2>1, <3>2, <3>7, <4>1, <4>2, <4>3
      <4> QED BY <2>1, <4>4 DEF BalanceInv
    <3>9. CASE ~(t + 1 >= n)
      <4>1. next_' = t + 1 BY <3>5, <3>9
      <4>2. \A i \in 1 .. Len(loops_)' :
              Given(loops_[i])' = IF i <= next_' THEN r + 1 ELSE r
        BY <2>1, <3>2, <3>7, <4>1
      <4> QED BY <2>1, <4>2 DEF BalanceInv
    <3> QED BY <3>8, <3>9
  <2> QED BY <2>2, <2>3
<1>4. CASE ~NewConnection
  <2>1. \A c \in Connections : conn'[c].loop_ = conn[c].loop_
    BY <1>4, OnlyNewConnectionGives
  <2>2. \A l : Given(l)' = Given(l)
    <3> SUFFICES ASSUME NEW l PROVE Given(l)' = Given(l) OBVIOUS
    <3>1. {c \in Connections : conn'[c].loop_ = l}
            = {c \in Connections : conn[c].loop_ = l}
      BY <2>1
    <3> QED BY <3>1 DEF Given
  <2>3. CASE Start
    <3>1. /\ server = "constructed" /\ server' = "started" /\ next_' = next_
          /\ loops_ = <<>>
      BY <1>1, <2>3 DEF Start, PhaseInv
    <3>2. next_ = 0
      <4>1. Len(<<>>) = 0 OBVIOUS
      <4> QED BY <1>1, <3>1, <4>1 DEF TypeOK
    <3>3. \A i \in 1 .. Len(loops_)' : loops_'[i] \in Loops /\ ~(i <= 0)
      <4>1. /\ Len(loops_)' \in Nat
            /\ \A i \in 1 .. Len(loops_)' : loops_'[i] \in PoolLoops
        <5>1. loops_' \in Seq(PoolLoops) BY <2>3, PoolType, <1>1 DEF Start
        <5> QED BY <5>1, LenProperties
      <4> QED BY <4>1, BaseIsLoop
    <3>4. ASSUME NEW l \in Loops PROVE Given(l) = 0
      <4>1. l # NoLoop BY <3>4, ServerAssumption
      <4>2. {c \in Connections : conn[c].loop_ = l} = {}
        BY <3>1, <4>1 DEF BalanceInv
      <4> QED BY <4>2, FS_EmptySet DEF Given
    <3>5. \A i \in 1 .. Len(loops_)' :
            Given(loops_[i])' = IF i <= next_' THEN 0 + 1 ELSE 0
      <4> SUFFICES ASSUME NEW i \in 1 .. Len(loops_)'
                   PROVE  Given(loops_[i])' = 0 /\ ~(i <= 0)
        BY <3>1, <3>2
      <4>1. PICK l \in Loops : l = loops_'[i] BY <3>3
      <4>2. Given(l)' = 0 BY <2>2, <3>4
      <4> QED BY <3>3, <4>1, <4>2 DEF Given
    <3> QED BY <3>1, <3>5 DEF BalanceInv
  <2>4. CASE UNCHANGED <<loops_, next_>> /\ (server' = "constructed" => server = "constructed")
    <3>1. \A i \in 1 .. Len(loops_)' :
            Given(loops_[i])' = IF i <= next_' THEN r + 1 ELSE r
      <4> SUFFICES ASSUME NEW i \in 1 .. Len(loops_)
                   PROVE  Given(loops_[i])' = IF i <= next_ THEN r + 1 ELSE r
        BY <2>4
      <4>1. PICK l : l = loops_[i] OBVIOUS
      <4>2. Given(l)' = Given(l) BY <2>2
      <4>3. Given(loops_[i])' = Given(l)' BY <2>4, <4>1 DEF Given
      <4> QED BY <1>2, <4>1, <4>2, <4>3
    <3> QED BY <2>1, <2>4, <3>1 DEF BalanceInv
  <2> QED
    BY <1>4, <2>3, <2>4
    DEF Next, DestructorStep, LoopStep, SetThreadNum, BaseLoops, BaseQuits,
        BeginDestroy, DestroyConnection, BeginJoin, EndDestroy, QuitThread,
        JoinThread, ShutdownTests, ShutdownStores, HandleClose, EnterLoop,
        TakeFunctors, RunFunctor, FunctorsDone, DestroyLoop, vars, poolVars
<1> QED BY <1>3, <1>4

\* getNextLoop() shares the connections out evenly, whatever the number of
\* threads: no loop of the pool has been given two more than another.
THEOREM RoundRobin == Spec => []Balanced
<1>1. Init => BalanceInv
  <2> SUFFICES ASSUME Init PROVE BalanceInv OBVIOUS
  <2>1. Len(<<>>) = 0 /\ loops_ = <<>> BY DEF Init
  <2>2. \A c \in Connections : conn[c].loop_ = NoLoop BY UnbornType DEF Init
  <2> QED BY <2>1, <2>2 DEF BalanceInv
<1>2. ServerInv /\ BalanceInv => Balanced
  <2> SUFFICES ASSUME ServerInv, BalanceInv,
                      NEW l \in ToSet(loops_), NEW m \in ToSet(loops_)
               PROVE  Given(l) <= Given(m) + 1
    BY DEF Balanced
  <2>1. TypeOK /\ loops_ \in Seq(PoolLoops) /\ DOMAIN loops_ = 1 .. Len(loops_)
    BY PoolType, LenProperties DEF ServerInv
  <2>2. PICK i \in 1 .. Len(loops_) : loops_[i] = l BY <2>1 DEF ToSet
  <2>3. PICK j \in 1 .. Len(loops_) : loops_[j] = m BY <2>1 DEF ToSet
  <2>4. PICK r \in Nat : \A h \in 1 .. Len(loops_) :
          Given(loops_[h]) = IF h <= next_ THEN r + 1 ELSE r
    BY DEF BalanceInv
  <2>5. Given(l) \in {r, r + 1} /\ Given(m) \in {r, r + 1}
    BY <2>2, <2>3, <2>4
  <2> QED BY <2>5
<1> QED BY <1>1, <1>2, InitServer, NextServer, NextBalance, PTL DEF Spec
=============================================================================
