-------------------------- MODULE ConnectionOutput --------------------------
(***************************************************************************)
(* The output path of one TcpConnection (src/src/TcpConnection.cpp):       *)
(* send(), sendFile() and shutdown(), called by callbacks in the IO thread *)
(* or by another thread, the functors they queue, handleWrite(), and the   *)
(* closing of the connection underneath them.                              *)
(*                                                                         *)
(* outputBuffer_ is the queue of bytes that Buffer implements; the channel *)
(* is one of EPollPoller; the loop is what EventLoop and TaskQueue say of  *)
(* it, with the functors of a round thrown away together at its end, as in *)
(* TcpServer.  What another thread does is split where the IO thread can   *)
(* come in between: after the test of state_, and after the store to it.   *)
(*                                                                         *)
(* A byte is <<m, i>>, the i-th of message m.                              *)
(***************************************************************************)
EXTENDS Naturals, Sequences, FiniteSets, SequencesExt

CONSTANTS
  Usages,           \* the ways to use a connection, see below
  IgnoresSigPipe,   \* the program ignores SIGPIPE
  highWaterMark_,
  Size,             \* bytes in a message or file
  SendBuffer,       \* bytes the kernel holds for a peer that does not read
  MaxCalls          \* bound of the model on the messages sent

Calls == {"send", "sendFile", "shutdown"}

ASSUME OutputAssumption ==
  /\ Usages \subseteq [loop : SUBSET Calls, user : SUBSET Calls,
                       keeps : BOOLEAN, awaits : BOOLEAN, fileLast : BOOLEAN,
                       max : 0 .. MaxCalls]
  /\ IgnoresSigPipe \in BOOLEAN
  /\ highWaterMark_ \in Nat
  /\ Size \in Nat \ {0}
  /\ SendBuffer \in Nat \ {0}
  /\ MaxCalls \in Nat

(***************************************************************************)
(* usage.loop      what the user's callbacks in the IO thread call         *)
(* usage.user      what another thread calls                               *)
(* usage.keeps     that thread keeps the string it sends, and its          *)
(*                 TcpConnectionPtr, until sendInLoop() has run; if not,   *)
(*                 the string is a temporary of the call                   *)
(* usage.awaits    nobody calls before the call before has returned and    *)
(*                 the writeCompleteCallback of its message has come       *)
(* usage.fileLast  the last message is a file, and no other is             *)
(* usage.max       how many messages are sent at most                      *)
(***************************************************************************)
VARIABLES
  usage,          \* how this connection is used
  state_,
  poller,         \* of the loop: the channel's record, see EPollPoller
  outputBuffer_,
  phase,          \* of the loop: "events" or "functors"
  pending,        \* pendingFunctors_ of the loop
  batch,          \* the functors it has swapped out
  ran,            \* how many of them it has run
  removal,        \* "none", "asked" by handleClose(), or "done": erased from
                  \* the server's map, connectDestroyed() queued
  user,           \* the other thread: "idle", or inside a call
  userHolds,      \* it has a TcpConnectionPtr
  freed,          \* the messages whose std::string is gone
  calls,          \* how many messages were accepted by send() or sendFile()
  sender,         \* who has sent each of them
  promised,       \* the messages that the caller of shutdown() had sent
  awaiting,       \* a message's writeCompleteCallback is waited for
  wire,           \* the bytes the kernel has taken
  read,           \* how many of them the peer has
  fin,            \* shutdown(SHUT_WR) was called on the socket
  peer,           \* "open", "closed" (has sent its FIN) or "reset"
  process         \* "running", or "killed" by SIGPIPE

connVars == <<state_, poller, outputBuffer_, removal>>
loopVars == <<phase, batch, ran>>
userVars == <<user, userHolds, freed>>
callVars == <<usage, calls, sender, promised, awaiting>>
socketVars == <<wire, fin, process>>
peerVars == <<read, peer>>
vars == <<connVars, pending, loopVars, userVars, callVars, socketVars, peerVars>>

Messages == 1 .. MaxCalls
Data(m) == [i \in 1 .. Size |-> <<m, i>>]
AllBytes == Messages \X (1 .. Size)

First(s, n) == SubSeq(s, 1, n)
Rest(s, n) == SubSeq(s, n + 1, Len(s))

Conn == "channel"
P == INSTANCE EPollPoller WITH
  Channels <- {Conn}, NoChannel <- "none", Fds <- {"fd"},
  FdOf <- [c \in {Conn} |-> "fd"]

IsWriting == P!IsWriting(poller, Conn)
Registered == poller.ptr["fd"] = Conn

Ops == {"sendInLoop", "shutdownInLoop", "sendFileInLoop", "writeComplete",
        "highWaterMark", "connectDestroyed"}

Functor(op, data) == [op |-> op, data |-> data]

TypeOK ==
  /\ usage \in Usages
  /\ state_ \in {"kConnected", "kDisconnecting", "kDisconnected"}
  /\ poller \in P!Pollers
  /\ outputBuffer_ \in Seq(AllBytes)
  /\ phase \in {"events", "functors"}
  /\ pending \in Seq([op : Ops, data : Seq(AllBytes)])
  /\ batch \in Seq([op : Ops, data : Seq(AllBytes)])
  /\ ran \in 0 .. Len(batch)
  /\ removal \in {"none", "asked", "done"}
  /\ user \in {"idle", "send", "sendFile", "shutdown", "stored"}
  /\ userHolds \in BOOLEAN
  /\ freed \subseteq Messages
  /\ calls \in 0 .. MaxCalls
  /\ sender \in [Messages -> {"nobody", "loop", "user"}]
  /\ promised \subseteq 1 .. calls
  /\ awaiting \in BOOLEAN
  /\ wire \in Seq(AllBytes)
  /\ read \in 0 .. Len(wire) /\ Len(wire) - read <= SendBuffer
  /\ fin \in BOOLEAN
  /\ peer \in {"open", "closed", "reset"}
  /\ process \in {"running", "killed"}

\* connectEstablished() has run; what comes before it is TcpServer's part.
Init ==
  /\ usage \in Usages
  /\ state_ = "kConnected"
  /\ poller = P!EnableReading(P!EmptyPoller, Conn)
  /\ outputBuffer_ = <<>>
  /\ phase = "events"
  /\ pending = <<>>
  /\ batch = <<>>
  /\ ran = 0
  /\ removal = "none"
  /\ user = "idle"
  /\ userHolds = (usage.user # {})
  /\ freed = {}
  /\ calls = 0
  /\ sender = [m \in Messages |-> "nobody"]
  /\ promised = {}
  /\ awaiting = FALSE
  /\ wire = <<>>
  /\ read = 0
  /\ fin = FALSE
  /\ peer = "open"
  /\ process = "running"

-----------------------------------------------------------------------------
(***************************************************************************)
(* Functors, and who holds the connection.  send() and shutdown() bind a   *)
(* raw this, the others shared_from_this().                                *)
(***************************************************************************)

ToRun == SubSeq(batch, ran + 1, Len(batch)) \o pending

RawOps == {"sendInLoop", "shutdownInLoop"}

Alive ==
  \/ removal # "done"
  \/ userHolds
  \/ \E f \in ToSet(batch) \cup ToSet(pending) : f.op \notin RawOps

Queued(op) == \E f \in ToSet(ToRun) : f.op = op

(***************************************************************************)
(* The socket, for write() and sendfile().                                 *)
(***************************************************************************)

Space == SendBuffer - (Len(wire) - read)

Least(a, b) == IF a < b THEN a ELSE b

\* How much of len bytes is taken: 0 stands for EAGAIN.
Accepted(len) == IF Space = 0 THEN {0} ELSE 1 .. Least(Space, len)

Broken == fin \/ peer = "reset"

\* EPIPE, or ECONNRESET the first time after a reset.  With EPIPE comes
\* SIGPIPE, which ends a process that does not ignore it.
WriteFails ==
  /\ Broken
  /\ process' \in IF IgnoresSigPipe THEN {"running"}
                  ELSE IF fin THEN {"killed"} ELSE {"running", "killed"}
  /\ UNCHANGED <<wire, fin>>

WriteTakes(bytes) ==
  /\ ~Broken
  /\ wire' = wire \o bytes
  /\ UNCHANGED <<fin, process>>

-----------------------------------------------------------------------------
(***************************************************************************)
(* sendInLoop(), sendFileInLoop(), shutdownInLoop(): each is a step of its *)
(* own on pending, outputBuffer_, poller and the socket.                   *)
(***************************************************************************)

outVars == <<pending, outputBuffer_, poller>>

Queue(op) == pending' = Append(pending, Functor(op, <<>>))

CrossesMark(rest) ==
  /\ Len(outputBuffer_) < highWaterMark_
  /\ Len(outputBuffer_) + Len(rest) >= highWaterMark_

\* sendInLoop() forgets enableWriting() when highWaterMarkCallback_ is due.
KeepRestWithoutWriting(rest) ==
  /\ IF CrossesMark(rest) THEN Queue("highWaterMark") ELSE UNCHANGED pending
  /\ outputBuffer_' = outputBuffer_ \o rest
  /\ poller' = IF IsWriting \/ CrossesMark(rest) THEN poller
               ELSE P!EnableWriting(poller, Conn)

KeepRest(rest) ==
  /\ IF CrossesMark(rest) THEN Queue("highWaterMark") ELSE UNCHANGED pending
  /\ outputBuffer_' = outputBuffer_ \o rest
  /\ poller' = IF IsWriting THEN poller ELSE P!EnableWriting(poller, Conn)

\* Writes without a look at outputBuffer_ and the functors.
CanWriteAlways == TRUE

CanWriteDirectly == ~IsWriting /\ outputBuffer_ = <<>>

\* sendInLoop() without the early return.
SendToDisconnected(data) ==
  \/ /\ CanWriteDirectly
     /\ WriteFails
     /\ UNCHANGED outVars
  \/ /\ CanWriteDirectly
     /\ \E n \in Accepted(Len(data)) :
          /\ WriteTakes(First(data, n))
          /\ IF n = Len(data)
             THEN Queue("writeComplete") /\ UNCHANGED <<outputBuffer_, poller>>
             ELSE KeepRest(Rest(data, n))
  \/ /\ ~CanWriteDirectly
     /\ KeepRest(data)
     /\ UNCHANGED socketVars

SendInLoop(data) ==
  \/ /\ state_ = "kDisconnected"
     /\ UNCHANGED <<outVars, socketVars>>
  \/ /\ state_ # "kDisconnected"
     /\ CanWriteDirectly
     /\ WriteFails
     /\ UNCHANGED outVars
  \/ /\ state_ # "kDisconnected"
     /\ CanWriteDirectly
     /\ \E n \in Accepted(Len(data)) :
          /\ WriteTakes(First(data, n))
          /\ IF n = Len(data)
             THEN Queue("writeComplete") /\ UNCHANGED <<outputBuffer_, poller>>
             ELSE KeepRest(Rest(data, n))
  \/ /\ state_ # "kDisconnected"
     /\ ~CanWriteDirectly
     /\ KeepRest(data)
     /\ UNCHANGED socketVars

\* What is left of the file waits in the functor, not in outputBuffer_.
SendFileAgain(data) ==
  pending' = Append(pending, Functor("sendFileInLoop", data))

\* Queues the file from its start, not from the offset reached.
SendFileFromStart(data) ==
  \/ /\ state_ = "kDisconnecting"
     /\ UNCHANGED <<outVars, socketVars>>
  \/ /\ state_ # "kDisconnecting"
     /\ ~CanWriteDirectly
     /\ SendFileAgain(data)
     /\ UNCHANGED <<outputBuffer_, poller, socketVars>>
  \/ /\ state_ # "kDisconnecting"
     /\ CanWriteDirectly
     /\ \E n \in Accepted(Len(data)) :
          /\ WriteTakes(First(data, n))
          /\ IF n = Len(data) THEN Queue("writeComplete") ELSE SendFileAgain(data)
     /\ UNCHANGED <<outputBuffer_, poller>>

SendFileInLoop(data) ==
  \/ /\ state_ = "kDisconnecting"
     /\ UNCHANGED <<outVars, socketVars>>
  \/ /\ state_ # "kDisconnecting"
     /\ CanWriteDirectly
     /\ WriteFails
     /\ UNCHANGED outVars
  \/ /\ state_ # "kDisconnecting"
     /\ CanWriteDirectly
     /\ \E n \in Accepted(Len(data)) :
          /\ WriteTakes(First(data, n))
          /\ IF n = Len(data) THEN Queue("writeComplete")
                              ELSE SendFileAgain(Rest(data, n))
     /\ UNCHANGED <<outputBuffer_, poller>>
  \/ /\ state_ # "kDisconnecting"
     /\ ~CanWriteDirectly
     /\ SendFileAgain(data)
     /\ UNCHANGED <<outputBuffer_, poller, socketVars>>

\* shutdownInLoop() does not wait for outputBuffer_.
ShutdownAtOnce(writing) == fin' = TRUE /\ UNCHANGED <<wire, process>>

ShutdownInLoop(writing) ==
  /\ fin' = (fin \/ ~writing)
  /\ UNCHANGED <<wire, process>>

-----------------------------------------------------------------------------
(***************************************************************************)
(* The user's callbacks in the IO thread: messageCallback_ while events    *)
(* are handled, and the two callbacks that a functor calls.                *)
(***************************************************************************)

InCallback ==
  \/ phase = "events" /\ Registered /\ "in" \in poller.mask["fd"]
  \/ phase = "functors" /\ ran > 0 /\ batch[ran].op \in {"writeComplete", "highWaterMark"}

\* What the caller's own discipline and the bound of the model allow.
MayCall(op) ==
  /\ usage.awaits => ~awaiting /\ user = "idle"
  /\ op # "shutdown" =>
       calls + (IF user \in {"send", "sendFile"} THEN 1 ELSE 0) < usage.max
  /\ usage.fileLast /\ op # "shutdown" =>
       (op = "sendFile" <=> calls + 1 = usage.max)

Calling(op) ==
  /\ process = "running"
  /\ op \in usage.loop
  /\ InCallback
  /\ state_ = "kConnected"
  /\ MayCall(op)

\* Message calls + 1 is accepted.
Accept(thread) ==
  /\ calls' = calls + 1
  /\ sender' = [sender EXCEPT ![calls'] = thread]
  /\ awaiting' = usage.awaits

LoopSends ==
  /\ Calling("send")
  /\ Accept("loop")
  /\ SendInLoop(Data(calls'))
  /\ UNCHANGED <<usage, state_, removal, loopVars, userVars, promised, peerVars>>

LoopSendsFile ==
  /\ Calling("sendFile")
  /\ Accept("loop")
  /\ SendFileInLoop(Data(calls'))
  /\ UNCHANGED <<usage, state_, removal, loopVars, userVars, promised, peerVars>>

SentBy(thread) == {m \in 1 .. calls : sender[m] = thread}

LoopShutsDown ==
  /\ Calling("shutdown")
  /\ state_' = "kDisconnecting"
  /\ promised' = SentBy("loop")
  /\ ShutdownInLoop(IsWriting)
  /\ UNCHANGED <<outVars, removal, loopVars, userVars, usage, calls, sender,
                 awaiting, peerVars>>

-----------------------------------------------------------------------------
(***************************************************************************)
(* The other thread.                                                       *)
(***************************************************************************)

\* It finds kConnected; what it does next comes later.
UserTests(op) ==
  /\ process = "running"
  /\ op \in usage.user
  /\ userHolds
  /\ user = "idle"
  /\ state_ = "kConnected"
  /\ MayCall(op)
  /\ user' = op
  /\ UNCHANGED <<connVars, pending, loopVars, userHolds, freed, callVars,
                 socketVars, peerVars>>

\* send() binds buf.c_str(): the functor does not own the bytes.
UserSends ==
  /\ process = "running"
  /\ user = "send"
  /\ Accept("user")
  /\ pending' = Append(pending, Functor("sendInLoop", Data(calls')))
  /\ freed' = IF usage.keeps THEN freed ELSE freed \cup {calls'}
  /\ user' = "idle"
  /\ UNCHANGED <<connVars, loopVars, userHolds, usage, promised, socketVars,
                 peerVars>>

UserSendsFile ==
  /\ process = "running"
  /\ user = "sendFile"
  /\ Accept("user")
  /\ SendFileAgain(Data(calls'))
  /\ user' = "idle"
  /\ UNCHANGED <<connVars, loopVars, userHolds, freed, usage, promised,
                 socketVars, peerVars>>

UserStores ==
  /\ process = "running"
  /\ user = "shutdown"
  /\ state_' = "kDisconnecting"
  /\ promised' = promised \cup SentBy("user")
  /\ user' = "stored"
  /\ UNCHANGED <<outVars, removal, loopVars, userHolds, freed, usage, calls,
                 sender, awaiting, socketVars, peerVars>>

UserShutsDown ==
  /\ process = "running"
  /\ user = "stored"
  /\ Queue("shutdownInLoop")
  /\ user' = "idle"
  /\ UNCHANGED <<connVars, loopVars, userHolds, freed, callVars, socketVars,
                 peerVars>>

UserMayDrop ==
  /\ user = "idle"
  /\ usage.keeps => \A op \in RawOps : ~Queued(op)

\* Its TcpConnectionPtr goes.
UserLetsGo ==
  /\ process = "running"
  /\ UserMayDrop
  /\ userHolds
  /\ userHolds' = FALSE
  /\ UNCHANGED <<connVars, pending, loopVars, user, freed, callVars,
                 socketVars, peerVars>>

-----------------------------------------------------------------------------
(***************************************************************************)
(* The loop: handleWrite(), handleClose(), and the functors.               *)
(***************************************************************************)

\* handleWrite() that leaves the FIN to shutdownInLoop(), which has run.
EmptiedWithoutFin ==
  /\ Queue("writeComplete")
  /\ poller' = P!DisableWriting(poller, Conn)
  /\ UNCHANGED fin

\* outputBuffer_ has become empty.
Emptied ==
  /\ Queue("writeComplete")
  /\ poller' = P!DisableWriting(poller, Conn)
  /\ fin' = (fin \/ state_ = "kDisconnecting")

\* With a fault handleWrite() logs and changes nothing but what WriteFails
\* says; when the socket takes nothing it is not called.
HandleWrite ==
  /\ process = "running"
  /\ phase = "events" /\ Registered
  /\ "out" \in poller.mask["fd"]
  /\ \/ WriteFails /\ UNCHANGED outVars
     \/ /\ ~Broken
        /\ \E n \in Accepted(Len(outputBuffer_)) \ {0} :
             /\ wire' = wire \o First(outputBuffer_, n)
             /\ outputBuffer_' = Rest(outputBuffer_, n)
             /\ IF n = Len(outputBuffer_) THEN Emptied
                ELSE UNCHANGED <<pending, poller, fin>>
        /\ UNCHANGED process
  /\ UNCHANGED <<state_, removal, loopVars, userVars, callVars, peerVars>>

\* closeCallback_ is TcpServer::removeConnection().
Close ==
  /\ state_' = "kDisconnected"
  /\ poller' = P!DisableAll(poller, Conn)
  /\ removal' = "asked"

\* By handleRead(), when read() returns 0, or by EPOLLHUP.
HandleClose ==
  /\ process = "running"
  /\ phase = "events" /\ Registered
  /\ \/ peer # "open" /\ "in" \in poller.mask["fd"]
     \/ peer = "reset"
  /\ Close
  /\ UNCHANGED <<outputBuffer_, pending, loopVars, userVars, callVars,
                 socketVars, peerVars>>

\* removeConnectionInLoop(), in the base loop.
BaseRemoves ==
  /\ process = "running"
  /\ removal = "asked"
  /\ removal' = "done"
  /\ Queue("connectDestroyed")
  /\ UNCHANGED <<state_, poller, outputBuffer_, loopVars, userVars, callVars,
                 socketVars, peerVars>>

ConnectDestroyed ==
  /\ state_' = IF state_ = "kConnected" THEN "kDisconnected" ELSE state_
  /\ poller' = P!RemoveChannel(IF state_ = "kConnected" THEN P!DisableAll(poller, Conn)
                               ELSE poller, Conn)

TakeFunctors ==
  /\ process = "running"
  /\ phase = "events"
  /\ pending # <<>>
  /\ phase' = "functors"
  /\ batch' = pending
  /\ pending' = <<>>
  /\ UNCHANGED <<connVars, ran, userVars, callVars, socketVars, peerVars>>

\* A functor that binds a raw this needs the connection.
RunFunctor ==
  /\ process = "running"
  /\ phase = "functors" /\ ran < Len(batch)
  /\ ran' = ran + 1
  /\ LET f == batch[ran'] IN
     /\ f.op \in RawOps => Alive
     /\ \/ f.op = "sendInLoop" /\ SendInLoop(f.data) /\ UNCHANGED <<state_, awaiting>>
        \/ f.op = "sendFileInLoop" /\ SendFileInLoop(f.data)
           /\ UNCHANGED <<state_, awaiting>>
        \/ f.op = "shutdownInLoop" /\ ShutdownInLoop(IsWriting)
           /\ UNCHANGED <<outVars, state_, awaiting>>
        \/ f.op = "writeComplete" /\ awaiting' = FALSE
           /\ UNCHANGED <<outVars, state_, socketVars>>
        \/ f.op = "highWaterMark" /\ UNCHANGED <<outVars, state_, awaiting, socketVars>>
        \/ f.op = "connectDestroyed" /\ ConnectDestroyed
           /\ UNCHANGED <<pending, outputBuffer_, awaiting, socketVars>>
  /\ UNCHANGED <<removal, phase, batch, userVars, usage, calls, sender,
                 promised, peerVars>>

\* The next round begins where this one has ended.
EndRoundKeepsRan ==
  /\ phase = "functors" /\ ran = Len(batch)
  /\ phase' = "events"
  /\ batch' = <<>>
  /\ UNCHANGED <<connVars, pending, ran, userVars, callVars, socketVars, peerVars>>

\* The functors that were run are not thrown away before the next swap.
EndRoundKeepsFunctors ==
  /\ process = "running"
  /\ phase = "functors" /\ ran = Len(batch)
  /\ phase' = "events"
  /\ ran' = 0
  /\ UNCHANGED <<connVars, pending, batch, userVars, callVars, socketVars, peerVars>>

EndRound ==
  /\ process = "running"
  /\ phase = "functors" /\ ran = Len(batch)
  /\ phase' = "events"
  /\ batch' = <<>>
  /\ ran' = 0
  /\ UNCHANGED <<connVars, pending, userVars, callVars, socketVars, peerVars>>

-----------------------------------------------------------------------------
(***************************************************************************)
(* The peer.                                                               *)
(***************************************************************************)

PeerReads ==
  /\ peer # "reset"
  /\ read < Len(wire)
  /\ read' = read + 1
  /\ UNCHANGED <<connVars, pending, loopVars, userVars, callVars, socketVars, peer>>

PeerCloses ==
  /\ peer = "open"
  /\ peer' = "closed"
  /\ UNCHANGED <<connVars, pending, loopVars, userVars, callVars, socketVars, read>>

PeerResets ==
  /\ peer # "reset"
  /\ peer' = "reset"
  /\ UNCHANGED <<connVars, pending, loopVars, userVars, callVars, socketVars, read>>

-----------------------------------------------------------------------------
UserCompletes == UserSends \/ UserSendsFile \/ UserStores \/ UserShutsDown
LoopSteps == TakeFunctors \/ RunFunctor \/ EndRound

Next ==
  \/ LoopSends \/ LoopSendsFile \/ LoopShutsDown
  \/ \E op \in Calls : UserTests(op)
  \/ UserSends \/ UserSendsFile \/ UserStores \/ UserShutsDown
  \/ UserLetsGo
  \/ HandleWrite \/ HandleClose \/ BaseRemoves
  \/ TakeFunctors \/ RunFunctor \/ EndRound
  \/ PeerReads \/ PeerCloses \/ PeerResets

Spec == Init /\ [][Next]_vars

(***************************************************************************)
(* The IO thread keeps polling and running functors.  Every poll() reports *)
(* every registered channel that is ready and its handler runs before the  *)
(* next one (EventLoop::loop()), so a channel that is ready in infinitely  *)
(* many rounds is handled: strong fairness.  Nothing of the kind is        *)
(* assumed of the user's callbacks.                                        *)
(***************************************************************************)
LoopFairness ==
  /\ WF_vars(LoopSteps)
  /\ SF_vars(HandleWrite)
  /\ SF_vars(HandleClose)
  /\ WF_vars(BaseRemoves)

LoopSpec == Spec /\ LoopFairness

\* Threads finish what they call.  Nothing is assumed of the peer.
FairSpec == LoopSpec /\ WF_vars(UserCompletes)

-----------------------------------------------------------------------------
(***************************************************************************)
(* Properties.                                                             *)
(***************************************************************************)

\* The messages bound in sendInLoop(), and what sendFileInLoop() has still to
\* send: one file at a time, when a usage awaits.
Bound == {m \in Messages : Functor("sendInLoop", Data(m)) \in ToSet(ToRun)}

FileRest ==
  IF Queued("sendFileInLoop")
  THEN (CHOOSE f \in ToSet(ToRun) : f.op = "sendFileInLoop").data
  ELSE <<>>

\* send(), sendFile() and shutdown() keep OutputStream's promise: whole
\* messages, in order, from the buffer, the functors and the socket together,
\* and the FIN behind them.
Stream == INSTANCE OutputStream WITH
  waiting <- Bound,
  stream <- wire \o outputBuffer_ \o FileRest,
  broken <- removal # "none" \/ peer = "reset"

Ordered == Stream!Spec

\* shutdown() ("半关闭写端（FIN），常用于优雅关闭"): on a connection that nobody
\* has closed or reset, the FIN goes out only when the socket has been given
\* every message that the caller had sent before.
GracefulFin ==
  (fin /\ removal = "none" /\ peer # "reset") =>
     promised \X (1 .. Size) \subseteq ToSet(wire)

\* Once handleClose() has run, nothing that was already queued puts the
\* channel back into the poller: for a connection whose other thread awaits its
\* sends, or does not both send and shut down.  (With shutdown() it may store
\* kDisconnecting over kDisconnected, and its string then asks for EPOLLOUT.)
ClosedIsDown == removal # "none" => poller.index[Conn] # "kAdded"

\* What send() binds, the bytes of the string and this, is there until its
\* functor has run; so is what shutdown() binds.
BoundAlive ==
  \A f \in ToSet(ToRun) :
    /\ f.op = "sendInLoop" => f.data[1][1] \notin freed
    /\ f.op \in RawOps => Alive

\* For as long as the peer goes on reading.
PeerIsReading == WF_vars(PeerReads)

\* What send() has accepted, a peer that reads gets, unless the connection
\* breaks or is shut down: neither enableWriting() nor a functor is lost.
Drains ==
  PeerIsReading =>
    \A m \in Messages :
      (calls >= m) ~> \/ {m} \X (1 .. Size) \subseteq ToSet(wire)
                      \/ removal # "none" \/ peer = "reset" \/ fin

\* The FIN is not forgotten while outputBuffer_ drains.
FinSent ==
  PeerIsReading => ((state_ = "kDisconnecting") ~> (fin \/ removal # "none"))

\* Once handleClose() has run, the loop lets go of the connection whatever the
\* peer does, or somebody keeps it: a thread its TcpConnectionPtr, or the rest
\* of a file, which sendFileInLoop() queues again and again when bytes are left
\* in outputBuffer_ that nobody will ever write.
ClosedIsFreed ==
  (removal # "none") ~> (~Alive \/ userHolds \/ Queued("sendFileInLoop"))
=============================================================================
