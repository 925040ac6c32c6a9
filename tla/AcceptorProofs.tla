--------------------------- MODULE AcceptorProofs ---------------------------
(***************************************************************************)
(* For any number of peers and descriptors: a descriptor that accept4()    *)
(* returns is open exactly as long as a connection that somebody was       *)
(* given.  The argument needs the kernel's queue: nobody waits in it       *)
(* twice, and who waits has no descriptor yet.                             *)
(***************************************************************************)
EXTENDS Acceptor, SequenceTheorems, TLAPS

Files == Peers \cup {"none", "listen", "other"}
Places == {"new", "waiting", "aborted", "accepted", "served", "refused"}

\* The part of TypeOK that descriptors and peers need.
TypeInv ==
  /\ file \in [Fds -> Files]
  /\ peer \in [Peers -> Places]
  /\ backlog \in Seq(Peers)

\* Whose connection is in the kernel's queue is there once.
Queued ==
  /\ \A i \in 1 .. Len(backlog) : peer[backlog[i]] \in {"waiting", "aborted"}
  /\ \A i, j \in 1 .. Len(backlog) : backlog[i] = backlog[j] => i = j

\* Nobody but ~Acceptor() closes listenfd.
ListenOpen == acceptor # "gone" => file[listenfd] = "listen"

IInv == TypeInv /\ Queued /\ ListenOpen /\ NoDescriptorLeak

\* No connection has a descriptor at first.
LEMMA InitIInv == Init => IInv
<1> SUFFICES ASSUME Init PROVE IInv
  OBVIOUS
<1>1. backlog \in Seq(Peers) /\ Len(backlog) = 0
  BY EmptySeq DEF Init
<1>2. TypeInv
  BY <1>1 DEF Init, TypeInv, Files, Places
<1>3. Queued
  BY <1>1 DEF Queued
<1>4. \A f \in Fds : file[f] \notin Peers
  BY AcceptorAssumption DEF Init
<1>5. NoDescriptorLeak
  BY <1>4 DEF Init, NoDescriptorLeak
<1>6. ListenOpen
  BY AcceptorAssumption DEF Init, ListenOpen, Fds, listenfd
<1> QED  BY <1>2, <1>3, <1>5, <1>6 DEF IInv

\* The head of the queue leaves it: the rest is queued as before, and nobody
\* in it is the one that left.
LEMMA DequeueOK ==
  ASSUME IInv, backlog # <<>>
  PROVE  /\ Head(backlog) \in Peers
         /\ peer[Head(backlog)] \in {"waiting", "aborted"}
         /\ Tail(backlog) \in Seq(Peers)
         /\ \A i \in 1 .. Len(Tail(backlog)) :
              /\ peer[Tail(backlog)[i]] \in {"waiting", "aborted"}
              /\ Tail(backlog)[i] # Head(backlog)
         /\ \A i, j \in 1 .. Len(Tail(backlog)) :
              Tail(backlog)[i] = Tail(backlog)[j] => i = j
<1>1. /\ backlog \in Seq(Peers)
      /\ Len(backlog) \in Nat \ {0}
      /\ \A i \in 1 .. Len(backlog) : backlog[i] \in Peers
  BY EmptySeq, LenProperties DEF IInv, TypeInv
<1>2. Head(backlog) = backlog[1]
  BY <1>1
<1>3. /\ Tail(backlog) \in Seq(Peers)
      /\ Len(Tail(backlog)) = Len(backlog) - 1
      /\ \A i \in 1 .. Len(Tail(backlog)) : Tail(backlog)[i] = backlog[i + 1]
  BY <1>1, HeadTailProperties
<1>4. \A i \in 1 .. Len(Tail(backlog)) : i + 1 \in 1 .. Len(backlog) /\ i + 1 # 1
  BY <1>1, <1>3
<1>5. 1 \in 1 .. Len(backlog)
  BY <1>1
<1> QED
  BY <1>1, <1>2, <1>3, <1>4, <1>5 DEF IInv, Queued

\* accept4(), the callbacks and the peers keep the books.
LEMMA StepIInv == IInv /\ [Next]_vars => IInv'
<1> SUFFICES ASSUME IInv, [Next]_vars
             PROVE  IInv'
  OBVIOUS
<1>0. TypeInv /\ Queued /\ ListenOpen /\ NoDescriptorLeak
  BY DEF IInv
<1>a. listenfd \in Fds
  BY AcceptorAssumption DEF Fds, listenfd
<1>b. ListenOpen'
  BY <1>0, <1>a, AcceptorAssumption
  DEF Next, vars, ListenOpen, TypeInv, Connect, Abort, Listen, HandleRead, HandOver,
      HandleReadAtLimit, HandleReadAborted, Destroy, CloseConnection, CloseOther,
      Lowest, Free
<1>1. ASSUME NEW p \in Peers, Connect(p)
      PROVE  IInv'
  <2>1. peer[p] = "new" /\ UNCHANGED file
    BY <1>1 DEF Connect
  <2>2. CASE acceptor = "listening"
    <3>1. backlog' = Append(backlog, p) /\ peer' = [peer EXCEPT ![p] = "waiting"]
      BY <1>1, <2>2 DEF Connect
    <3>2. /\ backlog' \in Seq(Peers)
          /\ Len(backlog') = Len(backlog) + 1 /\ Len(backlog) \in Nat
          /\ \A i \in 1 .. Len(backlog) : backlog'[i] = backlog[i]
          /\ backlog'[Len(backlog) + 1] = p
      BY <1>0, <3>1, AppendProperties, LenProperties DEF TypeInv
    <3>3. TypeInv'
      BY <1>0, <2>1, <3>1, <3>2 DEF TypeInv, Places
    <3>4. \A i \in 1 .. Len(backlog) : backlog[i] # p /\ backlog[i] \in Peers
      BY <1>0, <2>1, LenProperties DEF Queued, TypeInv
    <3>5. Queued'
      <4>1. \A i \in 1 .. Len(backlog') :
              i \in 1 .. Len(backlog) \/ i = Len(backlog) + 1
        BY <3>2
      <4> QED  BY <1>0, <3>1, <3>2, <3>4, <4>1 DEF Queued, TypeInv
    <3>6. NoDescriptorLeak'
      BY <1>0, <2>1, <3>1 DEF NoDescriptorLeak, TypeInv
    <3> QED  BY <1>b, <3>3, <3>5, <3>6 DEF IInv
  <2>3. CASE acceptor # "listening"
    <3>1. UNCHANGED backlog /\ peer' = [peer EXCEPT ![p] = "refused"]
      BY <1>1, <2>3 DEF Connect
    <3>2. TypeInv'
      BY <1>0, <2>1, <3>1 DEF TypeInv, Places
    <3>3. Queued'
      BY <1>0, <2>1, <3>1, LenProperties DEF Queued, TypeInv
    <3>4. NoDescriptorLeak'
      BY <1>0, <2>1, <3>1 DEF NoDescriptorLeak, TypeInv
    <3> QED  BY <1>b, <3>2, <3>3, <3>4 DEF IInv
  <2> QED  BY <2>2, <2>3
<1>2. ASSUME NEW p \in Peers, Abort(p)
      PROVE  IInv'
  <2>1. /\ peer[p] = "waiting" /\ peer' = [peer EXCEPT ![p] = "aborted"]
        /\ UNCHANGED <<file, backlog>>
    BY <1>2 DEF Abort
  <2>2. TypeInv'
    BY <1>0, <2>1 DEF TypeInv, Places
  <2>3. Queued'
    BY <1>0, <2>1, LenProperties DEF Queued, TypeInv
  <2>4. NoDescriptorLeak'
    BY <1>0, <2>1 DEF NoDescriptorLeak, TypeInv
  <2> QED  BY <1>b, <2>2, <2>3, <2>4 DEF IInv
<1>3. CASE HandleRead
  <2> DEFINE p == Head(backlog)
  <2>1. PICK fd \in Fds : file[fd] = "none" /\ HandOver(fd, p)
    BY <1>3 DEF HandleRead, Lowest, Free
  <2>2. backlog # <<>> /\ backlog' = Tail(backlog)
    BY <1>3 DEF HandleRead, Readable
  <2>3. /\ p \in Peers /\ peer[p] \in {"waiting", "aborted"}
        /\ backlog' \in Seq(Peers)
        /\ \A i \in 1 .. Len(backlog') :
             peer[backlog'[i]] \in {"waiting", "aborted"} /\ backlog'[i] # p
        /\ \A i, j \in 1 .. Len(backlog') : backlog'[i] = backlog'[j] => i = j
    BY <2>2, DequeueOK
  <2> HIDE DEF p
  <2>4. /\ peer' = [peer EXCEPT ![p] = IF hasCallback THEN "accepted" ELSE "served"]
        /\ file' = IF hasCallback THEN [file EXCEPT ![fd] = p] ELSE file
    BY <2>1 DEF HandOver
  <2>5. TypeInv'
    BY <1>0, <2>3, <2>4 DEF TypeInv, Files, Places
  <2>6. Queued'
    <3>1. \A i \in 1 .. Len(backlog') : backlog'[i] \in Peers
      BY <2>3, LenProperties
    <3> QED  BY <1>0, <2>3, <2>4, <3>1 DEF Queued, TypeInv
  <2>7. NoDescriptorLeak'
    <3>1. \A f \in Fds : file[f] # p
      BY <1>0, <2>3 DEF NoDescriptorLeak
    <3>2. file[fd] \notin Peers
      BY <2>1, AcceptorAssumption
    <3>3. CASE hasCallback
      <4>1. \A f \in Fds : file'[f] = IF f = fd THEN p ELSE file[f]
        BY <1>0, <2>4, <3>3 DEF TypeInv
      <4>2. \A q \in Peers : peer'[q] = IF q = p THEN "accepted" ELSE peer[q]
        BY <1>0, <2>4, <3>3 DEF TypeInv
      <4> QED  BY <1>0, <2>3, <3>1, <3>2, <4>1, <4>2 DEF NoDescriptorLeak
    <3>4. CASE ~hasCallback
      BY <1>0, <2>3, <2>4, <3>1, <3>4 DEF NoDescriptorLeak, TypeInv
    <3> QED  BY <3>3, <3>4
  <2> QED  BY <1>b, <2>5, <2>6, <2>7 DEF IInv
<1>4. CASE HandleReadAborted
  <2>1. /\ backlog # <<>> /\ backlog' = Tail(backlog)
        /\ UNCHANGED <<file, peer>>
    BY <1>4 DEF HandleReadAborted, Readable
  <2>2. /\ backlog' \in Seq(Peers)
        /\ \A i \in 1 .. Len(backlog') : peer[backlog'[i]] \in {"waiting", "aborted"}
        /\ \A i, j \in 1 .. Len(backlog') : backlog'[i] = backlog'[j] => i = j
    BY <2>1, DequeueOK
  <2> QED
    BY <1>0, <1>b, <2>1, <2>2 DEF IInv, TypeInv, Queued, NoDescriptorLeak
<1>5. CASE Destroy
  <2>0. file[listenfd] = "listen"
    BY <1>0, <1>5 DEF Destroy, ListenOpen
  <2>1. /\ file' = [file EXCEPT ![listenfd] = "none"]
        /\ backlog' = <<>> /\ UNCHANGED peer
    BY <1>5 DEF Destroy
  <2>2. backlog' \in Seq(Peers) /\ Len(backlog') = 0
    BY <2>1, EmptySeq
  <2>3. TypeInv' /\ Queued'
    <3>1. file' \in [Fds -> Files]
      BY <1>0, <2>1 DEF TypeInv, Files
    <3>2. 1 .. Len(backlog') = {}
      BY <2>2
    <3> QED  BY <1>0, <2>1, <2>2, <3>1, <3>2 DEF TypeInv, Queued
  <2>4. NoDescriptorLeak'
    BY <1>0, <1>a, <2>0, <2>1, AcceptorAssumption DEF NoDescriptorLeak, TypeInv
  <2> QED  BY <1>b, <2>3, <2>4 DEF IInv
<1>6. ASSUME NEW fd \in Fds, CloseConnection(fd)
      PROVE  IInv'
  <2> DEFINE p == file[fd]
  <2>1. /\ p \in Peers /\ peer' = [peer EXCEPT ![p] = "served"]
        /\ file' = [file EXCEPT ![fd] = "none"] /\ UNCHANGED backlog
    BY <1>6 DEF CloseConnection
  <2>2. peer[p] = "accepted"
    BY <1>0, <2>1 DEF NoDescriptorLeak
  <2>3. TypeInv'
    BY <1>0, <2>1 DEF TypeInv, Files, Places
  <2>4. Queued'
    <3>1. \A i \in 1 .. Len(backlog) : backlog[i] \in Peers /\ backlog[i] # p
      BY <1>0, <2>2, LenProperties DEF Queued, TypeInv
    <3> QED  BY <1>0, <2>1, <3>1 DEF Queued, TypeInv
  <2>5. NoDescriptorLeak'
    <3>1. \A f \in Fds : file'[f] = IF f = fd THEN "none" ELSE file[f]
      BY <1>0, <2>1 DEF TypeInv
    <3>2. \A q \in Peers : peer'[q] = IF q = p THEN "served" ELSE peer[q]
      BY <1>0, <2>1 DEF TypeInv
    <3> QED  BY <1>0, <2>1, <3>1, <3>2, AcceptorAssumption DEF NoDescriptorLeak
  <2> QED  BY <1>b, <2>3, <2>4, <2>5 DEF IInv
<1>7. ASSUME NEW fd \in Fds, CloseOther(fd)
      PROVE  IInv'
  <2>1. /\ file[fd] = "other" /\ file' = [file EXCEPT ![fd] = "none"]
        /\ UNCHANGED <<peer, backlog>>
    BY <1>7 DEF CloseOther
  <2>2. TypeInv' /\ Queued'
    BY <1>0, <2>1 DEF TypeInv, Files, Queued
  <2>3. NoDescriptorLeak'
    BY <1>0, <2>1, AcceptorAssumption DEF NoDescriptorLeak, TypeInv
  <2> QED  BY <1>b, <2>2, <2>3 DEF IInv
<1>8. CASE Listen \/ HandleReadAtLimit \/ UNCHANGED vars
  <2>1. UNCHANGED <<file, peer, backlog>>
    BY <1>8 DEF Listen, HandleReadAtLimit, vars
  <2> QED  BY <1>b, <1>0, <2>1 DEF IInv, TypeInv, Queued, NoDescriptorLeak
<1> QED
  BY <1>1, <1>2, <1>3, <1>4, <1>5, <1>6, <1>7, <1>8 DEF Next

\* Every descriptor that accept4() has returned has one owner until it is
\* closed, and no connection has two.
THEOREM DescriptorsOwned == Spec => []NoDescriptorLeak
<1>1. IInv => NoDescriptorLeak
  BY DEF IInv
<1> QED  BY <1>1, InitIInv, StepIInv, PTL DEF Spec
=============================================================================
