------------------------------- MODULE Acceptor -------------------------------
(***************************************************************************)
(* Acceptor (src/src/Acceptor.cpp) with Socket::accept() and ~Socket()     *)
(* (src/src/Socket.cpp): the listening socket, its channel in the poller   *)
(* of the base loop, the peers that wait in the kernel's queue, and the    *)
(* descriptors of the process, of which there is a limited number.  What   *)
(* TcpServer does with an accepted descriptor is that module's part: here  *)
(* the connection exists until its Socket closes the descriptor.           *)
(***************************************************************************)
EXTENDS Naturals, Sequences

CONSTANTS Peers,
          Limit      \* RLIMIT_NOFILE: the descriptors are 0 .. Limit - 1

ASSUME AcceptorAssumption ==
  /\ Limit \in Nat \ {0}
  /\ Peers \cap {"none", "listen", "other"} = {}

Fds == 0 .. Limit - 1
listenfd == 0
acceptChannel_ == "acceptChannel_"

VARIABLES
  acceptor,      \* "constructed", "listening" or "gone"
  poller,        \* of the base loop
  hasCallback,   \* NewConnectionCallback_ is set
  file,          \* what each descriptor is open for: a peer's connection,
                 \* "listen", "other", or "none"
  backlog,       \* the peers whose connections the kernel has established
  peer,          \* where each peer is
  errno          \* of the last accept4()

vars == <<acceptor, poller, hasCallback, file, backlog, peer, errno>>

P == INSTANCE EPollPoller WITH
  Channels <- {acceptChannel_}, NoChannel <- "none", Fds <- {listenfd},
  FdOf <- [c \in {acceptChannel_} |-> listenfd]

TypeOK ==
  /\ acceptor \in {"constructed", "listening", "gone"}
  /\ poller \in P!Pollers
  /\ hasCallback \in BOOLEAN
  /\ file \in [Fds -> Peers \cup {"none", "listen", "other"}]
  /\ backlog \in Seq(Peers)
  /\ peer \in [Peers -> {"new", "waiting", "aborted", "accepted", "served", "refused"}]
  /\ errno \in {"none", "EMFILE", "ECONNABORTED"}

\* The constructor has run; the rest of the program has files of its own.
Init ==
  /\ acceptor = "constructed"
  /\ poller = P!EmptyPoller
  /\ hasCallback \in BOOLEAN
  /\ file \in [Fds -> {"none", "listen", "other"}]
  /\ \A fd \in Fds : file[fd] = "listen" <=> fd = listenfd
  /\ backlog = <<>>
  /\ peer = [p \in Peers |-> "new"]
  /\ errno = "none"

-----------------------------------------------------------------------------
(***************************************************************************)
(* The peers.                                                              *)
(***************************************************************************)

Connect(p) ==
  /\ peer[p] = "new"
  /\ IF acceptor = "listening"
     THEN /\ backlog' = Append(backlog, p)
          /\ peer' = [peer EXCEPT ![p] = "waiting"]
     ELSE /\ peer' = [peer EXCEPT ![p] = "refused"]
          /\ UNCHANGED backlog
  /\ UNCHANGED <<acceptor, poller, hasCallback, file, errno>>

\* A reset leaves the connection in the queue.
Abort(p) ==
  /\ peer[p] = "waiting"
  /\ peer' = [peer EXCEPT ![p] = "aborted"]
  /\ UNCHANGED <<acceptor, poller, hasCallback, file, backlog, errno>>

-----------------------------------------------------------------------------
(***************************************************************************)
(* The Acceptor.                                                           *)
(***************************************************************************)

Listen ==
  /\ acceptor = "constructed"
  /\ acceptor' = "listening"
  /\ poller' = P!EnableReading(poller, acceptChannel_)
  /\ UNCHANGED <<hasCallback, file, backlog, peer, errno>>

\* listenfd is readable and its channel is told so.
Readable ==
  /\ backlog # <<>>
  /\ poller.ptr[listenfd] = acceptChannel_
  /\ "in" \in poller.mask[listenfd]

Free == {fd \in Fds : file[fd] = "none"}
Lowest == {fd \in Free : \A other \in Free : fd <= other}

\* handleRead() without the else of its test of NewConnectionCallback_.
KeepConnection(fd, p) ==
  /\ file' = [file EXCEPT ![fd] = p]
  /\ peer' = [peer EXCEPT ![p] = IF hasCallback THEN "accepted" ELSE "served"]

\* The descriptor goes to NewConnectionCallback_, or is closed.
HandOver(fd, p) ==
  IF hasCallback
  THEN /\ file' = [file EXCEPT ![fd] = p]
       /\ peer' = [peer EXCEPT ![p] = "accepted"]
  ELSE /\ peer' = [peer EXCEPT ![p] = "served"]
       /\ UNCHANGED file

\* accept4() gives the lowest free descriptor.
HandleRead ==
  /\ Readable
  /\ \E fd \in Lowest : HandOver(fd, Head(backlog))
  /\ backlog' = Tail(backlog)
  /\ errno' = "none"
  /\ UNCHANGED <<acceptor, poller, hasCallback>>

\* Does not ask again.
GiveUpListening ==
  /\ Readable
  /\ Free = {}
  /\ errno' = "EMFILE"
  /\ poller' = P!DisableAll(poller, acceptChannel_)
  /\ UNCHANGED <<acceptor, hasCallback, file, backlog, peer>>

\* It fails: the connection stays in the queue and listenfd readable.
HandleReadAtLimit ==
  /\ Readable
  /\ Free = {}
  /\ errno' = "EMFILE"
  /\ UNCHANGED <<acceptor, poller, hasCallback, file, backlog, peer>>

\* It fails for a connection that is no more.
HandleReadAborted ==
  /\ Readable
  /\ Free # {}
  /\ peer[Head(backlog)] = "aborted"
  /\ errno' = "ECONNABORTED"
  /\ backlog' = Tail(backlog)
  /\ UNCHANGED <<acceptor, poller, hasCallback, file, peer>>

\* ~Acceptor(): the channel leaves the poller, then ~Socket() closes listenfd,
\* and with it the connections that nobody has accepted.
Destroy ==
  /\ acceptor # "gone"
  /\ acceptor' = "gone"
  /\ poller' = P!CloseFd(P!RemoveChannel(P!DisableAll(poller, acceptChannel_),
                                         acceptChannel_), acceptChannel_)
  /\ file' = [file EXCEPT ![listenfd] = "none"]
  /\ backlog' = <<>>
  /\ UNCHANGED <<hasCallback, peer, errno>>

-----------------------------------------------------------------------------
(***************************************************************************)
(* The rest of the process.                                                *)
(***************************************************************************)

\* ~Socket() of a TcpConnection.
CloseConnection(fd) ==
  /\ file[fd] \in Peers
  /\ peer' = [peer EXCEPT ![file[fd]] = "served"]
  /\ file' = [file EXCEPT ![fd] = "none"]
  /\ UNCHANGED <<acceptor, poller, hasCallback, backlog, errno>>

CloseOther(fd) ==
  /\ file[fd] = "other"
  /\ file' = [file EXCEPT ![fd] = "none"]
  /\ UNCHANGED <<acceptor, poller, hasCallback, backlog, peer, errno>>

Next ==
  \/ \E p \in Peers : Connect(p) \/ Abort(p)
  \/ Listen
  \/ HandleRead
  \/ HandleReadAtLimit
  \/ HandleReadAborted
  \/ Destroy
  \/ \E fd \in Fds : CloseConnection(fd) \/ CloseOther(fd)

Spec == Init /\ [][Next]_vars

\* listenfd is reported by every poll() while it is readable; connections end
\* and files are closed in the end.
FairSpec ==
  /\ Spec
  /\ WF_vars(HandleRead)
  /\ WF_vars(\E fd \in Fds : CloseConnection(fd))
  /\ WF_vars(\E fd \in Fds : CloseOther(fd))

-----------------------------------------------------------------------------
(***************************************************************************)
(* Properties.                                                             *)
(***************************************************************************)

\* Every descriptor that accept4() has returned is open exactly as long as a
\* connection that somebody was given: "未设置回调则关闭，避免泄漏".
NoDescriptorLeak ==
  /\ \A p \in Peers : peer[p] = "accepted" <=> \E fd \in Fds : file[fd] = p
  /\ \A f, g \in Fds : file[f] \in Peers /\ file[f] = file[g] => f = g

\* A peer in the queue is accepted, once descriptors are given back: accept4()
\* that fails with EMFILE is tried again.
EveryoneAccepted ==
  \A p \in Peers :
    (peer[p] = "waiting") ~> (peer[p] \in {"accepted", "served", "aborted"}
                              \/ acceptor = "gone")
=============================================================================
