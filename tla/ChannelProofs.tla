---------------------------- MODULE ChannelProofs ----------------------------
(***************************************************************************)
(* For any channels, fds and owners: epoll_ctl never fails, the poller's   *)
(* records agree with each other and with the life of the channels, and    *)
(* the round's raw pointers are valid.                                     *)
(***************************************************************************)
EXTENDS Channel, TLAPS

(***************************************************************************)
(* What the poller's operations preserve, for every poller and channel, C  *)
(* being the channels that exist.                                          *)
(***************************************************************************)

\* No other channel on this fd number is known to the poller.
Alone(p, c, C) ==
  \A d \in C : FdOf[d] = FdOf[c] /\ d # c => p.index[d] = "kNew"

Consistent(p, C) == /\ p \in Pollers
                    /\ C \subseteq Channels
                    /\ KernelAgrees(p, C)
                    /\ MapAgrees(p, C)
                    /\ p.errors = {}

\* A poller without channels.
LEMMA EmptyConsistent == Consistent(EmptyPoller, Channels)
BY PollerAssumption
DEF Consistent, EmptyPoller, Pollers, KernelAgrees, MapAgrees, HasChannel,
    Events, Index

\* An fd whose channels are all unknown to the poller is free in the kernel.
LEMMA FreeInKernel ==
  ASSUME NEW p, NEW C, Consistent(p, C),
         NEW c \in Channels, c \in C, Alone(p, c, C), p.index[c] # "kAdded"
  PROVE  p.ptr[FdOf[c]] = NoChannel
BY PollerAssumption DEF Consistent, Alone, KernelAgrees, Pollers, Index

\* Enabling and disabling never fails in the kernel, and index_ follows: a
\* channel is added by whatever it asks for and deleted by asking for nothing.
LEMMA SetEventsConsistent ==
  ASSUME NEW p, NEW C, Consistent(p, C),
         NEW c \in Channels, c \in C, Alone(p, c, C),
         NEW ev \in SUBSET Events
  PROVE  /\ Consistent(SetEvents(p, c, ev), C)
         /\ SetEvents(p, c, ev).events = [p.events EXCEPT ![c] = ev]
         /\ SetEvents(p, c, ev).index =
              [p.index EXCEPT ![c] = IF p.index[c] = "kAdded" /\ ev = {}
                                     THEN "kDeleted" ELSE "kAdded"]
<1> DEFINE q == SetEvents(p, c, ev)
           fd == FdOf[c]
           inMap == [p.channels_ EXCEPT ![fd] = c]
<1> USE PollerAssumption
<1>0. /\ p \in Pollers
      /\ fd \in Fds
      /\ p.index[c] \in {"kNew", "kAdded", "kDeleted"}
  BY DEF Consistent, Pollers, Index
<1>1. CASE p.index[c] = "kNew"
  <2>1. p.ptr[fd] = NoChannel BY <1>1, FreeInKernel
  <2>2. q = [events    |-> [p.events EXCEPT ![c] = ev],
             index     |-> [p.index EXCEPT ![c] = "kAdded"],
             channels_ |-> inMap,
             ptr       |-> [p.ptr EXCEPT ![fd] = c],
             mask      |-> [p.mask EXCEPT ![fd] = ev],
             errors    |-> p.errors]
    BY <1>0, <1>1, <2>1
    DEF SetEvents, UpdateChannel, CtlAdd, Register, Pollers
  <2> HIDE DEF q
  <2>3. Consistent(q, C)
    BY <1>0, <1>1, <2>1, <2>2
    DEF Consistent, Alone, Pollers, KernelAgrees, MapAgrees, HasChannel, Index
  <2> QED BY <1>1, <2>2, <2>3 DEF q
<1>2. CASE p.index[c] = "kDeleted"
  <2>1. p.ptr[fd] = NoChannel BY <1>2, FreeInKernel
  <2>2. q = [events    |-> [p.events EXCEPT ![c] = ev],
             index     |-> [p.index EXCEPT ![c] = "kAdded"],
             channels_ |-> p.channels_,
             ptr       |-> [p.ptr EXCEPT ![fd] = c],
             mask      |-> [p.mask EXCEPT ![fd] = ev],
             errors    |-> p.errors]
    BY <1>0, <1>2, <2>1
    DEF SetEvents, UpdateChannel, CtlAdd, Register, Pollers
  <2> HIDE DEF q
  <2>3. Consistent(q, C)
    BY <1>0, <1>2, <2>1, <2>2
    DEF Consistent, Alone, Pollers, KernelAgrees, MapAgrees, HasChannel, Index
  <2> QED BY <1>2, <2>2, <2>3 DEF q
<1>3. CASE p.index[c] = "kAdded" /\ ev = {}
  <2>1. p.ptr[fd] = c /\ c # NoChannel
    BY <1>3 DEF Consistent, KernelAgrees
  <2>2. q = [events    |-> [p.events EXCEPT ![c] = ev],
             index     |-> [p.index EXCEPT ![c] = "kDeleted"],
             channels_ |-> p.channels_,
             ptr       |-> [p.ptr EXCEPT ![fd] = NoChannel],
             mask      |-> [p.mask EXCEPT ![fd] = {}],
             errors    |-> p.errors]
    BY <1>0, <1>3, <2>1
    DEF SetEvents, UpdateChannel, CtlDel, Unregister, Pollers
  <2> HIDE DEF q
  <2>3. Consistent(q, C)
    BY <1>0, <1>3, <2>1, <2>2
    DEF Consistent, Alone, Pollers, KernelAgrees, MapAgrees, HasChannel, Index
  <2> QED BY SMTT(30), <1>3, <2>2, <2>3 DEF q
<1>4. CASE p.index[c] = "kAdded" /\ ev # {}
  <2>1. p.ptr[fd] = c /\ c # NoChannel
    BY <1>4 DEF Consistent, KernelAgrees
  <2>2. q = [events    |-> [p.events EXCEPT ![c] = ev],
             index     |-> p.index,
             channels_ |-> p.channels_,
             ptr       |-> [p.ptr EXCEPT ![fd] = c],
             mask      |-> [p.mask EXCEPT ![fd] = ev],
             errors    |-> p.errors]
    BY <1>0, <1>4, <2>1
    DEF SetEvents, UpdateChannel, CtlMod, Register, Pollers
  <2> HIDE DEF q
  <2>3. Consistent(q, C)
    BY <1>0, <1>4, <2>1, <2>2
    DEF Consistent, Alone, Pollers, KernelAgrees, MapAgrees, HasChannel, Index
  <2>4. p.index = [p.index EXCEPT ![c] = "kAdded"]
    BY <1>0, <1>4 DEF Pollers
  <2> QED BY <1>4, <2>2, <2>3, <2>4 DEF q
<1> QED BY <1>0, <1>1, <1>2, <1>3, <1>4

\* What a DEL leaves of the other fields.
LEMMA UnregisterFields ==
  ASSUME NEW p \in Pollers, NEW fd \in Fds
  PROVE  LET q == Unregister(p, fd) IN
         /\ q \in Pollers
         /\ q.events = p.events
         /\ q.index = p.index
         /\ q.channels_ = p.channels_
         /\ q.ptr = [p.ptr EXCEPT ![fd] = NoChannel]
         /\ q.mask = [p.mask EXCEPT ![fd] = {}]
         /\ q.errors = p.errors
BY DEF Unregister, Pollers

\* removeChannel() leaves nothing of the channel behind.
LEMMA RemoveConsistent ==
  ASSUME NEW p, NEW C, Consistent(p, C),
         NEW c \in Channels, c \in C, Alone(p, c, C)
  PROVE  /\ Consistent(RemoveChannel(p, c), C)
         /\ RemoveChannel(p, c).events = p.events
         /\ RemoveChannel(p, c).index = [p.index EXCEPT ![c] = "kNew"]
<1> DEFINE q == RemoveChannel(p, c)
           fd == FdOf[c]
           erased == [p EXCEPT !.channels_[fd] = NoChannel]
           deleted == IF p.index[c] = "kAdded" THEN CtlDel(erased, c) ELSE erased
<1> USE PollerAssumption
<1>0. /\ p \in Pollers
      /\ fd \in Fds
  BY DEF Consistent
<1>1. /\ erased \in Pollers
      /\ erased.events = p.events
      /\ erased.index = p.index
      /\ erased.channels_ = [p.channels_ EXCEPT ![fd] = NoChannel]
      /\ erased.ptr = p.ptr
      /\ erased.mask = p.mask
      /\ erased.errors = p.errors
  BY <1>0 DEF Pollers
<1>2. q = [deleted EXCEPT !.index[c] = "kNew"] BY DEF RemoveChannel
<1> HIDE DEF erased
<1>3. /\ deleted \in Pollers
      /\ deleted.events = p.events
      /\ deleted.index = p.index
      /\ deleted.channels_ = [p.channels_ EXCEPT ![fd] = NoChannel]
      /\ deleted.ptr = IF p.index[c] = "kAdded"
                       THEN [p.ptr EXCEPT ![fd] = NoChannel] ELSE p.ptr
      /\ deleted.mask = IF p.index[c] = "kAdded"
                        THEN [p.mask EXCEPT ![fd] = {}] ELSE p.mask
      /\ deleted.errors = p.errors
  <2>1. CASE p.index[c] = "kAdded"
    <3>1. p.ptr[fd] = c /\ c # NoChannel
      BY <2>1 DEF Consistent, KernelAgrees
    <3>2. deleted = Unregister(erased, fd)
      BY <1>1, <2>1, <3>1 DEF CtlDel
    <3> HIDE DEF deleted
    <3>3. /\ deleted \in Pollers
          /\ deleted.events = erased.events
          /\ deleted.index = erased.index
          /\ deleted.channels_ = erased.channels_
          /\ deleted.ptr = [erased.ptr EXCEPT ![fd] = NoChannel]
          /\ deleted.mask = [erased.mask EXCEPT ![fd] = {}]
          /\ deleted.errors = erased.errors
      BY <1>0, <1>1, <3>2, UnregisterFields
    <3> QED BY <1>1, <2>1, <3>3
  <2>2. CASE p.index[c] # "kAdded" BY <1>1, <2>2
  <2> QED BY <2>1, <2>2
<1> HIDE DEF deleted, q
<1>4. /\ q \in Pollers
      /\ q.events = deleted.events
      /\ q.index = [deleted.index EXCEPT ![c] = "kNew"]
      /\ q.channels_ = deleted.channels_
      /\ q.ptr = deleted.ptr
      /\ q.mask = deleted.mask
      /\ q.errors = deleted.errors
  BY <1>2, <1>3 DEF Pollers, Index
<1>5. Consistent(q, C)
  BY <1>0, <1>3, <1>4
  DEF Consistent, Alone, Pollers, KernelAgrees, MapAgrees, HasChannel, Index
<1> QED BY <1>3, <1>4, <1>5 DEF q

\* Closing the fd of a channel, even of one that is registered, leaves the others
\* as they are.
LEMMA CloseConsistent ==
  ASSUME NEW p, NEW C, Consistent(p, C),
         NEW c \in Channels, c \in C, Alone(p, c, C)
  PROVE  /\ Consistent(CloseFd(p, c), C \ {c})
         /\ CloseFd(p, c).events = p.events
         /\ CloseFd(p, c).index = p.index
<1> DEFINE q == CloseFd(p, c)
           fd == FdOf[c]
<1> USE PollerAssumption
<1>1. p \in Pollers /\ fd \in Fds BY DEF Consistent
<1>2. /\ q \in Pollers
      /\ q.events = p.events
      /\ q.index = p.index
      /\ q.channels_ = p.channels_
      /\ q.ptr = [p.ptr EXCEPT ![fd] = NoChannel]
      /\ q.mask = [p.mask EXCEPT ![fd] = {}]
      /\ q.errors = p.errors
  BY <1>1, UnregisterFields DEF CloseFd
<1> HIDE DEF q
<1>3. p.ptr \in [Fds -> Channels \cup {NoChannel}] BY <1>1 DEF Pollers
<1>4. KernelAgrees(q, C \ {c})
  <2>1. ASSUME NEW d \in C \ {c}
        PROVE  q.index[d] = "kAdded" <=> q.ptr[FdOf[d]] = d
    BY <1>1, <1>2, <1>3, <2>1 DEF Consistent, Alone, KernelAgrees
  <2>2. ASSUME NEW e \in Fds, q.ptr[e] # NoChannel
        PROVE  /\ q.ptr[e] \in C \ {c}
               /\ FdOf[q.ptr[e]] = e
               /\ q.mask[e] = q.events[q.ptr[e]]
    <3>1. e # fd /\ q.ptr[e] = p.ptr[e] BY <1>1, <1>2, <1>3, <2>2
    <3>2. /\ p.ptr[e] \in C
          /\ FdOf[p.ptr[e]] = e
          /\ p.mask[e] = p.events[p.ptr[e]]
      BY <2>2, <3>1 DEF Consistent, KernelAgrees
    <3>3. q.mask[e] = p.mask[e] BY <1>1, <1>2, <3>1 DEF Pollers
    <3> QED BY <1>2, <3>1, <3>2, <3>3
  <2> QED BY <2>1, <2>2 DEF KernelAgrees
<1>5. MapAgrees(q, C \ {c})
  BY <1>2 DEF Consistent, MapAgrees, HasChannel
<1> QED BY <1>2, <1>4, <1>5 DEF Consistent, q

-----------------------------------------------------------------------------
(***************************************************************************)
(* The invariant.                                                          *)
(***************************************************************************)

IndexOf(l) == IF l = "up" THEN "kAdded"
              ELSE IF l = "down" THEN "kDeleted" ELSE "kNew"

\* Where state_ and the calls under way stand in the life of a channel.
LifeOK(c) ==
  /\ life[c] \in {"none", "new"} => state_[c] = "kConnecting"
  /\ life[c] = "up" /\ c \in Connections =>
       state_[c] \in {"kConnected", "kDisconnecting"}
  /\ life[c] \in {"down", "removed"} =>
       c \in Connections /\ state_[c] \in {"kDisconnecting", "kDisconnected"}
  /\ life[c] = "freed" \/ c \in Acceptors => state_[c] # "kConnected"
  /\ c \in reclosed => life[c] \in {"down", "removed", "freed"}
  /\ c \in sending \cup ending => life[c] \in {"up", "down", "removed"}
  /\ destroys[c] > 0 => life[c] \in {"down", "removed"}

\* index_ follows the life of the channel, events_ its state_.
TrackedOK(c) ==
  /\ Irregular(c) \/ poller.index[c] = IndexOf(life[c])
  /\ state_[c] = "kDisconnected" => poller.events[c] = {}
  /\ life[c] = "up" => "in" \in poller.events[c]
  /\ "in" \in poller.events[c] => life[c] = "up" \/ Overtaken(c)

Tracked == \A c \in Channels : LifeOK(c) /\ TrackedOK(c)

\* An open fd has one owner.
FdOwned ==
  \A c, d \in Channels :
    HoldsFd(c) /\ HoldsFd(d) /\ FdOf[c] = FdOf[d] => c = d

\* A channel that the poller has reported and the round has not come to yet.
Reported(c) ==
  /\ life[c] = "up" \/ Irregular(c)
  /\ "in" \in revents[c] => life[c] = "up" \/ Overtaken(c)

\* The channel in handleEvent(), by the callbacks that are left.
Handling(c) ==
  /\ life[c] \in {"up", "down"} \/ Irregular(c)
  /\ todo # {} => life[c] # "freed"
  /\ todo \subseteq Callbacks(revents[c])
  /\ "close" \in todo => life[c] = "up" \/ Irregular(c)
  /\ "read" \in todo =>
       life[c] = "up" \/ Irregular(c) \/ ClosesAndReads(revents[c])
  /\ "read" \in todo /\ "in" \in revents[c] => life[c] = "up" \/ Overtaken(c)

\* What the IO thread relies on in a round.
RoundInv ==
  /\ phase # "dispatch" => activeChannels_ = {} /\ current = NoChannel
  /\ current = NoChannel => todo = {}
  /\ current \notin activeChannels_
  /\ \A c \in activeChannels_ : Reported(c)
  /\ current # NoChannel => Handling(current)

Steady == Consistent(poller, Existing) /\ Tracked /\ FdOwned

IInv == TypeOK /\ Steady /\ RoundInv

\* The loop starts with an empty poller.
LEMMA InitIInv == Init => IInv
<1> SUFFICES ASSUME Init PROVE IInv OBVIOUS
<1> USE DEF Init
<1>1. Existing = Channels BY DEF Existing
<1>2. Consistent(poller, Existing) BY <1>1, EmptyConsistent
<1>3. TypeOK BY <1>2, ChannelAssumption DEF TypeOK, Consistent, Lives, States
<1>4. ASSUME NEW c \in Channels PROVE LifeOK(c) /\ TrackedOK(c)
  BY DEF LifeOK, TrackedOK, EmptyPoller, IndexOf
<1>5. FdOwned BY DEF FdOwned, HoldsFd
<1>6. RoundInv BY DEF RoundInv
<1> QED BY <1>2, <1>3, <1>4, <1>5, <1>6 DEF IInv, Steady, Tracked

\* The owner of an open fd is the only channel the poller can know on it.
LEMMA OwnerAlone ==
  ASSUME IInv, NEW c \in Channels, HoldsFd(c)
  PROVE  c \in Existing /\ Alone(poller, c, Existing)
<1>1. c \in Existing BY DEF Existing, HoldsFd
<1>2. ASSUME NEW d \in Existing, FdOf[d] = FdOf[c], d # c
      PROVE  poller.index[d] = "kNew"
  <2>1. d \in Channels /\ life[d] \in Lives /\ life[d] # "freed"
    BY <1>2 DEF Existing, IInv, TypeOK
  <2>2. ~HoldsFd(d) BY <1>2, <2>1 DEF IInv, Steady, FdOwned
  <2>3. life[d] = "none" BY <2>1, <2>2 DEF HoldsFd, Lives
  <2>4. ~Irregular(d)
    BY <2>1, <2>3 DEF Irregular, Overtaken, IInv, Steady, Tracked, LifeOK
  <2> QED BY <2>1, <2>3, <2>4
          DEF IInv, Steady, Tracked, TrackedOK, IndexOf
<1> QED BY <1>1, <1>2 DEF Alone

\* Nothing is different for channel d.
Untouched(d) ==
  /\ life'[d] = life[d]
  /\ state_'[d] = state_[d]
  /\ d \in sending' <=> d \in sending
  /\ d \in ending' <=> d \in ending
  /\ destroys'[d] = destroys[d]
  /\ d \in reclosed' <=> d \in reclosed
  /\ poller'.index[d] = poller.index[d]
  /\ poller'.events[d] = poller.events[d]

\* A step that concerns channel c only need be looked at for c.
LEMMA OneChannel ==
  ASSUME IInv, NEW c \in Channels,
         Consistent(poller', Existing'),
         \A d \in Channels \ {c} : Untouched(d),
         LifeOK(c)', TrackedOK(c)',
         \/ HoldsFd(c)' => HoldsFd(c)
         \/ \A d \in Channels : HoldsFd(d) => FdOf[d] # FdOf[c]
  PROVE  Steady'
<1>1. ASSUME NEW d \in Channels PROVE LifeOK(d)' /\ TrackedOK(d)'
  <2>1. CASE d = c BY <2>1
  <2>2. CASE d # c
    <3>1. Untouched(d) BY <2>2
    <3>2. LifeOK(d) /\ TrackedOK(d) BY DEF IInv, Steady, Tracked
    <3>3. LifeOK(d)' BY <3>1, <3>2 DEF LifeOK, Untouched
    <3>4. TrackedOK(d)'
      BY <3>1, <3>2 DEF TrackedOK, Untouched, Irregular, Overtaken
    <3> QED BY <3>3, <3>4
  <2> QED BY <2>1, <2>2
<1>2. FdOwned'
  <2> SUFFICES ASSUME NEW d \in Channels, NEW e \in Channels,
                      HoldsFd(d)', HoldsFd(e)', FdOf[d] = FdOf[e]
               PROVE  d = e
    BY DEF FdOwned
  <2>1. \A x \in Channels \ {c} : HoldsFd(x)' => HoldsFd(x)
    BY DEF Untouched, HoldsFd
  <2> QED BY <2>1 DEF IInv, Steady, FdOwned
<1> QED BY <1>1, <1>2 DEF Steady, Tracked

\* The loop stands still, and what makes a channel be in the round still does.
Kept(c) ==
  /\ life[c] = "up" => life'[c] = "up"
  /\ life[c] \in {"up", "down"} => life'[c] = life[c]
  /\ Irregular(c) => Irregular(c)'
  /\ Overtaken(c) => Overtaken(c)'
  /\ current = c /\ life[c] # "freed" => life'[c] # "freed"

\* A step of an owner between two steps of the round.
LEMMA RoundKept ==
  ASSUME IInv, UNCHANGED loopVars,
         NEW c \in Channels, \A d \in Channels \ {c} : Untouched(d),
         phase # "dispatch" \/ Kept(c)
  PROVE  RoundInv'
<1> USE DEF loopVars
<1>1. CASE phase # "dispatch"
  BY <1>1 DEF IInv, RoundInv, TypeOK
<1>2. CASE phase = "dispatch"
  <2>1. ASSUME NEW d \in Channels PROVE Kept(d)
    BY <1>2, <2>1 DEF Kept, Untouched, Irregular, Overtaken
  <2>2. ASSUME NEW d \in Channels, Reported(d) PROVE Reported(d)'
    BY <2>1, <2>2 DEF Reported, Kept
  <2>3. ASSUME NEW d \in Channels, d = current, Handling(d) PROVE Handling(d)'
    BY <2>1, <2>3 DEF Handling, Kept
  <2> QED BY <2>2, <2>3 DEF IInv, RoundInv, TypeOK
<1> QED BY <1>1, <1>2

-----------------------------------------------------------------------------
(***************************************************************************)
(* The owners' steps.                                                      *)
(***************************************************************************)

\* A new channel is in no poller.
LEMMA ConstructPreserves ==
  ASSUME IInv, NEW c \in Channels, Construct(c) PROVE IInv'
<1> USE DEF Construct
<1>1. life \in [Channels -> Lives] BY DEF IInv, TypeOK
<1>2. Existing' = Existing BY <1>1 DEF Existing
<1>3. Consistent(poller', Existing') BY <1>2 DEF IInv, Steady
<1>4. \A d \in Channels \ {c} : Untouched(d) BY <1>1 DEF Untouched
<1>5. LifeOK(c) /\ TrackedOK(c) BY DEF IInv, Steady, Tracked
<1>6. LifeOK(c)' BY <1>1, <1>5 DEF LifeOK
<1>7. TrackedOK(c)'
  BY <1>1, <1>5 DEF LifeOK, TrackedOK, Irregular, Overtaken, IndexOf
<1>8. Steady' BY <1>3, <1>4, <1>6, <1>7, OneChannel
<1>9. Kept(c) BY <1>1, <1>5 DEF Kept, Irregular, Overtaken, LifeOK
<1>10. RoundInv' BY <1>4, <1>9, RoundKept
<1>11. TypeOK' BY <1>1 DEF IInv, TypeOK, loopVars, Lives
<1> QED BY <1>8, <1>10, <1>11 DEF IInv

\* listen() and connectEstablished(): enableReading().
LEMMA EnablePreserves ==
  ASSUME IInv, NEW c \in Channels, life[c] = "new", NEW st \in States,
         c \in Connections => st = "kConnected",
         c \in Acceptors => st = state_[c],
         poller' = EnableReading(poller, c),
         life' = [life EXCEPT ![c] = "up"],
         state_' = [state_ EXCEPT ![c] = st],
         UNCHANGED <<sending, ending, destroys, reclosed, loopVars>>
  PROVE  IInv'
<1> DEFINE ev == poller.events[c] \cup {"in", "pri"}
<1>1. HoldsFd(c) BY DEF HoldsFd
<1>2. ev \in SUBSET Events
  BY DEF IInv, Steady, Consistent, Pollers, Events
<1>3. life \in [Channels -> Lives] /\ state_ \in [Channels -> States]
  BY DEF IInv, TypeOK
<1>4. Existing' = Existing BY <1>3 DEF Existing
<1>5. "in" \in ev OBVIOUS
<1>6. poller' = SetEvents(poller, c, ev) BY DEF EnableReading
<1> HIDE DEF ev
<1>7. c \in Existing /\ Alone(poller, c, Existing) BY <1>1, OwnerAlone
<1>8. Existing \in SUBSET Channels BY DEF Existing
<1>9. Consistent(poller, Existing) BY DEF IInv, Steady
<1>10. /\ Consistent(poller', Existing')
       /\ poller'.events = [poller.events EXCEPT ![c] = ev]
       /\ poller'.index = [poller.index EXCEPT ![c] = "kAdded"]
  <2> DEFINE q == SetEvents(poller, c, ev)
  <2>1. /\ Consistent(q, Existing)
        /\ q.events = [poller.events EXCEPT ![c] = ev]
        /\ q.index =
             [poller.index EXCEPT ![c] = IF poller.index[c] = "kAdded" /\ ev = {}
                                         THEN "kDeleted" ELSE "kAdded"]
    BY <1>2, <1>7, <1>8, <1>9, SetEventsConsistent
  <2>2. poller' = q BY <1>6
  <2> HIDE DEF q
  <2>3. ev # {} BY <1>5
  <2> QED BY <1>4, <2>1, <2>2, <2>3
<1>11. /\ poller.events \in [Channels -> SUBSET Events]
       /\ poller.index \in [Channels -> Index]
  BY <1>9 DEF Consistent, Pollers
<1>12. \A d \in Channels \ {c} : Untouched(d)
  BY <1>3, <1>10, <1>11 DEF Untouched
<1>13. LifeOK(c) /\ TrackedOK(c) BY DEF IInv, Steady, Tracked
<1>14. LifeOK(c)' BY <1>3, <1>13 DEF LifeOK, Connections
<1>15. TrackedOK(c)'
  <2>1. poller'.index[c] = "kAdded" /\ poller'.events[c] = ev
    BY <1>10, <1>11
  <2>2. life'[c] = "up" /\ state_'[c] # "kDisconnected"
    BY <1>3, <1>13 DEF LifeOK, Connections
  <2> QED BY <1>5, <2>1, <2>2 DEF TrackedOK, IndexOf
<1>16. Steady' BY <1>1, <1>10, <1>12, <1>14, <1>15, OneChannel
<1>17. Kept(c) BY <1>3, <1>13 DEF Kept, Irregular, Overtaken, LifeOK
<1>18. RoundInv' BY <1>12, <1>17, RoundKept
<1>19. TypeOK' BY <1>3, <1>10 DEF IInv, TypeOK, loopVars, Lives, Consistent
<1> QED BY <1>16, <1>18, <1>19 DEF IInv

\* The tests of send() and shutdown(), and the store of the latter.
LEMMA UserPreserves ==
  ASSUME IInv, NEW c \in Channels,
         SendTests(c) \/ ShutdownTests(c) \/ ShutdownStores(c)
  PROVE  IInv'
<1> USE DEF SendTests, ShutdownTests, ShutdownStores
<1>1. life \in [Channels -> Lives] /\ state_ \in [Channels -> States]
  BY DEF IInv, TypeOK
<1>2. Existing' = Existing BY DEF Existing
<1>3. Consistent(poller', Existing') BY <1>2 DEF IInv, Steady
<1>4. \A d \in Channels \ {c} : Untouched(d) BY <1>1 DEF Untouched
<1>5. LifeOK(c) /\ TrackedOK(c) BY DEF IInv, Steady, Tracked
<1>6. LifeOK(c)'
  <2>1. CASE SendTests(c) \/ ShutdownTests(c)
    <3>1. life[c] = "up"
      BY <1>1, <1>5, <2>1 DEF LifeOK, Lives
    <3> QED BY <1>5, <2>1, <3>1 DEF LifeOK
  <2>2. CASE ShutdownStores(c)
    <3>1. life[c] \in {"up", "down", "removed"}
      BY <1>1, <1>5, <2>2 DEF LifeOK, Lives
    <3> QED BY <1>1, <1>5, <2>2, <3>1 DEF LifeOK
  <2> QED BY <2>1, <2>2
<1>7. Kept(c)
  BY <1>1 DEF Kept, Irregular, Overtaken
<1>8. TrackedOK(c)'
  BY <1>1, <1>5, <1>7 DEF TrackedOK, Kept
<1>9. Steady' BY <1>3, <1>4, <1>6, <1>8, OneChannel DEF HoldsFd
<1>10. RoundInv' BY <1>4, <1>7, RoundKept
<1>11. TypeOK' BY <1>1 DEF IInv, TypeOK, loopVars, States
<1> QED BY <1>9, <1>10, <1>11 DEF IInv

\* Enabling or disabling writing on a channel that is up, or that should not be
\* in the poller any more.
LEMMA WritingSteady ==
  ASSUME IInv, NEW c \in Channels,
         life[c] = "up" \/ Irregular(c), HoldsFd(c),
         state_[c] # "kDisconnected",
         NEW ev \in SUBSET Events, "in" \in ev <=> "in" \in poller.events[c],
         poller' = SetEvents(poller, c, ev),
         UNCHANGED <<life, state_, ending, destroys, reclosed>>,
         sending' \subseteq sending, sending \ sending' \subseteq {c}
  PROVE  Consistent(poller', Existing') /\ Steady'
<1>1. Existing' = Existing BY DEF Existing
<1>2. c \in Existing /\ Alone(poller, c, Existing) BY OwnerAlone
<1>3. Existing \in SUBSET Channels BY DEF Existing
<1>4. Consistent(poller, Existing) BY DEF IInv, Steady
<1>5. /\ Consistent(poller', Existing')
      /\ poller'.events = [poller.events EXCEPT ![c] = ev]
      /\ poller'.index =
           [poller.index EXCEPT ![c] = IF poller.index[c] = "kAdded" /\ ev = {}
                                       THEN "kDeleted" ELSE "kAdded"]
  <2> DEFINE q == SetEvents(poller, c, ev)
  <2>1. /\ Consistent(q, Existing)
        /\ q.events = [poller.events EXCEPT ![c] = ev]
        /\ q.index =
             [poller.index EXCEPT ![c] = IF poller.index[c] = "kAdded" /\ ev = {}
                                         THEN "kDeleted" ELSE "kAdded"]
    BY <1>2, <1>3, <1>4, SetEventsConsistent
  <2>2. poller' = q OBVIOUS
  <2> HIDE DEF q
  <2> QED BY <1>1, <2>1, <2>2
<1>6. /\ poller.events \in [Channels -> SUBSET Events]
      /\ poller.index \in [Channels -> Index]
  BY <1>4 DEF Consistent, Pollers
<1>7. \A d \in Channels \ {c} : Untouched(d) BY <1>5, <1>6 DEF Untouched
<1>8. LifeOK(c) /\ TrackedOK(c) BY DEF IInv, Steady, Tracked
<1>9. LifeOK(c)' BY <1>8 DEF LifeOK
<1>10. TrackedOK(c)'
  <2>1. poller'.events[c] = ev BY <1>5, <1>6
  <2>2. Irregular(c)' \/ poller'.index[c] = IndexOf(life'[c])
    <3>1. CASE Irregular(c) BY <3>1 DEF Irregular, Overtaken
    <3>2. CASE life[c] = "up"
      <4>1. ev # {} BY <1>8, <3>2 DEF TrackedOK
      <4> QED BY <1>5, <1>6, <3>2, <4>1 DEF IndexOf
    <3> QED BY <3>1, <3>2
  <2> QED BY <1>8, <2>1, <2>2 DEF TrackedOK, Overtaken
<1> QED BY <1>5, <1>7, <1>9, <1>10, OneChannel DEF HoldsFd

\* Nothing happens to the poller, and to the users' calls at most that a queued
\* functor has run.
LEMMA FunctorSteady ==
  ASSUME IInv, NEW c \in Channels,
         UNCHANGED <<poller, life, state_, ending, destroys, reclosed>>,
         sending' \subseteq sending, sending \ sending' \subseteq {c}
  PROVE  Consistent(poller', Existing') /\ Steady'
<1>1. Existing' = Existing BY DEF Existing
<1>2. Consistent(poller', Existing') BY <1>1 DEF IInv, Steady
<1>3. LifeOK(c) /\ TrackedOK(c) BY DEF IInv, Steady, Tracked
<1>4. LifeOK(c)' BY <1>3 DEF LifeOK
<1>5. TrackedOK(c)' BY <1>3 DEF TrackedOK, Irregular, Overtaken
<1>6. \A d \in Channels \ {c} : Untouched(d) BY DEF Untouched
<1> QED BY <1>2, <1>4, <1>5, <1>6, OneChannel DEF HoldsFd

\* sendInLoop(), with bytes left or without.
LEMMA SendPreserves ==
  ASSUME IInv, NEW c \in Channels, SendInLoop(c) PROVE IInv'
<1>1. /\ UNCHANGED <<life, state_, ending, destroys, reclosed, loopVars>>
      /\ sending' \subseteq sending
      /\ sending \ sending' \subseteq {c}
  BY DEF SendInLoop
<1>2. Consistent(poller', Existing') /\ Steady'
  <2>1. CASE poller' = poller BY <1>1, <2>1, FunctorSteady
  <2>2. CASE poller' # poller
    <3> DEFINE ev == poller.events[c] \cup {"out"}
    <3>1. ev \in SUBSET Events
      BY DEF IInv, Steady, Consistent, Pollers, Events
    <3>2. state_[c] # "kDisconnected" /\ poller' = SetEvents(poller, c, ev)
      BY <2>2 DEF SendInLoop, EnableWriting
    <3>3. "in" \in ev <=> "in" \in poller.events[c] OBVIOUS
    <3> HIDE DEF ev
    <3>4. LifeOK(c) /\ life[c] \in Lives /\ state_[c] \in States
      BY DEF IInv, Steady, Tracked, TypeOK
    <3>5. c \in sending \/ state_[c] = "kConnected" BY DEF SendInLoop
    <3>6. life[c] \in {"up", "down", "removed"}
      BY <3>4, <3>5 DEF LifeOK, Lives
    <3>7. HoldsFd(c) BY <3>6 DEF HoldsFd
    <3>8. life[c] = "up" \/ Irregular(c)
      BY <3>2, <3>4, <3>6 DEF LifeOK, Irregular, Overtaken
    <3> QED BY <1>1, <3>1, <3>2, <3>3, <3>7, <3>8, WritingSteady
  <2> QED BY <2>1, <2>2
<1>3. RoundInv'
  BY <1>1
  DEF loopVars, IInv, RoundInv, Reported, Handling, Irregular, Overtaken
<1>4. TypeOK' BY <1>1, <1>2 DEF IInv, TypeOK, loopVars, Consistent
<1> QED BY <1>2, <1>3, <1>4 DEF IInv

\* disableAll(), of a registered channel or of one that is added by it.
LEMMA DisableConsistent ==
  ASSUME NEW p, NEW C, Consistent(p, C),
         NEW c \in Channels, c \in C, Alone(p, c, C)
  PROVE  /\ Consistent(DisableAll(p, c), C)
         /\ DisableAll(p, c).events = [p.events EXCEPT ![c] = {}]
         /\ DisableAll(p, c).index =
              [p.index EXCEPT ![c] = IF p.index[c] = "kAdded"
                                     THEN "kDeleted" ELSE "kAdded"]
<1>1. {} \in SUBSET Events OBVIOUS
<1> QED BY <1>1, SetEventsConsistent DEF DisableAll

\* disableAll(), then remove(): a registration may come and go in between.
LEMMA DisableRemove ==
  ASSUME NEW p, NEW C, Consistent(p, C),
         NEW c \in Channels, c \in C, Alone(p, c, C)
  PROVE  LET q == RemoveChannel(DisableAll(p, c), c) IN
         /\ Consistent(q, C)
         /\ q.events = [p.events EXCEPT ![c] = {}]
         /\ q.index = [p.index EXCEPT ![c] = "kNew"]
<1> DEFINE r == DisableAll(p, c)
<1>1. /\ Consistent(r, C)
      /\ r.events = [p.events EXCEPT ![c] = {}]
      /\ r.index = [p.index EXCEPT ![c] = IF p.index[c] = "kAdded"
                                         THEN "kDeleted" ELSE "kAdded"]
  BY DisableConsistent
<1> HIDE DEF r
<1>2. Alone(r, c, C) BY <1>1 DEF Alone, Consistent, Pollers
<1>3. /\ Consistent(RemoveChannel(r, c), C)
      /\ RemoveChannel(r, c).events = r.events
      /\ RemoveChannel(r, c).index = [r.index EXCEPT ![c] = "kNew"]
  BY <1>1, <1>2, RemoveConsistent
<1>4. p.index \in [Channels -> Index] BY DEF Consistent, Pollers
<1>5. [r.index EXCEPT ![c] = "kNew"] = [p.index EXCEPT ![c] = "kNew"]
  BY <1>1, <1>4
<1> QED BY <1>1, <1>3, <1>5 DEF r

\* connectDestroyed(): disableAll() if need be, and remove().
LEMMA ConnectDestroyedPreserves ==
  ASSUME IInv, NEW c \in Channels, ConnectDestroyed(c) PROVE IInv'
<1>1. /\ life \in [Channels -> Lives]
      /\ state_ \in [Channels -> States]
      /\ destroys \in [Channels -> Nat]
  BY DEF IInv, TypeOK
<1>2. /\ life' = [life EXCEPT ![c] = "removed"]
      /\ c \in Connections
      /\ UNCHANGED <<sending, ending, reclosed, loopVars>>
      /\ phase # "dispatch"
  BY DEF ConnectDestroyed
<1>3. LifeOK(c) /\ TrackedOK(c) BY DEF IInv, Steady, Tracked
<1>4. life[c] \in {"up", "down", "removed"}
  <2>1. life[c] = "up" \/ destroys[c] > 0 BY DEF ConnectDestroyed
  <2> QED BY <1>3, <2>1 DEF LifeOK
<1>5. HoldsFd(c) BY <1>4 DEF HoldsFd
<1>6. c \in Existing /\ Alone(poller, c, Existing) BY <1>5, OwnerAlone
<1>7. Existing' = Existing BY <1>1, <1>2, <1>4 DEF Existing
<1>8. Existing \in SUBSET Channels BY DEF Existing
<1>9. Consistent(poller, Existing) BY DEF IInv, Steady
<1>10. /\ poller.events \in [Channels -> SUBSET Events]
       /\ poller.index \in [Channels -> Index]
  BY <1>9 DEF Consistent, Pollers
<1>11. /\ destroys' \in [Channels -> Nat]
       /\ \A d \in Channels \ {c} : destroys'[d] = destroys[d]
  BY <1>1 DEF ConnectDestroyed
<1>12. PICK ev \in SUBSET Events, st \in States :
         /\ Consistent(poller', Existing')
         /\ poller'.events = [poller.events EXCEPT ![c] = ev]
         /\ poller'.index = [poller.index EXCEPT ![c] = "kNew"]
         /\ state_' = [state_ EXCEPT ![c] = st]
         /\ \/ ev = {} /\ st = "kDisconnected"
            \/ ev = poller.events[c] /\ st = state_[c] /\ st # "kConnected"
  <2>1. CASE state_[c] = "kConnected"
    <3>1. /\ poller' = RemoveChannel(DisableAll(poller, c), c)
          /\ state_' = [state_ EXCEPT ![c] = "kDisconnected"]
      BY <2>1 DEF ConnectDestroyed
    <3>2. /\ Consistent(poller', Existing)
          /\ poller'.events = [poller.events EXCEPT ![c] = {}]
          /\ poller'.index = [poller.index EXCEPT ![c] = "kNew"]
      BY <1>6, <1>8, <1>9, <3>1, DisableRemove
    <3>3. {} \in SUBSET Events /\ "kDisconnected" \in States BY DEF States
    <3> QED BY <1>7, <3>1, <3>2, <3>3
  <2>2. CASE state_[c] # "kConnected"
    <3>1. poller' = RemoveChannel(poller, c) /\ state_' = state_
      BY <2>2 DEF ConnectDestroyed
    <3>2. /\ Consistent(poller', Existing)
          /\ poller'.events = poller.events
          /\ poller'.index = [poller.index EXCEPT ![c] = "kNew"]
      BY <1>6, <1>8, <1>9, <3>1, RemoveConsistent
    <3>3. /\ poller.events[c] \in SUBSET Events
          /\ poller.events = [poller.events EXCEPT ![c] = poller.events[c]]
          /\ state_[c] \in States
          /\ state_ = [state_ EXCEPT ![c] = state_[c]]
      BY <1>1, <1>10
    <3> QED BY <1>7, <2>2, <3>1, <3>2, <3>3
  <2> QED BY <2>1, <2>2
<1>13. /\ life'[c] = "removed"
       /\ state_'[c] = st
       /\ poller'.events[c] = ev
       /\ poller'.index[c] = "kNew"
  BY <1>1, <1>2, <1>10, <1>12
<1>14. st \in {"kDisconnecting", "kDisconnected"}
  BY <1>2, <1>3, <1>4, <1>12 DEF LifeOK
<1>15. \A d \in Channels \ {c} : Untouched(d)
  BY <1>1, <1>2, <1>10, <1>11, <1>12 DEF Untouched
<1>16. LifeOK(c)'
  BY <1>2, <1>3, <1>4, <1>13, <1>14 DEF LifeOK, Connections
<1>17. TrackedOK(c)'
  <2>1. st = "kDisconnected" => ev = {} BY <1>3, <1>12 DEF TrackedOK
  <2>2. st = "kDisconnecting" => Overtaken(c)' BY <1>13 DEF Overtaken
  <2> QED BY <1>13, <1>14, <2>1, <2>2 DEF TrackedOK, IndexOf
<1>18. Steady' BY <1>5, <1>12, <1>15, <1>16, <1>17, OneChannel
<1>19. RoundInv' BY <1>2, <1>15, RoundKept
<1>20. TypeOK'
  BY <1>1, <1>2, <1>11, <1>12 DEF IInv, TypeOK, loopVars, Lives, Consistent
<1> QED BY <1>18, <1>19, <1>20 DEF IInv

\* The destructor of a connection: its fd is closed, and should the poller still
\* know it, the others are not affected.
LEMMA FreePreserves ==
  ASSUME IInv, NEW c \in Channels, Free(c) PROVE IInv'
<1> USE DEF Free
<1>1. life \in [Channels -> Lives] /\ state_ \in [Channels -> States]
  BY DEF IInv, TypeOK
<1>2. HoldsFd(c) BY DEF HoldsFd
<1>3. c \in Existing /\ Alone(poller, c, Existing) BY <1>2, OwnerAlone
<1>4. Existing' = Existing \ {c} BY <1>1 DEF Existing
<1>5. Existing \in SUBSET Channels BY DEF Existing
<1>6. Consistent(poller, Existing) BY DEF IInv, Steady
<1>7. /\ Consistent(poller', Existing')
      /\ poller'.events = poller.events
      /\ poller'.index = poller.index
  BY <1>3, <1>4, <1>5, <1>6, CloseConsistent
<1>8. LifeOK(c) /\ TrackedOK(c) BY DEF IInv, Steady, Tracked
<1>9. life'[c] = "freed" BY <1>1
<1>10. \A d \in Channels \ {c} : Untouched(d)
  BY <1>1, <1>7 DEF Untouched
<1>11. LifeOK(c)'
  BY <1>8, <1>9 DEF LifeOK
<1>12. (Irregular(c) => Irregular(c)') /\ (Overtaken(c) => Overtaken(c)')
  BY <1>9 DEF Irregular, Overtaken
<1>13. TrackedOK(c)'
  BY <1>7, <1>8, <1>9, <1>12 DEF TrackedOK, IndexOf
<1>14. Steady' BY <1>2, <1>7, <1>10, <1>11, <1>13, OneChannel
<1>15. Kept(c) BY <1>9, <1>12 DEF Kept
<1>16. RoundInv' BY <1>10, <1>15, RoundKept
<1>17. TypeOK' BY <1>1, <1>7 DEF IInv, TypeOK, loopVars, Lives, Consistent
<1> QED BY <1>14, <1>16, <1>17 DEF IInv

\* ~Acceptor(): disableAll() and remove().
LEMMA DestroyAcceptorPreserves ==
  ASSUME IInv, NEW c \in Channels, DestroyAcceptor(c) PROVE IInv'
<1> DEFINE q == RemoveChannel(DisableAll(poller, c), c)
<1>1. life \in [Channels -> Lives] /\ state_ \in [Channels -> States]
  BY DEF IInv, TypeOK
<1>2. /\ HoldsFd(c)
      /\ life' = [life EXCEPT ![c] = "freed"]
      /\ UNCHANGED <<state_, sending, ending, destroys, reclosed, loopVars>>
      /\ c \in Acceptors /\ phase # "dispatch"
      /\ life[c] \in {"new", "up"}
  BY DEF DestroyAcceptor, HoldsFd
<1>3. c \in Existing /\ Alone(poller, c, Existing) BY <1>2, OwnerAlone
<1>4. Existing' = Existing \ {c} BY <1>1, <1>2 DEF Existing
<1>5. Existing \in SUBSET Channels BY DEF Existing
<1>6. Consistent(poller, Existing) BY DEF IInv, Steady
<1>7. /\ Consistent(q, Existing)
      /\ q.events = [poller.events EXCEPT ![c] = {}]
      /\ q.index = [poller.index EXCEPT ![c] = "kNew"]
  BY <1>3, <1>5, <1>6, DisableRemove
<1>8. poller' = CloseFd(q, c) BY DEF DestroyAcceptor
<1> HIDE DEF q
<1>9. /\ poller.events \in [Channels -> SUBSET Events]
      /\ poller.index \in [Channels -> Index]
  BY <1>6 DEF Consistent, Pollers
<1>10. Alone(q, c, Existing) BY <1>3, <1>5, <1>7, <1>9 DEF Alone
<1>11. /\ Consistent(poller', Existing')
       /\ poller'.events = q.events
       /\ poller'.index = q.index
  BY <1>3, <1>4, <1>5, <1>7, <1>8, <1>10, CloseConsistent
<1>12. LifeOK(c) /\ TrackedOK(c) BY DEF IInv, Steady, Tracked
<1>13. life'[c] = "freed" BY <1>1, <1>2
<1>14. \A d \in Channels \ {c} : Untouched(d)
  BY <1>1, <1>2, <1>7, <1>9, <1>11 DEF Untouched
<1>15. LifeOK(c)'
  <2>1. c \notin Connections /\ c \notin sending \cup ending
        /\ c \notin reclosed
    BY <1>2, ChannelAssumption DEF Connections, IInv, TypeOK
  <2>2. ~(destroys[c] > 0) /\ state_[c] # "kConnected"
    BY <1>2, <1>12 DEF LifeOK
  <2>3. UNCHANGED <<state_, sending, ending, destroys, reclosed>> BY <1>2
  <2> QED BY <1>13, <2>1, <2>2, <2>3 DEF LifeOK
<1>16. TrackedOK(c)'
  BY <1>2, <1>7, <1>9, <1>11, <1>13 DEF TrackedOK, IndexOf
<1>17. Steady' BY <1>2, <1>11, <1>14, <1>15, <1>16, OneChannel
<1>18. RoundInv' BY <1>2, <1>14, RoundKept
<1>19. TypeOK'
  BY <1>1, <1>2, <1>11 DEF IInv, TypeOK, loopVars, Lives, Consistent
<1> QED BY <1>17, <1>18, <1>19 DEF IInv

-----------------------------------------------------------------------------
(***************************************************************************)
(* The loop's steps.                                                       *)
(***************************************************************************)

\* handleClose(), the first or another: the channel asks for nothing.
LEMMA HandleCloseSteady ==
  ASSUME IInv, NEW c \in Connections, life[c] \in {"up", "down", "removed"},
         HandleClose(c), UNCHANGED <<sending, ending>>
  PROVE  /\ Steady'
         /\ \A d \in Channels \ {c} : Untouched(d)
         /\ poller' \in Pollers
         /\ life' \in [Channels -> Lives] /\ state_' \in [Channels -> States]
         /\ destroys' \in [Channels -> Nat]
         /\ reclosed' \in SUBSET Connections
         /\ life'[c] = "down" \/ Irregular(c)'
         /\ life'[c] # "freed"
<1> USE DEF HandleClose
<1>1. /\ c \in Channels
      /\ life \in [Channels -> Lives]
      /\ state_ \in [Channels -> States]
      /\ destroys \in [Channels -> Nat]
      /\ reclosed \in SUBSET Connections
  BY DEF IInv, TypeOK, Connections
<1>2. HoldsFd(c) BY DEF HoldsFd
<1>3. c \in Existing /\ Alone(poller, c, Existing) BY <1>1, <1>2, OwnerAlone
<1>4. Existing' = Existing BY <1>1 DEF Existing
<1>5. Existing \in SUBSET Channels BY DEF Existing
<1>6. Consistent(poller, Existing) BY DEF IInv, Steady
<1>7. /\ Consistent(poller', Existing')
      /\ poller'.events = [poller.events EXCEPT ![c] = {}]
      /\ poller'.index = [poller.index EXCEPT ![c] =
                            IF poller.index[c] = "kAdded" THEN "kDeleted"
                                                          ELSE "kAdded"]
  BY <1>1, <1>3, <1>4, <1>5, <1>6, DisableConsistent
<1>8. /\ poller.events \in [Channels -> SUBSET Events]
      /\ poller.index \in [Channels -> Index]
  BY <1>6 DEF Consistent, Pollers
<1>9. /\ state_'[c] = "kDisconnected"
      /\ life'[c] = IF life[c] = "up" THEN "down" ELSE life[c]
      /\ life[c] = "up" \/ c \in reclosed'
      /\ poller'.events[c] = {}
      /\ life' \in [Channels -> Lives]
      /\ state_' \in [Channels -> States]
      /\ destroys' \in [Channels -> Nat]
      /\ reclosed' \in SUBSET Connections
  BY <1>1, <1>7, <1>8 DEF Lives, States
<1>10. \A d \in Channels \ {c} : Untouched(d)
  BY <1>1, <1>7, <1>8 DEF Untouched
<1>11. LifeOK(c) /\ TrackedOK(c) BY <1>1 DEF IInv, Steady, Tracked
<1>12. LifeOK(c)'
  BY <1>1, <1>9, <1>11 DEF LifeOK, Connections
<1>13. TrackedOK(c)'
  <2>1. CASE life[c] = "up"
    <3>1. ~Irregular(c) BY <1>11, <2>1 DEF Irregular, Overtaken, LifeOK
    <3>2. poller.index[c] = "kAdded"
      BY <1>11, <2>1, <3>1 DEF TrackedOK, IndexOf
    <3>3. poller'.index[c] = "kDeleted" BY <1>1, <1>7, <1>8, <3>2
    <3> QED BY <1>9, <2>1, <3>3 DEF TrackedOK, IndexOf
  <2>2. CASE life[c] # "up"
    <3>1. Irregular(c)' BY <1>9, <2>2 DEF Irregular
    <3> QED BY <1>9, <2>2, <3>1 DEF TrackedOK
  <2> QED BY <2>1, <2>2
<1>14. HoldsFd(c)' => HoldsFd(c) BY <1>2
<1>15. Steady' BY <1>1, <1>7, <1>10, <1>12, <1>13, <1>14, OneChannel
<1>16. life'[c] = "down" \/ Irregular(c)' BY <1>9 DEF Irregular
<1> QED BY <1>7, <1>9, <1>10, <1>15, <1>16 DEF Consistent

\* What the loop relies on while it calls a callback.
LEMMA CallingFacts ==
  ASSUME IInv, NEW k, Call(k)
  PROVE  /\ current \in Channels
         /\ current \notin activeChannels_
         /\ Handling(current)
         /\ life[current] \in {"up", "down", "removed"}
         /\ todo' \in SUBSET CallbackNames
<1>1. /\ current \in Channels
      /\ current \notin activeChannels_
      /\ Handling(current)
      /\ todo # {}
      /\ todo' \subseteq todo
      /\ todo \in SUBSET CallbackNames
  BY DEF Call, IInv, TypeOK, RoundInv
<1>2. life[current] \in {"up", "down", "removed"}
  <2>1. LifeOK(current) BY <1>1 DEF IInv, Steady, Tracked
  <2> QED BY <1>1, <2>1 DEF Handling, Irregular, Overtaken, LifeOK
<1> QED BY <1>1, <1>2

\* A hangup or the end of the stream closes the connection; a read that comes
\* after it in the same event is that of HUP and PRI without IN.
LEMMA ClosePreserves ==
  ASSUME IInv, NEW k \in {"close", "read"}, Call(k),
         current \in Connections, HandleClose(current)
  PROVE  IInv'
<1> DEFINE c == current
<1>1. /\ c \in Channels
      /\ c \notin activeChannels_
      /\ Handling(c)
      /\ life[c] \in {"up", "down", "removed"}
      /\ todo' \in SUBSET CallbackNames
  BY CallingFacts
<1>2. UNCHANGED <<phase, activeChannels_, revents, current, sending, ending>>
  BY DEF Call
<1>3. /\ Steady'
      /\ \A d \in Channels \ {c} : Untouched(d)
      /\ poller' \in Pollers
      /\ life' \in [Channels -> Lives] /\ state_' \in [Channels -> States]
      /\ destroys' \in [Channels -> Nat]
      /\ reclosed' \in SUBSET Connections
      /\ life'[c] = "down" \/ Irregular(c)'
      /\ life'[c] # "freed"
  BY <1>1, <1>2, HandleCloseSteady
<1>4. TypeOK' BY <1>1, <1>2, <1>3 DEF IInv, TypeOK
<1>5. k \in todo /\ todo' = todo \ {k} /\ todo \cap Before(k) = {} BY DEF Call
<1>6. Handling(c)'
  <2>1. "close" \notin todo' BY <1>5 DEF Before
  <2>2. "read" \in todo' => "close" \in todo BY <1>5
  <2>3. "read" \in todo' => ClosesAndReads(revents[c])
    BY <1>1, <1>5, <2>2 DEF Handling, ClosesAndReads
  <2>4. ClosesAndReads(revents[c]) => "in" \notin revents[c]
    BY DEF ClosesAndReads, Callbacks
  <2>5. todo' \subseteq Callbacks(revents[c]) BY <1>1, <1>5 DEF Handling
  <2> QED BY <1>2, <1>3, <2>1, <2>3, <2>4, <2>5 DEF Handling
<1>7. \A d \in activeChannels_ : Reported(d)'
  <2> SUFFICES ASSUME NEW d \in activeChannels_ PROVE Reported(d)' OBVIOUS
  <2>1. d \in Channels \ {c} BY <1>1 DEF IInv, TypeOK
  <2>2. Reported(d) BY DEF IInv, RoundInv
  <2> QED BY <1>2, <1>3, <2>1, <2>2
          DEF Reported, Irregular, Overtaken, Untouched
<1>8. RoundInv' BY <1>1, <1>2, <1>6, <1>7 DEF IInv, RoundInv, Call
<1> QED BY <1>3, <1>4, <1>8 DEF IInv

\* The other callbacks: at most handleWrite() ends the interest in writing.
LEMMA CallPreserves ==
  ASSUME IInv, NEW k, Call(k), Quiet,
         \/ poller' = poller
         \/ IsWriting(poller, current)
            /\ poller' = DisableWriting(poller, current)
  PROVE  IInv'
<1> DEFINE c == current
<1>1. /\ c \in Channels
      /\ Handling(c)
      /\ life[c] \in {"up", "down", "removed"}
      /\ todo' \in SUBSET CallbackNames
  BY CallingFacts
<1>2. UNCHANGED <<life, state_, destroys, reclosed, phase, activeChannels_,
                  revents, current, sending, ending>>
  BY DEF Call, Quiet
<1>3. Consistent(poller', Existing') /\ Steady'
  <2>1. CASE poller' = poller BY <1>1, <1>2, <2>1, FunctorSteady
  <2>2. CASE /\ IsWriting(poller, c)
             /\ poller' = DisableWriting(poller, c)
    <3> DEFINE ev == poller.events[c] \ {"out"}
    <3>1. ev \in SUBSET Events
      BY <1>1 DEF IInv, Steady, Consistent, Pollers, Events
    <3>2. poller' = SetEvents(poller, c, ev) BY <2>2 DEF DisableWriting
    <3>3. "in" \in ev <=> "in" \in poller.events[c] OBVIOUS
    <3> HIDE DEF ev
    <3>4. state_[c] # "kDisconnected"
      BY <1>1, <2>2 DEF IsWriting, IInv, Steady, Tracked, TrackedOK
    <3>5. life[c] = "up" \/ Irregular(c)
      <4>1. LifeOK(c) BY <1>1 DEF IInv, Steady, Tracked
      <4> QED BY <1>1, <3>4, <4>1 DEF LifeOK, Irregular, Overtaken
    <3>6. HoldsFd(c) BY <1>1 DEF HoldsFd
    <3> QED BY <1>1, <1>2, <3>1, <3>2, <3>3, <3>4, <3>5, <3>6, WritingSteady
  <2> QED BY <2>1, <2>2
<1>4. TypeOK' BY <1>1, <1>2, <1>3 DEF IInv, TypeOK, Consistent
<1>5. todo' = todo \ {k} BY DEF Call
<1>6. RoundInv'
  <2>1. Handling(c)'
    BY <1>1, <1>2, <1>5 DEF Handling, Irregular, Overtaken
  <2>2. \A d \in activeChannels_ : Reported(d)'
    BY <1>2 DEF IInv, RoundInv, Reported, Irregular, Overtaken
  <2> QED BY <1>2, <1>5, <2>1, <2>2 DEF IInv, RoundInv
<1> QED BY <1>3, <1>4, <1>6 DEF IInv

\* All the callbacks.
LEMMA CallbackPreserves == ASSUME IInv, CallbackStep PROVE IInv'
<1>1. CASE CloseCallback
  <2>1. CASE current \in Connections
    BY <1>1, <2>1, ClosePreserves DEF CloseCallback
  <2>2. CASE current \notin Connections
    BY <1>1, <2>2, CallPreserves DEF CloseCallback
  <2> QED BY <2>1, <2>2
<1>2. CASE ErrorCallback BY <1>2, CallPreserves DEF ErrorCallback
<1>3. CASE ReadCallback BY <1>3, CallPreserves DEF ReadCallback
<1>4. CASE ReadEndOfFile BY <1>4, ClosePreserves DEF ReadEndOfFile
<1>5. CASE WriteCallback BY <1>5, CallPreserves DEF WriteCallback
<1> QED BY <1>1, <1>2, <1>3, <1>4, <1>5 DEF CallbackStep

\* poll() reports registered channels, and only what they asked for or a hangup
\* or an error.
LEMMA PollPreserves ==
  ASSUME IInv, NEW ready \in SUBSET Fds, NEW rev \in [ready -> SUBSET Revents],
         Poll(ready, rev)
  PROVE  IInv'
<1> USE DEF Poll
<1>1. /\ Consistent(poller, Existing)
      /\ Existing \in SUBSET Channels
  BY DEF IInv, Steady, Existing
<1>2. \A fd \in ready : /\ poller.ptr[fd] \in Existing
                        /\ FdOf[poller.ptr[fd]] = fd
                        /\ poller.mask[fd] = poller.events[poller.ptr[fd]]
                        /\ poller.index[poller.ptr[fd]] = "kAdded"
  BY <1>1 DEF Consistent, KernelAgrees
<1>3. activeChannels_' \in SUBSET Channels BY <1>1, <1>2
<1>4. \A c \in activeChannels_' :
        /\ c \in Existing
        /\ poller.index[c] = "kAdded"
        /\ FdOf[c] \in ready
        /\ rev[FdOf[c]] \subseteq poller.events[c] \cup {"hup", "err"}
        /\ revents'[c] = rev[FdOf[c]]
  BY <1>1, <1>2, <1>3
<1>5. revents' \in [Channels -> SUBSET Revents]
  <2>1. \A c \in Channels : (IF c \in activeChannels_' THEN rev[FdOf[c]] ELSE {})
                              \in SUBSET Revents
    BY <1>4
  <2> QED BY <2>1
<1>6. TypeOK' BY <1>3, <1>5 DEF IInv, TypeOK, connVars
<1>7. Steady' 
  BY DEF connVars, IInv, Steady, Tracked, LifeOK, TrackedOK, FdOwned, Existing,
         HoldsFd, Irregular, Overtaken
<1>8. ASSUME NEW c \in activeChannels_' PROVE Reported(c)'
  <2>1. c \in Channels /\ TrackedOK(c)
    BY <1>3 DEF IInv, Steady, Tracked
  <2>2. life[c] = "up" \/ Irregular(c)
    BY <1>4, <2>1 DEF TrackedOK, IndexOf
  <2>3. "in" \in revents'[c] => "in" \in poller.events[c] BY <1>4
  <2> QED BY <2>1, <2>2, <2>3
          DEF TrackedOK, Reported, connVars, Irregular, Overtaken
<1>9. RoundInv'
  BY <1>3, <1>8, PollerAssumption DEF IInv, RoundInv, TypeOK
<1> QED BY <1>6, <1>7, <1>9 DEF IInv

\* handleEvent() takes one channel of the round.
LEMMA HandleEventPreserves ==
  ASSUME IInv, NEW c \in Channels, HandleEvent(c) PROVE IInv'
<1> USE DEF HandleEvent
<1>1. Callbacks(revents[c]) \in SUBSET CallbackNames BY DEF Callbacks
<1>2. TypeOK' BY <1>1 DEF IInv, TypeOK, connVars
<1>3. Steady'
  BY DEF connVars, IInv, Steady, Tracked, LifeOK, TrackedOK, FdOwned, Existing,
         HoldsFd, Irregular, Overtaken
<1>4. Reported(c) BY DEF IInv, RoundInv
<1>5. Handling(c)'
  BY <1>4 DEF Handling, Reported, connVars, Irregular, Overtaken
<1>6. \A d \in activeChannels_' : Reported(d)'
  BY DEF IInv, RoundInv, Reported, connVars, Irregular, Overtaken
<1>7. RoundInv' BY <1>5, <1>6, PollerAssumption DEF IInv, RoundInv
<1> QED BY <1>2, <1>3, <1>7 DEF IInv

\* The ends of handleEvent(), of the round and of doPendingFunctors().
LEMMA ReturnPreserves ==
  ASSUME IInv, HandleEventReturns \/ DispatchDone \/ FunctorsDone PROVE IInv'
<1> USE DEF HandleEventReturns, DispatchDone, FunctorsDone
<1>1. UNCHANGED <<poller, connVars>> OBVIOUS
<1>2. Steady'
  BY <1>1 DEF connVars, IInv, Steady, Tracked, LifeOK, TrackedOK, FdOwned,
              Existing, HoldsFd, Irregular, Overtaken
<1>3. CASE HandleEventReturns
  <2>1. revents' \in [Channels -> SUBSET Revents] BY <1>3 DEF IInv, TypeOK
  <2>2. \A d \in activeChannels_ : revents'[d] = revents[d] /\ Reported(d)
    BY <1>3 DEF IInv, RoundInv, TypeOK
  <2>3. \A d \in activeChannels_ : Reported(d)'
    BY <1>1, <2>2 DEF connVars, Reported, Irregular, Overtaken
  <2>4. TypeOK' BY <1>1, <1>3, <2>1 DEF connVars, IInv, TypeOK
  <2>5. RoundInv'
    BY <1>3, <2>3, PollerAssumption DEF IInv, RoundInv, TypeOK
  <2> QED BY <1>2, <2>4, <2>5 DEF IInv
<1>4. CASE DispatchDone \/ FunctorsDone
  <2>1. TypeOK' BY <1>1, <1>4 DEF connVars, IInv, TypeOK
  <2>2. RoundInv' BY <1>1, <1>4 DEF IInv, RoundInv
  <2> QED BY <1>2, <2>1, <2>2 DEF IInv
<1> QED BY <1>3, <1>4

\* Nothing happens.
LEMMA StutterPreserves == ASSUME IInv, UNCHANGED vars PROVE IInv'
<1> USE DEF vars, connVars, loopVars
<1>1. TypeOK' BY DEF IInv, TypeOK
<1>2. Steady'
  BY DEF IInv, Steady, Tracked, LifeOK, TrackedOK, FdOwned, Existing, HoldsFd,
         Irregular, Overtaken
<1>3. RoundInv'
  BY DEF IInv, RoundInv, Reported, Handling, Irregular, Overtaken
<1> QED BY <1>1, <1>2, <1>3 DEF IInv

\* Every step of the loop.
LEMMA LoopPreserves == ASSUME IInv, LoopStep PROVE IInv'
<1>1. CASE phase = "idle" /\ \E ready \in SUBSET Fds :
             \E rev \in [ready -> SUBSET Revents] : Poll(ready, rev)
  BY <1>1, PollPreserves
<1>2. CASE \E c \in Channels : HandleEvent(c) BY <1>2, HandleEventPreserves
<1>3. CASE CallbackStep BY <1>3, CallbackPreserves
<1>4. CASE HandleEventReturns \/ DispatchDone \/ FunctorsDone
  BY <1>4, ReturnPreserves
<1> QED BY <1>1, <1>2, <1>3, <1>4 DEF LoopStep

\* Every step of an owner.
LEMMA OwnerPreserves ==
  ASSUME IInv, NEW c \in Channels, OwnerStep(c) PROVE IInv'
<1>0. state_[c] \in States BY DEF IInv, TypeOK
<1>1. CASE Construct(c) BY <1>1, ConstructPreserves
<1>2. CASE ConnectEstablished(c)
  <2>1. c \notin Acceptors BY <1>2 DEF ConnectEstablished, Connections
  <2>2. "kConnected" \in States BY DEF States
  <2> QED BY <1>2, <2>1, <2>2, EnablePreserves DEF ConnectEstablished
<1>3. CASE Listen(c)
  <2>1. c \notin Connections BY <1>3 DEF Listen, Connections
  <2>2. state_' = [state_ EXCEPT ![c] = state_[c]]
    BY <1>3 DEF Listen, IInv, TypeOK
  <2> QED BY <1>0, <1>3, <2>1, <2>2, EnablePreserves DEF Listen
<1>4. CASE SendTests(c) \/ ShutdownTests(c) \/ ShutdownStores(c)
  BY <1>4, UserPreserves
<1>5. CASE SendInLoop(c) BY <1>5, SendPreserves
<1>6. CASE ConnectDestroyed(c) BY <1>6, ConnectDestroyedPreserves
<1>7. CASE Free(c) BY <1>7, FreePreserves
<1>8. CASE DestroyAcceptor(c) BY <1>8, DestroyAcceptorPreserves
<1> QED BY <1>1, <1>2, <1>3, <1>4, <1>5, <1>6, <1>7, <1>8 DEF OwnerStep

\* Every step.
LEMMA NextIInv == IInv /\ [Next]_vars => IInv'
<1> SUFFICES ASSUME IInv, [Next]_vars PROVE IInv' OBVIOUS
<1>1. CASE LoopStep BY <1>1, LoopPreserves
<1>2. CASE \E c \in Channels : OwnerStep(c) BY <1>2, OwnerPreserves
<1>3. CASE UNCHANGED vars BY <1>3, StutterPreserves
<1> QED BY <1>1, <1>2, <1>3 DEF Next

\* The invariant of the specification.
LEMMA InvariantHolds == Spec => []IInv
BY InitIInv, NextIInv, PTL DEF Spec

-----------------------------------------------------------------------------
(***************************************************************************)
(* The theorems.                                                           *)
(***************************************************************************)

\* The variables of the poller, the channels and the round keep their types.
THEOREM TypeCorrect == Spec => []TypeOK
<1>1. IInv => TypeOK BY DEF IInv
<1> QED BY <1>1, InvariantHolds, PTL

\* No epoll_ctl() ever fails, so that the LOG_FATAL of EPollPoller::update() is
\* never reached, for any reuse of fd numbers by any number of connections.
THEOREM EpollNeverFails == Spec => []NoCtlError
<1>1. IInv => NoCtlError BY DEF IInv, Steady, Consistent, NoCtlError
<1> QED BY <1>1, InvariantHolds, PTL

\* index_, channels_ and the kernel's interest list always agree on the channels
\* that exist, and the kernel has no pointer to another.
THEOREM RecordsAgree == Spec => []PollerAgrees
<1>1. IInv => PollerAgrees BY DEF IInv, Steady, Consistent, PollerAgrees
<1> QED BY <1>1, InvariantHolds, PTL

\* A channel is registered exactly from enableReading() to disableAll() and in
\* the map up to remove(), unless shutdown() has overwritten kDisconnected or
\* handleClose() has been repeated.
THEOREM NoStaleRegistration == Spec => []OnlyLiveRegistered
<1>1. IInv => OnlyLiveRegistered
  <2> SUFFICES ASSUME IInv, NEW c \in Channels, ~Irregular(c)
               PROVE  /\ life[c] = "up" <=> poller.index[c] = "kAdded"
                      /\ HasChannel(poller, c) => life[c] \in {"up", "down"}
    BY DEF OnlyLiveRegistered
  <2>1. poller.index[c] = IndexOf(life[c])
    BY DEF IInv, Steady, Tracked, TrackedOK
  <2>2. HasChannel(poller, c) => poller.index[c] # "kNew"
    BY PollerAssumption DEF HasChannel, IInv, Steady, Consistent, MapAgrees
  <2> QED BY <2>1, <2>2 DEF IndexOf
<1> QED BY <1>1, InvariantHolds, PTL

\* kDisconnected means that the channel asks for nothing, which is what
\* sendInLoop() relies on in looking at state_ only, and what shutdown() breaks by
\* overwriting it.
THEOREM DisconnectedAsksNothing == Spec => []DisconnectedIsQuiet
<1>1. IInv => DisconnectedIsQuiet
  BY DEF IInv, Steady, Tracked, TrackedOK, DisconnectedIsQuiet
<1> QED BY <1>1, InvariantHolds, PTL

\* The raw pointers a round works with are valid until the round is over, but
\* for channels that the poller should not have reported.
THEOREM RoundIsSafe == Spec => []ActiveAlive
<1>1. IInv => ActiveAlive
  BY DEF IInv, RoundInv, TypeOK, ActiveAlive, Reported, Handling
<1> QED BY <1>1, InvariantHolds, PTL

\* With IN a hangup never delivers data to a closed connection.
THEOREM ClosedGetsNoData == Spec => []NoReadAfterClose
<1>1. IInv => NoReadAfterClose
  BY DEF IInv, RoundInv, Handling, NoReadAfterClose
<1> QED BY <1>1, InvariantHolds, PTL

\* What poll() may report, and which connection a callback may close again.
Silent == /\ \A c \in activeChannels_' \ activeChannels_ :
               life[c] = "up" \/ Irregular(c)
          /\ \A c \in reclosed' \ reclosed :
               Overtaken(c) \/ ClosesAndReads(revents[c])

\* A closed connection is neither reported nor closed again, whatever functors
\* of it are still queued, unless shutdown() has overwritten kDisconnected or
\* the event that closed it had HUP and PRI and no IN.
THEOREM SilentAfterClose == Spec => ClosedIsSilent
<1>1. ASSUME IInv, [Next]_vars PROVE [Silent]_vars
  <2>1. CASE UNCHANGED vars BY <2>1
  <2>2. CASE \E c \in Channels : OwnerStep(c)
    <3>1. activeChannels_' = activeChannels_ /\ reclosed' = reclosed
      BY <2>2 DEF OwnerStep, Construct, ConnectEstablished, Listen, SendTests,
                  ShutdownTests, ShutdownStores, SendInLoop, ConnectDestroyed,
                  Free, DestroyAcceptor, loopVars
    <3> QED BY <3>1 DEF Silent
  <2>3. CASE CallbackStep
    <3>1. activeChannels_' = activeChannels_
      BY <2>3 DEF CallbackStep, CloseCallback, ErrorCallback, ReadCallback,
                  ReadEndOfFile, WriteCallback, Call
    <3>2. ASSUME NEW c \in reclosed' \ reclosed
          PROVE  Overtaken(c) \/ ClosesAndReads(revents[c])
      <4>1. /\ c = current
            /\ c \in Channels
            /\ HandleClose(c)
            /\ \E k \in {"close", "read"} : Call(k)
        BY <2>3, <3>2
        DEF CallbackStep, CloseCallback, ErrorCallback, ReadCallback,
            ReadEndOfFile, WriteCallback, Quiet, HandleClose, Connections
      <4>2. life[c] # "up" BY <3>2, <4>1 DEF HandleClose
      <4>3. PICK k \in {"close", "read"} : Call(k) BY <4>1
      <4>4. Handling(current) BY <1>1, <4>3, CallingFacts
      <4>5. "close" \in todo \/ "read" \in todo BY <4>3 DEF Call
      <4>6. ~Irregular(c) \/ Overtaken(c) BY <3>2 DEF Irregular
      <4> QED BY <4>1, <4>2, <4>4, <4>5, <4>6 DEF Handling
    <3> QED BY <3>1, <3>2 DEF Silent
  <2>4. CASE \E c \in Channels : HandleEvent(c)
    BY <2>4 DEF HandleEvent, Silent, connVars
  <2>5. CASE HandleEventReturns \/ DispatchDone \/ FunctorsDone
    BY <2>5 DEF HandleEventReturns, DispatchDone, FunctorsDone, Silent, connVars
  <2>6. CASE \E ready \in SUBSET Fds :
               \E rev \in [ready -> SUBSET Revents] : Poll(ready, rev)
    <3>1. IInv' BY <1>1, <2>6, PollPreserves
    <3>2. \A c \in activeChannels_' : life'[c] = "up" \/ Irregular(c)'
      BY <3>1 DEF IInv, RoundInv, Reported
    <3> QED BY <2>6, <3>2 DEF Silent, Poll, connVars, Irregular, Overtaken
  <2> QED BY <1>1, <2>1, <2>2, <2>3, <2>4, <2>5, <2>6 DEF Next, LoopStep
<1>2. IInv /\ [Next]_vars => [Silent]_vars BY <1>1
<1>3. ClosedIsSilent <=> [][Silent]_vars BY DEF ClosedIsSilent, Silent
<1> QED BY <1>2, <1>3, InvariantHolds, PTL DEF Spec
=============================================================================
