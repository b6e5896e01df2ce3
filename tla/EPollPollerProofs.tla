-------------------------- MODULE EPollPollerProofs --------------------------
(***************************************************************************)
(* Proofs about EPollPoller for any number of channels and descriptors.    *)
(* KernelInSync, NoDanglingRegistration and MapInSync need one another     *)
(* and OwnFd: IInv, their conjunction, is inductive.                       *)
(***************************************************************************)
EXTENDS EPollPoller, TLAPS

\* A new poller satisfies the inductive invariant.
LEMMA InitIInv == Init => IInv
<1> SUFFICES ASSUME Init PROVE IInv
  OBVIOUS
<1>1. TypeOK
  BY SizeAssumption DEF Init, TypeOK, Absent, kNew
<1>2. /\ \A ch \in Channel : fd_[ch] = None
      /\ \A fd \in Fd : channels_[fd] = None /\ epoll[fd].ptr = None
      /\ closing = {}
  BY DEF Init, Absent
<1>3. OwnFd /\ KernelInSync /\ NoDanglingRegistration /\ MapInSync
  BY <1>2 DEF OwnFd, KernelInSync, NoDanglingRegistration, MapInSync,
              HasChannel, Alive, Registered
<1> QED BY <1>1, <1>3 DEF Init, IInv, NoFatal

\* Opening a descriptor and building a channel on it.
LEMMA ConstructIInv ==
  ASSUME IInv, NEW ch \in Channel, NEW fd \in Fd, Construct(ch, fd), UNCHANGED crashed
  PROVE  IInv'
<1> USE NoneAssumption DEF Construct, Build, regVars, pollVars, Alive
<1>1. TypeOK'
  BY DEF IInv, TypeOK, kNew
<1>2. OwnFd'
  BY DEF IInv, TypeOK, OwnFd
<1>3. ~Registered(fd) /\ (channels_[fd] # None => fd \in left)
  BY DEF IInv, TypeOK, NoDanglingRegistration, MapInSync, Registered
<1>4. KernelInSync'
  BY <1>3 DEF IInv, TypeOK, KernelInSync, Registered, kNew, kAdded
<1>5. NoDanglingRegistration'
  BY <1>3 DEF IInv, TypeOK, NoDanglingRegistration, Registered
<1>6. MapInSync'
  BY <1>3 DEF IInv, TypeOK, MapInSync, HasChannel, kNew
<1> QED BY <1>1, <1>2, <1>4, <1>5, <1>6 DEF IInv, NoFatal

\* updateChannel keeps the channel, the map and the kernel together.
LEMMA SetEventsIInv ==
  ASSUME IInv, NEW ch \in Channel, NEW ev \in SUBSET Event, SetEvents(ch, ev), UNCHANGED crashed
  PROVE  IInv'
<1> USE NoneAssumption DEF SetEvents, UpdateChannel, MapTo, Alive, Registered, Absent,
        pollVars, ownVars, kNew, kAdded, kDeleted
<1>1. TypeOK'
  <2>1. fd_[ch] \in Fd /\ [ptr |-> ch, events |-> ev]
                               \in [ptr : Channel \cup {None}, events : SUBSET Event]
    BY DEF IInv, TypeOK
  <2>2. Absent \in [ptr : Channel \cup {None}, events : SUBSET Event]
    BY DEF Absent
  <2>3. epoll' \in [Fd -> [ptr : Channel \cup {None}, events : SUBSET Event]]
    BY <2>1, <2>2 DEF IInv, TypeOK, CtlAdd, CtlMod, CtlDel
  <2>4. fatal' \in BOOLEAN
    BY DEF IInv, TypeOK, CtlAdd, CtlMod, CtlDel
  <2> QED BY <2>1, <2>3, <2>4 DEF IInv, TypeOK
<1>2. OwnFd'
  BY DEF IInv, OwnFd
<1>3. KernelInSync' /\ NoFatal'
  <2>1. CASE index_[ch] = kAdded
    BY <2>1 DEF IInv, TypeOK, OwnFd, KernelInSync, NoFatal, CtlMod, CtlDel
  <2>2. CASE index_[ch] # kAdded
    <3>1. ~Registered(fd_[ch])
      BY <2>2 DEF IInv, TypeOK, OwnFd, KernelInSync, NoDanglingRegistration
    <3> QED BY <2>2, <3>1 DEF IInv, TypeOK, OwnFd, KernelInSync, NoFatal, CtlAdd
  <2> QED BY <2>1, <2>2
<1>4. NoDanglingRegistration'
  <2>1. \A fd \in Fd :
          epoll'[fd] \in {epoll[fd], Absent} \/ (fd = fd_[ch] /\ epoll'[fd].ptr = ch)
    <3>1. fd_[ch] \in Fd
      BY DEF IInv, TypeOK
    <3> QED BY <3>1 DEF IInv, TypeOK, CtlAdd, CtlMod, CtlDel
  <2>2. fd_[ch] \notin closing /\ left' \in {left, left \ {fd_[ch]}}
    BY DEF IInv, OwnFd
  <2> QED BY <2>1, <2>2 DEF IInv, NoDanglingRegistration
<1>5. MapInSync'
  <2>1. CASE index_[ch] = kNew
    BY <2>1 DEF IInv, TypeOK, OwnFd, MapInSync, HasChannel
  <2>2. CASE index_[ch] # kNew
    BY <2>2 DEF IInv, TypeOK, OwnFd, MapInSync, HasChannel
  <2> QED BY <2>1, <2>2
<1> QED BY <1>1, <1>2, <1>3, <1>4, <1>5 DEF IInv

\* removeChannel clears both the map and the registration.
LEMMA RemoveIInv ==
  ASSUME IInv, NEW ch \in Channel, Remove(ch), UNCHANGED crashed
  PROVE  IInv'
<1> USE NoneAssumption DEF Remove, RemoveWith, MapTo, CtlDel, Alive, pollVars, kNew, kAdded, kDeleted
<1>1. TypeOK'
  BY DEF IInv, TypeOK, Absent
<1>2. OwnFd' /\ NoFatal'
  BY DEF IInv, OwnFd, NoFatal
<1>3. KernelInSync'
  BY DEF IInv, TypeOK, OwnFd, KernelInSync, Absent
<1>4. NoDanglingRegistration'
  BY DEF IInv, TypeOK, OwnFd, NoDanglingRegistration, Registered, Absent
<1>5. MapInSync'
  BY DEF IInv, TypeOK, OwnFd, MapInSync, HasChannel
<1> QED BY <1>1, <1>2, <1>3, <1>4, <1>5 DEF IInv

\* Destroying a channel: what it leaves in the poller is in closing and left.
LEMMA DestroyIInv ==
  ASSUME IInv, NEW ch \in Channel, Destroy(ch), UNCHANGED crashed
  PROVE  IInv'
<1> USE NoneAssumption DEF Destroy, Alive, regVars, pollVars, kNew, kAdded
<1>1. TypeOK'
  BY DEF IInv, TypeOK
<1>2. OwnFd' /\ NoFatal'
  BY DEF IInv, TypeOK, OwnFd, NoFatal
<1>3. KernelInSync'
  BY DEF IInv, TypeOK, KernelInSync
<1>4. NoDanglingRegistration'
  BY DEF IInv, TypeOK, OwnFd, KernelInSync, NoDanglingRegistration, Registered
<1>5. MapInSync'
  BY DEF IInv, TypeOK, OwnFd, MapInSync, HasChannel
<1> QED BY <1>1, <1>2, <1>3, <1>4, <1>5 DEF IInv

\* Closing the descriptor of a channel that is gone.
LEMMA CloseIInv ==
  ASSUME IInv, NEW fd \in Fd, Close(fd), UNCHANGED crashed
  PROVE  IInv'
<1> USE NoneAssumption DEF Close, Alive, Absent, chVars
<1>1. TypeOK'
  BY DEF IInv, TypeOK
<1>2. OwnFd' /\ NoFatal' /\ MapInSync'
  BY DEF IInv, OwnFd, NoFatal, MapInSync, HasChannel
<1>3. KernelInSync'
  BY DEF IInv, TypeOK, OwnFd, KernelInSync
<1>4. NoDanglingRegistration'
  BY DEF IInv, TypeOK, NoDanglingRegistration, Registered
<1> QED BY <1>1, <1>2, <1>3, <1>4 DEF IInv

\* Polling and dispatching touch neither the channels nor the registrations.
LEMMA PollIInv ==
  ASSUME IInv, \/ LoopPoll \/ Dispatch
               \/ (\E fd \in Fd : BecomeReady(fd)) /\ UNCHANGED crashed
               \/ UNCHANGED vars
  PROVE  IInv'
<1>1. UNCHANGED <<chVars, regVars, ownVars, left>>
  BY DEF LoopPoll, Poll, Report, Dispatch, Handled, HandledDead, BecomeReady, vars
<1>2. TypeOK'
  <2> USE DEF chVars, regVars, ownVars
  <2>1. CASE LoopPoll
    <3>1. PICK fds \in SUBSET Fd : Poll(fds)
      BY <2>1 DEF LoopPoll
    <3>2. \A fd \in fds : epoll[fd].ptr \in Channel
      BY <3>1 DEF Poll, Report, Reportable, Registered, IInv, TypeOK
    <3>3. activeChannels' \subseteq Channel
      BY <3>1, <3>2 DEF Poll, Report
    <3>4. eventListSize' \in Nat \ {0}
      BY <3>1 DEF Poll, IInv, TypeOK
    <3> QED BY <2>1, <3>1, <3>3, <3>4 DEF LoopPoll, Poll, Report, IInv, TypeOK
  <2>2. CASE Dispatch
    BY <2>2 DEF Dispatch, Handled, HandledDead, IInv, TypeOK
  <2>3. CASE (\E fd \in Fd : BecomeReady(fd)) /\ UNCHANGED crashed
    BY <2>3 DEF BecomeReady, IInv, TypeOK
  <2>4. CASE UNCHANGED vars
    BY <2>4 DEF vars, IInv, TypeOK, pollVars
  <2> QED BY <2>1, <2>2, <2>3, <2>4
<1> QED BY <1>1, <1>2 DEF IInv, OwnFd, KernelInSync, NoDanglingRegistration,
           MapInSync, HasChannel, NoFatal, Alive, Registered, chVars, regVars, ownVars

-----------------------------------------------------------------------------
(* Channel, channels_ and the kernel's epoll set agree after any sequence  *)
(* of operations.                                                          *)
THEOREM Inductive == Spec => []IInv
<1>1. Init => IInv
  BY InitIInv
<1>2. IInv /\ [Next]_vars => IInv'
  <2> SUFFICES ASSUME IInv, [Next]_vars PROVE IInv'
    OBVIOUS
  <2>1. ASSUME NEW ch \in Channel, Operation(ch), UNCHANGED crashed PROVE IInv'
    <3>1. ASSUME NEW e \in Event, Enable(ch, e) \/ Disable(ch, e) PROVE IInv'
      <4>1. events_[ch] \in SUBSET Event
        BY DEF IInv, TypeOK
      <4>2. CASE Enable(ch, e)
        BY <2>1, <4>1, <4>2, SetEventsIInv DEF Enable
      <4>3. CASE Disable(ch, e)
        BY <2>1, <4>1, <4>3, SetEventsIInv DEF Disable
      <4> QED BY <3>1, <4>2, <4>3
    <3>2. CASE DisableAll(ch)
      BY <2>1, <3>2, SetEventsIInv DEF DisableAll
    <3> QED BY <2>1, <3>1, <3>2, ConstructIInv, RemoveIInv, DestroyIInv
            DEF Operation
  <2> QED BY <2>1, CloseIInv, PollIInv DEF Next, Owners
<1> QED BY <1>1, <1>2, PTL DEF Spec

(* The poller's state keeps its types.                                     *)
THEOREM TypeCorrect == Spec => []TypeOK
<1>1. IInv => TypeOK
  BY DEF IInv
<1> QED BY <1>1, Inductive, PTL

(* index_ and events_ always describe the kernel's registration.           *)
THEOREM KernelStaysInSync == Spec => []KernelInSync
<1>1. IInv => KernelInSync
  BY DEF IInv
<1> QED BY <1>1, Inductive, PTL

(* The pointers in the epoll set are those of living channels, or of one   *)
(* that was put back after its removal and whose descriptor is being closed.*)
THEOREM NothingDangles == Spec => []NoDanglingRegistration
<1>1. IInv => NoDanglingRegistration
  BY DEF IInv
<1> QED BY <1>1, Inductive, PTL

(* hasChannel answers for the right channel, reuse of descriptors or not,  *)
(* and channels_ keeps a dead pointer only of a channel put back too late. *)
THEOREM MapStaysInSync == Spec => []MapInSync
<1>1. IInv => MapInSync
  BY DEF IInv
<1> QED BY <1>1, Inductive, PTL

(* update() never reaches its LOG_FATAL.                                   *)
THEOREM NeverFatal == Spec => []NoFatal
<1>1. IInv => NoFatal
  BY DEF IInv
<1> QED BY <1>1, Inductive, PTL
-----------------------------------------------------------------------------
(* Owners that leave a removed channel alone                               *)

\* No channel is put back into the poller after its removal.
LeftAlone == \A ch \in removed : index_[ch] = kNew

\* No dead channel was used, nor is about to be.
ReportedAlive == ~crashed /\ \A ch \in activeChannels : Alive(ch)

\* What is reported has not been removed, so nobody may destroy it yet; what is
\* being closed is not registered any more.
ReportInv ==
  /\ ~crashed
  /\ \A ch \in activeChannels : Alive(ch) /\ ch \notin removed
  /\ \A fd \in closing : ~Registered(fd)

LEMMA OperationReport ==
  ASSUME IInv, LeftAlone, ReportInv, NEW ch \in Channel, Operation(ch), UNCHANGED crashed
  PROVE  ReportInv'
<1> USE NoneAssumption DEF ReportInv, Alive, Registered, regVars, pollVars, ownVars
<1>1. ASSUME NEW fd \in Fd, Construct(ch, fd) PROVE ReportInv'
  BY <1>1 DEF Construct, Build, IInv, TypeOK
<1>2. ASSUME NEW ev, SetEvents(ch, ev) PROVE ReportInv'
  <2>1. fd_[ch] \in Fd /\ fd_[ch] \notin closing
    BY <1>2 DEF SetEvents, IInv, TypeOK, OwnFd
  <2>2. \A fd \in closing : epoll'[fd] = epoll[fd]
    BY <1>2, <2>1 DEF SetEvents, UpdateChannel, CtlAdd, CtlMod, CtlDel, IInv, TypeOK
  <2> QED BY <1>2, <2>2 DEF SetEvents
<1>3. CASE Remove(ch)
  <2>1. fd_[ch] \in Fd /\ fd_[ch] \notin closing
    BY <1>3 DEF Remove, RemoveWith, IInv, TypeOK, OwnFd
  <2>2. \A fd \in closing : epoll'[fd] = epoll[fd]
    BY <1>3, <2>1 DEF Remove, RemoveWith, CtlDel, IInv, TypeOK
  <2> QED BY <1>3, <2>2 DEF Remove, RemoveWith
<1>4. CASE Destroy(ch)
  <2>1. index_[ch] = kNew /\ fd_[ch] \in Fd
    BY <1>4 DEF Destroy, LeftAlone, IInv, TypeOK
  <2>2. ~Registered(fd_[ch])
    BY <1>4, <2>1 DEF Destroy, IInv, TypeOK, OwnFd, KernelInSync, NoDanglingRegistration, kNew, kAdded
  <2> QED BY <1>4, <2>2 DEF Destroy
<1> QED BY <1>1, <1>2, <1>3, <1>4 DEF Operation, Enable, Disable, DisableAll

LEMMA StepReport ==
  ASSUME IInv, LeftAlone, ReportInv, [Next]_vars
  PROVE  ReportInv'
<1> USE DEF ReportInv
<1>1. CASE LoopPoll
  <2>1. PICK fds \in SUBSET Fd : Poll(fds)
    BY <1>1 DEF LoopPoll
  <2>2. ASSUME NEW fd \in fds PROVE Alive(epoll[fd].ptr) /\ epoll[fd].ptr \notin removed
    <3>1. fd \in Fd /\ Registered(fd) /\ epoll[fd].ptr \in Channel
      BY <2>1 DEF Poll, Report, Reportable, Registered, IInv, TypeOK
    <3>2. fd_[epoll[fd].ptr] = fd
      BY <3>1 DEF IInv, NoDanglingRegistration
    <3>3. Alive(epoll[fd].ptr)
      BY <3>1, <3>2, NoneAssumption DEF Alive
    <3>4. index_[epoll[fd].ptr] = kAdded
      BY <3>1, <3>2, <3>3 DEF IInv, KernelInSync
    <3> QED BY <3>3, <3>4 DEF LeftAlone, kNew, kAdded
  <2>3. UNCHANGED <<fd_, epoll, removed, closing, crashed>>
    BY <1>1, <2>1 DEF LoopPoll, Poll, Report, chVars, regVars, ownVars
  <2> QED BY <2>1, <2>2, <2>3 DEF Poll, Report, Alive, Registered
<1>2. CASE Dispatch
  BY <1>2 DEF Dispatch, Handled, HandledDead, Alive, Registered, chVars, regVars, ownVars
<1>3. ASSUME NEW ch \in Channel, Operation(ch), UNCHANGED crashed PROVE ReportInv'
  BY <1>3, OperationReport
<1>4. ASSUME NEW fd \in Fd, Close(fd), UNCHANGED crashed PROVE ReportInv'
  BY <1>4 DEF Close, Alive, Registered, Absent, chVars, IInv, TypeOK
<1>5. ASSUME NEW fd \in Fd, BecomeReady(fd), UNCHANGED crashed PROVE ReportInv'
  BY <1>5 DEF BecomeReady, Alive, Registered, chVars, regVars, ownVars
<1>6. CASE UNCHANGED vars
  BY <1>6 DEF vars, Alive, Registered, chVars, regVars, pollVars, ownVars
<1> QED BY <1>1, <1>2, <1>3, <1>4, <1>5, <1>6 DEF Next, Owners

(* As long as no channel is enabled again after its removal, every channel *)
(* that epoll_wait reports is alive until it has been handled, whichever   *)
(* thread drops the last pointers to the others, and no dead one is used:  *)
(* a send that comes too late is all that endangers the raw pointers.      *)
THEOREM RemovalSuffices == Spec /\ []LeftAlone => []ReportedAlive
<1>1. Init => ReportInv
  BY DEF Init, ReportInv
<1>2. IInv /\ LeftAlone /\ ReportInv /\ [Next]_vars => ReportInv'
  BY StepReport
<1>3. ReportInv => ReportedAlive
  BY DEF ReportInv, ReportedAlive
<1> QED BY <1>1, <1>2, <1>3, Inductive, PTL DEF Spec
=============================================================================
