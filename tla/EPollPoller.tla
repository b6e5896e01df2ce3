----------------------------- MODULE EPollPoller -----------------------------
(***************************************************************************)
(* The Poller of one loop and its Channels: each channel remembers what it *)
(* wants watched (events_) and what it believes of its registration        *)
(* (index_), the poller keeps the map channels_, and the kernel keeps the  *)
(* epoll set.  All of that runs on the loop's thread, so operations are    *)
(* atomic; what can go wrong is that the three views drift apart over a    *)
(* long sequence of legal calls, or when a descriptor number is reused.    *)
(* Only the destruction of a channel comes from any thread, whoever drops  *)
(* the last pointer to its owner.                                          *)
(***************************************************************************)
EXTENDS Integers, FiniteSets

CONSTANTS Channel,           \* addresses of Channel objects, reused like heap
          Fd,                \* descriptor numbers, reused by the kernel
          None,              \* no channel
          InitEventListSize  \* kInitEventListSize

ASSUME NoneAssumption == None \notin Channel /\ None \notin Fd
ASSUME SizeAssumption == InitEventListSize \in Nat \ {0}
ASSUME FdAssumption == IsFiniteSet(Fd)

kNew     == -1
kAdded   == 1
kDeleted == 2

Event == {"read", "write"}

VARIABLES fd_,               \* fd_[ch], None while no object lives there
          events_, index_,   \* per channel
          channels_,         \* channels_[fd], the poller's map
          epoll,             \* the kernel's set: [ptr, events], ptr None if absent
          fatal,             \* an epoll_ctl ADD or MOD failed: LOG_FATAL
          ready,             \* descriptors with something to report
          eventListSize,     \* events_.size() of the poller
          activeChannels,    \* reported by the last poll and not yet handled
          removed,           \* history: channels that were removed once
          closing,           \* descriptors whose channel is gone, and which
                             \* ~Socket has still to close
          left,              \* history: descriptors whose channel died in
                             \* channels_
          crashed            \* what is left of a channel was used

chVars == <<fd_, events_, index_>>
regVars == <<channels_, epoll, fatal>>
pollVars == <<ready, eventListSize, activeChannels>>
ownVars == <<removed, closing>>
vars == <<chVars, regVars, pollVars, ownVars, left, crashed>>

Alive(ch) == fd_[ch] # None
Absent == [ptr |-> None, events |-> {}]
Registered(fd) == epoll[fd].ptr # None

TypeOK ==
  /\ fd_ \in [Channel -> Fd \cup {None}]
  /\ events_ \in [Channel -> SUBSET Event]
  /\ index_ \in [Channel -> {kNew, kAdded, kDeleted}]
  /\ channels_ \in [Fd -> Channel \cup {None}]
  /\ epoll \in [Fd -> [ptr : Channel \cup {None}, events : SUBSET Event]]
  /\ fatal \in BOOLEAN
  /\ ready \subseteq Fd
  /\ eventListSize \in Nat \ {0}
  /\ activeChannels \subseteq Channel
  /\ removed \subseteq Channel /\ closing \subseteq Fd /\ left \subseteq Fd
  /\ crashed \in BOOLEAN

Init ==
  /\ fd_ = [ch \in Channel |-> None]
  /\ events_ = [ch \in Channel |-> {}]
  /\ index_ = [ch \in Channel |-> kNew]
  /\ channels_ = [fd \in Fd |-> None]
  /\ epoll = [fd \in Fd |-> Absent]
  /\ fatal = FALSE
  /\ ready = {}
  /\ eventListSize = InitEventListSize
  /\ activeChannels = {}
  /\ removed = {} /\ closing = {} /\ left = {} /\ crashed = FALSE

-----------------------------------------------------------------------------
(* update(): one epoll_ctl.  A failing ADD or MOD is fatal, a failing DEL  *)
(* is only logged.                                                         *)

CtlAdd(fd, ch, ev) ==
  /\ epoll' = IF Registered(fd) THEN epoll
              ELSE [epoll EXCEPT ![fd] = [ptr |-> ch, events |-> ev]]
  /\ fatal' = (fatal \/ Registered(fd))

CtlMod(fd, ch, ev) ==
  /\ epoll' = IF Registered(fd)
                THEN [epoll EXCEPT ![fd] = [ptr |-> ch, events |-> ev]]
                ELSE epoll
  /\ fatal' = (fatal \/ ~Registered(fd))

CtlDel(fd) ==
  /\ epoll' = [epoll EXCEPT ![fd] = Absent]
  /\ UNCHANGED fatal

\* channels_[fd] = p, or erase when p is None: what was there is gone.
MapTo(fd, p) == channels_' = [channels_ EXCEPT ![fd] = p] /\ left' = left \ {fd}

\* Mutant: set_index(kDeleted) is forgotten after the DEL.
UpdateKeepsIndex(ch, ev) ==
  IF index_[ch] \in {kNew, kDeleted}
    THEN /\ MapTo(fd_[ch], ch)
         /\ index_' = [index_ EXCEPT ![ch] = kAdded]
         /\ CtlAdd(fd_[ch], ch, ev)
    ELSE /\ UNCHANGED <<channels_, left, index_>>
         /\ IF ev = {} THEN CtlDel(fd_[ch]) ELSE CtlMod(fd_[ch], ch, ev)

\* updateChannel(ch), called with the channel's new interest
UpdateChannel(ch, ev) ==
  IF index_[ch] \in {kNew, kDeleted}
    THEN /\ IF index_[ch] = kNew THEN MapTo(fd_[ch], ch)
                                ELSE UNCHANGED <<channels_, left>>
         /\ index_' = [index_ EXCEPT ![ch] = kAdded]
         /\ CtlAdd(fd_[ch], ch, ev)
    ELSE /\ UNCHANGED <<channels_, left>>
         /\ IF ev = {}
              THEN /\ CtlDel(fd_[ch])
                   /\ index_' = [index_ EXCEPT ![ch] = kDeleted]
              ELSE /\ CtlMod(fd_[ch], ch, ev)
                   /\ UNCHANGED index_

-----------------------------------------------------------------------------
(* Operations on a channel                                                 *)

\* A descriptor is opened and a channel is built on it.  The kernel hands
\* out numbers that no open descriptor has.
Build(ch, fd, index) ==
  /\ ~Alive(ch)
  /\ fd \notin closing /\ \A other \in Channel : fd_[other] # fd
  /\ fd_' = [fd_ EXCEPT ![ch] = fd]
  /\ events_' = [events_ EXCEPT ![ch] = {}]
  /\ index_' = [index_ EXCEPT ![ch] = index]
  /\ removed' = removed \ {ch}
  /\ UNCHANGED <<regVars, pollVars, closing, left>>

\* Mutant: the Channel constructor starts index_ at 0 instead of kNew.
ConstructIndexZero(ch, fd) == Build(ch, fd, 0)

Construct(ch, fd) == Build(ch, fd, kNew)

SetEvents(ch, ev) ==
  /\ Alive(ch)
  /\ events_' = [events_ EXCEPT ![ch] = ev]
  /\ UpdateChannel(ch, ev)
  /\ UNCHANGED <<fd_, pollVars, ownVars>>

\* enableReading and enableWriting, disableReading and disableWriting
Enable(ch, e)  == SetEvents(ch, events_[ch] \cup {e})
Disable(ch, e) == SetEvents(ch, events_[ch] \ {e})
DisableAll(ch) == SetEvents(ch, {})

\* remove() is called from functors and destructors, never between a poll
\* and the handling of what it reported.
RemoveWith(ch, erase, del) ==
  /\ Alive(ch)
  /\ activeChannels = {}
  /\ erase
  /\ IF index_[ch] = kAdded THEN del ELSE UNCHANGED <<epoll, fatal>>
  /\ index_' = [index_ EXCEPT ![ch] = kNew]
  /\ removed' = removed \cup {ch}
  /\ UNCHANGED <<fd_, events_, pollVars, closing>>

\* Mutant: removeChannel without the epoll_ctl DEL.
RemoveWithoutDel(ch) ==
  RemoveWith(ch, MapTo(fd_[ch], None), UNCHANGED <<epoll, fatal>>)

\* Mutant: removeChannel forgets channels_.erase(fd).
RemoveKeepsMap(ch) ==
  RemoveWith(ch, UNCHANGED <<channels_, left>>, CtlDel(fd_[ch]))

Remove(ch) == RemoveWith(ch, MapTo(fd_[ch], None), CtlDel(fd_[ch]))

\* Every owner removes its channel before it destroys it.  But a sendInLoop
\* that comes after connectDestroyed may have enabled it once more, and the
\* last pointer may be dropped while the loop polls or dispatches.  ~Channel
\* tells the poller nothing; ~Socket closes the descriptor after it.
Destroy(ch) ==
  /\ Alive(ch) /\ ch \in removed
  /\ fd_' = [fd_ EXCEPT ![ch] = None]
  /\ closing' = closing \cup {fd_[ch]}
  /\ left' = IF index_[ch] = kNew THEN left ELSE left \cup {fd_[ch]}
  /\ UNCHANGED <<events_, index_, regVars, pollVars, removed>>

\* Closing takes a descriptor out of the epoll set.
Close(fd) ==
  /\ fd \in closing
  /\ closing' = closing \ {fd}
  /\ epoll' = [epoll EXCEPT ![fd] = Absent]
  /\ ready' = ready \ {fd}
  /\ UNCHANGED <<chVars, channels_, fatal, eventListSize, activeChannels, removed, left>>

-----------------------------------------------------------------------------
(* poll and the handling of its result                                     *)

\* Something to read, room to write, or an error on an open descriptor.
BecomeReady(fd) ==
  /\ fd \in closing \/ \E ch \in Channel : fd_[ch] = fd
  /\ ready' = ready \cup {fd}
  /\ UNCHANGED <<chVars, regVars, eventListSize, activeChannels, ownVars, left>>

Reportable == {fd \in ready : Registered(fd)}

Smaller(a, b) == IF a < b THEN a ELSE b

\* epoll_wait fills at most events_.size() entries, of which the kernel
\* chooses, with the pointers it was given.
Report(fds) ==
  /\ activeChannels = {}
  /\ fds \subseteq Reportable
  /\ Cardinality(fds) = Smaller(Cardinality(Reportable), eventListSize)
  /\ activeChannels' = {epoll[fd].ptr : fd \in fds}
  /\ UNCHANGED <<chVars, regVars, ready, ownVars, left>>

\* Mutant: poll never resizes events_.
PollKeepsSize(fds) == Report(fds) /\ UNCHANGED eventListSize

\* A full array is doubled for the next poll.
Poll(fds) ==
  /\ Report(fds)
  /\ eventListSize' = IF Cardinality(fds) = eventListSize
                        THEN 2 * eventListSize ELSE eventListSize

\* handleEvent returns, with or without having drained the descriptor.
Handled(ch, drained) ==
  /\ ch \in activeChannels /\ Alive(ch)
  /\ activeChannels' = activeChannels \ {ch}
  /\ ready' = IF drained THEN ready \ {fd_[ch]} ELSE ready
  /\ UNCHANGED <<chVars, regVars, eventListSize, ownVars, left, crashed>>

\* set_revents and handleEvent on what is left of a channel: tie_ may still be
\* found empty, or the process ends.
HandledDead(ch) ==
  /\ ch \in activeChannels /\ ~Alive(ch)
  /\ activeChannels' = activeChannels \ {ch}
  /\ crashed' \in BOOLEAN
  /\ UNCHANGED <<chVars, regVars, ready, eventListSize, ownVars, left>>

-----------------------------------------------------------------------------
Operation(ch) ==
  \/ \E fd \in Fd : Construct(ch, fd)
  \/ \E e \in Event : Enable(ch, e) \/ Disable(ch, e)
  \/ DisableAll(ch) \/ Remove(ch) \/ Destroy(ch)

LoopPoll == ~crashed /\ (\E fds \in SUBSET Fd : Poll(fds)) /\ UNCHANGED crashed
Dispatch ==
  /\ ~crashed
  /\ \E ch \in Channel : HandledDead(ch) \/ \E drained \in BOOLEAN : Handled(ch, drained)
Owners ==
  /\ ~crashed /\ UNCHANGED crashed
  /\ \/ \E ch \in Channel : Operation(ch)
     \/ \E fd \in Fd : Close(fd) \/ BecomeReady(fd)

Next == LoopPoll \/ Dispatch \/ Owners

\* The loop goes round; nothing else is obliged to happen.
Fairness == WF_vars(LoopPoll) /\ WF_vars(Dispatch)

Spec == Init /\ [][Next]_vars
FairSpec == Spec /\ Fairness

-----------------------------------------------------------------------------
(* Properties                                                              *)

(* What a channel believes (index_, events_) is what the kernel has: the   *)
(* channel is registered exactly in kAdded, under its own address and with *)
(* its current interest, through any sequence of enable, disable, remove   *)
(* and reuse of descriptors.                                               *)
KernelInSync ==
  \A ch \in Channel : Alive(ch) =>
    /\ index_[ch] = kAdded <=> epoll[fd_[ch]].ptr = ch
    /\ index_[ch] = kAdded => epoll[fd_[ch]].events = events_[ch]

(* The pointer epoll_wait hands back is a living channel on that very      *)
(* descriptor, also after reuse of the descriptor and of the address.  Only*)
(* a channel that was put back after its removal leaves a dead pointer,    *)
(* from ~Channel until its descriptor is closed.                           *)
NoDanglingRegistration ==
  \A fd \in Fd : Registered(fd) => fd_[epoll[fd].ptr] = fd \/ fd \in closing \cap left

(* hasChannel is true of a channel that was updated and has not been       *)
(* removed, also after its descriptor was reused, and channels_ has nothing*)
(* else: but for the pointer that a channel put back after its removal     *)
(* leaves there until the next channel on its descriptor replaces it.      *)
HasChannel(ch) == Alive(ch) /\ channels_[fd_[ch]] = ch
MapInSync ==
  /\ \A ch \in Channel : Alive(ch) /\ index_[ch] # kNew => HasChannel(ch)
  /\ \A fd \in Fd : channels_[fd] # None /\ fd \notin left
       => fd_[channels_[fd]] = fd /\ index_[channels_[fd]] # kNew

(* epoll_ctl ADD is never used on a registered descriptor nor MOD on an    *)
(* absent one: the LOG_FATAL of update() is unreachable.                   *)
NoFatal == ~fatal

(* A descriptor that stays ready and registered is reported, however many  *)
(* others are ready: the event list grows until it has room for all.       *)
NoStarvation ==
  \A fd \in Fd :
    (fd \in Reportable)
      ~> (fd \notin Reportable \/ epoll[fd].ptr \in activeChannels \/ crashed)

(* The objects in use are on different descriptors, none of which is being *)
(* closed; with it the invariants above are inductive.                     *)
OwnFd ==
  /\ \A c1, c2 \in Channel : Alive(c1) /\ fd_[c1] = fd_[c2] => c1 = c2
  /\ \A ch \in Channel : fd_[ch] \notin closing

IInv == /\ TypeOK /\ OwnFd /\ KernelInSync /\ NoDanglingRegistration
        /\ MapInSync /\ NoFatal
=============================================================================
