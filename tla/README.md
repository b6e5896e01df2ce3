# muduo-learning in TLA+

A verification development for the reactor library in `src/` (a C++11 rewrite of
the core of muduo).  It models the event loop and its wakeup protocol, the
epoll poller and the channels, the loop threads, one TCP connection, the server
with its acceptor, its pool and its connections, and the byte buffer;
model-checks them with TLC on small instances; and proves their safety, and that
the detailed modules implement the abstract ones, for every instance with TLAPS.

## 1. The system

One *base loop* accepts connections; a pool of *I/O loops*, each in a thread of
its own, serves them, or the base loop itself when the pool is empty.  A loop is a cycle of `epoll_wait`, the callbacks of the
channels that are ready, and the functors other code has queued.  All state of a
connection belongs to its I/O loop; other threads reach it by queueing functors.

| component (files) | state | operations | talks to |
| --- | --- | --- | --- |
| `EventLoop` | `pendingFunctors_` (mutex), the batch being run, `callingPendingFunctors_`, `quit_`, the eventfd, `activeChannels_` | `loop`, `quit`, `runInLoop`, `queueInLoop`, `wakeup`, `handleRead`, `doPendingFunctors` | any thread pushes and writes the eventfd; calls the poller and the channels |
| `EPollPoller`, `Poller` | `channels_` by descriptor, the growing `events_` array, the kernel's epoll set | `poll`, `updateChannel`, `removeChannel`, `update`, `hasChannel` | kernel; hands raw `Channel*` back to the loop |
| `Channel` | `events_`, `revents_`, `index_`, weak `tie_` | `enable*`, `disable*`, `remove`, `tie`, `handleEvent` | its loop's poller; callbacks of its owner |
| `EventLoopThread`, `Thread` | `loop_` with mutex and condition, the thread | `startLoop`, `threadFunc`, destructor (quit, join) | publishes the address of a loop on the other thread's stack |
| `EventLoopThreadPool` | `numThreads_`, `next_`, threads, loops | `setThreadNum`, `start`, `getNextLoop` | `TcpServer` |
| `Acceptor` | the listening socket and its backlog, `listenning_` | `listen`, `handleRead` | `TcpServer::newConnection`; the base loop's poller |
| `TcpConnection` | `state_`, channel interest, output and input buffers, high water mark | `send`, `sendFile`, `shutdown`, the four handlers, `connectEstablished`, `connectDestroyed` | socket, user callbacks, its loop's queue, `TcpServer` through `closeCallback_` |
| `TcpServer` | `connections_`, the pool | `start`, `newConnection`, `removeConnection`, `removeConnectionInLoop`, destructor | both loops of every connection |
| `Buffer` | the byte vector, `readerIndex_`, `writerIndex_` | `append`, `retrieve*`, `makeSpace`, `readFd`, `writeFd` | `TcpConnection` |
| `Socket` | a descriptor, closed by its destructor | `accept`, `listen`, `shutdownWrite`, options | the kernel |
| `DefaultPoller`, `Logger`, `Timestamp`, `InetAddress`, `CurrentThread` | little or none | values | |

What is hard, and what would be correct:

* **EventLoop**: the push into the queue, the write to the eventfd, the test of
  `quit_` and the drain of the eventfd are separate steps of different threads.
  Correct is: no task and no quit is slept over, the two vectors are one FIFO,
  a batch ends.
* **Poller and Channel**: three views of a registration (`index_`/`events_`,
  `channels_`, the kernel's) must agree through every sequence of calls and the
  reuse of descriptors; a full event array must not starve a descriptor.
* **EventLoopThread**: publication of a stack address, a condition variable, and
  a destructor that races the loop's entry and exit.
* **TcpConnection**: partial writes, files sent in pieces between messages,
  `shutdown` from another thread, the peer's FIN and RST, the destruction of the
  server, all in any order.  Correct is: accepted data reaches the wire once and
  in order, a file is sent whole or given up, the FIN comes last and
  comes, the end of the peer is noticed.
* **TcpServer**: who holds a pointer to a connection while `handleClose`,
  `removeConnectionInLoop`, `connectDestroyed`, the application and the
  destructor meet on three threads.  Correct is: UP once, DOWN once, then freed,
  and its descriptor closed, so that whoever waits in the backlog is served.
* **Buffer**: index arithmetic at the ends of the array.

The hazards, each at its line and with the properties that look at it, are in
`PROJECT.json`.

## 2. Modules

| module | models | implements |
| --- | --- | --- |
| `TaskQueue` | what a loop promises: a FIFO of tasks | |
| `EventLoop` | one loop, its owner thread, any number of clients | `TaskQueue` (proved) |
| `EPollPoller` | one poller, its channels, the kernel's epoll set | |
| `EventLoopThread` | EXTENDS `EventLoop` with the thread and its owner | `EventLoop` (proved) |
| `TcpConnection` | one connection, its socket, its functors, other threads | |
| `ConnectionLifecycle` | what the server promises of a connection, until it is revived | |
| `TcpServer` | base loop, pool, connections, application, destruction | `ConnectionLifecycle`, per connection (proved) |
| `ByteQueue` | what a buffer promises: a queue of bytes | |
| `Buffer` | the array with two indices | `ByteQueue` (proved) |
| `MC*` | the specification of the same name, for TLC | |
| `*Proofs` | theorems about it | |

**EventLoop.**  `pc` is the place of the owning thread: `while` (the test of
`quit_`), `poll`, `dispatch`, `handler` (a user callback of a channel), `swap`,
`call` and `functor` (a functor that is running), `out` outside `loop()`.  The
mutex protects one `push_back` and one `swap`, so those are single steps;
`queueInLoop` of another thread is a push and, in a second step, the write to the
eventfd, and so is `quit()`.  The eventfd is a flag: readable or not.  The owner
may queue, run or quit from every callback and before `loop()`.  `unannounced`
names the tasks the owner queued outside `loop()`: the code wakes nobody for
them.  A task is submitted once; it stands for a submission, not for a function.

**EPollPoller.**  Everything but the destruction of a channel runs on the loop's
thread, so operations are atomic.  `epoll` is the kernel's set; ADD of a
registered and MOD of an absent descriptor fail, which is `LOG_FATAL` in the code
and the flag `fatal` here.  Channel addresses and descriptor numbers are reused;
`~Channel` and the `close` of `~Socket` are two steps, `closing` in between.  The
owners' discipline, taken from `Acceptor`, `TcpConnection` and `~EventLoop`, is in
the guards, and is only that a channel is removed at some time before it is
destroyed, and not removed between a poll and the handling of its result.  It is
not that the channel stays out: a `sendInLoop` that comes after
`connectDestroyed` only logs (`TcpConnection.cc:265`) and may enable it once more
(lines 331-333), and whoever drops the last pointer, on whatever thread, then
destroys a channel that is registered, or reported and not yet handled.  `left`
records the descriptors such channels died on.  `handleEvent` on what is left of a
channel is undefined; the model lets it do nothing (`tie_` still found empty) or
end the process (`crashed`).  The module is about the time the loop runs.

**EventLoopThread.**  The new thread is the owner of the loop of `EventLoop.tla`
and `Main` one of its clients; every step is a step of `EventLoop` or leaves its
variables alone.  `LoopAlive` says when the object on the new thread's stack
exists.  `EarlyDestruction` allows `~EventLoopThread` before the thread has
entered `loop()`.

**TcpConnection.**  A message is a sequence of units, a unit being what a write
can be cut at.  `Poll` turns the state of the socket into the callbacks
`handleEventWithGuard` will make, in its order; every handler and every functor
is one step, except that user callbacks are entered and left in two (the owner
may send or shut down within), that calls from other threads test the state in
one step and act in another, and that `connectDestroyed` tests and sets in two.
`disableAll` on a channel that is already disabled adds it again, as the poller
does.  EPOLLPRI is not told from EPOLLIN: `kReadEvent` asks for both and both are
the read callback.  A file is sent by `sendFileInLoop` in pieces, each of which is a
round of its own: `SendFileLeaving` is its body with what it leaves to send.  A
`sendfile` that takes nothing stands for all outcomes after which the code queues
the file again: EWOULDBLOCK, any error but EPIPE and ECONNRESET, which is logged,
and the 0 a file shorter than announced returns, for ever.
`write` after a reset or after the FIN fails; it does not raise SIGPIPE.
`server` says whether `connections_` still holds the connection.

**TcpServer.**  `Alive(c)` follows the shared pointers: in `connections_`, in a
functor that binds one, in a callback that runs, in the application.  The
functors of `send()` and `shutdown()` bind the raw `this` and hold nothing.  A
`sendInLoop` that comes after `handleClose` or `connectDestroyed` is not turned
away: where the kernel does not take all of it, `enableWriting` registers the
channel again (`RunSend`), on an object nothing but the application may hold.
The history variable `revived` names the connections this has happened to; what
is promised of the channel and of the callbacks is promised until then.  A connection
that is alive has a descriptor open, which `~Socket` closes with it: the acceptor
takes the head of the backlog when fewer than `fdLimit` are open, and otherwise
fails with EMFILE, which the code logs, and tries again in the next round.  The
base loop is loop 0.  `Start(n)` is `setThreadNum(n)` and `start()`; with an empty
pool `NextLoop` is the base loop and `runInLoop` runs in place, so that
`newConnection` contains the UP callback, `removeConnection` the erase and
`~TcpServer` the DOWN callback; otherwise each is a functor of the other loop.
`loopOf`, `next_` and the order in which the threads are quit and joined are those
of the code.  Functors are taken one by one, which is the batch of the code with
batches of one; a longer batch only keeps pointers longer.  `connectDestroyed`
tests and sets in one step here; that race is in `TcpConnection.tla`.  The server
is destroyed as in `example/testserver.cc`: after the base loop has returned and
the application's last call.

**Buffer.**  Every operator on the array takes and returns the four parts of a
buffer, so that `append` is `Write` after `ensureWritableBytes` as in the code.
`given` and `taken` record what an operation was given and handed out, for the
comparison with `ByteQueue`.

## 3. Runs

| run | bounds | result |
| --- | --- | --- |
| `EventLoop` | 3 tasks, 2 clients, 1 socket | pass: `NoLostWakeup`, `NoSleepOnQuit`, `IInv`, `ImplementsTaskQueue`, `BatchOnlyShrinks`, `TasksRun`, `LateTasksRun`, `QuitStops` |
| `EPollPoller` | 2 channels, 2 descriptors, event array of 1; channels put back after their removal and destroyed at any time | pass: `KernelInSync`, `NoDanglingRegistration`, `MapInSync`, `NoFatal`, `NoStarvation` |
| `EventLoopThread` | 2 tasks, no early destruction | pass: `PublishedLoopAlive`, `JoinedBeforeFreed`, `ThreadInv`, `StartLoopReturns`, `DestructorReturns` |
| `TcpConnection` | 2 messages (2 and 1 units), a file of 2, two of the three sent; 1 other thread; high water mark 3; 1 unread delivery | pass: `WriteInterest`, `StreamIntact`, `StreamKept`, `FilesWhole`, `FinAfterAccepted`, `ShutdownDone`, `CloseNoticed`, `FilesGivenUp` |
| `TcpServer` | 2 clients, a pool of 0, 1 or 2 threads, 1 or 2 descriptors; the application keeps 1 connection at a time and has 1 functor per queue | pass: `RegisteredAlive`, `IInv`, `ImplementsLifecycle`, `Released`, `BacklogServed`, `ServerStops` |
| `Buffer` | 2 byte values, 1 byte in front, room for 2, 4 unread | pass: `ImplementsByteQueue`, `GrowsOnlyWhenFull` |
| `EarlyQuit` | as `EventLoopThread`, with early destruction | violates `DestructorReturns` |
| `QuitRace` | as `EventLoopThread` | violates `QuitTouchesLiveLoop` |
| `FileAfterClose` | one message, one file of two units; every `sendfile` that can succeed does in the end | violates `FileStopsWhenDown` |
| `SendAfterClose` | one message queued before the close | violates `NothingSentAfterDisconnect` |
| `RawThis` | 1 connection, the pointer dropped early | violates `FunctorFindsConnection` |
| `NoDownAtStop` | 1 connection, server destroyed | violates `AllTakenDown` |

Each passing run also checks the type invariant of its module.

*Why the bounds are enough.*  Three tasks are one that runs, one in the batch
behind it and one pushed meanwhile; two clients can both be between the push and
the wakeup.  Two channels on two descriptors can swap descriptors, and an array
of one entry is full with one and too small for two.  A message of two units can
be cut; with a second message or a file something can come between the cut and
the rest.  The high water mark of three is crossed by two sends and not by one.
Two connections on two loops use the round robin index up to its turn, on one it
turns at once, on none everything runs in place; with one descriptor for two
clients accept fails until the first connection is freed.  A buffer
of room two and one byte in front meets every case of `makeSpace`: exact fit, one
less, one more; `readFd` meets a full, a partly filled and an empty array with an
extra buffer larger and smaller than the room.

*Fairness.*  Threads that can run do, user callbacks return, a call that was
begun is finished, and `epoll_wait` returns when the eventfd is readable.  No
specification of a passing run is fair to the poll timeout: a promise that needs
ten seconds to pass is not counted as kept.  `LateTasksRun` states the timeout as
its hypothesis, because for the tasks it is about nothing else wakes the loop.
`TcpConnection` is also strongly fair to a poll that reports EPOLLOUT, which is
level triggered: the peer is assumed to go on reading.  It is not fair to a
`sendfile` that sends something, which nothing in the code sees to.  `TcpServer` is strongly fair to `LoopExit`, because `quit_` is
tested in every round whatever else the round brings, and to `NewConnection`,
because the listening socket is level triggered and reported in every round; it
does not assume that a file ever comes to its end, so `Released` excepts a
connection that a file keeps and `BacklogServed` the case that connections which
are kept hold all descriptors for ever.  `EarlyQuit` is fair to the timeouts too,
so that its counterexample does not rest on them; `FileAfterClose` is fair to a
`sendfile` that sends something, so that its counterexample rests neither on a
failing `sendfile` nor on a short file.

*Deadlock* is checked where the component goes on for ever.  In `TcpConnection`
and `TcpServer` (and the violations about them) the system really stops, when
the connection or the server is gone, and in `EPollPoller` when a dead channel was
used and the process has ended.

*What the violations say.*  (1) `loop()` resets `quit_`, so an `EventLoopThread`
destroyed before its thread has entered `loop()` is joined for ever.  (2) `quit()`
uses the loop once more after it has let it end.  (3) `sendFileInLoop`
gives up in `kDisconnecting` and not in `kDisconnected`, the state its comment
speaks of: a file that waits behind bytes which nobody sends any more queues
itself for ever.
(4) `sendInLoop` logs that it gives up and does not; by this the channel of a
closed connection can return to the poller, a second DOWN follow, and the channel
die where the poller still has its address.  (5)
`send()` and `shutdown()` queue a raw `this`.  (6) `connectDestroyed`, queued by `~TcpServer`, is lost when the
loop sees `quit_` first.  The passing runs are kept clear of these by stated
assumptions: `EarlyDestruction = FALSE`, `KeepsPointer = TRUE`, and the abstract
lifecycle that demands DOWN before destruction only while the server serves.

*The stream twice.*  `StreamIntact` compares the wire and the buffer with all that
was accepted: it gives every accepted message a place of its own in the stream,
in the order of acceptance, and leaves no unit of a message over.  `StreamKept`
says of each step what it may add to the stream, the pieces of files included.
The second, over the steps, gives the first; both are checked and both proved.

*What a late send leaves in the poller.*  `NoDanglingRegistration` and `MapInSync`
hold for all channels but those that were put back after their removal and then
destroyed (`left`).  For these the kernel keeps the dead address until the
descriptor is closed, and `channels_` until the next channel on that descriptor
replaces it.  That a late send does this is a defect of the same line 265 that
`SendAfterClose` is about; `TcpServer` has the same exception in `revived`.

*A file that cannot be sent.*  `sendFileInLoop` queues itself as long as anything
remains, whether the output buffer is in the way, `sendfile` would block, has
failed in a way that is only logged, or has met the end of the file.  So nothing
is claimed of a file on a connection that stands.  `FilesGivenUp` claims that a
`shutdown()` or a reset ends it, from whatever thread and in whatever state of the
buffer, because `kDisconnecting`, EPIPE or ECONNRESET is seen in the end.  It
excepts a connection that went DOWN with bytes in its buffer: line 359 then keeps
`sendfile` from being called at all, `disableAll` has ended the writing that would
empty the buffer, and line 352 does not test for `kDisconnected`.  That case is
the run `FileAfterClose`, and the exception in `Released`.

## 4. Proofs

| module | theorem | statement |
| --- | --- | --- |
| `EventLoopProofs` | `Inductive`, `TypeCorrect`, `WakeupNotLost`, `QuitNotLost`, `BatchShrinks` | the loop's safety for any tasks, clients, channels |
| | `RefinesTaskQueue` | `Spec => Tasks!Spec` |
| `EPollPollerProofs` | `Inductive`, `TypeCorrect`, `KernelStaysInSync`, `NothingDangles`, `MapStaysInSync`, `NeverFatal` | agreement of the three views for any channels and descriptors, but for what a channel put back after its removal leaves on its descriptor |
| | `RemovalSuffices` | `Spec /\ []LeftAlone => []ReportedAlive`: while no channel is put back after its removal, whatever epoll reports is alive until it is handled |
| `EventLoopThreadProofs` | `ThreadRunsEventLoop`, `ThreadWakeupNotLost` | `ThreadSpec => Spec`, and with it the theorems of the loop |
| | `ThreadInductive`, `ThreadTypeCorrect`, `PublishedStaysAlive`, `ThreadJoined` | publication and join, early destruction included |
| `TcpServerProofs` | `Inductive`, `TypeCorrect`, `RegisteredStaysAlive` | a registered channel has a living owner until the connection is revived, for any connections and loops |
| `LifecycleProofs` | `RefinesLifecycle` | `Spec => ImplementsLifecycle` of `TcpServer`: UP once, DOWN once, then freed, for every connection until it is revived |
| | `KeptPointersSuffice` | the raw `this` of `send()` and `shutdown()` is harmless to an application that keeps its pointers |
| | `TakenDownWithoutPool` | a server without a pool leaves no connection in `kConnected` when it is destroyed |
| `TcpConnectionProofs` | `Inductive`, `TypeCorrect`, `InterestIsKept`, `FinComesLast`, `StreamStaysIntact` | EPOLLOUT, the FIN and the steps of the stream, for any messages, files, sizes and threads |
| | `UpComesFirst`, `SecondDownNeedsSend` | UP at most once and before any DOWN; a second DOWN only after a send that asked for EPOLLOUT again |
| `StreamProofs` | `MessagesArriveWhole`, `FilesArriveWhole` | accepted messages arrive whole and in order, files whole and in order while the connection stands |
| `BufferProofs` | `TypeCorrect`, `BufferIsQueue`, `GrowthIsNeeded` | `Spec => Queue!Spec`, and economy of space, for any bytes and sizes |

*EventLoop.*  `NoLostWakeup` is not inductive: a state in `while` with a
task of another thread in the queue and no wakeup satisfies it, and polls next.  `IInv`
adds `Announced`, which says that the wakeup may be missing only from the dispatch
to the swap, and `BatchPlace`, which ties the flag `callingPendingFunctors_` and
the batch to the place of the loop: that flag is what makes the owner wake itself
exactly when the swap of this round is behind it.  The refinement maps the queue
to `functors \o pendingFunctors_`; the swap is a stutter because the batch is
empty at that place.

*EPollPoller.*  The views need one another: the map is right because the kernel's
pointers are, and both because no two living channels share a descriptor
(`OwnFd`).  `IInv` is their conjunction; `updateChannel` is proved once for all
the operations that end in it.  The guard of `Destroy` is no help there: a channel
may die in any state, and the exceptions say what it leaves.  `RemovalSuffices` is
the other side of them, and goes by `ReportInv`: what is reported is `kAdded`, so
it has not been removed, so nobody may destroy it.

*EventLoopThread.*  `ThreadInv` ties `loop_` to the place of the new thread, and
says that nothing quits the loop before the destructor does, so that the address
cannot go away under its user.

*TcpServer.*  `RegisteredAlive` is not inductive: it says that somebody holds a
registered connection, not who, and every holder may let go.  `IInv` names the
holder.  `RegisteredHeld` gives two: the map, or a `connectDestroyed` that is
queued or at work (`Covered`), which is the one that removes the channel.  To keep
it through `connectEstablished` it needs `EstablishedHeld`: whoever takes a
connection out of the map queues its destruction behind its establishment.
`Home` says that what is queued on a loop or runs on it belongs to it, so that
this order is the order of one queue; that no establishment is queued on the base
loop, which does that in place; and that the backlog names each client once and
none that was accepted.  `RestKeeps` and `EnqueueKeeps` say of any queues what
taking the first functor and adding one keep; the actions of the loops and those
that leave the callbacks alone share one lemma each (`LoopKeeps`, `QuietKeeps`).
The theorems are for any number of clients, threads (none included) and
descriptors.

*The lifecycle.*  A connection may be freed while the server serves only when its
DOWN was reported, so whoever lets go of it must be known to do so after that.
`LInv` says it of the holders: `connections_` keeps a connection until its DOWN
callback has been made, `removeConnectionInLoop` is queued only afterwards,
`connectEstablished` is queued once and only before UP (`QueueLife`), whoever
keeps or uses a pointer got it after UP, and `state_` and the channel agree with
the callbacks made (`ConnLife`), which is why `handleClose` and
`connectDestroyed` cannot both report DOWN.  `ConnLife` excepts the revived, and
has to: the channel that `RunSend` registers after the DOWN makes `handleClose`
report a second one.  `NoRevival` is the
other half: no action makes a pointer to a connection nobody held, since whoever
queues a functor or keeps a copy holds one already.  `StageStep` turns these
facts about a step into a step of the abstract lifecycle, so each action only has
to show what it does to the queues and the callbacks.  The proof does not use
`KeepsPointer`: the raw `this` of `send()` and `shutdown()` endangers the functor,
not the order of the callbacks.

*The limits of two violations.*  `KeptPointersSuffice` is the other side of
`RawThis`: with `KeepsPointer` every functor that runs finds its connection
alive.  Beyond `IInv` and `LInv` it needs `PointersKept`, that the application
holds whatever a raw `this` is queued for; the functors with a shared pointer
hold their connection themselves.  `TakenDownWithoutPool` is the other side of
`NoDownAtStop`: when there is no pool, `~TcpServer` runs `connectDestroyed` in
place and passes over no connection in `kConnected`.  Neither speaks of one in
`kDisconnecting`, which `connectDestroyed` (`TcpConnection.cc:141`) removes without a DOWN.  `PoolFree` adds that every connection is then the
base loop's own, that one which is `kConnected` is still in `connections_`, and
that the destructor goes on only when the map is empty.

*TcpConnection.*  `WriteInterest` is not inductive: a second `connectEstablished`,
after the channel was disabled with bytes in the buffer, would ask for reading
and not for writing.
`IInv` adds that `connectEstablished` is queued once and runs first
(`EstablishedOnce`) and that before it nothing has touched the channel, the
buffer or the wire (`Untouched`).  What the three ways to send do is said once
each, for any queue they leave (`SendKeeps`, `FileKeeps`, `DrainKeeps`), whether
another thread's functor or a callback runs them.

*The callbacks of one connection.*  Here the race inside `connectDestroyed` is
modelled and other threads write `state_` at any time, so that UP once and DOWN
once is not a matter of `state_` alone.  `Standing` says what the callbacks rest
on: the channel is read exactly until the DOWN, and afterwards is in the poller
only to be written.  `Reported` ties what the poller has reported to the channel
as it is: the end of the peer goes to `handleClose` or to `handleRead` and not to
both.  A second DOWN therefore needs EPOLLOUT, asked for by a send that came
after the first.

*The stream.*  `StreamIntact` is its own inductive invariant, given
`StreamStaysIntact`: a step moves units from the buffer to the wire, which leaves
the stream what it was, adds a message behind everything (`IntactBehind`), or
adds a piece of a file, which shifts no place (`IntactBesides`).  Stated with
places it needs no recursion over the accepted messages, and no induction over
them.

`FilesWhole` is not inductive: that a queued functor goes on where the wire has
stopped says nothing when two functors send the same file, when a thread is
about to queue a file of which something was sent, or when a functor gives up
because of a shutdown `state_` does not show yet.  `FilesInv` says that all that
is under way for a file is one functor or one thread (`OneJob`, and `Asks` in
`Progress`), that the thread has nothing on the wire yet, that a `kConnected`
connection has neither sent its FIN nor a shutdown on its way to do so
(`NotShut`), and that nothing was sent before UP and only messages are buffered
(`Quiet`).  From it comes what the code relies on without saying so: a
`sendFileInLoop` that requeues itself behind other functors continues its own
file and no other.

*Buffer.*  The lemmas follow the calls of the code: `makeSpace` keeps the bytes
and makes the room (`MakeSpaceKeeps`), writing behind the last byte appends to
them (`WriteAppends`), `append` is the two together, `readFd` is a write in the
array and, when the array was full, an `append` of the rest; what is retrieved is
a prefix (`PeekIsPrefix`, `RetrieveDrops`).  Each operation of the array is then
a `Put`, a `Take` or a `Show` of the queue that `readerIndex_ .. writerIndex_ - 1` holds.

The assumptions are those the modules declare: the wakeup channel is none of the
sockets' channels, `None` is no channel and no descriptor, descriptors are
finitely many, the event array starts with at least one entry, `Main` is a
client, the bounds of `TcpServer` are naturals and `KeepsPointer` is a truth value,
messages and files are distinct
and have at least one unit, and the high water mark is at least one.

*Only model-checked*: all liveness, since fairness and ENABLED are beyond the
prover.  Every invariant and every action property of a passing run is proved.
What the runs of the second half of the table refute has only TLC's
counterexample.

## 5. Not modelled

`DefaultPoller`, `Logger`, `Timestamp`, `InetAddress`, `CurrentThread` and
`noncopyable` (values, formatting and one `getenv`); the socket options and the
failures of `socket`, `bind` and `listen`, which end the process before it serves;
`getAllLoops`; thread names.  SIGPIPE, the lifetime of the bytes `send` passes to
another thread, a send that the FIN of a later `shutdown()` overtakes (the code
promises its order nowhere), a second caller of `quit()` on a pool's loop, the raw `this` of a server that is destroyed before the base
loop's functors have run, and the level of the one `Logger` are hazards without a
property, with the reason given there.

## 6. Plan

The order was: the loop (everything rests on its wakeups), the poller, the loop
thread, the connection, the server, the buffer; then the acceptor with a limit on
descriptors and the pool without threads, in `TcpServer`; then the proofs about
`TcpConnection` and the lifecycle, the late send in `TcpServer`, and the proofs
about the stream.  Left, in order of weight:

1. A composition of `TcpConnection` with the loop of `EventLoop` in place of its
   own two-phase loop.
2. Several servers on one base loop, and a server destroyed while that loop goes
   on, which the example never does.
