------------------------------ MODULE TcpServer ------------------------------
(***************************************************************************)
(* TcpServer with its Acceptor and its EventLoopThreadPool: the base loop  *)
(* accepts connections and keeps them in connections_, the loops of the    *)
(* pool run them (the base loop itself, when the pool has no threads), and *)
(* another thread of the application may hold TcpConnectionPtrs and call   *)
(* send(), sendFile() and shutdown().  The subject is the life of the      *)
(* TcpConnection objects: who holds a shared pointer, who only a raw one,  *)
(* and with it the life of their descriptors, which ~Socket closes.  What  *)
(* happens inside a loop and on the socket is in EventLoop.tla and         *)
(* TcpConnection.tla.                                                      *)
(*                                                                         *)
(* A loop takes its functors one by one here; the batches of the code keep *)
(* the pointers of functors that have run a little longer, but every order *)
(* of one by one is that of some batches of one.                           *)
(***************************************************************************)
EXTENDS Integers, SequencesExt

CONSTANTS Conn,              \* connections that clients may open
          MaxThreads,        \* bound of setThreadNum()
          MaxFds,            \* bound of the descriptors left for connections
          KeepsPointer,      \* the application holds a connection until the
                             \* calls it made on it have been executed
          MaxHeld,           \* bound: connections it holds at a time
          MaxCalls           \* bound: its functors in a queue

ASSUME ThreadsAssumption == MaxThreads \in Nat
ASSUME BoundsAssumption == MaxFds \in Nat /\ MaxHeld \in Nat /\ MaxCalls \in Nat
ASSUME PointerAssumption == KeepsPointer \in BOOLEAN

VARIABLES numThreads_, next_,\* of EventLoopThreadPool
          backlog,           \* the listening socket's, in the kernel
          fdLimit,           \* descriptors the process may open for connections
          loopOf,            \* loop_ of each connection, NoLoop before accept
          state_, registered,\* of each connection; its channel is kAdded
          ups, downs,        \* history: connection callbacks made
          revived,           \* history: connections whose channel a late
                             \* sendInLoop has put back into the poller
          connections_,      \* the map of TcpServer
          queue,             \* queue[l]: functors of a loop
          callback,          \* callback[l]: the user callback it is running
          held,              \* connections the application has pointers to
          call,              \* the call its thread is in
          phase,             \* of main: "built", "serving", then ~TcpServer's
                             \* "reset", "quit" and "join", "gone"
          running, quit      \* loops that exist; those that were told to quit

acceptVars == <<numThreads_, next_, backlog, fdLimit, loopOf>>
connVars == <<state_, registered, ups, downs, revived>>
userVars == <<held, call>>
stopVars == <<phase, running, quit>>
vars == <<acceptVars, connVars, connections_, queue, callback, userVars, stopVars>>

Base == 0
Loop == 0 .. MaxThreads
NoLoop == -1
NoCall == [op |-> "none"]
Functor(op, c) == [op |-> op, conn |-> c]
CallOps == {"send", "sendFile", "shutdown"}
Functors == [op : {"established", "remove", "destroyed"} \cup CallOps, conn : Conn]
Callbacks == [op : {"up", "close", "destroyed"}, conn : Conn]

TypeOK ==
  /\ numThreads_ \in 0 .. MaxThreads
  /\ next_ \in Nat /\ (next_ = 0 \/ next_ < numThreads_)
  /\ backlog \in Seq(Conn) /\ fdLimit \in Nat
  /\ loopOf \in [Conn -> Loop \cup {NoLoop}]
  /\ state_ \in [Conn -> {"kConnecting", "kConnected", "kDisconnecting",
                          "kDisconnected"}]
  /\ registered \in [Conn -> BOOLEAN]
  /\ ups \in [Conn -> Nat] /\ downs \in [Conn -> Nat]
  /\ revived \subseteq Conn /\ connections_ \subseteq Conn
  /\ queue \in [Loop -> Seq(Functors)]
  /\ callback \in [Loop -> Callbacks \cup {NoCall}]
  /\ held \subseteq Conn
  /\ call \in [op : CallOps, conn : Conn] \cup {NoCall}
  /\ phase \in {"built", "serving", "reset", "quit", "join", "gone"}
  /\ running \subseteq Loop /\ quit \subseteq Loop

\* The constructors of TcpServer, Acceptor and EventLoopThreadPool have run.
Init ==
  /\ numThreads_ = 0 /\ next_ = 0
  /\ backlog = <<>> /\ fdLimit \in 1 .. MaxFds
  /\ loopOf = [c \in Conn |-> NoLoop]
  /\ state_ = [c \in Conn |-> "kConnecting"]
  /\ registered = [c \in Conn |-> FALSE]
  /\ ups = [c \in Conn |-> 0] /\ downs = [c \in Conn |-> 0]
  /\ revived = {} /\ connections_ = {}
  /\ queue = [l \in Loop |-> <<>>] /\ callback = [l \in Loop |-> NoCall]
  /\ held = {} /\ call = NoCall
  /\ phase = "built" /\ running = {Base} /\ quit = {}

-----------------------------------------------------------------------------
(* Who holds a TcpConnectionPtr.  send() and shutdown() bind the raw this. *)

Owning == {"established", "remove", "destroyed", "sendFile"}

HeldByLoop(c, l) ==
  \/ callback[l] # NoCall /\ callback[l].conn = c
  \/ \E i \in DOMAIN queue[l] : queue[l][i].conn = c /\ queue[l][i].op \in Owning

Alive(c) ==
  c \in connections_ \/ c \in held \/ \E l \in Loop : HeldByLoop(c, l)

\* The loop is at the beginning of an event or of a functor.
Ready(l) == /\ l \in running /\ callback[l] = NoCall
            /\ l = Base => phase = "serving"

\* The first functor of the queue
Run(l, op) == Ready(l) /\ queue[l] # <<>> /\ Head(queue[l]).op = op

Enqueue(q, l, f) == [q EXCEPT ![l] = Append(@, f)]
Rest(l) == [queue EXCEPT ![l] = Tail(@)]

Calls(l, op, c) == callback' = [callback EXCEPT ![l] = [op |-> op, conn |-> c]]

\* connectEstablished: setState, enableReading, the UP callback
Establish(c, l) ==
  /\ state_' = [state_ EXCEPT ![c] = "kConnected"]
  /\ registered' = [registered EXCEPT ![c] = TRUE]
  /\ ups' = [ups EXCEPT ![c] = @ + 1]
  /\ Calls(l, "up", c)
  /\ UNCHANGED <<downs, revived>>

\* connectDestroyed; in kConnected it disables the channel and makes the
\* DOWN callback before it removes the channel
Destroy(c, l) ==
  /\ IF state_[c] = "kConnected"
       THEN /\ state_' = [state_ EXCEPT ![c] = "kDisconnected"]
            /\ downs' = [downs EXCEPT ![c] = @ + 1]
            /\ Calls(l, "destroyed", c)
            /\ UNCHANGED registered
       ELSE /\ registered' = [registered EXCEPT ![c] = FALSE]
            /\ UNCHANGED <<state_, downs, callback>>
  /\ UNCHANGED <<ups, revived>>

-----------------------------------------------------------------------------
(* Acceptor and pool, on the base loop                                     *)

\* setThreadNum(n) and start(): the pool's loops run, the acceptor listens.
Start(n) ==
  /\ phase = "built" /\ phase' = "serving"
  /\ numThreads_' = n /\ running' = 0 .. n
  /\ UNCHANGED <<next_, backlog, fdLimit, loopOf, connVars, connections_, queue,
                 callback, userVars, quit>>

\* A client connects.
Arrive(c) ==
  /\ phase = "serving" /\ loopOf[c] = NoLoop /\ c \notin Range(backlog)
  /\ backlog' = Append(backlog, c)
  /\ UNCHANGED <<numThreads_, next_, fdLimit, loopOf, connVars, connections_,
                 queue, callback, userVars, stopVars>>

\* Mutant: getNextLoop does not go back to the first loop.
NextIndexNeverWraps(i) == i + 1

\* getNextLoop: ++next_, back to 0 at the end
NextIndex(i) == IF i + 1 >= numThreads_ THEN 0 ELSE i + 1

NextLoop == IF numThreads_ = 0 THEN Base ELSE next_ + 1

\* A connection's Socket closes the descriptor with it.
DescriptorsOpen == Cardinality({c \in Conn : Alive(c)})

\* accept() needs a descriptor; without one it fails with EMFILE, which is
\* only logged, and the connection stays where it is.
Accept(c) ==
  /\ backlog # <<>> /\ c = Head(backlog)
  /\ DescriptorsOpen < fdLimit
  /\ backlog' = Tail(backlog)

\* newConnection with what connections_ becomes; runInLoop runs
\* connectEstablished in place when the connection is the base loop's own.
AcceptInto(c, map) ==
  /\ Ready(Base) /\ Accept(c)
  /\ loopOf' = [loopOf EXCEPT ![c] = NextLoop]
  /\ next_' = IF numThreads_ = 0 THEN next_ ELSE NextIndex(next_)
  /\ connections_' = map
  /\ IF numThreads_ = 0
       THEN Establish(c, Base) /\ UNCHANGED queue
       ELSE /\ queue' = Enqueue(queue, NextLoop, Functor("established", c))
            /\ UNCHANGED <<connVars, callback>>
  /\ UNCHANGED <<numThreads_, fdLimit, userVars, stopVars>>

\* Mutant: the new connection is not put into connections_.
NewConnectionUnmapped(c) == AcceptInto(c, connections_)

\* Acceptor::handleRead and newConnection
NewConnection(c) == AcceptInto(c, connections_ \cup {c})

\* removeConnectionInLoop with what connections_ becomes
RemoveLeaving(map) ==
  /\ Run(Base, "remove")
  /\ LET c == Head(queue[Base]).conn
     IN queue' = Enqueue(Rest(Base), loopOf[c], Functor("destroyed", c))
  /\ connections_' = map
  /\ UNCHANGED <<acceptVars, connVars, callback, userVars, stopVars>>

\* Mutant: connections_.erase is missing.
RemoveKeepsInMap == RemoveLeaving(connections_)

RemoveConnectionInLoop == RemoveLeaving(connections_ \ {Head(queue[Base]).conn})

-----------------------------------------------------------------------------
(* What every loop does                                                    *)

LoopUnchanged == UNCHANGED <<acceptVars, connections_, userVars, stopVars>>

ConnectEstablished(l) ==
  /\ Run(l, "established")
  /\ Establish(Head(queue[l]).conn, l)
  /\ queue' = Rest(l) /\ LoopUnchanged

ConnectDestroyed(l) ==
  /\ Run(l, "destroyed")
  /\ Destroy(Head(queue[l]).conn, l)
  /\ queue' = Rest(l) /\ LoopUnchanged

\* shutdownInLoop and sendFileInLoop change nothing that matters here;
\* sendFileInLoop may queue itself again, for ever if it comes to no end.
RunCall(l) ==
  /\ \/ (Run(l, "shutdown") \/ Run(l, "sendFile")) /\ queue' = Rest(l)
     \/ Run(l, "sendFile") /\ queue' = Enqueue(Rest(l), l, Head(queue[l]))
  /\ LoopUnchanged /\ UNCHANGED <<connVars, callback>>

\* sendInLoop does not return in kDisconnected: if the kernel does not take
\* everything, enableWriting() registers the channel again.
RunSend(l) ==
  /\ Run(l, "send")
  /\ LET c == Head(queue[l]).conn
     IN \E rest \in BOOLEAN :
          /\ registered' = [registered EXCEPT ![c] = @ \/ rest]
          /\ revived' = IF rest /\ ~registered[c] THEN revived \cup {c} ELSE revived
  /\ queue' = Rest(l)
  /\ LoopUnchanged /\ UNCHANGED <<state_, ups, downs, callback>>

\* handleClose with the state it sets
CloseTo(l, c, state) ==
  /\ Ready(l) /\ loopOf[c] = l /\ registered[c] /\ Alive(c)
  /\ state_' = [state_ EXCEPT ![c] = state]
  /\ registered' = [registered EXCEPT ![c] = FALSE]
  /\ downs' = [downs EXCEPT ![c] = @ + 1]
  /\ Calls(l, "close", c)
  /\ LoopUnchanged /\ UNCHANGED <<queue, ups, revived>>

\* Mutant: handleClose without setState(kDisconnected).
HandleCloseKeepsState(l, c) == CloseTo(l, c, state_[c])

\* handleClose, once the peer has closed; a channel whose tie_ is dead is
\* skipped
HandleClose(l, c) == CloseTo(l, c, "kDisconnected")

\* After DOWN, handleClose calls removeConnection: the base loop removes the
\* connection in place, another loop sends it there.
ReturnFromClose(l) ==
  /\ l \in running /\ callback[l] # NoCall /\ callback[l].op = "close"
  /\ callback' = [callback EXCEPT ![l] = NoCall]
  /\ LET c == callback[l].conn
     IN IF l = Base
          THEN /\ connections_' = connections_ \ {c}
               /\ queue' = Enqueue(queue, Base, Functor("destroyed", c))
          ELSE /\ queue' = Enqueue(queue, Base, Functor("remove", c))
               /\ UNCHANGED connections_
  /\ UNCHANGED <<acceptVars, connVars, userVars, stopVars>>

\* After DOWN, connectDestroyed removes the channel; after UP there is nothing.
ReturnFromCallback(l) ==
  /\ l \in running /\ callback[l] # NoCall /\ callback[l].op # "close"
  /\ callback' = [callback EXCEPT ![l] = NoCall]
  /\ registered' = [registered EXCEPT
                      ![callback[l].conn] = @ /\ callback[l].op # "destroyed"]
  /\ LoopUnchanged /\ UNCHANGED <<state_, ups, downs, revived, queue>>

\* loop() returns and the EventLoop is destroyed with what is still queued.
LoopExit(l) ==
  /\ Ready(l) /\ l \in quit
  /\ running' = running \ {l}
  /\ queue' = [queue EXCEPT ![l] = <<>>]
  /\ UNCHANGED <<acceptVars, connVars, connections_, callback, userVars, phase, quit>>

-----------------------------------------------------------------------------
(* main, after the base loop's loop() has returned                         *)

StopUnchanged == UNCHANGED <<acceptVars, userVars>>
MovesTo(p) == phase' = p /\ UNCHANGED <<connVars, connections_, queue, callback, running>>

\* main goes on to destroy the server; by then the application's other
\* thread has made its last call.
BaseLoopEnds ==
  /\ Ready(Base) /\ call = NoCall
  /\ MovesTo("reset") /\ StopUnchanged /\ UNCHANGED quit

\* ~TcpServer: each connection is moved out of the map; connectDestroyed runs
\* in place for the base loop's own, the others' loops are sent it.
ResetConnection(c) ==
  /\ phase = "reset" /\ c \in connections_ /\ callback[Base] = NoCall
  /\ connections_' = connections_ \ {c}
  /\ IF loopOf[c] = Base
       THEN Destroy(c, Base) /\ UNCHANGED queue
       ELSE /\ queue' = Enqueue(queue, loopOf[c], Functor("destroyed", c))
            /\ UNCHANGED <<connVars, callback>>
  /\ StopUnchanged /\ UNCHANGED stopVars

ResetDone ==
  /\ phase = "reset" /\ connections_ = {} /\ callback[Base] = NoCall
  /\ MovesTo("quit") /\ StopUnchanged /\ UNCHANGED quit

\* Mutant: ~EventLoopThread only joins.
JoinWithoutQuit ==
  /\ phase = "quit" /\ running # {Base}
  /\ MovesTo("join") /\ StopUnchanged /\ UNCHANGED quit

\* The pool's threads are destroyed from the first to the last: quit, join.
QuitLoop ==
  /\ phase = "quit"
  /\ \E l \in running \ {Base} : /\ \A k \in running \ {Base} : l <= k
                                 /\ quit' = quit \cup {l}
  /\ MovesTo("join") /\ StopUnchanged

JoinLoop ==
  /\ phase = "join" /\ quit \cap running = {}
  /\ MovesTo("quit") /\ StopUnchanged /\ UNCHANGED quit

\* The acceptor closes its socket, the base loop goes with its functors.
ServerGone ==
  /\ phase = "quit" /\ running = {Base}
  /\ phase' = "gone" /\ running' = {} /\ backlog' = <<>>
  /\ queue' = [queue EXCEPT ![Base] = <<>>]
  /\ UNCHANGED <<numThreads_, next_, fdLimit, loopOf, connVars, connections_,
                 callback, userVars, quit>>

-----------------------------------------------------------------------------
(* The application                                                         *)

AppUnchanged ==
  UNCHANGED <<acceptVars, registered, ups, downs, revived, connections_, callback,
              stopVars>>

\* The connection callback keeps a copy of the pointer, or shuts down.
KeepPointer(c) ==
  /\ \E l \in Loop : callback[l] = [op |-> "up", conn |-> c]
  /\ held' = held \cup {c}
  /\ Cardinality(held') <= MaxHeld
  /\ AppUnchanged /\ UNCHANGED <<state_, queue, call>>

OwnerShutdown(c) ==
  /\ \E l \in Loop : callback[l] = [op |-> "up", conn |-> c]
  /\ state_[c] = "kConnected"
  /\ state_' = [state_ EXCEPT ![c] = "kDisconnecting"]
  /\ AppUnchanged /\ UNCHANGED <<queue, userVars>>

IsCall(f) == f.op \in CallOps

\* The other thread: the test of state_ and what follows it are two steps.
BeginCall(op, c) ==
  /\ phase = "serving" /\ call = NoCall
  /\ c \in held /\ state_[c] = "kConnected"
  /\ \A l \in Loop : Len(SelectSeq(queue[l], IsCall)) < MaxCalls
  /\ call' = [op |-> op, conn |-> c]
  /\ AppUnchanged /\ UNCHANGED <<state_, queue, held>>

FinishCall ==
  /\ call # NoCall
  /\ state_' = IF call.op = "shutdown"
                 THEN [state_ EXCEPT ![call.conn] = "kDisconnecting"]
                 ELSE state_
  /\ queue' = Enqueue(queue, loopOf[call.conn], Functor(call.op, call.conn))
  /\ call' = NoCall
  /\ AppUnchanged /\ UNCHANGED held

\* A functor with the raw this of c is queued.
Pending(c) ==
  \E l \in Loop, op \in {"send", "shutdown"} : Functor(op, c) \in Range(queue[l])

DropPointer(c) ==
  /\ c \in held
  /\ ~(call # NoCall /\ call.conn = c)
  /\ KeepsPointer => ~Pending(c)
  /\ held' = held \ {c}
  /\ AppUnchanged /\ UNCHANGED <<state_, queue, call>>

-----------------------------------------------------------------------------
LoopStep(l) ==
  \/ ConnectEstablished(l) \/ ConnectDestroyed(l) \/ RunCall(l) \/ RunSend(l)
  \/ ReturnFromClose(l) \/ ReturnFromCallback(l)
  \/ l = Base /\ RemoveConnectionInLoop

StopStep ==
  \/ ResetDone \/ QuitLoop \/ JoinLoop \/ ServerGone
  \/ \E c \in Conn : ResetConnection(c)

AppStep(c) ==
  \/ KeepPointer(c) \/ OwnerShutdown(c) \/ DropPointer(c)
  \/ \E op \in CallOps : BeginCall(op, c)

Next ==
  \/ \E n \in 0 .. MaxThreads : Start(n)
  \/ \E l \in Loop : \/ LoopStep(l) \/ LoopExit(l)
                     \/ \E c \in Conn : HandleClose(l, c)
  \/ \E c \in Conn : Arrive(c) \/ NewConnection(c) \/ AppStep(c)
  \/ BaseLoopEnds \/ StopStep \/ FinishCall

\* Functors run and callbacks return; quit_ is tested after every batch; the
\* listening socket is level triggered and reported in every round, however
\* busy the base loop is; a call that has begun is finished, and a destructor.
\* That a file comes to its end is not assumed.
Fairness ==
  /\ \A l \in Loop : WF_vars(LoopStep(l)) /\ SF_vars(LoopExit(l))
  /\ SF_vars(\E c \in Conn : NewConnection(c))
  /\ WF_vars(StopStep) /\ WF_vars(FinishCall)

Spec == Init /\ [][Next]_vars
FairSpec == Spec /\ Fairness

-----------------------------------------------------------------------------
(* Properties                                                              *)

(* A channel that is registered with the poller of a running loop belongs  *)
(* to a living connection, though tie() keeps only a weak pointer to it:   *)
(* unless a sendInLoop that came too late has put it back.                 *)
RegisteredAlive ==
  \A c \in Conn : registered[c] /\ loopOf[c] \in running => Alive(c) \/ c \in revived

(* What makes RegisteredAlive inductive.  Everything that is queued on a   *)
(* loop or runs on it belongs there, removeConnectionInLoop to the base    *)
(* loop; the base loop establishes its own connections in place; only      *)
(* accepted connections have pointers to them anywhere, and a connection   *)
(* waits once, before it is accepted.                                      *)
AtHome(f, l) ==
  /\ IF f.op = "remove" THEN l = Base /\ loopOf[f.conn] # NoLoop
                        ELSE loopOf[f.conn] = l
  /\ f.op = "established" => l # Base

Home ==
  /\ \A l \in Loop : \A i \in DOMAIN queue[l] : AtHome(queue[l][i], l)
  /\ \A l \in Loop : callback[l] # NoCall => loopOf[callback[l].conn] = l
  /\ \A c \in connections_ \cup held : loopOf[c] # NoLoop
  /\ call # NoCall => loopOf[call.conn] # NoLoop
  /\ \A i \in DOMAIN backlog : loopOf[backlog[i]] = NoLoop
  /\ \A i, j \in DOMAIN backlog : backlog[i] = backlog[j] => i = j
  /\ phase = "built" => next_ = 0 /\ \A c \in Conn : loopOf[c] = NoLoop

\* Whoever takes a connection out of connections_ sends it to its loop to be
\* destroyed, behind its connectEstablished.
EstablishedHeld ==
  \A l \in Loop : \A i \in DOMAIN queue[l] :
    queue[l][i].op = "established" =>
      \/ queue[l][i].conn \in connections_
      \/ \E j \in DOMAIN queue[l] :
            j > i /\ queue[l][j] = Functor("destroyed", queue[l][i].conn)

\* The connection is in connections_, or connectDestroyed is to come or at
\* work.
Covered(c) ==
  \/ c \in connections_
  \/ \E j \in DOMAIN queue[loopOf[c]] :
        queue[loopOf[c]][j] = Functor("destroyed", c)
  \/ callback[loopOf[c]] = [op |-> "destroyed", conn |-> c]

RegisteredHeld ==
  \A c \in Conn : registered[c] /\ loopOf[c] \in running => Covered(c) \/ c \in revived

IInv == TypeOK /\ Home /\ EstablishedHeld /\ RegisteredHeld

(* What the application sees of a connection, in the order it sees it.     *)
Stage(c) ==
  CASE loopOf[c] = NoLoop -> "none"
    [] ~Alive(c) /\ loopOf[c] # NoLoop -> "freed"
    [] Alive(c) /\ loopOf[c] # NoLoop /\ ups[c] = 0 -> "connecting"
    [] Alive(c) /\ ups[c] > 0 /\ downs[c] = 0 -> "up"
    [] Alive(c) /\ downs[c] > 0 -> "down"

Lifecycle(c) == INSTANCE ConnectionLifecycle
                  WITH stage <- Stage(c), ups <- ups[c], downs <- downs[c],
                       serving <- (phase \in {"built", "serving"})

(* UP once, then DOWN once, then destruction, for every connection,        *)
(* whichever of the peer, the application and the server ends it and in    *)
(* whatever order handleClose, removeConnectionInLoop, connectDestroyed    *)
(* and the application's calls meet: until a sendInLoop that comes too late*)
(* puts the channel back, which can lead to another DOWN.                  *)
ImplementsLifecycle ==
  /\ \A c \in Conn : Lifecycle(c)!Init
  /\ [][\A c \in Conn \ revived : [Lifecycle(c)!Next]_(Lifecycle(c)!vars)]_vars

\* A file is being sent on c.
Sending(c) == \E l \in Loop : Functor("sendFile", c) \in Range(queue[l])

(* A connection that was reported DOWN is released, and its descriptor     *)
(* closed: in the end nobody but the application has a pointer to it, and  *)
(* a sendFileInLoop that goes on queueing itself.                          *)
Released ==
  \A c \in Conn : downs[c] > 0 ~> (Alive(c) => c \in held \/ Sending(c))

\* The descriptors are all taken by connections that are not yet DOWN, or
\* whose pointers the application or its file keeps.
Exhausted ==
  Cardinality({c \in Conn : /\ Alive(c)
                            /\ downs[c] = 0 \/ c \in held \/ Sending(c)}) >= fdLimit

(* A client that has connected is accepted, also after accept has failed   *)
(* for want of a descriptor: unless the server stops, or the descriptors   *)
(* stay in use for good.                                                   *)
BacklogServed ==
  \A c \in Conn :
    c \in Range(backlog) ~> (c \notin Range(backlog) \/ phase # "serving" \/ []Exhausted)

(* ~TcpServer gets to its end: every thread of the pool is told to quit,   *)
(* does, and is joined.                                                    *)
ServerStops == phase \notin {"built", "serving"} ~> phase = "gone"

(* A functor that runs on a connection finds it alive.                     *)
FunctorFindsConnection ==
  \A l \in Loop :
    Ready(l) /\ queue[l] # <<>> => Alive(Head(queue[l]).conn)

(* When the server is gone no connection is left in kConnected: each that  *)
(* was in it went through connectDestroyed, as ~TcpServer sets out to do.  *)
AllTakenDown == phase = "gone" => \A c \in Conn : state_[c] # "kConnected"
=============================================================================
