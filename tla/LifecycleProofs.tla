-------------------------- MODULE LifecycleProofs ---------------------------
(***************************************************************************)
(* Every connection of a TcpServer implements ConnectionLifecycle until a  *)
(* late send revives it, for any connections, threads and descriptors, and *)
(* whether or not the application keeps its pointers as long as it should. *)
(* An action is shown to do three things: it keeps LInv, it gives nobody a *)
(* pointer to a connection that is gone, and it makes at most one callback,*)
(* of a connection that is due.                                            *)
(***************************************************************************)
EXTENDS TcpServerProofs

Serving == phase \in {"built", "serving"}
AliveSet == {c \in Conn : Alive(c)}

\* Connections the application may have pointers to
Known == {c \in AliveSet : ups[c] > 0}

\* What the functors of the queues q say of their connections, of which those
\* in kept are held by somebody: connectEstablished is queued once, before the
\* UP callback; removeConnectionInLoop after the DOWN callback; a call of the
\* application after the UP callback, which gave it the pointer.
QueueLife(q, up, down, kept) ==
  \A l \in Loop : \A i \in DOMAIN q[l] :
    /\ q[l][i].op = "established" =>
         /\ up[q[l][i].conn] = 0
         /\ \A j \in DOMAIN q[l] : q[l][j] = q[l][i] => i = j
    /\ q[l][i].op = "remove" => down[q[l][i].conn] > 0
    /\ q[l][i].op \in CallOps => up[q[l][i].conn] > 0
    /\ q[l][i].op \in Owning => q[l][i].conn \in kept

\* The callbacks of a connection against its state and its channel
ConnLife(c) ==
  /\ loopOf[c] = NoLoop => ups[c] = 0
  /\ ups[c] = 0 => downs[c] = 0
  /\ state_[c] = "kConnected" => ups[c] > 0 /\ downs[c] = 0
  /\ registered[c] \/ c \in revived => ups[c] > 0
  /\ registered[c] => \/ c \in revived \/ downs[c] = 0
                      \/ callback[loopOf[c]] = [op |-> "destroyed", conn |-> c]

\* As long as the server serves, a connection stays in connections_ until the
\* DOWN callback; who lets go of it later has seen that.
LInv ==
  /\ QueueLife(queue, ups, downs, Conn)
  /\ \A c \in Conn : ConnLife(c)
  /\ \A l \in Loop : callback[l] # NoCall =>
       /\ ups[callback[l].conn] > 0
       /\ callback[l].op = "close" => downs[callback[l].conn] > 0
  /\ \A c \in Conn : Serving /\ loopOf[c] # NoLoop /\ downs[c] = 0
                        => c \in connections_
  /\ call # NoCall => call.conn \in held
  /\ \A c \in held : ups[c] > 0

\* A step makes no callback of c, or UP as the first or DOWN after it, and c
\* is alive then; when c has been revived it may be DOWN again.
Counts(c) ==
  \/ c \in revived /\ ups'[c] = ups[c] /\ downs'[c] > 0
  \/ ups'[c] = ups[c] /\ downs'[c] = downs[c]
  \/ /\ Alive(c) /\ Alive(c)'
     /\ \/ ups[c] = 0 /\ ups'[c] = 1 /\ downs'[c] = downs[c]
        \/ ups[c] > 0 /\ ups'[c] = ups[c] /\ downs[c] = 0 /\ downs'[c] = 1

LifeStep(c) == [Lifecycle(c)!Next]_(Lifecycle(c)!vars)

-----------------------------------------------------------------------------
\* The stage of a connection

LEMMA StageIs ==
  ASSUME TypeOK, NEW c \in Conn, ConnLife(c)
  PROVE  /\ loopOf[c] = NoLoop => Stage(c) = "none"
         /\ loopOf[c] # NoLoop /\ ~Alive(c) => Stage(c) = "freed"
         /\ loopOf[c] # NoLoop /\ Alive(c) /\ ups[c] = 0 => Stage(c) = "connecting"
         /\ loopOf[c] # NoLoop /\ Alive(c) /\ ups[c] > 0 /\ downs[c] = 0
               => Stage(c) = "up"
         /\ loopOf[c] # NoLoop /\ Alive(c) /\ downs[c] > 0 => Stage(c) = "down"
<1>1. ups[c] \in Nat /\ downs[c] \in Nat
  BY DEF TypeOK
<1> QED BY <1>1 DEF Stage, ConnLife

LEMMA StageWillBe ==
  ASSUME TypeOK', NEW c \in Conn, ConnLife(c)'
  PROVE  /\ loopOf'[c] = NoLoop => Stage(c)' = "none"
         /\ loopOf'[c] # NoLoop /\ ~Alive(c)' => Stage(c)' = "freed"
         /\ loopOf'[c] # NoLoop /\ Alive(c)' /\ ups'[c] = 0 => Stage(c)' = "connecting"
         /\ loopOf'[c] # NoLoop /\ Alive(c)' /\ ups'[c] > 0 /\ downs'[c] = 0
               => Stage(c)' = "up"
         /\ loopOf'[c] # NoLoop /\ Alive(c)' /\ downs'[c] > 0 => Stage(c)' = "down"
<1>1. ups'[c] \in Nat /\ downs'[c] \in Nat
  BY DEF TypeOK
<1> QED BY <1>1 DEF Stage, ConnLife

\* What a step that neither accepts connections nor stops the server owes c
LEMMA StageStep ==
  ASSUME TypeOK, TypeOK', NEW c \in Conn \ revived, ConnLife(c), ConnLife(c)',
         loopOf'[c] = loopOf[c], Serving' <=> Serving,
         Alive(c)' => Alive(c), Counts(c),
         Serving' /\ loopOf'[c] # NoLoop /\ downs'[c] = 0 => Alive(c)'
  PROVE  LifeStep(c)
<1> USE DEF LifeStep, Lifecycle!Next, Lifecycle!vars, Serving
<1>1. /\ ups[c] \in Nat /\ downs[c] \in Nat /\ ups'[c] \in Nat /\ downs'[c] \in Nat
      /\ ups[c] = 0 => downs[c] = 0
  BY DEF TypeOK, ConnLife
<1>2. CASE ups'[c] = ups[c] /\ downs'[c] = downs[c] /\ (Alive(c)' <=> Alive(c))
  <2>1. Stage(c)' = Stage(c)
    BY <1>1, <1>2, StageIs, StageWillBe
  <2> QED BY <1>2, <2>1
<1>3. CASE ups'[c] = ups[c] /\ downs'[c] = downs[c] /\ Alive(c) /\ ~Alive(c)'
  <2>1. CASE loopOf[c] = NoLoop
    <3>1. Stage(c) = "none" /\ Stage(c)' = "none"
      BY <2>1, StageIs, StageWillBe
    <3> QED BY <1>3, <3>1
  <2>2. CASE loopOf[c] # NoLoop
    <3>1. Stage(c)' = "freed" /\ Stage(c) \in {"connecting", "up", "down"}
      BY <1>1, <1>3, <2>2, StageIs, StageWillBe
    <3>2. Stage(c) = "down" \/ ~Serving
      BY <1>1, <1>3, <2>2, StageIs
    <3> QED BY <1>3, <3>1, <3>2 DEF Lifecycle!Free
  <2> QED BY <2>1, <2>2
<1>4. CASE /\ Alive(c) /\ Alive(c)'
           /\ ups[c] = 0 /\ ups'[c] = 1 /\ downs'[c] = downs[c]
  <2>1. loopOf[c] # NoLoop
    BY <1>4 DEF ConnLife
  <2>2. Stage(c) = "connecting" /\ Stage(c)' = "up"
    BY <1>1, <1>4, <2>1, StageIs, StageWillBe
  <2> QED BY <1>4, <2>2 DEF Lifecycle!Up
<1>5. CASE /\ Alive(c) /\ Alive(c)'
           /\ ups[c] > 0 /\ ups'[c] = ups[c] /\ downs[c] = 0 /\ downs'[c] = 1
  <2>1. loopOf[c] # NoLoop
    BY <1>1, <1>5 DEF ConnLife
  <2>2. Stage(c) = "up" /\ Stage(c)' = "down"
    BY <1>1, <1>5, <2>1, StageIs, StageWillBe
  <2> QED BY <1>5, <2>2 DEF Lifecycle!Down
<1> QED BY <1>2, <1>3, <1>4, <1>5 DEF Counts

-----------------------------------------------------------------------------
\* The functors

LEMMA QueueOwns ==
  ASSUME IInv, LInv
  PROVE  QueueLife(queue, ups, downs, AliveSet)
<1>1. ASSUME NEW l \in Loop, NEW i \in DOMAIN queue[l], queue[l][i].op \in Owning
      PROVE  queue[l][i].conn \in AliveSet
  <2>1. queue[l][i].conn \in Conn
    BY <1>1 DEF LInv, QueueLife
  <2> QED BY <1>1, <2>1 DEF AliveSet, Alive, HeldByLoop
<1> QED BY <1>1 DEF LInv, QueueLife

LEMMA RestLife ==
  ASSUME NEW q \in QType, NEW l \in Loop, q[l] # <<>>, NEW up, NEW down, NEW kept,
         QueueLife(q, up, down, kept), NEW r, r = [q EXCEPT ![l] = Tail(@)]
  PROVE  /\ r \in QType /\ QueueLife(r, up, down, kept)
         /\ Head(q[l]).op = "established"
              => \A i \in DOMAIN r[l] : r[l][i] # Head(q[l])
<1>1. /\ q[l] \in Seq(Functors) /\ Len(q[l]) \in Nat /\ DOMAIN q[l] = 1 .. Len(q[l])
      /\ Head(q[l]) = q[l][1] /\ 1 \in DOMAIN q[l]
  BY DEF QType
<1>2. r \in QType /\ r[l] = Tail(q[l]) /\ \A k \in Loop \ {l} : r[k] = q[k]
  BY <1>1, TailFacts DEF QType
<1>3. ASSUME NEW i \in DOMAIN r[l]
      PROVE  i \in Nat /\ i + 1 \in DOMAIN q[l] /\ i + 1 # 1 /\ r[l][i] = q[l][i + 1]
  <2>1. /\ DOMAIN r[l] = 1 .. Len(q[l]) - 1
        /\ \A k \in 1 .. Len(q[l]) - 1 : r[l][k] = q[l][k + 1]
    BY <1>1, <1>2, TailFacts
  <2> QED BY <1>1, <1>3, <2>1
<1>4. QueueLife(r, up, down, kept)
  <2> SUFFICES ASSUME NEW k \in Loop, NEW i \in DOMAIN r[k]
               PROVE  /\ r[k][i].op = "established" =>
                           /\ up[r[k][i].conn] = 0
                           /\ \A j \in DOMAIN r[k] : r[k][j] = r[k][i] => i = j
                      /\ r[k][i].op = "remove" => down[r[k][i].conn] > 0
                      /\ r[k][i].op \in CallOps => up[r[k][i].conn] > 0
                      /\ r[k][i].op \in Owning => r[k][i].conn \in kept
    BY DEF QueueLife
  <2>1. CASE k # l
    BY <1>2, <2>1 DEF QueueLife
  <2>2. CASE k = l
    <3>1. /\ i + 1 \in DOMAIN q[l] /\ r[k][i] = q[l][i + 1] /\ i \in Nat
      BY <1>3, <2>2
    <3>2. ASSUME NEW j \in DOMAIN r[k], r[k][j] = r[k][i], r[k][i].op = "established"
          PROVE  i = j
      <4>1. j + 1 \in DOMAIN q[l] /\ r[k][j] = q[l][j + 1] /\ j \in Nat
        BY <1>3, <2>2
      <4>2. i + 1 = j + 1
        BY <3>1, <3>2, <4>1 DEF QueueLife
      <4> QED BY <3>1, <4>1, <4>2
    <3> QED BY <3>1, <3>2 DEF QueueLife
  <2> QED BY <2>1, <2>2
<1>5. ASSUME Head(q[l]).op = "established", NEW i \in DOMAIN r[l]
      PROVE  r[l][i] # Head(q[l])
  BY <1>1, <1>3, <1>5 DEF QueueLife
<1> QED BY <1>2, <1>4, <1>5

LEMMA EnqueueLife ==
  ASSUME NEW q \in QType, NEW l \in Loop, NEW f \in Functors, NEW up, NEW down, NEW kept,
         QueueLife(q, up, down, kept),
         f.op = "established" => /\ up[f.conn] = 0
                                 /\ \A i \in DOMAIN q[l] : q[l][i] # f,
         f.op = "remove" => down[f.conn] > 0,
         f.op \in CallOps => up[f.conn] > 0,
         f.op \in Owning => f.conn \in kept,
         NEW r, r = Enqueue(q, l, f)
  PROVE  QueueLife(r, up, down, kept)
<1> DEFINE n == Len(q[l]) + 1
<1>1. q[l] \in Seq(Functors) /\ Len(q[l]) \in Nat /\ DOMAIN q[l] = 1 .. Len(q[l])
  BY DEF QType
<1>2. r[l] = Append(q[l], f) /\ \A k \in Loop \ {l} : r[k] = q[k]
  BY <1>1 DEF Enqueue, QType
<1>3. /\ r[l][n] = f
      /\ \A i \in DOMAIN r[l] : i = n \/ (i \in DOMAIN q[l] /\ r[l][i] = q[l][i])
  BY <1>1, <1>2
<1> HIDE DEF n
<1> SUFFICES ASSUME NEW k \in Loop, NEW i \in DOMAIN r[k]
             PROVE  /\ r[k][i].op = "established" =>
                         /\ up[r[k][i].conn] = 0
                         /\ \A j \in DOMAIN r[k] : r[k][j] = r[k][i] => i = j
                    /\ r[k][i].op = "remove" => down[r[k][i].conn] > 0
                    /\ r[k][i].op \in CallOps => up[r[k][i].conn] > 0
                    /\ r[k][i].op \in Owning => r[k][i].conn \in kept
  BY DEF QueueLife
<1>4. CASE k # l
  BY <1>2, <1>4 DEF QueueLife
<1>5. CASE k = l /\ i = n
  BY <1>3, <1>5
<1>6. CASE k = l /\ i # n
  BY <1>3, <1>6 DEF QueueLife
<1> QED BY <1>4, <1>5, <1>6

\* A step that makes callbacks only of connections whose connectEstablished
\* is not queued
LEMMA CallbackLife ==
  ASSUME NEW q \in QType, NEW up, NEW down, NEW kept, QueueLife(q, up, down, kept),
         NEW up2, NEW down2,
         \A l \in Loop : \A i \in DOMAIN q[l] :
            q[l][i].op = "established" => up2[q[l][i].conn] = 0,
         \A c \in Conn : (up[c] > 0 => up2[c] > 0) /\ (down[c] > 0 => down2[c] > 0)
  PROVE  QueueLife(q, up2, down2, kept)
<1>1. \A l \in Loop : \A i \in DOMAIN q[l] : q[l][i].conn \in Conn
  <2> SUFFICES ASSUME NEW l \in Loop, NEW i \in DOMAIN q[l] PROVE q[l][i].conn \in Conn
    OBVIOUS
  <2>1. q[l] \in Seq(Functors)
    BY DEF QType
  <2>2. q[l][i] \in Functors
    BY <2>1
  <2> QED BY <2>2 DEF Functors
<1> QED BY <1>1 DEF QueueLife

\* The loop takes its first functor.
LEMMA TakeLife ==
  ASSUME IInv, LInv, NEW l \in Loop, NEW op, Run(l, op)
  PROVE  /\ Rest(l) \in QType /\ QueueLife(Rest(l), ups, downs, AliveSet)
         /\ op \in Owning => Head(queue[l]).conn \in AliveSet
         /\ op = "established" =>
              /\ ups[Head(queue[l]).conn] = 0
              /\ \A i \in DOMAIN Rest(l)[l] : Rest(l)[l][i] # Head(queue[l])
         /\ op = "remove" => downs[Head(queue[l]).conn] > 0
         /\ op \in CallOps => ups[Head(queue[l]).conn] > 0
<1>1. /\ queue \in QType /\ queue[l] # <<>> /\ 1 \in DOMAIN queue[l]
      /\ Head(queue[l]) = queue[l][1] /\ Head(queue[l]).op = op
  BY RunIsHead
<1>2. QueueLife(queue, ups, downs, AliveSet)
  BY QueueOwns
<1>3. /\ Rest(l) \in QType /\ QueueLife(Rest(l), ups, downs, AliveSet)
      /\ Head(queue[l]).op = "established"
           => \A i \in DOMAIN Rest(l)[l] : Rest(l)[l][i] # Head(queue[l])
  BY <1>1, <1>2, RestLife DEF Rest
<1> QED BY <1>1, <1>2, <1>3 DEF QueueLife

LEMMA CallbackAlive ==
  ASSUME IInv, NEW l \in Loop, callback[l] # NoCall
  PROVE  callback[l].conn \in AliveSet
BY CallbackType DEF IInv, AliveSet, Alive, HeldByLoop

-----------------------------------------------------------------------------
\* Who is alive after a step is one of S, if all that hold a pointer then
\* hold one to a connection of S.
LEMMA NoRevival ==
  ASSUME NEW S, QueueLife(queue', ups', downs', S),
         \A l \in Loop : callback'[l] # NoCall => callback'[l].conn \in S,
         held' \subseteq S, connections_' \subseteq S, NEW c, Alive(c)'
  PROVE  c \in S
BY DEF Alive, HeldByLoop, QueueLife

LEMMA CountsUp ==
  ASSUME IInv, NEW c \in Conn, Counts(c), ups[c] > 0
  PROVE  ups'[c] > 0
BY DEF Counts

\* What an action owes LInv and the lifecycles: nobody who holds a connection
\* afterwards holds one that was gone.
LEMMA LifeKeeps ==
  ASSUME IInv, IInv', LInv, loopOf' = loopOf, Serving' <=> Serving,
         QueueLife(queue', ups', downs', AliveSet),
         \A c \in Conn : ConnLife(c)' /\ Counts(c),
         \A l \in Loop : callback'[l] # NoCall =>
            /\ callback'[l].conn \in AliveSet /\ ups'[callback'[l].conn] > 0
            /\ callback'[l].op = "close" => downs'[callback'[l].conn] > 0,
         held' \subseteq Known, call' # NoCall => call'.conn \in held',
         connections_' \subseteq connections_,
         \A c \in connections_ : Serving => c \in connections_' \/ downs'[c] > 0
  PROVE  LInv' /\ \A c \in Conn \ revived : LifeStep(c)
<1>1. QueueLife(queue', ups', downs', Conn)
  BY DEF QueueLife, AliveSet
<1>2. ASSUME NEW c \in Conn, Serving', loopOf'[c] # NoLoop, downs'[c] = 0
      PROVE  c \in connections_'
  <2>1. downs[c] = 0
    BY <1>2 DEF Counts
  <2> QED BY <1>2, <2>1 DEF LInv
<1>3. LInv'
  <2>1. \A c \in held' : ups'[c] > 0
    BY CountsUp DEF Known, AliveSet
  <2> QED BY <1>1, <1>2, <2>1 DEF LInv
<1>4. ASSUME NEW c \in Conn, Alive(c)' PROVE Alive(c)
  <2>1. connections_' \subseteq AliveSet /\ held' \subseteq AliveSet
    BY DEF AliveSet, Known, Alive, IInv, TypeOK
  <2>2. c \in AliveSet
    BY <1>4, <2>1, NoRevival
  <2> QED BY <2>2 DEF AliveSet
<1>5. ASSUME NEW c \in Conn \ revived PROVE LifeStep(c)
  <2>1. TypeOK /\ TypeOK' /\ ConnLife(c) /\ ConnLife(c)'
    BY DEF IInv, LInv
  <2>2. Serving' /\ loopOf'[c] # NoLoop /\ downs'[c] = 0 => Alive(c)'
    BY <1>2 DEF Alive
  <2> QED BY <1>4, <2>1, <2>2, StageStep
<1> QED BY <1>3, <1>5

\* A late send puts channels back.
Revives ==
  /\ revived \subseteq revived'
  /\ \A c \in Conn : c \in revived' => ups[c] > 0
  /\ \A c \in Conn : registered'[c] => registered[c] \/ c \in revived'

\* The same for an action that makes no callback
LEMMA QuietLife ==
  ASSUME IInv, IInv', LInv, UNCHANGED <<loopOf, ups, downs, callback>>,
         UNCHANGED <<registered, revived>> \/ Revives,
         Serving' <=> Serving, QueueLife(queue', ups, downs, AliveSet),
         \A c \in Conn : state_'[c] = "kConnected" => state_[c] = "kConnected",
         held' \subseteq Known, call' # NoCall => call'.conn \in held',
         connections_' \subseteq connections_,
         \A c \in connections_ : Serving => c \in connections_' \/ downs[c] > 0
  PROVE  LInv' /\ \A c \in Conn \ revived : LifeStep(c)
<1>1. \A c \in Conn : ConnLife(c)' /\ Counts(c)
  BY DEF LInv, ConnLife, Counts, Revives
<1>2. \A l \in Loop : callback'[l] # NoCall =>
        /\ callback'[l].conn \in AliveSet /\ ups'[callback'[l].conn] > 0
        /\ callback'[l].op = "close" => downs'[callback'[l].conn] > 0
  BY CallbackAlive DEF LInv
<1>3. QueueLife(queue', ups', downs', AliveSet)
  OBVIOUS
<1> QED BY <1>1, <1>2, <1>3, LifeKeeps

LEMMA HeldKnown ==
  ASSUME IInv, LInv
  PROVE  held \subseteq Known
BY DEF Known, AliveSet, Alive, LInv, IInv, TypeOK

LEMMA RunCallLife ==
  ASSUME IInv, IInv', LInv, NEW l \in Loop, RunCall(l)
  PROVE  LInv' /\ \A c \in Conn \ revived : LifeStep(c)
<1>1. UNCHANGED <<loopOf, ups, downs, registered, revived, callback, state_, held, call,
                  connections_, phase>>
  BY DEF RunCall, LoopUnchanged, acceptVars, userVars, stopVars, connVars
<1>2. QueueLife(queue', ups, downs, AliveSet)
  <2>1. CASE (Run(l, "shutdown") \/ Run(l, "sendFile")) /\ queue' = Rest(l)
    <3>1. CASE Run(l, "shutdown")
      BY <2>1, <3>1, TakeLife
    <3>2. CASE Run(l, "sendFile")
      BY <2>1, <3>2, TakeLife
    <3> QED BY <2>1, <3>1, <3>2
  <2>2. CASE Run(l, "sendFile") /\ queue' = Enqueue(Rest(l), l, Head(queue[l]))
    <3> DEFINE f == Head(queue[l])
               r == Rest(l)
    <3>1. /\ f.op = "sendFile" /\ f.conn \in AliveSet /\ f \in Functors
          /\ ups[f.conn] > 0
      <4>1. /\ f.op = "sendFile" /\ f.conn \in Conn
            /\ f = Functor("sendFile", f.conn)
        BY <2>2, RunIsHead
      <4>2. f.conn \in AliveSet /\ ups[f.conn] > 0
        BY <2>2, TakeLife DEF Owning, CallOps
      <4>3. Functor("sendFile", f.conn) \in Functors
        BY <4>1, FunctorType DEF CallOps
      <4> QED BY <4>1, <4>2, <4>3
    <3>2. r \in QType /\ QueueLife(r, ups, downs, AliveSet)
      BY <2>2, TakeLife
    <3>3. queue' = Enqueue(r, l, f)
      BY <2>2
    <3> HIDE DEF f, r
    <3> QED BY <3>1, <3>2, <3>3, EnqueueLife
  <2> QED BY <2>1, <2>2 DEF RunCall
<1>3. held' \subseteq Known /\ (call' # NoCall => call'.conn \in held')
  BY <1>1, HeldKnown DEF LInv
<1> QED BY <1>1, <1>2, <1>3, QuietLife DEF Serving

LEMMA RunSendLife ==
  ASSUME IInv, IInv', LInv, NEW l \in Loop, RunSend(l)
  PROVE  LInv' /\ \A c \in Conn \ revived : LifeStep(c)
<1>1. /\ Run(l, "send") /\ queue' = Rest(l)
      /\ UNCHANGED <<loopOf, ups, downs, callback, state_, held, call, connections_, phase>>
  BY DEF RunSend, LoopUnchanged, acceptVars, userVars, stopVars
<1>2. QueueLife(queue', ups, downs, AliveSet) /\ ups[Head(queue[l]).conn] > 0
  BY <1>1, TakeLife DEF CallOps
<1>3. held' \subseteq Known /\ (call' # NoCall => call'.conn \in held')
  BY <1>1, HeldKnown DEF LInv
<1>4. Revives
  BY <1>1, <1>2, RunIsHead DEF RunSend, Revives, LInv, ConnLife, IInv, TypeOK
<1> QED BY <1>1, <1>2, <1>3, <1>4, QuietLife DEF Serving

LEMMA RemoveConnectionInLoopLife ==
  ASSUME IInv, IInv', LInv, RemoveConnectionInLoop
  PROVE  LInv' /\ \A c \in Conn \ revived : LifeStep(c)
<1> DEFINE c == Head(queue[Base]).conn
           l == loopOf[c]
           f == Functor("destroyed", c)
           r == Rest(Base)
<1>1. /\ Run(Base, "remove") /\ queue' = Enqueue(r, l, f)
      /\ connections_' = connections_ \ {c}
      /\ UNCHANGED <<loopOf, ups, downs, registered, revived, callback, state_, held, call, phase>>
  BY DEF RemoveConnectionInLoop, RemoveLeaving, acceptVars, userVars, stopVars, connVars
<1>2. c \in Conn /\ l \in Loop /\ Base \in Loop
  <2>1. /\ Base \in Loop /\ c \in Conn /\ Head(queue[Base]).op = "remove"
        /\ AtLoop(Head(queue[Base]), Base, loopOf)
    BY <1>1, RunIsHead, LoopFacts
  <2>2. l # NoLoop
    BY <2>1 DEF AtLoop
  <2> QED BY <2>1, <2>2 DEF IInv, TypeOK
<1>3. /\ r \in QType /\ QueueLife(r, ups, downs, AliveSet)
      /\ c \in AliveSet /\ downs[c] > 0
  BY <1>1, <1>2, TakeLife DEF Owning
<1>4. f \in Functors /\ f.op = "destroyed" /\ f.conn = c
  BY <1>2, FunctorType
<1> HIDE DEF r, f, l, c
<1>5. QueueLife(queue', ups, downs, AliveSet)
  <2>1. queue' = Enqueue(r, l, f) /\ f.op \notin CallOps
    BY <1>1, <1>4 DEF CallOps
  <2> QED BY <1>2, <1>3, <1>4, <2>1, EnqueueLife
<1>6. held' \subseteq Known /\ (call' # NoCall => call'.conn \in held')
  BY <1>1, HeldKnown DEF LInv
<1> QED BY <1>1, <1>3, <1>5, <1>6, QuietLife DEF Serving

\* What leaves the connections alone, and the queues or drops one of them
LEMMA IdleLife ==
  ASSUME IInv, IInv', LInv,
         \/ \E n \in 0 .. MaxThreads : Start(n)
         \/ \E c \in Conn : Arrive(c)
         \/ \E l \in Loop : LoopExit(l)
         \/ ResetDone \/ QuitLoop \/ JoinLoop \/ ServerGone
         \/ UNCHANGED vars
  PROVE  LInv' /\ \A c \in Conn \ revived : LifeStep(c)
<1>1. /\ UNCHANGED <<loopOf, ups, downs, registered, revived, callback, state_, held, call,
                     connections_>>
      /\ Serving' <=> Serving
  BY DEF Start, Arrive, LoopExit, ResetDone, QuitLoop, JoinLoop, ServerGone,
         StopUnchanged, MovesTo, Ready, Serving, acceptVars, userVars, stopVars, connVars,
         vars
<1>2. queue' = queue \/ \E l \in Loop : queue' = [queue EXCEPT ![l] = <<>>]
  BY LoopFacts
     DEF Start, Arrive, LoopExit, ResetDone, QuitLoop, JoinLoop, ServerGone,
         StopUnchanged, MovesTo, vars
<1>3. QueueLife(queue', ups, downs, AliveSet)
  <2>1. QueueLife(queue, ups, downs, AliveSet)
    BY QueueOwns
  <2>2. ASSUME NEW l \in Loop, queue' = [queue EXCEPT ![l] = <<>>]
        PROVE  QueueLife(queue', ups, downs, AliveSet)
    <3>1. queue'[l] = <<>> /\ \A k \in Loop \ {l} : queue'[k] = queue[k]
      BY <2>2 DEF IInv, TypeOK
    <3> QED BY <2>1, <3>1 DEF QueueLife
  <2> QED BY <1>2, <2>1, <2>2
<1>4. held' \subseteq Known /\ (call' # NoCall => call'.conn \in held')
  BY <1>1, HeldKnown DEF LInv
<1> QED BY <1>1, <1>3, <1>4, QuietLife

-----------------------------------------------------------------------------
\* The application

LEMMA AppLife ==
  ASSUME IInv, IInv', LInv, NEW c \in Conn, AppStep(c)
  PROVE  LInv' /\ \A d \in Conn \ revived : LifeStep(d)
<1>1. /\ UNCHANGED <<loopOf, ups, downs, registered, revived, callback, connections_, phase,
                     queue>>
      /\ \A d \in Conn : state_'[d] = "kConnected" => state_[d] = "kConnected"
  <2>1. CASE OwnerShutdown(c)
    BY <2>1 DEF OwnerShutdown, AppUnchanged, acceptVars, stopVars, userVars, IInv, TypeOK
  <2>2. CASE ~OwnerShutdown(c)
    BY <2>2 DEF AppStep, KeepPointer, DropPointer, BeginCall, AppUnchanged, acceptVars,
                stopVars
  <2> QED BY <2>1, <2>2
<1>2. held \subseteq Known
  BY HeldKnown
<1>3. held' \subseteq Known /\ (call' # NoCall => call'.conn \in held')
  <2>1. CASE KeepPointer(c)
    <3>1. PICK l \in Loop : callback[l] = [op |-> "up", conn |-> c]
      BY <2>1 DEF KeepPointer
    <3>2. c \in Known
      BY <3>1, CallbackAlive DEF NoCall, LInv, Known
    <3> QED BY <1>2, <2>1, <3>2 DEF KeepPointer, LInv
  <2>2. CASE DropPointer(c)
    BY <1>2, <2>2 DEF DropPointer, LInv
  <2>3. CASE OwnerShutdown(c)
    BY <1>2, <2>3 DEF OwnerShutdown, userVars, LInv
  <2>4. ASSUME NEW op, BeginCall(op, c)
        PROVE  held' \subseteq Known /\ (call' # NoCall => call'.conn \in held')
    BY <1>2, <2>4 DEF BeginCall
  <2> QED BY <2>1, <2>2, <2>3, <2>4 DEF AppStep
<1>4. QueueLife(queue', ups, downs, AliveSet)
  BY <1>1, QueueOwns
<1> QED BY <1>1, <1>3, <1>4, QuietLife DEF Serving

LEMMA FinishCallLife ==
  ASSUME IInv, IInv', LInv, FinishCall
  PROVE  LInv' /\ \A d \in Conn \ revived : LifeStep(d)
<1> DEFINE c == call.conn
           l == loopOf[c]
           f == Functor(call.op, c)
<1>1. /\ call # NoCall /\ call' = NoCall /\ queue' = Enqueue(queue, l, f)
      /\ state_' \in {[state_ EXCEPT ![c] = "kDisconnecting"], state_}
      /\ UNCHANGED <<loopOf, ups, downs, registered, revived, callback, connections_, phase,
                     held>>
  BY DEF FinishCall, AppUnchanged, acceptVars, stopVars
<1>2. call.op \in CallOps /\ c \in Conn
  BY <1>1 DEF IInv, TypeOK
<1>3. l \in Loop /\ queue \in QType /\ held \subseteq Known
  BY <1>1, <1>2, UserFacts, HeldKnown DEF IInv, TypeOK, QType
<1>4. f \in Functors /\ f.op = call.op /\ f.conn \in AliveSet /\ ups[f.conn] > 0
  <2>1. f \in Functors /\ f.op = call.op /\ f.conn = c
    BY <1>2, FunctorType
  <2>2. c \in Known
    BY <1>1, <1>3 DEF LInv
  <2> QED BY <2>1, <2>2 DEF Known
<1>5. \A d \in Conn : state_'[d] = "kConnected" => state_[d] = "kConnected"
  BY <1>1, <1>2 DEF IInv, TypeOK
<1> HIDE DEF f, l, c
<1>6. QueueLife(queue', ups, downs, AliveSet)
  <2>1. queue' = Enqueue(queue, l, f) /\ f.op # "established" /\ f.op # "remove"
    BY <1>1, <1>2, <1>4 DEF CallOps
  <2> QED BY <1>3, <1>4, <2>1, QueueOwns, EnqueueLife
<1> QED BY <1>1, <1>3, <1>5, <1>6, QuietLife DEF Serving

-----------------------------------------------------------------------------
\* The callbacks

LEMMA AliveInCallback ==
  ASSUME NEW l \in Loop, NEW c, NEW op, callback'[l] = [op |-> op, conn |-> c]
  PROVE  Alive(c)'
BY DEF Alive, HeldByLoop, NoCall

\* connectEstablished of a connection c of the loop l
LEMMA EstablishLife ==
  ASSUME IInv, LInv, NEW l \in Loop, NEW c \in Conn, Establish(c, l),
         callback[l] = NoCall, ups[c] = 0, loopOf'[c] = l,
         \A d \in Conn \ {c} : loopOf'[d] = loopOf[d]
  PROVE  /\ \A d \in Conn : ConnLife(d)'
         /\ ups'[c] = 1 /\ \A d \in Conn \ {c} : ups'[d] = ups[d]
         /\ downs' = downs /\ downs[c] = 0 /\ Alive(c)'
         /\ callback'[l] = [op |-> "up", conn |-> c]
         /\ \A k \in Loop \ {l} : callback'[k] = callback[k]
<1>1. /\ \A d \in Conn \ {c} : registered'[d] = registered[d]
      /\ revived' = revived
      /\ callback'[l] = [op |-> "up", conn |-> c]
      /\ \A k \in Loop \ {l} : callback'[k] = callback[k]
  BY EstablishFacts DEF IInv
<1>2. /\ ups'[c] = 1 /\ \A d \in Conn \ {c} : ups'[d] = ups[d]
      /\ \A d \in Conn \ {c} : state_'[d] = state_[d]
      /\ downs' = downs
  BY DEF Establish, IInv, TypeOK
<1>3. downs[c] = 0
  BY DEF LInv, ConnLife
<1>4. ASSUME NEW d \in Conn PROVE ConnLife(d)'
  <2>1. CASE d = c
    BY <1>2, <1>3, <2>1, LoopFacts DEF ConnLife
  <2>2. CASE d # c
    <3>1. ConnLife(d) /\ loopOf'[d] = loopOf[d] /\ loopOf[d] \in Loop \cup {NoLoop}
      BY <2>2 DEF LInv, IInv, TypeOK
    <3>2. registered[d] => loopOf[d] \in Loop
      BY <3>1 DEF ConnLife
    <3>3. registered[d] /\ callback[loopOf[d]] = [op |-> "destroyed", conn |-> d]
            => callback'[loopOf[d]] = callback[loopOf[d]]
      BY <1>1, <3>2 DEF NoCall
    <3> QED BY <1>1, <1>2, <2>2, <3>1, <3>3 DEF ConnLife
  <2> QED BY <2>1, <2>2
<1>5. Alive(c)'
  BY <1>1, AliveInCallback
<1> QED BY <1>1, <1>2, <1>3, <1>4, <1>5

LEMMA ConnectEstablishedLife ==
  ASSUME IInv, IInv', LInv, NEW l \in Loop, ConnectEstablished(l)
  PROVE  LInv' /\ \A d \in Conn \ revived : LifeStep(d)
<1> PICK c \in Conn : c = Head(queue[l]).conn
  BY RunIsHead DEF ConnectEstablished
<1>1. /\ Run(l, "established") /\ Establish(c, l) /\ queue' = Rest(l)
      /\ UNCHANGED <<loopOf, connections_, held, call, phase>>
  BY DEF ConnectEstablished, LoopUnchanged, acceptVars, userVars, stopVars
<1>2. /\ c \in Conn /\ loopOf[c] = l /\ callback[l] = NoCall
      /\ Head(queue[l]) = Functor("established", c)
      /\ QueueInv(Rest(l), loopOf, connections_)
  BY <1>1, RunIsHead, TakeFacts DEF AtLoop
<1>3. /\ Rest(l) \in QType /\ QueueLife(Rest(l), ups, downs, AliveSet)
      /\ c \in AliveSet /\ ups[c] = 0
      /\ \A i \in DOMAIN Rest(l)[l] : Rest(l)[l][i] # Functor("established", c)
  BY <1>1, <1>2, TakeLife DEF Owning
<1>4. /\ \A d \in Conn : ConnLife(d)'
      /\ ups'[c] = 1 /\ \A d \in Conn \ {c} : ups'[d] = ups[d]
      /\ downs' = downs /\ downs[c] = 0 /\ Alive(c)'
      /\ callback'[l] = [op |-> "up", conn |-> c]
      /\ \A k \in Loop \ {l} : callback'[k] = callback[k]
  <2>1. loopOf'[c] = l /\ \A d \in Conn \ {c} : loopOf'[d] = loopOf[d]
    BY <1>1, <1>2
  <2> QED BY <1>1, <1>2, <1>3, <2>1, EstablishLife
<1>5. \A d \in Conn : Counts(d)
  BY <1>3, <1>4 DEF Counts, AliveSet
<1>6. QueueLife(queue', ups', downs', AliveSet)
  <2>1. ASSUME NEW k \in Loop, NEW i \in DOMAIN Rest(l)[k], Rest(l)[k][i].op = "established"
        PROVE  ups'[Rest(l)[k][i].conn] = 0
    <3> DEFINE f == Rest(l)[k][i]
    <3>1. Rest(l)[k] \in Seq(Functors)
      BY <1>3 DEF QType
    <3>2. f \in Functors
      BY <3>1
    <3>3. f.conn \in Conn /\ f = Functor("established", f.conn)
      BY <2>1, <3>2 DEF Functors, Functor
    <3>4. loopOf[f.conn] = k
      BY <1>2, <2>1 DEF QueueInv, AtLoop
    <3>5. ups[f.conn] = 0
      BY <1>3, <2>1 DEF QueueLife
    <3> HIDE DEF f
    <3>6. f.conn # c
      BY <1>2, <1>3, <3>3, <3>4 DEF f
    <3> QED BY <1>4, <3>3, <3>5, <3>6 DEF f
  <2>2. \A d \in Conn : (ups[d] > 0 => ups'[d] > 0) /\ (downs[d] > 0 => downs'[d] > 0)
    BY <1>3, <1>4
  <2> QED BY <1>1, <1>3, <2>1, <2>2, CallbackLife
<1>7. ASSUME NEW k \in Loop, callback'[k] # NoCall
      PROVE  /\ callback'[k].conn \in AliveSet /\ ups'[callback'[k].conn] > 0
             /\ callback'[k].op = "close" => downs'[callback'[k].conn] > 0
  <2>1. CASE k = l
    BY <1>3, <1>4, <2>1
  <2>2. CASE k # l
    <3>1. callback'[k] = callback[k] /\ callback[k].conn \in AliveSet
      BY <1>4, <1>7, <2>2, CallbackAlive
    <3>2. callback[k].conn \in Conn
      BY <3>1 DEF AliveSet
    <3> QED BY <1>3, <1>4, <1>7, <3>1, <3>2 DEF LInv
  <2> QED BY <2>1, <2>2
<1>8. held' \subseteq Known /\ (call' # NoCall => call'.conn \in held')
  BY <1>1, HeldKnown DEF LInv
<1> QED BY <1>1, <1>4, <1>5, <1>6, <1>7, <1>8, LifeKeeps DEF Serving

\* connectDestroyed of a connection c of the loop l: the DOWN callback is made
\* if none has been.
LEMMA DestroyLife ==
  ASSUME IInv, LInv, NEW l \in Loop, NEW c \in Conn, Destroy(c, l),
         callback[l] = NoCall, loopOf[c] = l, loopOf' = loopOf, c \in AliveSet
  PROVE  /\ \A d \in Conn : ConnLife(d)' /\ Counts(d) /\ (downs[d] > 0 => downs'[d] > 0)
         /\ ups' = ups
         /\ \A k \in Loop : callback'[k] # NoCall =>
              /\ callback'[k].conn \in AliveSet /\ ups'[callback'[k].conn] > 0
              /\ callback'[k].op = "close" => downs'[callback'[k].conn] > 0
<1>1. /\ \A d \in Conn \ {c} : registered'[d] = registered[d]
      /\ revived' = revived
      /\ \A k \in Loop \ {l} : callback'[k] = callback[k]
  BY DestroyFacts DEF IInv
<1>2. CASE state_[c] = "kConnected"
  <2>1. /\ state_' = [state_ EXCEPT ![c] = "kDisconnected"]
        /\ downs' = [downs EXCEPT ![c] = downs[c] + 1]
        /\ Calls(l, "destroyed", c) /\ registered' = registered /\ ups' = ups
    BY <1>2 DEF Destroy
  <2>2. callback'[l] = [op |-> "destroyed", conn |-> c]
    BY <2>1, CallsType DEF IInv
  <2>3. ups[c] > 0 /\ downs[c] = 0
    BY <1>2 DEF LInv, ConnLife
  <2>4. /\ downs'[c] = 1 /\ \A d \in Conn \ {c} : downs'[d] = downs[d]
        /\ state_'[c] = "kDisconnected" /\ \A d \in Conn \ {c} : state_'[d] = state_[d]
    BY <2>1, <2>3 DEF IInv, TypeOK
  <2>5. Alive(c) /\ Alive(c)'
    BY <2>2, AliveInCallback DEF AliveSet
  <2>6. \A d \in Conn : Counts(d) /\ (downs[d] > 0 => downs'[d] > 0)
    BY <2>1, <2>3, <2>4, <2>5 DEF Counts
  <2>7. ASSUME NEW d \in Conn PROVE ConnLife(d)'
    <3>1. ConnLife(d)
      BY DEF LInv
    <3>2. CASE d = c
      BY <2>1, <2>2, <2>3, <2>4, <3>2, LoopFacts DEF ConnLife
    <3>3. CASE d # c
      <4>1. registered[d] => loopOf[d] \in Loop
        BY <3>1 DEF ConnLife, IInv, TypeOK
      <4>2. registered[d] /\ callback[loopOf[d]] = [op |-> "destroyed", conn |-> d]
              => callback'[loopOf[d]] = callback[loopOf[d]]
        BY <1>1, <4>1 DEF NoCall
      <4> QED BY <1>1, <2>1, <2>4, <3>1, <3>3, <4>2 DEF ConnLife
    <3> QED BY <3>2, <3>3
  <2>8. \A k \in Loop : callback'[k] # NoCall =>
          /\ callback'[k].conn \in AliveSet /\ ups'[callback'[k].conn] > 0
          /\ callback'[k].op = "close" => downs'[callback'[k].conn] > 0
    <3>1. ASSUME NEW k \in Loop, k # l, callback'[k] # NoCall
          PROVE  /\ callback'[k].conn \in AliveSet /\ ups'[callback'[k].conn] > 0
                 /\ callback'[k].op = "close" => downs'[callback'[k].conn] > 0
      <4>1. callback'[k] = callback[k] /\ callback[k].conn \in AliveSet
        BY <1>1, <3>1, CallbackAlive
      <4> QED BY <2>1, <2>6, <3>1, <4>1 DEF LInv, AliveSet
    <3> QED BY <2>1, <2>2, <2>3, <3>1
  <2> QED BY <2>1, <2>6, <2>7, <2>8
<1>3. CASE state_[c] # "kConnected"
  <2>1. /\ registered' = [registered EXCEPT ![c] = FALSE]
        /\ UNCHANGED <<state_, ups, downs, callback>>
    BY <1>3 DEF Destroy
  <2>2. ASSUME NEW d \in Conn PROVE ConnLife(d)' /\ Counts(d)
    <3>1. ConnLife(d) /\ (registered'[d] => registered[d])
      BY <2>1 DEF LInv, IInv, TypeOK
    <3> QED BY <1>1, <2>1, <3>1 DEF ConnLife, Counts
  <2> QED BY <2>1, <2>2, CallbackAlive DEF LInv
<1> QED BY <1>2, <1>3

LEMMA ConnectDestroyedLife ==
  ASSUME IInv, IInv', LInv, NEW l \in Loop, ConnectDestroyed(l)
  PROVE  LInv' /\ \A d \in Conn \ revived : LifeStep(d)
<1> PICK c \in Conn : c = Head(queue[l]).conn
  BY RunIsHead DEF ConnectDestroyed
<1>1. /\ Run(l, "destroyed") /\ Destroy(c, l) /\ queue' = Rest(l)
      /\ UNCHANGED <<loopOf, connections_, held, call, phase>>
  BY DEF ConnectDestroyed, LoopUnchanged, acceptVars, userVars, stopVars
<1>2. loopOf[c] = l /\ callback[l] = NoCall
  BY <1>1, RunIsHead, TakeFacts DEF AtLoop
<1>3. /\ Rest(l) \in QType /\ QueueLife(Rest(l), ups, downs, AliveSet)
      /\ c \in AliveSet
  BY <1>1, TakeLife DEF Owning
<1>4. /\ \A d \in Conn : ConnLife(d)' /\ Counts(d) /\ (downs[d] > 0 => downs'[d] > 0)
      /\ ups' = ups
      /\ \A k \in Loop : callback'[k] # NoCall =>
           /\ callback'[k].conn \in AliveSet /\ ups'[callback'[k].conn] > 0
           /\ callback'[k].op = "close" => downs'[callback'[k].conn] > 0
  BY <1>1, <1>2, <1>3, DestroyLife
<1>5. QueueLife(queue', ups', downs', AliveSet)
  <2>1. \A k \in Loop : \A i \in DOMAIN Rest(l)[k] :
          Rest(l)[k][i].op = "established" => ups'[Rest(l)[k][i].conn] = 0
    BY <1>3, <1>4 DEF QueueLife
  <2>2. \A d \in Conn : (ups[d] > 0 => ups'[d] > 0) /\ (downs[d] > 0 => downs'[d] > 0)
    BY <1>4
  <2> QED BY <1>1, <1>3, <2>1, <2>2, CallbackLife
<1>6. held' \subseteq Known /\ (call' # NoCall => call'.conn \in held')
  BY <1>1, HeldKnown DEF LInv
<1> QED BY <1>1, <1>4, <1>5, <1>6, LifeKeeps DEF Serving

LEMMA ResetConnectionLife ==
  ASSUME IInv, IInv', LInv, NEW c \in Conn, ResetConnection(c)
  PROVE  LInv' /\ \A d \in Conn \ revived : LifeStep(d)
<1>1. /\ c \in connections_ /\ connections_' = connections_ \ {c}
      /\ callback[Base] = NoCall /\ ~Serving /\ ~Serving'
      /\ UNCHANGED <<loopOf, held, call>>
  BY DEF ResetConnection, StopUnchanged, Serving, acceptVars, userVars, stopVars
<1>2. /\ loopOf[c] \in Loop /\ Base \in Loop /\ queue \in QType
      /\ QueueLife(queue, ups, downs, AliveSet) /\ c \in AliveSet
  BY <1>1, QueueOwns, InvParts, LoopFacts DEF OtherHome, TypeOK, QType, AliveSet, Alive
<1>3. held' \subseteq Known /\ (call' # NoCall => call'.conn \in held')
  BY <1>1, HeldKnown DEF LInv
<1>4. CASE loopOf[c] = Base
  <2>1. Destroy(c, Base) /\ queue' = queue
    BY <1>4 DEF ResetConnection
  <2>2. /\ \A d \in Conn : ConnLife(d)' /\ Counts(d) /\ (downs[d] > 0 => downs'[d] > 0)
        /\ ups' = ups
        /\ \A k \in Loop : callback'[k] # NoCall =>
             /\ callback'[k].conn \in AliveSet /\ ups'[callback'[k].conn] > 0
             /\ callback'[k].op = "close" => downs'[callback'[k].conn] > 0
    BY <1>1, <1>2, <1>4, <2>1, DestroyLife
  <2>3. QueueLife(queue', ups', downs', AliveSet)
    <3>1. \A k \in Loop : \A i \in DOMAIN queue[k] :
            queue[k][i].op = "established" => ups'[queue[k][i].conn] = 0
      BY <1>2, <2>2 DEF QueueLife
    <3>2. \A d \in Conn : (ups[d] > 0 => ups'[d] > 0) /\ (downs[d] > 0 => downs'[d] > 0)
      BY <2>2
    <3> QED BY <1>2, <2>1, <3>1, <3>2, CallbackLife
  <2> QED BY <1>1, <1>3, <2>2, <2>3, LifeKeeps
<1>5. CASE loopOf[c] # Base
  <2> DEFINE l == loopOf[c]
             f == Functor("destroyed", c)
  <2>1. queue' = Enqueue(queue, l, f) /\ UNCHANGED <<state_, registered, ups, downs, revived, callback>>
    BY <1>5 DEF ResetConnection, connVars
  <2>2. f \in Functors /\ f.op = "destroyed" /\ f.conn = c /\ f.op \notin CallOps
    BY FunctorType DEF CallOps
  <2> HIDE DEF f
  <2>3. QueueLife(queue', ups, downs, AliveSet)
    BY <1>2, <2>1, <2>2, EnqueueLife
  <2> QED BY <1>1, <1>3, <2>1, <2>3, QuietLife
<1> QED BY <1>4, <1>5

LEMMA HandleCloseLife ==
  ASSUME IInv, IInv', LInv, NEW l \in Loop, NEW c \in Conn, HandleClose(l, c)
  PROVE  LInv' /\ \A d \in Conn \ revived : LifeStep(d)
<1>1. /\ callback[l] = NoCall /\ loopOf[c] = l /\ registered[c] /\ Alive(c)
      /\ Calls(l, "close", c)
      /\ state_' = [state_ EXCEPT ![c] = "kDisconnected"]
      /\ registered' = [registered EXCEPT ![c] = FALSE]
      /\ downs' = [downs EXCEPT ![c] = downs[c] + 1]
      /\ UNCHANGED <<loopOf, connections_, held, call, phase, queue, ups, revived>>
  BY DEF HandleClose, CloseTo, LoopUnchanged, Ready, acceptVars, userVars, stopVars
<1>2. /\ callback'[l] = [op |-> "close", conn |-> c]
      /\ \A k \in Loop \ {l} : callback'[k] = callback[k]
  BY <1>1, CallsType DEF IInv
<1>3. ups[c] > 0 /\ (downs[c] = 0 \/ c \in revived)
  <2>1. callback[loopOf[c]] # [op |-> "destroyed", conn |-> c]
    BY <1>1 DEF NoCall
  <2> QED BY <1>1, <2>1 DEF LInv, ConnLife
<1>4. /\ downs'[c] > 0 /\ (downs[c] = 0 => downs'[c] = 1)
      /\ \A d \in Conn \ {c} : downs'[d] = downs[d]
      /\ state_'[c] = "kDisconnected" /\ \A d \in Conn \ {c} : state_'[d] = state_[d]
      /\ ~registered'[c] /\ \A d \in Conn \ {c} : registered'[d] = registered[d]
  BY <1>1, <1>3 DEF IInv, TypeOK
<1>5. Alive(c)' /\ c \in AliveSet
  BY <1>1, <1>2, AliveInCallback DEF AliveSet
<1>6. ASSUME NEW d \in Conn PROVE ConnLife(d)' /\ Counts(d)
  <2>1. CASE d = c
    BY <1>1, <1>3, <1>4, <1>5, <2>1, LoopFacts DEF ConnLife, Counts
  <2>2. CASE d # c
    <3>1. ConnLife(d)
      BY DEF LInv
    <3>2. registered[d] => loopOf[d] \in Loop
      BY <3>1 DEF ConnLife, IInv, TypeOK
    <3>3. registered[d] /\ callback[loopOf[d]] = [op |-> "destroyed", conn |-> d]
            => callback'[loopOf[d]] = callback[loopOf[d]]
      BY <1>1, <1>2, <3>2 DEF NoCall
    <3> QED BY <1>1, <1>4, <2>2, <3>1, <3>3 DEF ConnLife, Counts
  <2> QED BY <2>1, <2>2
<1>7. QueueLife(queue', ups', downs', AliveSet)
  <2>1. queue \in QType /\ QueueLife(queue, ups, downs, AliveSet)
    BY QueueOwns DEF IInv, TypeOK, QType
  <2>2. \A k \in Loop : \A i \in DOMAIN queue[k] :
          queue[k][i].op = "established" => ups[queue[k][i].conn] = 0
    BY <2>1 DEF QueueLife
  <2>3. \A d \in Conn : downs[d] > 0 => downs'[d] > 0
    BY <1>4
  <2>4. QueueLife(queue, ups, downs', AliveSet)
    BY <2>1, <2>2, <2>3, CallbackLife
  <2> QED BY <1>1, <2>4
<1>8. ASSUME NEW k \in Loop, callback'[k] # NoCall
      PROVE  /\ callback'[k].conn \in AliveSet /\ ups'[callback'[k].conn] > 0
             /\ callback'[k].op = "close" => downs'[callback'[k].conn] > 0
  <2>1. CASE k = l
    BY <1>1, <1>2, <1>3, <1>4, <1>5, <2>1
  <2>2. CASE k # l
    <3>1. callback'[k] = callback[k] /\ callback[k].conn \in AliveSet
      BY <1>2, <1>8, <2>2, CallbackAlive
    <3>2. callback[k].conn \in Conn
      BY <3>1 DEF AliveSet
    <3> QED BY <1>1, <1>3, <1>4, <1>8, <3>1, <3>2 DEF LInv
  <2> QED BY <2>1, <2>2
<1>9. held' \subseteq Known /\ (call' # NoCall => call'.conn \in held')
  BY <1>1, HeldKnown DEF LInv
<1> QED BY <1>1, <1>6, <1>7, <1>8, <1>9, LifeKeeps DEF Serving

LEMMA ReturnFromCloseLife ==
  ASSUME IInv, IInv', LInv, NEW l \in Loop, ReturnFromClose(l)
  PROVE  LInv' /\ \A d \in Conn \ revived : LifeStep(d)
<1> DEFINE op == IF l = Base THEN "destroyed" ELSE "remove"
<1> PICK c \in Conn : c = callback[l].conn
  BY CallbackType DEF ReturnFromClose, IInv
<1> DEFINE f == Functor(op, c)
<1>1. /\ callback[l] # NoCall /\ callback[l].op = "close"
      /\ callback' = [callback EXCEPT ![l] = NoCall]
      /\ queue' = Enqueue(queue, Base, f)
      /\ connections_' = IF l = Base THEN connections_ \ {c} ELSE connections_
      /\ UNCHANGED <<loopOf, state_, registered, ups, downs, revived, held, call, phase>>
  BY DEF ReturnFromClose, acceptVars, connVars, userVars, stopVars
<1>2. c \in AliveSet /\ downs[c] > 0
  BY <1>1, CallbackAlive DEF LInv
<1>3. /\ f \in Functors /\ f.op = op /\ f.conn = c
      /\ op # "established" /\ op \notin CallOps
  BY FunctorType DEF CallOps
<1> HIDE DEF f, op
<1>4. QueueLife(queue', ups', downs', AliveSet)
  <2>1. /\ queue \in QType /\ Base \in Loop /\ queue' = Enqueue(queue, Base, f)
        /\ QueueLife(queue, ups, downs, AliveSet)
    BY <1>1, QueueOwns, LoopFacts DEF IInv, TypeOK, QType
  <2>2. QueueLife(queue', ups, downs, AliveSet)
    BY <1>2, <1>3, <2>1, EnqueueLife
  <2> QED BY <1>1, <2>2
<1>5. callback'[l] = NoCall /\ \A k \in Loop \ {l} : callback'[k] = callback[k]
  BY <1>1 DEF IInv, TypeOK
<1>6. ASSUME NEW d \in Conn PROVE ConnLife(d)' /\ Counts(d)
  <2>1. ConnLife(d)
    BY DEF LInv
  <2>2. registered[d] => loopOf[d] \in Loop
    BY <2>1 DEF ConnLife, IInv, TypeOK
  <2>3. registered[d] /\ callback[loopOf[d]] = [op |-> "destroyed", conn |-> d]
          => callback'[loopOf[d]] = callback[loopOf[d]]
    BY <1>1, <1>5, <2>2
  <2> QED BY <1>1, <2>1, <2>3 DEF ConnLife, Counts
<1>7. \A k \in Loop : callback'[k] # NoCall =>
        /\ callback'[k].conn \in AliveSet /\ ups'[callback'[k].conn] > 0
        /\ callback'[k].op = "close" => downs'[callback'[k].conn] > 0
  BY <1>1, <1>5, CallbackAlive DEF LInv
<1>8. held' \subseteq Known /\ (call' # NoCall => call'.conn \in held')
  BY <1>1, HeldKnown DEF LInv
<1>9. /\ connections_' \subseteq connections_
      /\ \A d \in connections_ : d \in connections_' \/ downs'[d] > 0
  BY <1>1, <1>2
<1> QED BY <1>1, <1>4, <1>6, <1>7, <1>8, <1>9, LifeKeeps DEF Serving

LEMMA ReturnFromCallbackLife ==
  ASSUME IInv, IInv', LInv, NEW l \in Loop, ReturnFromCallback(l)
  PROVE  LInv' /\ \A d \in Conn \ revived : LifeStep(d)
<1>1. /\ callback[l] # NoCall
      /\ callback' = [callback EXCEPT ![l] = NoCall]
      /\ registered' = [registered EXCEPT
                          ![callback[l].conn] = @ /\ callback[l].op # "destroyed"]
      /\ UNCHANGED <<loopOf, state_, ups, downs, revived, queue, connections_, held, call, phase>>
  BY DEF ReturnFromCallback, LoopUnchanged, acceptVars, userVars, stopVars
<1>2. callback'[l] = NoCall /\ \A k \in Loop \ {l} : callback'[k] = callback[k]
  BY <1>1 DEF IInv, TypeOK
<1>3. ASSUME NEW d \in Conn PROVE ConnLife(d)' /\ Counts(d)
  <2>1. ConnLife(d)
    BY DEF LInv
  <2>2. registered'[d] => /\ registered[d]
                          /\ d = callback[l].conn => callback[l].op # "destroyed"
    BY <1>1 DEF IInv, TypeOK
  <2>3. registered[d] => loopOf[d] \in Loop
    BY <2>1 DEF ConnLife, IInv, TypeOK
  <2>4. registered'[d] /\ callback[loopOf[d]] = [op |-> "destroyed", conn |-> d]
          => callback'[loopOf[d]] = callback[loopOf[d]]
    BY <1>2, <2>2, <2>3
  <2> QED BY <1>1, <2>1, <2>2, <2>4 DEF ConnLife, Counts
<1>4. \A k \in Loop : callback'[k] # NoCall =>
        /\ callback'[k].conn \in AliveSet /\ ups'[callback'[k].conn] > 0
        /\ callback'[k].op = "close" => downs'[callback'[k].conn] > 0
  BY <1>1, <1>2, CallbackAlive DEF LInv
<1>5. QueueLife(queue', ups', downs', AliveSet)
  BY <1>1, QueueOwns
<1>6. held' \subseteq Known /\ (call' # NoCall => call'.conn \in held')
  BY <1>1, HeldKnown DEF LInv
<1> QED BY <1>1, <1>3, <1>4, <1>5, <1>6, LifeKeeps DEF Serving

-----------------------------------------------------------------------------
\* The connection that is accepted

LEMMA NewConnectionLife ==
  ASSUME IInv, IInv', LInv, NEW c \in Conn, NewConnection(c)
  PROVE  LInv' /\ \A d \in Conn \ revived : LifeStep(d)
<1>a. NextLoop \in Loop
  BY ThreadsAssumption DEF IInv, TypeOK, NextLoop, Loop, Base
<1> PICK l \in Loop : l = NextLoop
  BY <1>a
<1> DEFINE f == Functor("established", c)
           S == AliveSet \cup {c}
<1>1. /\ backlog # <<>> /\ c = Head(backlog)
      /\ loopOf' = [loopOf EXCEPT ![c] = l]
      /\ connections_' = connections_ \cup {c}
      /\ callback[Base] = NoCall /\ Serving /\ Serving'
      /\ UNCHANGED <<held, call>>
  BY DEF NewConnection, AcceptInto, Accept, Ready, Serving, userVars, stopVars
<1>2. loopOf[c] = NoLoop
  <2>1. 1 \in DOMAIN backlog /\ c = backlog[1]
    BY <1>1 DEF IInv, TypeOK
  <2> QED BY <2>1, InvParts DEF OtherHome
<1>3. loopOf'[c] = l /\ \A d \in Conn \ {c} : loopOf'[d] = loopOf[d]
  BY <1>1 DEF IInv, TypeOK
<1>4. ups[c] = 0 /\ downs[c] = 0 /\ ~registered[c] /\ state_[c] # "kConnected"
  <2>1. ConnLife(c)
    BY DEF LInv
  <2>2. ups[c] = 0 /\ downs[c] = 0
    BY <1>2, <2>1 DEF ConnLife
  <2> QED BY <2>1, <2>2 DEF ConnLife
<1>5. /\ queue \in QType /\ QueueLife(queue, ups, downs, S)
      /\ \A k \in Loop : \A i \in DOMAIN queue[k] :
           queue[k][i].op = "established" => queue[k][i].conn # c
  <2>1. queue \in QType /\ QueueLife(queue, ups, downs, S)
    BY QueueOwns DEF IInv, TypeOK, QType, QueueLife
  <2>2. ASSUME NEW k \in Loop, NEW i \in DOMAIN queue[k], queue[k][i].op = "established"
        PROVE  queue[k][i].conn # c
    BY <1>2, <2>2, InvParts, LoopFacts DEF QueueInv, AtLoop
  <2> QED BY <2>1, <2>2
<1>6. /\ QueueLife(queue', ups', downs', S)
      /\ \A d \in Conn : ConnLife(d)'
      /\ downs' = downs /\ \A d \in Conn \ {c} : ups'[d] = ups[d]
      /\ ups'[c] \in {0, 1}
      /\ \A k \in Loop : callback'[k] # NoCall =>
           /\ callback'[k].conn \in S /\ ups'[callback'[k].conn] > 0
           /\ callback'[k].op = "close" => downs'[callback'[k].conn] > 0
  <2>1. CASE numThreads_ = 0
    <3>1. Establish(c, l) /\ queue' = queue /\ l = Base
      BY <2>1 DEF NewConnection, AcceptInto, NextLoop
    <3>2. /\ \A d \in Conn : ConnLife(d)'
          /\ ups'[c] = 1 /\ \A d \in Conn \ {c} : ups'[d] = ups[d]
          /\ downs' = downs
          /\ callback'[l] = [op |-> "up", conn |-> c]
          /\ \A k \in Loop \ {l} : callback'[k] = callback[k]
      BY <1>1, <1>3, <1>4, <3>1, EstablishLife
    <3>3. \A k \in Loop : \A i \in DOMAIN queue[k] :
            queue[k][i].op = "established" => ups'[queue[k][i].conn] = 0
      <4> SUFFICES ASSUME NEW k \in Loop, NEW i \in DOMAIN queue[k],
                          queue[k][i].op = "established"
                   PROVE  ups'[queue[k][i].conn] = 0
        OBVIOUS
      <4>1. queue[k][i].conn # c /\ ups[queue[k][i].conn] = 0
        BY <1>5 DEF QueueLife
      <4>2. queue[k][i].conn \in Conn
        BY DEF LInv, QueueLife, Owning
      <4> QED BY <3>2, <4>1, <4>2
    <3>4. QueueLife(queue, ups', downs', S)
      <4>1. \A d \in Conn : (ups[d] > 0 => ups'[d] > 0) /\ (downs[d] > 0 => downs'[d] > 0)
        BY <1>4, <3>2
      <4> QED BY <1>5, <3>3, <4>1, CallbackLife
    <3>5. ASSUME NEW k \in Loop, callback'[k] # NoCall
          PROVE  /\ callback'[k].conn \in S /\ ups'[callback'[k].conn] > 0
                 /\ callback'[k].op = "close" => downs'[callback'[k].conn] > 0
      <4>1. CASE k = l
        BY <3>2, <4>1
      <4>2. CASE k # l
        <5>1. callback'[k] = callback[k] /\ callback[k].conn \in AliveSet
          BY <3>2, <3>5, <4>2, CallbackAlive
        <5>2. callback[k].conn \in Conn
          BY <5>1 DEF AliveSet
        <5> QED BY <1>4, <3>2, <3>5, <5>1, <5>2 DEF LInv
      <4> QED BY <4>1, <4>2
    <3> QED BY <3>1, <3>2, <3>4, <3>5
  <2>2. CASE numThreads_ # 0
    <3>1. /\ queue' = Enqueue(queue, l, f)
          /\ UNCHANGED <<state_, registered, ups, downs, revived, callback>>
      BY <2>2 DEF NewConnection, AcceptInto, connVars
    <3>2. /\ f \in Functors /\ f.op = "established" /\ f.conn = c /\ f.op \notin CallOps
          /\ \A i \in DOMAIN queue[l] : queue[l][i] # f
      BY <1>5, FunctorType DEF CallOps
    <3> HIDE DEF f
    <3>3. QueueLife(queue', ups, downs, S)
      BY <1>4, <1>5, <3>1, <3>2, EnqueueLife
    <3>4. ASSUME NEW d \in Conn PROVE ConnLife(d)'
      <4>1. ConnLife(d)
        BY DEF LInv
      <4> QED BY <1>3, <1>4, <3>1, <4>1, LoopFacts DEF ConnLife
    <3> QED BY <1>4, <3>1, <3>3, <3>4, CallbackAlive DEF LInv
  <2> QED BY <2>1, <2>2
<1>7. LInv'
  <2>1. QueueLife(queue', ups', downs', Conn)
    BY <1>6 DEF QueueLife, AliveSet
  <2>2. ASSUME NEW d \in held' PROVE ups'[d] > 0
    <3>1. d \in Conn /\ ups[d] > 0
      BY <1>1, <2>2 DEF IInv, TypeOK, LInv
    <3> QED BY <1>4, <1>6, <3>1
  <2> QED BY <1>1, <1>3, <1>6, <2>1, <2>2 DEF LInv
<1>8. TypeOK /\ TypeOK' /\ \A d \in Conn : ConnLife(d) /\ ConnLife(d)'
  BY <1>6 DEF LInv, IInv
<1>9. ASSUME NEW d \in Conn \ revived, d # c PROVE LifeStep(d)
  <2>1. held' \subseteq S /\ connections_' \subseteq S
    BY <1>1, HeldKnown DEF Known, AliveSet, Alive, IInv, TypeOK
  <2>2. Alive(d)' => Alive(d)
    <3> SUFFICES ASSUME Alive(d)' PROVE d \in S
      BY <1>9 DEF AliveSet
    <3> HIDE DEF S
    <3> QED BY <1>6, <2>1, NoRevival
  <2>3. Counts(d)
    BY <1>6, <1>9 DEF Counts
  <2>4. Serving' /\ loopOf'[d] # NoLoop /\ downs'[d] = 0 => Alive(d)'
    BY <1>7 DEF LInv, Alive
  <2> QED BY <1>1, <1>3, <1>8, <1>9, <2>2, <2>3, <2>4, StageStep
<1>10. LifeStep(c)
  <2>1. Alive(c)' /\ loopOf'[c] # NoLoop
    BY <1>1, <1>3, LoopFacts DEF Alive
  <2>2. Stage(c) = "none" /\ downs'[c] = 0
    BY <1>2, <1>4, <1>6, <1>8, StageIs
  <2>3. Stage(c)' = IF ups'[c] = 0 THEN "connecting" ELSE "up"
    BY <1>6, <1>8, <2>1, <2>2, StageWillBe
  <2> QED BY <1>1, <1>4, <1>6, <2>2, <2>3
          DEF LifeStep, Lifecycle!Next, Lifecycle!Accept, Lifecycle!AcceptUp, Serving
<1> QED BY <1>7, <1>9, <1>10

LEMMA BaseLoopEndsLife ==
  ASSUME IInv, IInv', LInv, BaseLoopEnds
  PROVE  LInv' /\ \A d \in Conn \ revived : LifeStep(d)
<1>1. /\ Serving /\ ~Serving'
      /\ UNCHANGED <<loopOf, state_, registered, ups, downs, revived, connections_, queue,
                     callback, held, call>>
  BY DEF BaseLoopEnds, Ready, MovesTo, StopUnchanged, Serving, acceptVars, userVars,
         connVars
<1>2. \A d \in Conn : ConnLife(d)'
  BY <1>1 DEF LInv, ConnLife
<1>3. LInv'
  BY <1>1, <1>2 DEF LInv
<1>4. ASSUME NEW d \in Conn PROVE LifeStep(d)
  <2>1. Stage(d)' = Stage(d)
    <3>1. Alive(d)' <=> Alive(d)
      BY <1>1 DEF Alive, HeldByLoop
    <3>2. TypeOK /\ TypeOK' /\ ConnLife(d) /\ ConnLife(d)'
      BY <1>2 DEF LInv, IInv
    <3>3. ups[d] \in Nat /\ downs[d] \in Nat /\ (ups[d] = 0 => downs[d] = 0)
      BY <3>2 DEF TypeOK, ConnLife
    <3> QED BY <1>1, <3>1, <3>2, <3>3, StageIs, StageWillBe
  <2> QED BY <1>1, <2>1 DEF LifeStep, Lifecycle!Next, Lifecycle!Stop, Serving
<1> QED BY <1>3, <1>4

-----------------------------------------------------------------------------
LEMMA InitLife == Init => LInv /\ \A c \in Conn : Lifecycle(c)!Init
<1> SUFFICES ASSUME Init PROVE LInv /\ \A c \in Conn : Lifecycle(c)!Init
  OBVIOUS
<1>1. LInv
  BY DEF Init, LInv, QueueLife, ConnLife, NoCall, Serving
<1>2. ASSUME NEW c \in Conn PROVE Lifecycle(c)!Init
  <2>1. TypeOK /\ ConnLife(c) /\ loopOf[c] = NoLoop
    BY <1>1, InitIInv DEF LInv, IInv, Init
  <2>2. Stage(c) = "none"
    BY <2>1, StageIs
  <2> QED BY <2>2 DEF Lifecycle!Init, Init
<1> QED BY <1>1, <1>2

LEMMA StepLife ==
  ASSUME IInv, LInv, [Next]_vars
  PROVE  LInv' /\ \A c \in Conn \ revived : LifeStep(c)
<1>1. IInv'
  BY StepIInv
<1>2. ASSUME NEW l \in Loop, LoopStep(l) PROVE LInv' /\ \A c \in Conn \ revived : LifeStep(c)
  BY <1>1, <1>2, ConnectEstablishedLife, ConnectDestroyedLife, RunCallLife, RunSendLife,
     ReturnFromCloseLife, ReturnFromCallbackLife, RemoveConnectionInLoopLife DEF LoopStep
<1>3. ASSUME NEW c \in Conn, NewConnection(c) \/ AppStep(c) \/ ResetConnection(c)
      PROVE  LInv' /\ \A d \in Conn \ revived : LifeStep(d)
  BY <1>1, <1>3, NewConnectionLife, AppLife, ResetConnectionLife
<1>4. ASSUME NEW l \in Loop, NEW c \in Conn, HandleClose(l, c)
      PROVE  LInv' /\ \A d \in Conn \ revived : LifeStep(d)
  BY <1>1, <1>4, HandleCloseLife
<1>5. CASE BaseLoopEnds \/ FinishCall
  BY <1>1, <1>5, BaseLoopEndsLife, FinishCallLife
<1>6. CASE \/ \E n \in 0 .. MaxThreads : Start(n)
           \/ \E c \in Conn : Arrive(c)
           \/ \E l \in Loop : LoopExit(l)
           \/ ResetDone \/ QuitLoop \/ JoinLoop \/ ServerGone
           \/ UNCHANGED vars
  BY <1>1, <1>6, IdleLife
<1> QED BY <1>2, <1>3, <1>4, <1>5, <1>6 DEF Next, StopStep

(* For the application every connection of the server comes up once, goes  *)
(* down once and is destroyed last, and as long as the server serves never *)
(* before it was told of the DOWN: whatever handleClose,                   *)
(* removeConnectionInLoop, connectDestroyed, ~TcpServer and the            *)
(* application's own calls do in whatever order.                           *)
THEOREM RefinesLifecycle == Spec => ImplementsLifecycle
<1>1. Init => IInv /\ LInv /\ \A c \in Conn : Lifecycle(c)!Init
  BY InitIInv, InitLife
<1>2. IInv /\ LInv /\ [Next]_vars => (IInv /\ LInv)'
  BY StepIInv, StepLife
<1>3. IInv /\ LInv /\ [Next]_vars
        => [\A c \in Conn \ revived : [Lifecycle(c)!Next]_(Lifecycle(c)!vars)]_vars
  BY StepLife DEF LifeStep
<1> QED BY <1>1, <1>2, <1>3, PTL DEF Spec, ImplementsLifecycle

(* IInv and LInv hold for ever.                                            *)
LEMMA LifeInductive == Spec => [](IInv /\ LInv)
<1>1. Init => IInv /\ LInv
  BY InitIInv, InitLife
<1>2. IInv /\ LInv /\ [Next]_vars => (IInv /\ LInv)'
  BY StepIInv, StepLife
<1> QED BY <1>1, <1>2, PTL DEF Spec

-----------------------------------------------------------------------------
\* The raw this of send() and shutdown()

RawOps == {"send", "shutdown"}

\* The functors of the queues q
Queued(q) == {f \in Functors : \E l \in Loop : \E i \in DOMAIN q[l] : q[l][i] = f}

\* The application has a pointer to each connection of which a sendInLoop or
\* shutdownInLoop is still to run.
PointersKept == KeepsPointer => \A c \in Conn : Pending(c) => c \in held

LEMMA PendingIsQueued ==
  ASSUME NEW c \in Conn
  PROVE  Pending(c) <=> \E op \in RawOps : Functor(op, c) \in Queued(queue)
<1>1. \A op \in RawOps : Functor(op, c) \in Functors
  BY FunctorType DEF RawOps, CallOps
<1> QED BY <1>1 DEF Pending, Queued, Range, RawOps

LEMMA RestQueued ==
  ASSUME NEW q \in QType, NEW l \in Loop, q[l] # <<>>, NEW r, r = [q EXCEPT ![l] = Tail(@)]
  PROVE  r \in QType /\ Queued(r) \subseteq Queued(q)
<1>1. q[l] \in Seq(Functors) /\ Len(q[l]) \in Nat /\ DOMAIN q[l] = 1 .. Len(q[l])
  BY DEF QType
<1>2. r \in QType /\ r[l] = Tail(q[l]) /\ \A k \in Loop \ {l} : r[k] = q[k]
  BY <1>1, TailFacts DEF QType
<1>3. ASSUME NEW i \in DOMAIN r[l] PROVE i + 1 \in DOMAIN q[l] /\ r[l][i] = q[l][i + 1]
  <2>1. /\ DOMAIN r[l] = 1 .. Len(q[l]) - 1
        /\ \A k \in 1 .. Len(q[l]) - 1 : r[l][k] = q[l][k + 1]
    BY <1>1, <1>2, TailFacts
  <2> QED BY <1>1, <1>3, <2>1
<1> QED BY <1>2, <1>3 DEF Queued

LEMMA EnqueueQueued ==
  ASSUME NEW q \in QType, NEW l, NEW f \in Functors, NEW r, r = Enqueue(q, l, f)
  PROVE  Queued(r) \subseteq Queued(q) \cup {f}
<1>1. ASSUME NEW k \in Loop, NEW i \in DOMAIN r[k]
      PROVE  r[k][i] = f \/ (i \in DOMAIN q[k] /\ r[k][i] = q[k][i])
  <2>1. q[k] \in Seq(Functors)
    BY DEF QType
  <2>2. r[k] = q[k] \/ r[k] = Append(q[k], f)
    BY DEF Enqueue, QType
  <2> QED BY <1>1, <2>1, <2>2
<1> QED BY <1>1 DEF Queued

\* Only send() queues a sendInLoop, and only shutdown() a shutdownInLoop.
LEMMA StepQueued ==
  ASSUME IInv, [Next]_vars, NEW c \in Conn, NEW raw \in RawOps,
         Functor(raw, c) \in Queued(queue')
  PROVE  \/ Functor(raw, c) \in Queued(queue)
         \/ FinishCall /\ c = call.conn
<1>q. queue \in QType
  BY DEF IInv, TypeOK, QType
<1>f. \A op : \A d : Functor(op, d).op = op /\ Functor(op, d).conn = d
  BY DEF Functor
<1>1. ASSUME NEW l \in Loop, NEW op, Run(l, op)
      PROVE  Rest(l) \in QType /\ Queued(Rest(l)) \subseteq Queued(queue)
  BY <1>1, <1>q, RunIsHead, RestQueued DEF Rest
<1>2. ASSUME NEW l \in Loop, NEW op, Run(l, op), queue' = Rest(l)
      PROVE  Functor(raw, c) \in Queued(queue)
  BY <1>1, <1>2
<1>3. ASSUME NEW l, NEW op \in {"established", "remove", "destroyed", "sendFile"},
             NEW d \in Conn, NEW q \in QType, Queued(q) \subseteq Queued(queue),
             queue' = Enqueue(q, l, Functor(op, d))
      PROVE  Functor(raw, c) \in Queued(queue)
  <2>1. Functor(op, d) \in Functors /\ Functor(op, d) # Functor(raw, c)
    BY <1>f, FunctorType DEF RawOps, CallOps
  <2>2. Queued(queue') \subseteq Queued(q) \cup {Functor(op, d)}
    BY <1>3, <2>1, EnqueueQueued
  <2> QED BY <1>3, <2>1, <2>2
<1>4. ASSUME NEW l \in Loop, LoopStep(l) PROVE Functor(raw, c) \in Queued(queue)
  <2>1. CASE ConnectEstablished(l) \/ ConnectDestroyed(l)
    BY <1>2, <2>1 DEF ConnectEstablished, ConnectDestroyed
  <2>6. CASE RunSend(l)
    BY <1>2, <2>6 DEF RunSend
  <2>2. CASE RunCall(l)
    <3>1. CASE Run(l, "sendFile") /\ queue' = Enqueue(Rest(l), l, Head(queue[l]))
      <4>1. PICK d \in Conn : Head(queue[l]) = Functor("sendFile", d)
        BY <3>1, RunIsHead
      <4> QED BY <1>1, <1>3, <3>1, <4>1
    <3> QED BY <1>2, <2>2, <3>1 DEF RunCall
  <2>3. CASE ReturnFromClose(l)
    <3>1. PICK d \in Conn : d = callback[l].conn
      BY <2>3, CallbackType DEF ReturnFromClose, IInv
    <3>2. \/ queue' = Enqueue(queue, Base, Functor("destroyed", d))
          \/ queue' = Enqueue(queue, Base, Functor("remove", d))
      BY <2>3, <3>1 DEF ReturnFromClose
    <3> QED BY <1>3, <1>q, <3>2
  <2>4. CASE ReturnFromCallback(l)
    BY <2>4 DEF ReturnFromCallback
  <2>5. CASE l = Base /\ RemoveConnectionInLoop
    <3>1. /\ Run(Base, "remove") /\ Base \in Loop
          /\ queue' = Enqueue(Rest(Base), loopOf[Head(queue[Base]).conn],
                              Functor("destroyed", Head(queue[Base]).conn))
      BY <2>5, LoopFacts DEF RemoveConnectionInLoop, RemoveLeaving
    <3>2. PICK d \in Conn : d = Head(queue[Base]).conn
      BY <3>1, RunIsHead
    <3>3. queue' = Enqueue(Rest(Base), loopOf[d], Functor("destroyed", d))
      BY <3>1, <3>2
    <3> QED BY <1>1, <1>3, <3>1, <3>3
  <2> QED BY <1>4, <2>1, <2>2, <2>3, <2>4, <2>5, <2>6 DEF LoopStep
<1>5. ASSUME NEW d \in Conn, NewConnection(d) \/ ResetConnection(d)
      PROVE  Functor(raw, c) \in Queued(queue)
  <2>1. \/ queue' = queue
        \/ queue' = Enqueue(queue, NextLoop, Functor("established", d))
        \/ queue' = Enqueue(queue, loopOf[d], Functor("destroyed", d))
    BY <1>5 DEF NewConnection, AcceptInto, ResetConnection
  <2> QED BY <1>3, <1>q, <2>1
<1>6. CASE \/ \E l \in Loop : LoopExit(l)
           \/ ServerGone
  <2>1. PICK l \in Loop : queue' = [queue EXCEPT ![l] = <<>>]
    BY <1>6, LoopFacts DEF LoopExit, ServerGone
  <2>2. queue'[l] = <<>> /\ \A k \in Loop \ {l} : queue'[k] = queue[k]
    BY <1>q, <2>1 DEF QType
  <2> QED BY <2>2 DEF Queued
<1>7. CASE FinishCall
  <2>1. PICK d \in Conn, op \in CallOps : d = call.conn /\ op = call.op
    BY <1>7 DEF FinishCall, IInv, TypeOK
  <2>2. queue' = Enqueue(queue, loopOf[d], Functor(op, d))
    BY <1>7, <2>1 DEF FinishCall
  <2>3. Queued(queue') \subseteq Queued(queue) \cup {Functor(op, d)}
    <3>1. Functor(op, d) \in Functors
      BY FunctorType
    <3> QED BY <1>q, <2>2, <3>1, EnqueueQueued
  <2> QED BY <1>f, <1>7, <2>1, <2>3
<1>8. CASE \/ \E n \in 0 .. MaxThreads : Start(n)
           \/ \E d \in Conn : Arrive(d) \/ AppStep(d)
           \/ \E l \in Loop : \E d \in Conn : HandleClose(l, d)
           \/ BaseLoopEnds \/ ResetDone \/ QuitLoop \/ JoinLoop \/ UNCHANGED vars
  <2>1. queue' = queue
    BY <1>8 DEF Start, Arrive, AppStep, KeepPointer, OwnerShutdown, DropPointer, BeginCall,
       HandleClose, CloseTo, BaseLoopEnds, ResetDone, QuitLoop, JoinLoop, MovesTo, vars
  <2> QED BY <2>1
<1> QED BY <1>4, <1>5, <1>6, <1>7, <1>8 DEF Next, StopStep

LEMMA StepPointers ==
  ASSUME IInv, LInv, PointersKept, [Next]_vars
  PROVE  PointersKept'
<1> SUFFICES ASSUME KeepsPointer, NEW c \in Conn, Pending(c)'
             PROVE  c \in held'
  BY DEF PointersKept
<1>1. PICK raw \in RawOps : Functor(raw, c) \in Queued(queue')
  <2>1. \A op \in RawOps : Functor(op, c) \in Functors
    BY FunctorType DEF RawOps, CallOps
  <2> QED BY <2>1 DEF Pending, Queued, Range, RawOps
<1>2. CASE FinishCall /\ c = call.conn
  BY <1>2 DEF FinishCall, AppUnchanged, LInv
<1>3. CASE Pending(c)
  <2>1. c \in held
    BY <1>3 DEF PointersKept
  <2>2. CASE \E d \in Conn : DropPointer(d)
    <3>1. PICK d \in Conn : DropPointer(d)
      BY <2>2
    <3>2. d # c /\ held' = held \ {d}
      BY <1>3, <3>1 DEF DropPointer
    <3> QED BY <2>1, <3>2
  <2>3. CASE ~\E d \in Conn : DropPointer(d)
    <3>1. held \subseteq held'
      BY <2>3 DEF Next, LoopStep, StopStep, AppStep, KeepPointer, OwnerShutdown, BeginCall,
         FinishCall, AppUnchanged, Start, Arrive, NewConnection, AcceptInto,
         ConnectEstablished, ConnectDestroyed, RunCall, RunSend, LoopUnchanged, ReturnFromClose,
         ReturnFromCallback, RemoveConnectionInLoop, RemoveLeaving, LoopExit, HandleClose,
         CloseTo, BaseLoopEnds, ResetDone, QuitLoop, JoinLoop, ServerGone, ResetConnection,
         StopUnchanged, userVars, vars
    <3> QED BY <2>1, <3>1
  <2> QED BY <2>2, <2>3
<1> QED BY <1>1, <1>2, <1>3, StepQueued, PendingIsQueued

(* The raw this that send() and shutdown() bind is harmless to an          *)
(* application that keeps its TcpConnectionPtr until sendInLoop or         *)
(* shutdownInLoop has run, and only to such a one (RawThis): the connection*)
(* of every functor that runs is alive, the others holding it themselves.  *)
THEOREM KeptPointersSuffice == KeepsPointer => (Spec => []FunctorFindsConnection)
<1>1. Init => PointersKept
  BY DEF Init, PointersKept, Pending, Range
<1>2. IInv /\ LInv /\ PointersKept /\ KeepsPointer => FunctorFindsConnection
  <2> SUFFICES ASSUME IInv, PointersKept, KeepsPointer, NEW l \in Loop, queue[l] # <<>>
               PROVE  Alive(Head(queue[l]).conn)
    BY DEF FunctorFindsConnection
  <2>1. queue[l] \in Seq(Functors)
    BY DEF IInv, TypeOK
  <2>2. 1 \in DOMAIN queue[l] /\ Head(queue[l]) = queue[l][1] /\ queue[l][1] \in Functors
    BY <2>1
  <2>3. CASE Head(queue[l]).op \in Owning
    BY <2>2, <2>3 DEF Alive, HeldByLoop
  <2>4. CASE Head(queue[l]).op \in {"send", "shutdown"}
    <3>1. /\ Head(queue[l]).conn \in Conn
          /\ Head(queue[l]) = Functor(Head(queue[l]).op, Head(queue[l]).conn)
      BY <2>2 DEF Functors, Functor
    <3>2. Pending(Head(queue[l]).conn)
      BY <2>2, <2>4, <3>1 DEF Pending, Range
    <3> QED BY <3>1, <3>2 DEF PointersKept, Alive
  <2> QED BY <2>2, <2>3, <2>4 DEF Functors, Owning, CallOps
<1>3. IInv /\ LInv /\ PointersKept /\ [Next]_vars => PointersKept'
  BY StepPointers
<1> SUFFICES ASSUME KeepsPointer PROVE Spec => []FunctorFindsConnection
  OBVIOUS
<1>4. IInv /\ LInv /\ PointersKept => FunctorFindsConnection
  BY <1>2
<1> QED BY <1>1, <1>3, <1>4, LifeInductive, PTL DEF Spec

-----------------------------------------------------------------------------
\* A server without a pool

\* Every connection is the base loop's own, and in connections_ until it is
\* no longer kConnected; ~TcpServer empties connections_ before it goes on.
PoolFree ==
  numThreads_ = 0 =>
    /\ \A c \in Conn : loopOf[c] \in {Base, NoLoop}
    /\ \A c \in Conn : state_[c] = "kConnected" => c \in connections_
    /\ phase \in {"quit", "join", "gone"} => connections_ = {}

\* As long as the server serves, LInv says so much of any connection.
LEMMA ServingMapped ==
  ASSUME LInv, Serving, NEW c \in Conn, state_[c] = "kConnected"
  PROVE  c \in connections_
<1>1. ups[c] > 0 /\ downs[c] = 0 /\ (loopOf[c] = NoLoop => ups[c] = 0)
  BY DEF LInv, ConnLife
<1>2. loopOf[c] # NoLoop
  BY <1>1
<1> QED BY <1>1, <1>2 DEF LInv

LEMMA ServingMappedNext ==
  ASSUME LInv', Serving', NEW c \in Conn, state_'[c] = "kConnected"
  PROVE  c \in connections_'
<1>1. ups'[c] > 0 /\ downs'[c] = 0 /\ (loopOf'[c] = NoLoop => ups'[c] = 0)
  BY DEF LInv, ConnLife
<1>2. loopOf'[c] # NoLoop
  BY <1>1
<1> QED BY <1>1, <1>2 DEF LInv

\* Without a pool nothing is queued for, or runs on, another loop.
LEMMA OnlyBase ==
  ASSUME IInv, PoolFree, numThreads_ = 0, NEW l \in Loop
  PROVE  /\ \A op : Run(l, op) => phase = "serving"
         /\ callback[l] # NoCall => l = Base
<1>1. ASSUME NEW op, Run(l, op) PROVE l = Base
  BY <1>1, RunIsHead, LoopFacts DEF PoolFree, AtLoop
<1>2. ASSUME callback[l] # NoCall PROVE l = Base
  <2>1. loopOf[callback[l].conn] = l /\ callback[l].conn \in Conn
    BY <1>2, InvParts, CallbackType DEF OtherHome
  <2> QED BY <2>1, LoopFacts DEF PoolFree
<1> QED BY <1>1, <1>2 DEF Run, Ready

\* What happens to the connections while the server stops
LEMMA StoppingKeeps ==
  ASSUME IInv, LInv, PoolFree, numThreads_ = 0, ~Serving, [Next]_vars,
         NEW c \in Conn, state_'[c] = "kConnected"
  PROVE  state_[c] = "kConnected" /\ (c \in connections_ => c \in connections_')
<1>s. phase # "serving" /\ phase # "built"
  BY DEF Serving
<1>1. ASSUME NEW l \in Loop, LoopStep(l)
      PROVE  state_[c] = "kConnected" /\ (c \in connections_ => c \in connections_')
  <2>1. \A op : ~Run(l, op)
    BY <1>s, OnlyBase
  <2>2. CASE ReturnFromCallback(l)
    BY <2>2 DEF ReturnFromCallback, LoopUnchanged
  <2>3. CASE ReturnFromClose(l)
    <3>1. /\ callback[l] # NoCall /\ callback[l].op = "close" /\ state_' = state_
          /\ connections_' = connections_ \/ connections_' = connections_ \ {callback[l].conn}
      BY <2>3 DEF ReturnFromClose, connVars
    <3>2. downs[callback[l].conn] > 0
      BY <3>1 DEF LInv
    <3>3. downs[c] = 0
      BY <3>1 DEF LInv, ConnLife
    <3>4. c # callback[l].conn
      BY <3>2, <3>3
    <3> QED BY <3>1, <3>4
  <2> QED BY <1>1, <1>s, <2>1, <2>2, <2>3, OnlyBase, LoopFacts
          DEF LoopStep, ConnectEstablished, ConnectDestroyed, RunCall,
              RunSend, RemoveConnectionInLoop, RemoveLeaving
<1>2. ASSUME NEW l \in Loop, NEW d \in Conn, HandleClose(l, d)
      PROVE  state_[c] = "kConnected" /\ (c \in connections_ => c \in connections_')
  <2>1. state_' = [state_ EXCEPT ![d] = "kDisconnected"] /\ connections_' = connections_
    BY <1>2 DEF HandleClose, CloseTo, LoopUnchanged
  <2> QED BY <2>1 DEF IInv, TypeOK
<1>3. ASSUME NEW d \in Conn, ResetConnection(d)
      PROVE  state_[c] = "kConnected" /\ (c \in connections_ => c \in connections_')
  <2>1. d \in connections_ /\ connections_' = connections_ \ {d}
    BY <1>3 DEF ResetConnection
  <2>2. loopOf[d] = Base
    BY <2>1, InvParts DEF OtherHome, PoolFree
  <2>3. Destroy(d, Base)
    BY <1>3, <2>2 DEF ResetConnection
  <2>4. \/ /\ state_[d] = "kConnected"
           /\ state_' = [state_ EXCEPT ![d] = "kDisconnected"]
        \/ state_[d] # "kConnected" /\ state_' = state_
    BY <2>3 DEF Destroy
  <2>5. state_[c] = "kConnected" /\ c # d
    BY <2>4 DEF IInv, TypeOK
  <2> QED BY <2>1, <2>5
<1>4. ASSUME NEW d \in Conn, AppStep(d)
      PROVE  state_[c] = "kConnected" /\ (c \in connections_ => c \in connections_')
  <2>1. connections_' = connections_
        /\ (state_' = state_ \/ state_' = [state_ EXCEPT ![d] = "kDisconnecting"])
    BY <1>4 DEF AppStep, KeepPointer, OwnerShutdown, DropPointer, BeginCall, AppUnchanged
  <2> QED BY <2>1 DEF IInv, TypeOK
<1>5. CASE FinishCall
  <2>1. /\ connections_' = connections_
        /\ state_' = state_ \/ state_' = [state_ EXCEPT ![call.conn] = "kDisconnecting"]
    BY <1>5 DEF FinishCall, AppUnchanged
  <2> QED BY <2>1 DEF IInv, TypeOK
<1>6. CASE \/ \E l \in Loop : LoopExit(l)
           \/ ResetDone \/ QuitLoop \/ JoinLoop \/ ServerGone \/ UNCHANGED vars
  BY <1>6 DEF LoopExit, ResetDone, QuitLoop, JoinLoop, ServerGone, MovesTo, connVars, vars
<1>7. CASE \/ \E n \in 0 .. MaxThreads : Start(n)
           \/ \E d \in Conn : Arrive(d) \/ NewConnection(d)
           \/ BaseLoopEnds
  BY <1>7, <1>s, LoopFacts DEF Start, Arrive, NewConnection, AcceptInto, BaseLoopEnds, Ready
<1> QED BY <1>1, <1>2, <1>3, <1>4, <1>5, <1>6, <1>7 DEF Next, StopStep

LEMMA StepPoolFree ==
  ASSUME IInv, LInv, PoolFree, [Next]_vars
  PROVE  PoolFree'
<1> SUFFICES ASSUME numThreads_' = 0
             PROVE  /\ \A c \in Conn : loopOf'[c] \in {Base, NoLoop}
                    /\ \A c \in Conn : state_'[c] = "kConnected" => c \in connections_'
                    /\ phase' \in {"quit", "join", "gone"} => connections_' = {}
  BY DEF PoolFree
<1>i. IInv' /\ LInv'
  BY StepIInv, StepLife
<1>1. CASE \E n \in 0 .. MaxThreads : Start(n)
  <2>1. /\ \A c \in Conn : loopOf'[c] = NoLoop
        /\ phase' = "serving"
    BY <1>1, InvParts DEF Start, OtherHome
  <2>2. \A c \in Conn : state_'[c] = "kConnected" => c \in connections_'
    <3>1. Serving'
      BY <2>1 DEF Serving
    <3> QED BY <1>i, <3>1, ServingMappedNext
  <2> QED BY <2>1, <2>2
<1>2. CASE ~\E n \in 0 .. MaxThreads : Start(n)
  <2>1. numThreads_ = 0
    BY <1>2 DEF Next, LoopStep, StopStep, AppStep, KeepPointer, OwnerShutdown, DropPointer,
       BeginCall, FinishCall, AppUnchanged, Arrive, NewConnection, AcceptInto,
       ConnectEstablished, ConnectDestroyed, RunCall, RunSend, LoopUnchanged, ReturnFromClose,
       ReturnFromCallback, RemoveConnectionInLoop, RemoveLeaving, LoopExit, HandleClose,
       CloseTo, BaseLoopEnds, ResetDone, QuitLoop, JoinLoop, ServerGone, ResetConnection,
       StopUnchanged, acceptVars, vars
  <2>2. \A c \in Conn : loopOf'[c] \in {Base, NoLoop}
    <3>1. loopOf' = loopOf \/ \E c \in Conn : loopOf' = [loopOf EXCEPT ![c] = Base]
      BY <1>2, <2>1 DEF Next, LoopStep, StopStep, AppStep, KeepPointer, OwnerShutdown,
         DropPointer, BeginCall, FinishCall, AppUnchanged, Arrive, NewConnection, AcceptInto,
         NextLoop, ConnectEstablished, ConnectDestroyed, RunCall, RunSend, LoopUnchanged,
         ReturnFromClose, ReturnFromCallback, RemoveConnectionInLoop, RemoveLeaving, LoopExit,
         HandleClose, CloseTo, BaseLoopEnds, ResetDone, QuitLoop, JoinLoop, ServerGone,
         ResetConnection, StopUnchanged, acceptVars, vars
    <3> QED BY <2>1, <3>1 DEF PoolFree, IInv, TypeOK
  <2>3. ASSUME NEW c \in Conn, state_'[c] = "kConnected" PROVE c \in connections_'
    <3>1. CASE Serving'
      BY <1>i, <2>3, <3>1, ServingMappedNext
    <3>2. CASE ~Serving' /\ Serving
      <4>1. BaseLoopEnds
        BY <1>2, <3>2 DEF Serving, Next, LoopStep, StopStep, AppStep, KeepPointer,
           OwnerShutdown, DropPointer, BeginCall, FinishCall, AppUnchanged, Arrive,
           NewConnection, AcceptInto, ConnectEstablished, ConnectDestroyed, RunCall,
           RunSend, LoopUnchanged, ReturnFromClose, ReturnFromCallback, RemoveConnectionInLoop,
           RemoveLeaving, LoopExit, HandleClose, CloseTo, ResetDone, QuitLoop, JoinLoop,
           ServerGone, ResetConnection, MovesTo, stopVars, vars
      <4>2. state_' = state_ /\ connections_' = connections_
        BY <4>1 DEF BaseLoopEnds, MovesTo, connVars
      <4> QED BY <2>3, <3>2, <4>2, ServingMapped
    <3>3. CASE ~Serving' /\ ~Serving
      BY <2>1, <2>3, <3>3, StoppingKeeps DEF PoolFree
    <3> QED BY <3>1, <3>2, <3>3
  <2>4. phase' \in {"quit", "join", "gone"} => connections_' = {}
    <3>1. ASSUME phase' \in {"quit", "join", "gone"}
          PROVE  \/ ResetDone
                 \/ phase \in {"quit", "join", "gone"} /\ connections_' \subseteq connections_
      BY <1>2, <3>1 DEF Next, LoopStep, StopStep, AppStep, KeepPointer,
         OwnerShutdown, DropPointer, BeginCall, FinishCall, AppUnchanged, Arrive,
         NewConnection, AcceptInto, Ready, ConnectEstablished, ConnectDestroyed, RunCall,
         RunSend, LoopUnchanged, ReturnFromClose, ReturnFromCallback, RemoveConnectionInLoop,
         RemoveLeaving, LoopExit, HandleClose, CloseTo, BaseLoopEnds, QuitLoop, JoinLoop,
         ServerGone, ResetConnection, MovesTo, stopVars, vars
    <3>2. ResetDone => connections_' = {}
      BY DEF ResetDone, MovesTo
    <3> QED BY <2>1, <3>1, <3>2 DEF PoolFree
  <2> QED BY <2>2, <2>3, <2>4
<1> QED BY <1>1, <1>2

(* ~TcpServer of a server without a pool, which runs connectDestroyed in   *)
(* place, leaves no connection in kConnected: what NoDownAtStop shows is a *)
(* matter of the loops of the pool alone, which quit before they run it.   *)
(* A connection in kDisconnecting passes connectDestroyed without a DOWN,  *)
(* with a pool and without.                                                *)
THEOREM TakenDownWithoutPool == Spec => [](numThreads_ = 0 => AllTakenDown)
<1>1. Init => PoolFree
  BY DEF Init, PoolFree
<1>2. IInv /\ LInv /\ PoolFree /\ [Next]_vars => PoolFree'
  BY StepPoolFree
<1>3. PoolFree => (numThreads_ = 0 => AllTakenDown)
  BY DEF PoolFree, AllTakenDown
<1> QED BY <1>1, <1>2, <1>3, LifeInductive, PTL DEF Spec
=============================================================================
