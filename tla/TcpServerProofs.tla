-------------------------- MODULE TcpServerProofs ---------------------------
(***************************************************************************)
(* Proofs about TcpServer for any connections, threads and descriptors: a  *)
(* registered channel belongs to a living connection.  IInv is inductive;  *)
(* what it says of the queues is stated here of any queues q, loops lo of  *)
(* the connections and map, so that an action that takes a functor, adds   *)
(* one or does both follows from two lemmas.                               *)
(***************************************************************************)
EXTENDS TcpServer, TLAPS

QType == [Loop -> Seq(Functors)]

\* AtHome, with the loops lo
AtLoop(f, l, lo) ==
  /\ IF f.op = "remove" THEN l = Base /\ lo[f.conn] # NoLoop ELSE lo[f.conn] = l
  /\ f.op = "established" => l # Base

\* A connectDestroyed of c is queued on l.
Doomed(q, l, c) == \E j \in DOMAIN q[l] : q[l][j] = Functor("destroyed", c)

DoomedAfter(q, l, i, c) ==
  \E j \in DOMAIN q[l] : j > i /\ q[l][j] = Functor("destroyed", c)

\* What Home and EstablishedHeld say of the queues
QueueInv(q, lo, map) ==
  \A l \in Loop : \A i \in DOMAIN q[l] :
    /\ AtLoop(q[l][i], l, lo)
    /\ q[l][i].op = "established" =>
         q[l][i].conn \in map \/ DoomedAfter(q, l, i, q[l][i].conn)

\* The rest of Home
OtherHome ==
  /\ \A l \in Loop : callback[l] # NoCall => loopOf[callback[l].conn] = l
  /\ \A c \in connections_ \cup held : loopOf[c] # NoLoop
  /\ call # NoCall => loopOf[call.conn] # NoLoop
  /\ \A i \in DOMAIN backlog : loopOf[backlog[i]] = NoLoop
  /\ \A i, j \in DOMAIN backlog : backlog[i] = backlog[j] => i = j
  /\ phase = "built" => next_ = 0 /\ \A c \in Conn : loopOf[c] = NoLoop

LEMMA LoopFacts == Loop \subseteq Nat /\ NoLoop \notin Loop /\ Base \in Loop
BY ThreadsAssumption DEF Loop, NoLoop, Base

LEMMA FunctorType ==
  ASSUME NEW c \in Conn,
         NEW op \in {"established", "remove", "destroyed"} \cup CallOps
  PROVE  /\ Functor(op, c) \in Functors
         /\ Functor(op, c).op = op /\ Functor(op, c).conn = c
BY DEF Functor, Functors, CallOps

LEMMA InvParts ==
  IInv <=> TypeOK /\ QueueInv(queue, loopOf, connections_) /\ OtherHome /\ RegisteredHeld
BY DEF IInv, Home, EstablishedHeld, OtherHome, QueueInv, AtHome, AtLoop, DoomedAfter

LEMMA CoveredParts ==
  ASSUME NEW c
  PROVE  Covered(c) <=> \/ c \in connections_ \/ Doomed(queue, loopOf[c], c)
                        \/ callback[loopOf[c]] = [op |-> "destroyed", conn |-> c]
BY DEF Covered, Doomed

-----------------------------------------------------------------------------
\* Taking the first functor of a queue

LEMMA TailFacts ==
  ASSUME NEW s \in Seq(Functors), s # <<>>
  PROVE  /\ Tail(s) \in Seq(Functors) /\ DOMAIN Tail(s) = 1 .. Len(s) - 1
         /\ \A i \in 1 .. Len(s) - 1 : Tail(s)[i] = s[i + 1]
OBVIOUS

LEMMA RestKeeps ==
  ASSUME NEW q \in QType, NEW l \in Loop, q[l] # <<>>, NEW lo, NEW map,
         QueueInv(q, lo, map), NEW r, r = [q EXCEPT ![l] = Tail(@)]
  PROVE  /\ r \in QType /\ QueueInv(r, lo, map)
         /\ \A k \in Loop : \A c : Doomed(q, k, c) /\ (k = l => Head(q[l]) # Functor("destroyed", c))
                                 => Doomed(r, k, c)
<1>1. /\ q[l] \in Seq(Functors) /\ Len(q[l]) \in Nat /\ DOMAIN q[l] = 1 .. Len(q[l])
      /\ Head(q[l]) = q[l][1]
  BY DEF QType
<1>2. /\ r \in QType /\ r[l] = Tail(q[l]) /\ \A k \in Loop \ {l} : r[k] = q[k]
  BY <1>1, TailFacts DEF QType
<1>3. /\ DOMAIN r[l] = 1 .. Len(q[l]) - 1
      /\ \A i \in 1 .. Len(q[l]) - 1 : r[l][i] = q[l][i + 1]
  BY <1>1, <1>2, TailFacts
<1>4. ASSUME NEW j \in DOMAIN q[l], j > 1
      PROVE  j - 1 \in DOMAIN r[l] /\ r[l][j - 1] = q[l][j]
  BY <1>1, <1>3, <1>4
<1>5. QueueInv(r, lo, map)
  <2> SUFFICES ASSUME NEW k \in Loop, NEW i \in DOMAIN r[k]
               PROVE  /\ AtLoop(r[k][i], k, lo)
                      /\ r[k][i].op = "established" =>
                           r[k][i].conn \in map \/ DoomedAfter(r, k, i, r[k][i].conn)
    BY DEF QueueInv
  <2>1. CASE k # l
    BY <1>2, <2>1 DEF QueueInv, DoomedAfter
  <2>2. CASE k = l
    <3>1. i \in Nat /\ i > 0 /\ i + 1 \in DOMAIN q[l] /\ r[l][i] = q[l][i + 1]
      BY <1>1, <1>3, <2>2
    <3>2. AtLoop(q[l][i + 1], l, lo)
      BY <3>1 DEF QueueInv
    <3>3. ASSUME DoomedAfter(q, l, i + 1, q[l][i + 1].conn)
          PROVE  DoomedAfter(r, l, i, r[l][i].conn)
      <4>1. PICK j \in DOMAIN q[l] :
                 j > i + 1 /\ q[l][j] = Functor("destroyed", q[l][i + 1].conn)
        BY <3>3 DEF DoomedAfter
      <4>2. j > 1 /\ j - 1 > i
        BY <1>1, <3>1, <4>1
      <4> QED BY <1>4, <3>1, <4>1, <4>2 DEF DoomedAfter
    <3> QED BY <2>2, <3>1, <3>2, <3>3 DEF QueueInv
  <2> QED BY <2>1, <2>2
<1>6. ASSUME NEW k \in Loop, NEW c, Doomed(q, k, c),
             k = l => Head(q[l]) # Functor("destroyed", c)
      PROVE  Doomed(r, k, c)
  <2>1. CASE k # l
    BY <1>2, <1>6, <2>1 DEF Doomed
  <2>2. CASE k = l
    <3>1. PICK j \in DOMAIN q[l] : q[l][j] = Functor("destroyed", c)
      BY <1>6, <2>2 DEF Doomed
    <3>2. j > 1
      BY <1>1, <1>6, <2>2, <3>1
    <3> QED BY <1>4, <2>2, <3>1, <3>2 DEF Doomed
  <2> QED BY <2>1, <2>2
<1> QED BY <1>2, <1>5, <1>6

\* Adding a functor at the end of a queue; with a connectDestroyed the
\* connection may leave the map.
LEMMA EnqueueKeeps ==
  ASSUME NEW q \in QType, NEW l \in Loop, NEW f \in Functors, NEW lo,
         NEW map, NEW map2, QueueInv(q, lo, map), AtLoop(f, l, lo),
         f.op = "established" => f.conn \in map2,
         \A c \in map : c \in map2 \/ f = Functor("destroyed", c),
         NEW r, r = Enqueue(q, l, f)
  PROVE  /\ r \in QType /\ QueueInv(r, lo, map2)
         /\ \A k \in Loop : \A c : Doomed(q, k, c) => Doomed(r, k, c)
         /\ \A c : f = Functor("destroyed", c) => Doomed(r, l, c)
<1> DEFINE n == Len(q[l]) + 1
<1>1. q[l] \in Seq(Functors) /\ Len(q[l]) \in Nat /\ DOMAIN q[l] = 1 .. Len(q[l])
  BY DEF QType
<1>2. r \in QType /\ r[l] = Append(q[l], f) /\ \A k \in Loop \ {l} : r[k] = q[k]
  BY <1>1 DEF Enqueue, QType
<1>3. /\ DOMAIN r[l] = 1 .. n /\ r[l][n] = f
      /\ \A i \in DOMAIN q[l] : r[l][i] = q[l][i]
  BY <1>1, <1>2
<1>4. /\ n \in DOMAIN r[l] /\ r[l][n] = f
      /\ \A i \in DOMAIN r[l] : i = n \/ i \in DOMAIN q[l]
      /\ \A i \in DOMAIN q[l] : i \in DOMAIN r[l] /\ r[l][i] = q[l][i] /\ n > i
  BY <1>1, <1>3
<1> HIDE DEF n
<1>5. \A k \in Loop : \A i \in DOMAIN q[k] : i \in DOMAIN r[k] /\ r[k][i] = q[k][i]
  BY <1>2, <1>4
<1>6. QueueInv(r, lo, map2)
  <2> SUFFICES ASSUME NEW k \in Loop, NEW i \in DOMAIN r[k]
               PROVE  /\ AtLoop(r[k][i], k, lo)
                      /\ r[k][i].op = "established" =>
                           r[k][i].conn \in map2 \/ DoomedAfter(r, k, i, r[k][i].conn)
    BY DEF QueueInv
  <2>1. CASE k = l /\ i = n
    BY <1>4, <2>1
  <2>2. CASE i \in DOMAIN q[k]
    <3>1. r[k][i] = q[k][i] /\ AtLoop(q[k][i], k, lo)
      BY <1>5, <2>2 DEF QueueInv
    <3>2. ASSUME r[k][i].op = "established", r[k][i].conn \notin map2
          PROVE  DoomedAfter(r, k, i, r[k][i].conn)
      <4> DEFINE c == r[k][i].conn
      <4>1. CASE DoomedAfter(q, k, i, c)
        BY <1>5, <4>1 DEF DoomedAfter
      <4>2. CASE c \in map
        <5>1. f = Functor("destroyed", c)
          BY <3>2, <4>2
        <5>2. lo[c] = l /\ lo[c] = k
          BY <3>1, <3>2, <5>1 DEF AtLoop, Functor
        <5> QED BY <1>4, <2>2, <5>1, <5>2 DEF DoomedAfter
      <4> QED BY <2>2, <3>1, <3>2, <4>1, <4>2 DEF QueueInv
    <3> QED BY <3>1, <3>2
  <2>3. (k = l /\ i = n) \/ i \in DOMAIN q[k]
    BY <1>2, <1>4
  <2> QED BY <2>1, <2>2, <2>3
<1>7. ASSUME NEW k \in Loop, NEW c, Doomed(q, k, c) PROVE Doomed(r, k, c)
  BY <1>5, <1>7 DEF Doomed
<1>8. ASSUME NEW c, f = Functor("destroyed", c) PROVE Doomed(r, l, c)
  BY <1>4, <1>8 DEF Doomed
<1> QED BY <1>2, <1>6, <1>7, <1>8

\* The functor that runs is the first of its queue, and at home there.
LEMMA RunIsHead ==
  ASSUME IInv, NEW l \in Loop, NEW op, Run(l, op)
  PROVE  /\ queue \in QType /\ queue[l] # <<>> /\ 1 \in DOMAIN queue[l]
         /\ Head(queue[l]) = queue[l][1]
         /\ Head(queue[l]).op = op /\ Head(queue[l]).conn \in Conn
         /\ Head(queue[l]) = Functor(op, Head(queue[l]).conn)
         /\ AtLoop(Head(queue[l]), l, loopOf)
<1>1. queue \in QType /\ queue[l] # <<>> /\ Head(queue[l]).op = op
  BY DEF Run, IInv, TypeOK, QType
<1>2. queue[l] \in Seq(Functors)
  BY <1>1 DEF QType
<1>3. 1 \in DOMAIN queue[l] /\ Head(queue[l]) = queue[l][1] /\ Head(queue[l]) \in Functors
  BY <1>1, <1>2
<1> QED BY <1>1, <1>3, InvParts DEF Functors, Functor, QueueInv

\* A callback that is running is one of a connection.
LEMMA CallbackType ==
  ASSUME TypeOK, NEW l \in Loop, callback[l] # NoCall
  PROVE  callback[l].conn \in Conn /\ callback[l].op \in {"up", "close", "destroyed"}
BY DEF TypeOK, Callbacks

\* What an action owes the invariant
LEMMA StepParts ==
  ASSUME IInv, TypeOK', QueueInv(queue', loopOf', connections_'), OtherHome',
         revived \subseteq revived',
         \A c \in Conn : registered'[c] /\ loopOf'[c] \in running' =>
            \/ registered[c] /\ loopOf[c] \in running /\ (Covered(c) => Covered(c)')
            \/ Covered(c)' \/ c \in revived'
  PROVE  IInv'
<1>1. RegisteredHeld'
  BY DEF IInv, RegisteredHeld
<1>2. Home' /\ EstablishedHeld'
  BY DEF Home, EstablishedHeld, OtherHome, QueueInv, AtHome, AtLoop, DoomedAfter
<1> QED BY <1>1, <1>2 DEF IInv

-----------------------------------------------------------------------------
\* connectEstablished and connectDestroyed of a connection of l

ConnTypes ==
  /\ state_ \in [Conn -> {"kConnecting", "kConnected", "kDisconnecting", "kDisconnected"}]
  /\ registered \in [Conn -> BOOLEAN]
  /\ ups \in [Conn -> Nat] /\ downs \in [Conn -> Nat] /\ revived \subseteq Conn
  /\ callback \in [Loop -> Callbacks \cup {NoCall}]

LEMMA CallsType ==
  ASSUME TypeOK, NEW l \in Loop, NEW c \in Conn, NEW op \in {"up", "close", "destroyed"},
         Calls(l, op, c)
  PROVE  /\ callback' \in [Loop -> Callbacks \cup {NoCall}]
         /\ callback'[l] = [op |-> op, conn |-> c]
         /\ \A k \in Loop \ {l} : callback'[k] = callback[k]
<1>1. [op |-> op, conn |-> c] \in Callbacks
  BY DEF Callbacks
<1> QED BY <1>1 DEF Calls, TypeOK

LEMMA EstablishFacts ==
  ASSUME TypeOK, NEW l \in Loop, NEW c \in Conn, Establish(c, l)
  PROVE  /\ ConnTypes'
         /\ \A d \in Conn \ {c} : registered'[d] = registered[d]
         /\ revived' = revived
         /\ callback'[l] = [op |-> "up", conn |-> c]
         /\ \A k \in Loop \ {l} : callback'[k] = callback[k]
<1>1. /\ callback' \in [Loop -> Callbacks \cup {NoCall}]
      /\ callback'[l] = [op |-> "up", conn |-> c]
      /\ \A k \in Loop \ {l} : callback'[k] = callback[k]
  BY CallsType DEF Establish
<1>2. /\ ups' \in [Conn -> Nat] /\ downs' \in [Conn -> Nat]
      /\ revived' \subseteq Conn /\ revived' = revived
  BY DEF Establish, TypeOK
<1>3. /\ state_' \in [Conn -> {"kConnecting", "kConnected", "kDisconnecting", "kDisconnected"}]
      /\ registered' \in [Conn -> BOOLEAN]
      /\ \A d \in Conn \ {c} : registered'[d] = registered[d]
  BY DEF Establish, TypeOK
<1> QED BY <1>1, <1>2, <1>3 DEF ConnTypes

LEMMA DestroyFacts ==
  ASSUME TypeOK, NEW l \in Loop, NEW c \in Conn, Destroy(c, l)
  PROVE  /\ ConnTypes'
         /\ \A d \in Conn \ {c} : registered'[d] = registered[d]
         /\ revived' = revived
         /\ \A k \in Loop \ {l} : callback'[k] = callback[k]
         /\ \/ callback'[l] = callback[l] /\ ~registered'[c]
            \/ callback'[l] = [op |-> "destroyed", conn |-> c]
<1>1. CASE state_[c] = "kConnected"
  <2>1. /\ state_' = [state_ EXCEPT ![c] = "kDisconnected"]
        /\ downs' = [downs EXCEPT ![c] = downs[c] + 1]
        /\ Calls(l, "destroyed", c) /\ UNCHANGED <<registered, ups, revived>>
    BY <1>1 DEF Destroy
  <2>2. /\ callback' \in [Loop -> Callbacks \cup {NoCall}]
        /\ callback'[l] = [op |-> "destroyed", conn |-> c]
        /\ \A k \in Loop \ {l} : callback'[k] = callback[k]
    BY <2>1, CallsType
  <2>3. downs' \in [Conn -> Nat]
    BY <2>1 DEF TypeOK
  <2>4. state_' \in [Conn -> {"kConnecting", "kConnected", "kDisconnecting", "kDisconnected"}]
    BY <2>1 DEF TypeOK
  <2> QED BY <2>1, <2>2, <2>3, <2>4 DEF ConnTypes, TypeOK
<1>2. CASE state_[c] # "kConnected"
  <2>1. /\ registered' = [registered EXCEPT ![c] = FALSE]
        /\ UNCHANGED <<state_, ups, downs, revived, callback>>
    BY <1>2 DEF Destroy
  <2> QED BY <2>1 DEF ConnTypes, TypeOK
<1> QED BY <1>1, <1>2

-----------------------------------------------------------------------------
\* The inductive invariant, action by action.

LEMMA InitIInv == Init => IInv
<1> SUFFICES ASSUME Init PROVE IInv
  OBVIOUS
<1>1. TypeOK
  <2>1. /\ fdLimit \in Nat /\ <<>> \in Seq(Conn) /\ <<>> \in Seq(Functors)
        /\ numThreads_ \in 0 .. MaxThreads
    BY ThreadsAssumption, BoundsAssumption DEF Init
  <2> QED BY <2>1, LoopFacts DEF Init, TypeOK
<1>2. Home /\ EstablishedHeld /\ RegisteredHeld
  BY DEF Init, Home, EstablishedHeld, RegisteredHeld, NoCall
<1> QED BY <1>1, <1>2 DEF IInv

LEMMA StartIInv ==
  ASSUME IInv, NEW n \in 0 .. MaxThreads, Start(n)
  PROVE  IInv'
<1> USE DEF Start, connVars, userVars
<1>1. next_ = 0 /\ \A c \in Conn : loopOf[c] = NoLoop
  BY InvParts DEF OtherHome
<1>2. TypeOK'
  <2>1. 0 .. n \subseteq Loop
    BY ThreadsAssumption DEF Loop
  <2> QED BY <1>1, <2>1 DEF IInv, TypeOK
<1>3. QueueInv(queue', loopOf', connections_') /\ OtherHome'
  BY InvParts DEF OtherHome
<1>4. \A c \in Conn : loopOf'[c] \notin running'
  BY <1>1, LoopFacts DEF NoLoop
<1> QED BY <1>2, <1>3, <1>4, StepParts

LEMMA ArriveIInv ==
  ASSUME IInv, NEW c \in Conn, Arrive(c)
  PROVE  IInv'
<1> USE DEF Arrive, connVars, userVars, stopVars
<1>1. /\ backlog \in Seq(Conn) /\ backlog' = Append(backlog, c)
      /\ DOMAIN backlog = 1 .. Len(backlog) /\ Len(backlog) \in Nat
  BY DEF IInv, TypeOK
<1>2. /\ backlog' \in Seq(Conn) /\ DOMAIN backlog' = 1 .. Len(backlog) + 1
      /\ backlog'[Len(backlog) + 1] = c
      /\ \A i \in DOMAIN backlog : backlog'[i] = backlog[i]
  BY <1>1
<1>3. TypeOK'
  BY <1>2 DEF IInv, TypeOK
<1>4. \A i \in DOMAIN backlog : backlog[i] # c
  BY DEF Range
<1>5. OtherHome'
  <2>1. \A i \in DOMAIN backlog' : i = Len(backlog) + 1 \/ i \in DOMAIN backlog
    BY <1>1, <1>2
  <2>2. \A i, j \in DOMAIN backlog' : backlog'[i] = backlog'[j] => i = j
    BY <1>2, <1>4, <2>1, InvParts DEF OtherHome
  <2>3. \A i \in DOMAIN backlog' : loopOf[backlog'[i]] = NoLoop
    BY <1>2, <2>1, InvParts DEF OtherHome
  <2> QED BY <2>2, <2>3, InvParts DEF OtherHome
<1>6. QueueInv(queue', loopOf', connections_')
  BY InvParts
<1> QED BY <1>3, <1>5, <1>6, StepParts DEF Covered

LEMMA NewConnectionIInv ==
  ASSUME IInv, NEW c \in Conn, NewConnection(c)
  PROVE  IInv'
<1> DEFINE l == NextLoop
           f == Functor("established", c)
<1>1. /\ l \in Loop /\ (numThreads_ # 0 => l # Base)
      /\ next_' \in Nat /\ (next_' = 0 \/ next_' < numThreads_)
  BY ThreadsAssumption
     DEF IInv, TypeOK, NewConnection, AcceptInto, NextLoop, NextIndex, Loop, Base
<1>2. /\ backlog # <<>> /\ c = Head(backlog) /\ backlog' = Tail(backlog)
      /\ loopOf' = [loopOf EXCEPT ![c] = l]
      /\ connections_' = connections_ \cup {c}
      /\ phase = "serving" /\ callback[Base] = NoCall
      /\ UNCHANGED <<numThreads_, fdLimit, held, call, phase, running, quit>>
  BY DEF NewConnection, AcceptInto, Accept, Ready, userVars, stopVars
<1> HIDE DEF l
<1>3. /\ backlog' \in Seq(Conn) /\ loopOf[c] = NoLoop
      /\ \A i \in DOMAIN backlog' :
           /\ backlog'[i] \in Conn \ {c} /\ loopOf[backlog'[i]] = NoLoop
           /\ \A j \in DOMAIN backlog' : backlog'[i] = backlog'[j] => i = j
  <2>1. /\ backlog \in Seq(Conn) /\ DOMAIN backlog = 1 .. Len(backlog)
        /\ Len(backlog) \in Nat \ {0} /\ c = backlog[1]
    BY <1>2 DEF IInv, TypeOK
  <2>2. /\ backlog' \in Seq(Conn) /\ DOMAIN backlog' = 1 .. Len(backlog) - 1
        /\ \A i \in 1 .. Len(backlog) - 1 : backlog'[i] = backlog[i + 1]
    BY <1>2, <2>1
  <2>3. /\ \A i \in DOMAIN backlog : loopOf[backlog[i]] = NoLoop
        /\ \A i, j \in DOMAIN backlog : backlog[i] = backlog[j] => i = j
    BY InvParts DEF OtherHome
  <2>4. 1 \in DOMAIN backlog
    BY <2>1
  <2>5. ASSUME NEW i \in DOMAIN backlog'
        PROVE  /\ i \in Nat /\ i + 1 \in DOMAIN backlog /\ i + 1 # 1
               /\ backlog'[i] = backlog[i + 1] /\ backlog[i + 1] \in Conn
    BY <2>1, <2>2, <2>5
  <2>6. ASSUME NEW i \in DOMAIN backlog', NEW j \in DOMAIN backlog',
               backlog'[i] = backlog'[j]
        PROVE  i = j
    <3>1. i + 1 = j + 1 /\ i \in Nat /\ j \in Nat
      BY <2>3, <2>5, <2>6
    <3> QED BY <3>1
  <2>7. ASSUME NEW i \in DOMAIN backlog'
        PROVE  backlog'[i] \in Conn \ {c} /\ loopOf[backlog'[i]] = NoLoop
    BY <2>1, <2>3, <2>4, <2>5, <2>7
  <2> QED BY <2>1, <2>2, <2>3, <2>4, <2>6, <2>7
<1>4. /\ loopOf' \in [Conn -> Loop \cup {NoLoop}] /\ loopOf'[c] = l
      /\ \A d \in Conn \ {c} : loopOf'[d] = loopOf[d]
  BY <1>1, <1>2 DEF IInv, TypeOK
<1>5. \A k \in Loop : k # NoLoop
  BY LoopFacts
<1>6. QueueInv(queue, loopOf', connections_')
  <2>1. ASSUME NEW k \in Loop, NEW i \in DOMAIN queue[k]
        PROVE  queue[k][i].conn \in Conn \ {c}
    <3>1. queue[k] \in Seq(Functors)
      BY DEF IInv, TypeOK
    <3>2. queue[k][i].conn \in Conn
      <4>1. queue[k][i] \in Functors
        BY <3>1
      <4> QED BY <4>1 DEF Functors
    <3>3. loopOf[queue[k][i].conn] # NoLoop
      BY <1>5, InvParts DEF QueueInv, AtLoop
    <3> QED BY <1>3, <3>2, <3>3
  <2> QED BY <1>2, <1>4, <2>1, InvParts DEF QueueInv, AtLoop
<1>7. /\ queue' \in QType /\ QueueInv(queue', loopOf', connections_')
      /\ \A k \in Loop : \A d : Doomed(queue, k, d) => Doomed(queue', k, d)
      /\ ConnTypes' /\ \A d \in Conn \ {c} : registered'[d] = registered[d]
      /\ revived' = revived
      /\ \A k \in Loop : \/ callback'[k] = callback[k]
                         \/ k = Base /\ k = l /\ callback'[k] = [op |-> "up", conn |-> c]
  <2>1. queue \in QType
    BY DEF IInv, TypeOK, QType
  <2>2. CASE numThreads_ = 0
    <3>1. Establish(c, Base) /\ queue' = queue /\ l = Base
      BY <2>2 DEF NewConnection, AcceptInto, l, NextLoop
    <3> QED BY <1>6, <2>1, <3>1, LoopFacts, EstablishFacts DEF IInv
  <2>3. CASE numThreads_ # 0
    <3>1. /\ queue' = Enqueue(queue, l, f)
          /\ UNCHANGED <<state_, registered, ups, downs, revived, callback>>
      BY <2>3 DEF NewConnection, AcceptInto, l, connVars
    <3>2. f \in Functors /\ f.op = "established" /\ f.conn = c
      BY FunctorType
    <3>3. AtLoop(f, l, loopOf')
      BY <1>1, <1>4, <2>3, <3>2 DEF AtLoop
    <3>4. \A d : f # Functor("destroyed", d)
      BY DEF Functor
    <3> HIDE DEF f
    <3>5. /\ queue' \in QType /\ QueueInv(queue', loopOf', connections_')
          /\ \A k \in Loop : \A d : Doomed(queue, k, d) => Doomed(queue', k, d)
      BY <1>1, <1>2, <1>6, <2>1, <3>1, <3>2, <3>3, EnqueueKeeps
    <3> QED BY <3>1, <3>5 DEF ConnTypes, IInv, TypeOK
  <2> QED BY <2>2, <2>3
<1>8. TypeOK'
  <2>1. /\ numThreads_' \in 0 .. MaxThreads /\ fdLimit' \in Nat
        /\ next_' \in Nat /\ (next_' = 0 \/ next_' < numThreads_')
    BY <1>1, <1>2 DEF IInv, TypeOK
  <2>2. /\ connections_' \subseteq Conn /\ held' \subseteq Conn
        /\ call' \in [op : CallOps, conn : Conn] \cup {NoCall}
        /\ phase' \in {"built", "serving", "reset", "quit", "join", "gone"}
        /\ running' \subseteq Loop /\ quit' \subseteq Loop
    BY <1>2 DEF IInv, TypeOK
  <2>3. ConnTypes' /\ queue' \in [Loop -> Seq(Functors)]
    BY <1>7 DEF QType
  <2> QED BY <1>3, <1>4, <2>1, <2>2, <2>3 DEF TypeOK, ConnTypes
<1>9. OtherHome'
  <2>1. ASSUME NEW k \in Loop, callback'[k] # NoCall PROVE loopOf'[callback'[k].conn] = k
    <3>1. CASE callback'[k] = callback[k]
      <4>1. callback[k].conn \in Conn /\ loopOf[callback[k].conn] = k
        BY <2>1, <3>1, CallbackType, InvParts DEF OtherHome
      <4> QED BY <1>3, <1>4, <1>5, <3>1, <4>1
    <3>2. CASE k = l /\ callback'[k] = [op |-> "up", conn |-> c]
      BY <1>4, <3>2
    <3> QED BY <1>7, <3>1, <3>2
  <2>2. \A d \in connections_' \cup held' : loopOf'[d] # NoLoop
    BY <1>1, <1>2, <1>4, <1>5, InvParts DEF OtherHome, TypeOK
  <2>3. call' # NoCall => loopOf'[call'.conn] # NoLoop
    <3> SUFFICES ASSUME call # NoCall PROVE loopOf'[call.conn] # NoLoop
      BY <1>2
    <3>1. call.conn \in Conn /\ loopOf[call.conn] # NoLoop
      BY InvParts DEF TypeOK, OtherHome
    <3> QED BY <1>3, <1>4, <3>1
  <2>4. \A i \in DOMAIN backlog' : loopOf'[backlog'[i]] = NoLoop
    BY <1>3, <1>4
  <2> QED BY <1>2, <1>3, <2>1, <2>2, <2>3, <2>4 DEF OtherHome
<1>10. ASSUME NEW d \in Conn, registered'[d], loopOf'[d] \in running'
       PROVE  \/ registered[d] /\ loopOf[d] \in running /\ (Covered(d) => Covered(d)')
              \/ Covered(d)'
  <2>1. CASE d = c
    BY <1>2, <2>1 DEF Covered
  <2>2. CASE d # c
    <3>1. registered[d] /\ loopOf'[d] = loopOf[d] /\ loopOf[d] \in running /\ loopOf[d] \in Loop
      BY <1>2, <1>4, <1>7, <1>10, <2>2 DEF IInv, TypeOK
    <3>2. callback[loopOf[d]] = [op |-> "destroyed", conn |-> d] =>
            callback'[loopOf[d]] = callback[loopOf[d]]
      BY <1>2, <1>7, <3>1 DEF NoCall
    <3> QED BY <1>2, <1>7, <3>1, <3>2 DEF Covered, Doomed
  <2> QED BY <2>1, <2>2
<1> QED BY <1>7, <1>8, <1>9, <1>10, StepParts

\* What is left of OtherHome and RegisteredHeld when an action of a loop, or
\* of the destructor, changes the callbacks at l, the queues and the map.
LEMMA LoopKeeps ==
  ASSUME IInv, TypeOK', NEW l \in Loop,
         QueueInv(queue', loopOf, connections_'),
         UNCHANGED <<next_, backlog, loopOf, held, call, phase, revived>>,
         connections_' \subseteq connections_,
         \A k \in Loop \ {l} : callback'[k] = callback[k],
         callback'[l] # NoCall => loopOf[callback'[l].conn] = l,
         \A d \in Conn : registered'[d] /\ loopOf[d] \in running' =>
            \/ registered[d] /\ loopOf[d] \in running /\ (Covered(d) => Covered(d)')
            \/ Covered(d)'
  PROVE  IInv'
<1>1. OtherHome'
  BY InvParts DEF OtherHome
<1> QED BY <1>1, StepParts

\* The same for an action that leaves callbacks and channels as they are.
LEMMA QuietKeeps ==
  ASSUME IInv, TypeOK', QueueInv(queue', loopOf, connections_'),
         UNCHANGED <<next_, loopOf, callback, registered, revived>>,
         backlog' = backlog \/ backlog' = <<>>,
         phase' = "built" => phase = "built",
         connections_' \subseteq connections_,
         \A d \in held' : loopOf[d] # NoLoop,
         call' # NoCall => loopOf[call'.conn] # NoLoop,
         running' \subseteq running,
         \A d \in Conn : loopOf[d] \in running' /\ Covered(d) => Covered(d)'
  PROVE  IInv'
<1>1. OtherHome'
  <2>1. \A i \in DOMAIN backlog' : i \in DOMAIN backlog /\ backlog'[i] = backlog[i]
    OBVIOUS
  <2>2. /\ \A i \in DOMAIN backlog' : loopOf[backlog'[i]] = NoLoop
        /\ \A i, j \in DOMAIN backlog' : backlog'[i] = backlog'[j] => i = j
    BY <2>1, InvParts DEF OtherHome
  <2> QED BY <2>2, InvParts DEF OtherHome
<1> QED BY <1>1, StepParts

\* The pointers the application has are of connections with a loop.
LEMMA UserFacts ==
  ASSUME IInv
  PROVE  /\ \A d \in held : loopOf[d] # NoLoop
         /\ call # NoCall => loopOf[call.conn] # NoLoop
BY InvParts DEF OtherHome

\* The loop takes its first functor and nothing else happens to the queues.
LEMMA TakeFacts ==
  ASSUME IInv, NEW l \in Loop, NEW op, Run(l, op)
  PROVE  /\ Rest(l) \in QType /\ QueueInv(Rest(l), loopOf, connections_)
         /\ \A k \in Loop : \A d : Doomed(queue, k, d) /\ (op = "destroyed" /\ k = l => Head(queue[l]).conn # d)
                                 => Doomed(Rest(l), k, d)
         /\ callback[l] = NoCall /\ l \in running
<1>1. /\ queue \in QType /\ queue[l] # <<>> /\ Head(queue[l]).op = op
  BY RunIsHead
<1>2. QueueInv(queue, loopOf, connections_) /\ Rest(l) = [queue EXCEPT ![l] = Tail(@)]
  BY InvParts DEF Rest
<1>3. ASSUME NEW d, op = "destroyed" => Head(queue[l]).conn # d
      PROVE  Head(queue[l]) # Functor("destroyed", d)
  BY <1>1, <1>3 DEF Functor
<1>4. /\ Rest(l) \in QType /\ QueueInv(Rest(l), loopOf, connections_)
      /\ \A k \in Loop : \A d : Doomed(queue, k, d) /\ (k = l => Head(queue[l]) # Functor("destroyed", d))
                               => Doomed(Rest(l), k, d)
  BY <1>1, <1>2, RestKeeps
<1> QED BY <1>3, <1>4 DEF Run, Ready

LEMMA RemoveConnectionInLoopIInv ==
  ASSUME IInv, RemoveConnectionInLoop
  PROVE  IInv'
<1> DEFINE c == Head(queue[Base]).conn
           l == loopOf[c]
           f == Functor("destroyed", c)
           r == Rest(Base)
<1>1. /\ Run(Base, "remove") /\ queue' = Enqueue(r, l, f)
      /\ connections_' = connections_ \ {c}
      /\ UNCHANGED <<acceptVars, connVars, callback, userVars, stopVars>>
  BY DEF RemoveConnectionInLoop, RemoveLeaving
<1>2. Base \in Loop /\ c \in Conn /\ l \in Loop
  <2>1. /\ Base \in Loop /\ c \in Conn /\ Head(queue[Base]).op = "remove"
        /\ AtLoop(Head(queue[Base]), Base, loopOf)
    BY <1>1, RunIsHead, LoopFacts
  <2>2. l # NoLoop
    BY <2>1 DEF AtLoop
  <2> QED BY <2>1, <2>2 DEF IInv, TypeOK
<1>3. /\ f \in Functors /\ f.op = "destroyed" /\ f.conn = c /\ AtLoop(f, l, loopOf)
      /\ \A d \in connections_ : d \in connections_' \/ f = Functor("destroyed", d)
  BY <1>1, <1>2, FunctorType DEF AtLoop
<1>4. /\ r \in QType /\ QueueInv(r, loopOf, connections_)
      /\ \A k \in Loop : \A d : Doomed(queue, k, d) => Doomed(r, k, d)
  BY <1>1, <1>2, TakeFacts
<1> HIDE DEF r, f, l
<1>5. /\ queue' \in QType /\ QueueInv(queue', loopOf, connections_')
      /\ \A k \in Loop : \A d : Doomed(r, k, d) => Doomed(queue', k, d)
      /\ \A d : f = Functor("destroyed", d) => Doomed(queue', l, d)
  <2>1. f.op = "established" => f.conn \in connections_'
    BY <1>3
  <2>2. queue' = Enqueue(r, l, f)
    BY <1>1
  <2> QED BY <1>2, <1>3, <1>4, <2>1, <2>2, EnqueueKeeps
<1> HIDE DEF c
<1>6. /\ UNCHANGED <<next_, backlog, loopOf, held, call, phase>>
      /\ UNCHANGED <<callback, registered, revived, running>>
      /\ connections_' \subseteq connections_
  BY <1>1 DEF acceptVars, connVars, userVars, stopVars
<1>7. TypeOK'
  BY <1>1, <1>5 DEF IInv, TypeOK, QType, acceptVars, connVars, userVars, stopVars
<1>8. ASSUME NEW d \in Conn, loopOf[d] \in running', Covered(d) PROVE Covered(d)'
  <2>1. loopOf[d] \in Loop
    BY <1>6, <1>8 DEF IInv, TypeOK
  <2>2. CASE d = c
    BY <1>3, <1>5, <1>6, <2>2 DEF f, l, Covered, Doomed
  <2>3. CASE d # c
    BY <1>1, <1>4, <1>5, <1>6, <1>8, <2>1, <2>3 DEF Covered, Doomed
  <2> QED BY <2>2, <2>3
<1> QED BY <1>5, <1>6, <1>7, <1>8, UserFacts, QuietKeeps

LEMMA ConnectEstablishedIInv ==
  ASSUME IInv, NEW l \in Loop, ConnectEstablished(l)
  PROVE  IInv'
<1> DEFINE c == Head(queue[l]).conn
<1>1. /\ Run(l, "established") /\ Establish(c, l) /\ queue' = Rest(l)
      /\ UNCHANGED <<acceptVars, connections_, userVars, stopVars>>
  BY DEF ConnectEstablished, LoopUnchanged
<1>2. /\ c \in Conn /\ 1 \in DOMAIN queue[l] /\ Head(queue[l]) = queue[l][1]
      /\ Head(queue[l]).op = "established" /\ AtLoop(Head(queue[l]), l, loopOf)
  BY <1>1, RunIsHead
<1>3. loopOf[c] = l
  BY <1>2 DEF AtLoop
<1>4. c \in connections_ \/ Doomed(queue, l, c)
  BY <1>2, InvParts DEF QueueInv, DoomedAfter, Doomed
<1> HIDE DEF c
<1>5. /\ ConnTypes' /\ \A d \in Conn \ {c} : registered'[d] = registered[d]
      /\ callback'[l] = [op |-> "up", conn |-> c] /\ revived' = revived
      /\ \A k \in Loop \ {l} : callback'[k] = callback[k]
  BY <1>1, <1>2, EstablishFacts DEF IInv
<1>6. /\ queue' \in QType /\ QueueInv(queue', loopOf, connections_')
      /\ \A k \in Loop : \A d : Doomed(queue, k, d) => Doomed(queue', k, d)
      /\ callback[l] = NoCall
  BY <1>1, TakeFacts
<1>7. TypeOK'
  BY <1>1, <1>5, <1>6 DEF IInv, TypeOK, QType, ConnTypes, acceptVars, userVars, stopVars
<1>8. ASSUME NEW d \in Conn, registered'[d], loopOf[d] \in running'
      PROVE  \/ registered[d] /\ loopOf[d] \in running /\ (Covered(d) => Covered(d)')
             \/ Covered(d)'
  <2>1. loopOf[d] \in Loop /\ loopOf[d] \in running
    BY <1>1, <1>8 DEF IInv, TypeOK, stopVars
  <2>2. CASE d = c
    BY <1>1, <1>3, <1>4, <1>6, <2>2 DEF Covered, Doomed, acceptVars
  <2>3. CASE d # c
    <3>1. callback[loopOf[d]] = [op |-> "destroyed", conn |-> d] =>
            callback'[loopOf[d]] = callback[loopOf[d]]
      BY <1>5, <1>6, <2>1 DEF NoCall
    <3> QED BY <1>1, <1>5, <1>6, <1>8, <2>1, <2>3, <3>1 DEF Covered, Doomed, acceptVars
  <2> QED BY <2>2, <2>3
<1> QED BY <1>1, <1>3, <1>5, <1>6, <1>7, <1>8, LoopKeeps DEF acceptVars, userVars, stopVars

LEMMA ConnectDestroyedIInv ==
  ASSUME IInv, NEW l \in Loop, ConnectDestroyed(l)
  PROVE  IInv'
<1> DEFINE c == Head(queue[l]).conn
<1>1. /\ Run(l, "destroyed") /\ Destroy(c, l) /\ queue' = Rest(l)
      /\ UNCHANGED <<acceptVars, connections_, userVars, stopVars>>
  BY DEF ConnectDestroyed, LoopUnchanged
<1>2. c \in Conn /\ loopOf[c] = l
  BY <1>1, RunIsHead DEF AtLoop
<1>3. /\ queue' \in QType /\ QueueInv(queue', loopOf, connections_')
      /\ \A k \in Loop : \A d : Doomed(queue, k, d) /\ c # d => Doomed(queue', k, d)
      /\ callback[l] = NoCall
  BY <1>1, TakeFacts
<1> HIDE DEF c
<1>4. /\ ConnTypes' /\ \A d \in Conn \ {c} : registered'[d] = registered[d]
      /\ revived' = revived
      /\ \A k \in Loop \ {l} : callback'[k] = callback[k]
      /\ \/ callback'[l] = callback[l] /\ ~registered'[c]
         \/ callback'[l] = [op |-> "destroyed", conn |-> c]
  BY <1>1, <1>2, DestroyFacts DEF IInv
<1>5. TypeOK'
  BY <1>1, <1>3, <1>4 DEF IInv, TypeOK, QType, ConnTypes, acceptVars, userVars, stopVars
<1>6. ASSUME NEW d \in Conn, registered'[d], loopOf[d] \in running'
      PROVE  \/ registered[d] /\ loopOf[d] \in running /\ (Covered(d) => Covered(d)')
             \/ Covered(d)'
  <2>1. loopOf[d] \in Loop /\ loopOf[d] \in running
    BY <1>1, <1>6 DEF IInv, TypeOK, stopVars
  <2>2. CASE d = c
    BY <1>1, <1>2, <1>4, <1>6, <2>2 DEF Covered, acceptVars
  <2>3. CASE d # c
    <3>1. callback[loopOf[d]] = [op |-> "destroyed", conn |-> d] =>
            callback'[loopOf[d]] = callback[loopOf[d]]
      BY <1>3, <1>4, <2>1 DEF NoCall
    <3> QED BY <1>1, <1>3, <1>4, <1>6, <2>1, <2>3, <3>1 DEF Covered, Doomed, acceptVars
  <2> QED BY <2>2, <2>3
<1> QED BY <1>1, <1>2, <1>3, <1>4, <1>5, <1>6, LoopKeeps DEF acceptVars, userVars, stopVars

LEMMA RunCallIInv ==
  ASSUME IInv, NEW l \in Loop, RunCall(l)
  PROVE  IInv'
<1>1. UNCHANGED <<acceptVars, connections_, userVars, stopVars, connVars, callback>>
  BY DEF RunCall, LoopUnchanged
<1>2. /\ queue' \in QType /\ QueueInv(queue', loopOf, connections_)
      /\ \A k \in Loop : \A d : Doomed(queue, k, d) => Doomed(queue', k, d)
  <2>1. CASE (Run(l, "shutdown") \/ Run(l, "sendFile")) /\ queue' = Rest(l)
    <3>1. CASE Run(l, "shutdown")
      BY <2>1, <3>1, TakeFacts
    <3>2. CASE Run(l, "sendFile")
      BY <2>1, <3>2, TakeFacts
    <3> QED BY <2>1, <3>1, <3>2
  <2>2. CASE Run(l, "sendFile") /\ queue' = Enqueue(Rest(l), l, Head(queue[l]))
    <3> DEFINE f == Head(queue[l])
               r == Rest(l)
    <3>1. /\ f \in Functors /\ f.op = "sendFile" /\ AtLoop(f, l, loopOf)
          /\ \A d : f # Functor("destroyed", d)
      <4>1. /\ f.op = "sendFile" /\ f.conn \in Conn /\ AtLoop(f, l, loopOf)
            /\ f = Functor("sendFile", f.conn)
        BY <2>2, RunIsHead
      <4>2. Functor("sendFile", f.conn) \in Functors
        BY <4>1, FunctorType DEF CallOps
      <4>3. \A d : f # Functor("destroyed", d)
        BY <4>1 DEF Functor
      <4> QED BY <4>1, <4>2, <4>3
    <3>2. /\ r \in QType /\ QueueInv(r, loopOf, connections_)
          /\ \A k \in Loop : \A d : Doomed(queue, k, d) => Doomed(r, k, d)
      BY <2>2, TakeFacts
    <3>3. queue' = Enqueue(r, l, f)
      BY <2>2
    <3> HIDE DEF f, r
    <3>4. /\ queue' \in QType /\ QueueInv(queue', loopOf, connections_)
          /\ \A k \in Loop : \A d : Doomed(r, k, d) => Doomed(queue', k, d)
      BY <3>1, <3>2, <3>3, EnqueueKeeps
    <3> QED BY <3>2, <3>4
  <2> QED BY <2>1, <2>2 DEF RunCall
<1>3. TypeOK'
  BY <1>1, <1>2 DEF IInv, TypeOK, QType, acceptVars, connVars, userVars, stopVars
<1>4. ASSUME NEW d \in Conn, loopOf[d] \in running', Covered(d) PROVE Covered(d)'
  <2>1. loopOf[d] \in Loop
    BY <1>1, <1>4 DEF IInv, TypeOK, stopVars
  <2> QED BY <1>1, <1>2, <1>4, <2>1 DEF Covered, Doomed, acceptVars
<1>5. /\ UNCHANGED <<next_, backlog, loopOf, held, call, phase>>
      /\ UNCHANGED <<connections_, callback, registered, revived, running>>
  BY <1>1 DEF acceptVars, connVars, userVars, stopVars
<1> QED BY <1>2, <1>3, <1>4, <1>5, UserFacts, QuietKeeps

LEMMA RunSendIInv ==
  ASSUME IInv, NEW l \in Loop, RunSend(l)
  PROVE  IInv'
<1> DEFINE c == Head(queue[l]).conn
<1>1. /\ Run(l, "send") /\ queue' = Rest(l)
      /\ UNCHANGED <<acceptVars, connections_, userVars, stopVars, state_, ups, downs, callback>>
  BY DEF RunSend, LoopUnchanged
<1>2. PICK rest \in BOOLEAN :
        /\ registered' = [registered EXCEPT ![c] = @ \/ rest]
        /\ revived' = IF rest /\ ~registered[c] THEN revived \cup {c} ELSE revived
  BY DEF RunSend
<1>3. c \in Conn
  BY <1>1, RunIsHead
<1>4. /\ queue' \in QType /\ QueueInv(queue', loopOf, connections_)
      /\ \A k \in Loop : \A d : Doomed(queue, k, d) => Doomed(queue', k, d)
  BY <1>1, TakeFacts
<1> HIDE DEF c
<1>5. /\ registered' \in [Conn -> BOOLEAN] /\ revived' \subseteq Conn
      /\ revived \subseteq revived'
      /\ \A d \in Conn : registered'[d] => registered[d] \/ d \in revived'
  <2>1. registered[c] \in BOOLEAN /\ (registered[c] \/ rest) \in BOOLEAN
    BY <1>3 DEF IInv, TypeOK
  <2>2. registered' \in [Conn -> BOOLEAN]
    BY <1>2, <2>1 DEF IInv, TypeOK
  <2>3. ASSUME NEW d \in Conn, registered'[d] PROVE registered[d] \/ d \in revived'
    BY <1>2, <2>3 DEF IInv, TypeOK
  <2> QED BY <1>2, <1>3, <2>2, <2>3 DEF IInv, TypeOK
<1>6. TypeOK'
  BY <1>1, <1>4, <1>5 DEF IInv, TypeOK, QType, acceptVars, userVars, stopVars
<1>7. OtherHome'
  BY <1>1, InvParts DEF OtherHome, acceptVars, userVars, stopVars
<1>8. ASSUME NEW d \in Conn, registered'[d], loopOf'[d] \in running'
      PROVE  \/ registered[d] /\ loopOf[d] \in running /\ (Covered(d) => Covered(d)')
             \/ d \in revived'
  <2>1. loopOf[d] \in running /\ loopOf[d] \in Loop /\ loopOf' = loopOf
    BY <1>1, <1>8 DEF IInv, TypeOK, acceptVars, stopVars
  <2>2. Covered(d) => Covered(d)'
    BY <1>1, <1>4, <2>1 DEF Covered, Doomed
  <2> QED BY <1>5, <1>8, <2>1, <2>2
<1>9. QueueInv(queue', loopOf', connections_')
  BY <1>1, <1>4 DEF acceptVars
<1> QED BY <1>5, <1>6, <1>7, <1>8, <1>9, StepParts

LEMMA HandleCloseIInv ==
  ASSUME IInv, NEW l \in Loop, NEW c \in Conn, HandleClose(l, c)
  PROVE  IInv'
<1>1. /\ callback[l] = NoCall /\ loopOf[c] = l /\ Calls(l, "close", c)
      /\ state_' = [state_ EXCEPT ![c] = "kDisconnected"]
      /\ registered' = [registered EXCEPT ![c] = FALSE]
      /\ downs' = [downs EXCEPT ![c] = downs[c] + 1]
      /\ UNCHANGED <<acceptVars, connections_, userVars, stopVars, queue, ups, revived>>
  BY DEF HandleClose, CloseTo, LoopUnchanged, Ready
<1>2. /\ callback' \in [Loop -> Callbacks \cup {NoCall}]
      /\ callback'[l] = [op |-> "close", conn |-> c]
      /\ \A k \in Loop \ {l} : callback'[k] = callback[k]
  BY <1>1, CallsType DEF IInv
<1>3. TypeOK'
  <2>1. downs' \in [Conn -> Nat]
    BY <1>1 DEF IInv, TypeOK
  <2> QED BY <1>1, <1>2, <2>1 DEF IInv, TypeOK, acceptVars, userVars, stopVars
<1>4. ASSUME NEW d \in Conn, registered'[d], loopOf[d] \in running'
      PROVE  registered[d] /\ loopOf[d] \in running /\ (Covered(d) => Covered(d)')
  <2>1. registered[d] /\ loopOf[d] \in running
    BY <1>1, <1>4 DEF IInv, TypeOK, stopVars
  <2>2. callback[loopOf[d]] = [op |-> "destroyed", conn |-> d] =>
          callback'[loopOf[d]] = callback[loopOf[d]]
    BY <1>1, <1>2, <2>1 DEF NoCall, IInv, TypeOK
  <2> QED BY <1>1, <2>1, <2>2 DEF Covered, acceptVars
<1>5. QueueInv(queue', loopOf, connections_')
  BY <1>1, InvParts
<1> QED BY <1>1, <1>2, <1>3, <1>4, <1>5, LoopKeeps DEF acceptVars, userVars, stopVars

LEMMA ReturnFromCloseIInv ==
  ASSUME IInv, NEW l \in Loop, ReturnFromClose(l)
  PROVE  IInv'
<1> DEFINE c == callback[l].conn
           op == IF l = Base THEN "destroyed" ELSE "remove"
           f == Functor(op, c)
<1>1. /\ callback[l] # NoCall /\ callback[l].op = "close"
      /\ callback' = [callback EXCEPT ![l] = NoCall]
      /\ queue' = Enqueue(queue, Base, f)
      /\ connections_' = IF l = Base THEN connections_ \ {c} ELSE connections_
      /\ UNCHANGED <<acceptVars, connVars, userVars, stopVars>>
  BY DEF ReturnFromClose
<1>2. c \in Conn /\ loopOf[c] = l
  BY <1>1, CallbackType, InvParts DEF OtherHome
<1>3. /\ f \in Functors /\ f.op = op /\ f.conn = c /\ AtLoop(f, Base, loopOf)
      /\ op # "established"
      /\ \A d \in connections_ : d \in connections_' \/ f = Functor("destroyed", d)
  BY <1>1, <1>2, FunctorType, LoopFacts DEF AtLoop
<1>4. queue \in QType /\ Base \in Loop
  BY LoopFacts DEF IInv, TypeOK, QType
<1>5. l = Base => f = Functor("destroyed", c)
  OBVIOUS
<1> HIDE DEF f, op
<1>6. /\ queue' \in QType /\ QueueInv(queue', loopOf, connections_')
      /\ \A k \in Loop : \A d : Doomed(queue, k, d) => Doomed(queue', k, d)
      /\ \A d : f = Functor("destroyed", d) => Doomed(queue', Base, d)
  BY <1>1, <1>3, <1>4, InvParts, EnqueueKeeps
<1>7. /\ callback'[l] = NoCall /\ \A k \in Loop \ {l} : callback'[k] = callback[k]
      /\ callback' \in [Loop -> Callbacks \cup {NoCall}]
  BY <1>1 DEF IInv, TypeOK
<1>8. /\ UNCHANGED <<next_, backlog, loopOf, held, call, phase, registered, revived, running>>
      /\ connections_' \subseteq connections_
  BY <1>1 DEF acceptVars, connVars, userVars, stopVars
<1>9. TypeOK'
  <2>1. connections_' \subseteq Conn
    BY <1>8 DEF IInv, TypeOK
  <2> QED BY <1>1, <1>6, <1>7, <2>1
          DEF IInv, TypeOK, QType, acceptVars, connVars, userVars, stopVars
<1>10. ASSUME NEW d \in Conn, registered'[d], loopOf[d] \in running'
       PROVE  registered[d] /\ loopOf[d] \in running /\ (Covered(d) => Covered(d)')
  <2>1. registered[d] /\ loopOf[d] \in running /\ loopOf[d] \in Loop
    BY <1>8, <1>10 DEF IInv, TypeOK
  <2>2. CASE l = Base /\ d = c
    BY <1>2, <1>5, <1>6, <1>8, <2>1, <2>2 DEF Covered, Doomed
  <2>3. CASE ~(l = Base /\ d = c)
    <3>1. d \in connections_ => d \in connections_'
      BY <1>1, <2>3
    <3>2. callback[loopOf[d]] = [op |-> "destroyed", conn |-> d] =>
            callback'[loopOf[d]] = callback[loopOf[d]]
      BY <1>1, <1>7, <2>1
    <3> QED BY <1>6, <1>8, <2>1, <3>1, <3>2 DEF Covered, Doomed
  <2> QED BY <2>2, <2>3
<1> QED BY <1>6, <1>7, <1>8, <1>9, <1>10, LoopKeeps

LEMMA ReturnFromCallbackIInv ==
  ASSUME IInv, NEW l \in Loop, ReturnFromCallback(l)
  PROVE  IInv'
<1> DEFINE c == callback[l].conn
<1>1. /\ callback[l] # NoCall
      /\ callback' = [callback EXCEPT ![l] = NoCall]
      /\ registered' = [registered EXCEPT ![c] = @ /\ callback[l].op # "destroyed"]
      /\ UNCHANGED <<acceptVars, connections_, userVars, stopVars, state_, ups, downs, revived,
                     queue>>
  BY DEF ReturnFromCallback, LoopUnchanged
<1>2. c \in Conn
  BY <1>1, CallbackType DEF IInv
<1>3. /\ callback'[l] = NoCall /\ \A k \in Loop \ {l} : callback'[k] = callback[k]
      /\ callback' \in [Loop -> Callbacks \cup {NoCall}]
  BY <1>1 DEF IInv, TypeOK
<1>4. registered' \in [Conn -> BOOLEAN]
  <2>1. registered[c] \in BOOLEAN /\ (registered[c] /\ callback[l].op # "destroyed") \in BOOLEAN
    BY <1>2 DEF IInv, TypeOK
  <2> QED BY <1>1, <1>2, <2>1 DEF IInv, TypeOK
<1>5. TypeOK'
  BY <1>1, <1>3, <1>4 DEF IInv, TypeOK, acceptVars, userVars, stopVars
<1>6. ASSUME NEW d \in Conn, registered'[d], loopOf[d] \in running'
      PROVE  registered[d] /\ loopOf[d] \in running /\ (Covered(d) => Covered(d)')
  <2>1. /\ registered[d] /\ loopOf[d] \in running /\ loopOf[d] \in Loop
        /\ (d = c => callback[l].op # "destroyed")
    BY <1>1, <1>2, <1>6 DEF IInv, TypeOK, stopVars
  <2>2. callback[loopOf[d]] = [op |-> "destroyed", conn |-> d] =>
          callback'[loopOf[d]] = callback[loopOf[d]]
    BY <1>1, <1>3, <2>1
  <2> QED BY <1>1, <2>1, <2>2 DEF Covered, acceptVars
<1>7. QueueInv(queue', loopOf, connections_')
  BY <1>1, InvParts
<1> QED BY <1>1, <1>3, <1>5, <1>6, <1>7, LoopKeeps DEF acceptVars, userVars, stopVars

-----------------------------------------------------------------------------
\* Loops that end, and main

\* The queue of one loop is dropped.
LEMMA ClearKeeps ==
  ASSUME IInv, NEW l \in Loop, NEW r, r = [queue EXCEPT ![l] = <<>>]
  PROVE  /\ r \in QType /\ QueueInv(r, loopOf, connections_)
         /\ \A k \in Loop \ {l} : r[k] = queue[k]
<1>1. <<>> \in Seq(Functors)
  OBVIOUS
<1>2. r \in QType /\ r[l] = <<>> /\ \A k \in Loop \ {l} : r[k] = queue[k]
  BY <1>1 DEF IInv, TypeOK, QType
<1>3. \A k \in Loop : \A i \in DOMAIN r[k] : k # l
  BY <1>2
<1> QED BY <1>2, <1>3, InvParts DEF QueueInv, DoomedAfter

LEMMA LoopExitIInv ==
  ASSUME IInv, NEW l \in Loop, LoopExit(l)
  PROVE  IInv'
<1>1. /\ running' = running \ {l} /\ queue' = [queue EXCEPT ![l] = <<>>]
      /\ UNCHANGED <<acceptVars, connVars, connections_, callback, userVars, phase, quit>>
  BY DEF LoopExit
<1>2. /\ queue' \in QType /\ QueueInv(queue', loopOf, connections_)
      /\ \A k \in Loop \ {l} : queue'[k] = queue[k]
  BY <1>1, ClearKeeps
<1>3. TypeOK'
  BY <1>1, <1>2 DEF IInv, TypeOK, QType, acceptVars, connVars, userVars
<1>4. ASSUME NEW d \in Conn, loopOf[d] \in running', Covered(d) PROVE Covered(d)'
  <2>1. loopOf[d] \in Loop \ {l}
    BY <1>1, <1>4 DEF IInv, TypeOK
  <2> QED BY <1>1, <1>2, <1>4, <2>1 DEF Covered, acceptVars
<1>5. /\ UNCHANGED <<next_, loopOf, callback, registered, revived, backlog, phase, connections_,
                held, call>>
      /\ running' \subseteq running
  BY <1>1 DEF acceptVars, connVars, userVars
<1> QED BY <1>2, <1>3, <1>4, <1>5, UserFacts, QuietKeeps

LEMMA ServerGoneIInv ==
  ASSUME IInv, ServerGone
  PROVE  IInv'
<1>1. /\ phase' = "gone" /\ running' = {} /\ backlog' = <<>>
      /\ queue' = [queue EXCEPT ![Base] = <<>>]
      /\ UNCHANGED <<numThreads_, next_, fdLimit, loopOf, connVars, connections_,
                     callback, userVars, quit>>
  BY DEF ServerGone
<1>2. queue' \in QType /\ QueueInv(queue', loopOf, connections_)
  BY <1>1, LoopFacts, ClearKeeps
<1>3. TypeOK'
  BY <1>1, <1>2 DEF IInv, TypeOK, QType, connVars, userVars
<1>4. UNCHANGED <<next_, loopOf, callback, registered, revived, connections_, held, call>>
  BY <1>1 DEF connVars, userVars
<1>5. /\ backlog' = <<>> /\ phase' # "built" /\ running' \subseteq running
      /\ \A d \in Conn : loopOf[d] \notin running'
  BY <1>1
<1> QED BY <1>2, <1>3, <1>4, <1>5, UserFacts, QuietKeeps

\* main goes from one phase to the next.
LEMMA MoveIInv ==
  ASSUME IInv, BaseLoopEnds \/ ResetDone \/ QuitLoop \/ JoinLoop
  PROVE  IInv'
<1>1. /\ phase' \in {"reset", "quit", "join"} /\ quit' \subseteq Loop
      /\ UNCHANGED <<acceptVars, connVars, connections_, queue, callback, userVars, running>>
  BY DEF BaseLoopEnds, ResetDone, QuitLoop, JoinLoop, MovesTo, StopUnchanged, IInv, TypeOK
<1>2. TypeOK'
  BY <1>1 DEF IInv, TypeOK, acceptVars, connVars, userVars
<1>3. QueueInv(queue', loopOf, connections_')
  BY <1>1, InvParts
<1>4. \A d \in Conn : Covered(d) => Covered(d)'
  BY <1>1 DEF Covered, acceptVars
<1> QED BY <1>1, <1>2, <1>3, <1>4, UserFacts, QuietKeeps DEF acceptVars, connVars, userVars

LEMMA ResetConnectionIInv ==
  ASSUME IInv, NEW c \in Conn, ResetConnection(c)
  PROVE  IInv'
<1> DEFINE l == loopOf[c]
           f == Functor("destroyed", c)
<1>1. /\ c \in connections_ /\ connections_' = connections_ \ {c}
      /\ callback[Base] = NoCall
      /\ UNCHANGED <<acceptVars, userVars, stopVars>>
  BY DEF ResetConnection, StopUnchanged
<1>2. l \in Loop /\ Base \in Loop /\ queue \in QType
  BY <1>1, InvParts, LoopFacts DEF OtherHome, TypeOK, QType
<1>3. CASE l = Base
  <2>1. Destroy(c, Base) /\ queue' = queue
    BY <1>3 DEF ResetConnection
  <2>2. /\ ConnTypes' /\ \A d \in Conn \ {c} : registered'[d] = registered[d]
        /\ revived' = revived
        /\ \A k \in Loop \ {Base} : callback'[k] = callback[k]
        /\ \/ callback'[Base] = callback[Base] /\ ~registered'[c]
           \/ callback'[Base] = [op |-> "destroyed", conn |-> c]
    BY <1>2, <2>1, DestroyFacts DEF IInv
  <2>3. TypeOK'
    BY <1>1, <1>2, <2>1, <2>2 DEF IInv, TypeOK, QType, ConnTypes, acceptVars, userVars, stopVars
  <2>4. QueueInv(queue', loopOf, connections_')
    <3> SUFFICES ASSUME NEW k \in Loop, NEW i \in DOMAIN queue[k]
                 PROVE  /\ AtLoop(queue[k][i], k, loopOf)
                        /\ queue[k][i].op = "established" =>
                             \/ queue[k][i].conn \in connections_'
                             \/ DoomedAfter(queue, k, i, queue[k][i].conn)
      BY <2>1 DEF QueueInv
    <3>1. /\ AtLoop(queue[k][i], k, loopOf)
          /\ queue[k][i].op = "established" =>
               \/ queue[k][i].conn \in connections_
               \/ DoomedAfter(queue, k, i, queue[k][i].conn)
      BY InvParts DEF QueueInv
    <3>2. queue[k][i].op = "established" => queue[k][i].conn # c
      BY <1>3, <3>1 DEF AtLoop
    <3> QED BY <1>1, <3>1, <3>2
  <2>5. ASSUME NEW d \in Conn, registered'[d], loopOf[d] \in running'
        PROVE  \/ registered[d] /\ loopOf[d] \in running /\ (Covered(d) => Covered(d)')
               \/ Covered(d)'
    <3>1. loopOf[d] \in Loop /\ loopOf[d] \in running
      BY <1>1, <2>5 DEF IInv, TypeOK, stopVars
    <3>2. CASE d = c
      BY <1>1, <1>3, <2>2, <2>5, <3>2 DEF Covered, acceptVars
    <3>3. CASE d # c
      <4>1. callback[loopOf[d]] = [op |-> "destroyed", conn |-> d] =>
              callback'[loopOf[d]] = callback[loopOf[d]]
        BY <1>1, <2>2, <3>1 DEF NoCall
      <4> QED BY <1>1, <2>1, <2>2, <2>5, <3>1, <3>3, <4>1 DEF Covered, acceptVars
    <3> QED BY <3>2, <3>3
  <2> QED BY <1>1, <1>2, <1>3, <2>2, <2>3, <2>4, <2>5, LoopKeeps
          DEF acceptVars, userVars, stopVars
<1>4. CASE l # Base
  <2>1. queue' = Enqueue(queue, l, f) /\ UNCHANGED <<connVars, callback>>
    BY <1>4 DEF ResetConnection
  <2>2. /\ f \in Functors /\ f.op = "destroyed" /\ f.conn = c /\ AtLoop(f, l, loopOf)
        /\ \A d \in connections_ : d \in connections_' \/ f = Functor("destroyed", d)
    BY <1>1, FunctorType DEF AtLoop
  <2> HIDE DEF f
  <2>3. /\ queue' \in QType /\ QueueInv(queue', loopOf, connections_')
        /\ \A k \in Loop : \A d : Doomed(queue, k, d) => Doomed(queue', k, d)
        /\ \A d : f = Functor("destroyed", d) => Doomed(queue', l, d)
    <3>1. f.op = "established" => f.conn \in connections_'
      BY <2>2
    <3>2. QueueInv(queue, loopOf, connections_) /\ queue' = Enqueue(queue, l, f)
      BY <2>1, InvParts
    <3> HIDE DEF l
    <3> QED BY <1>2, <2>2, <3>1, <3>2, EnqueueKeeps
  <2>4. TypeOK'
    BY <1>1, <2>1, <2>3 DEF IInv, TypeOK, QType, acceptVars, connVars, userVars, stopVars
  <2>5. ASSUME NEW d \in Conn, loopOf[d] \in running', Covered(d) PROVE Covered(d)'
    <3>1. loopOf[d] \in Loop
      BY <1>1, <2>5 DEF IInv, TypeOK, stopVars
    <3>2. CASE d = c
      BY <1>1, <2>3, <3>2 DEF f, Covered, Doomed, acceptVars
    <3>3. CASE d # c
      BY <1>1, <2>1, <2>3, <2>5, <3>1, <3>3 DEF Covered, Doomed, acceptVars
    <3> QED BY <3>2, <3>3
  <2>6. /\ UNCHANGED <<next_, backlog, loopOf, held, call, phase>>
        /\ UNCHANGED <<callback, registered, revived, running>>
        /\ connections_' \subseteq connections_
    BY <1>1, <2>1 DEF acceptVars, connVars, userVars, stopVars
  <2> QED BY <2>3, <2>4, <2>5, <2>6, UserFacts, QuietKeeps
<1> QED BY <1>3, <1>4

-----------------------------------------------------------------------------
\* The application

LEMMA UserIInv ==
  ASSUME IInv, NEW c \in Conn, KeepPointer(c) \/ DropPointer(c)
  PROVE  IInv'
<1>1. /\ UNCHANGED <<acceptVars, connVars, connections_, queue, callback, call, stopVars>>
      /\ held' = held \cup {c} \/ held' = held \ {c}
  BY DEF KeepPointer, DropPointer, AppUnchanged, connVars
<1>2. \A d \in held' : loopOf[d] # NoLoop
  <2>1. CASE KeepPointer(c)
    <3>1. PICK l \in Loop : callback[l] = [op |-> "up", conn |-> c]
      BY <2>1 DEF KeepPointer
    <3>2. loopOf[c] = l
      BY <3>1, InvParts DEF OtherHome, NoCall
    <3> QED BY <2>1, <3>2, UserFacts, LoopFacts DEF KeepPointer
  <2>2. CASE DropPointer(c)
    BY <2>2, UserFacts DEF DropPointer
  <2> QED BY <2>1, <2>2
<1>3. TypeOK'
  BY <1>1 DEF IInv, TypeOK, acceptVars, connVars, stopVars
<1>4. QueueInv(queue', loopOf, connections_')
  BY <1>1, InvParts
<1>5. \A d \in Conn : Covered(d) => Covered(d)'
  BY <1>1 DEF Covered, acceptVars
<1>6. UNCHANGED <<next_, loopOf, callback, registered, revived, backlog, phase, connections_,
                call, running>>
  BY <1>1 DEF acceptVars, connVars, stopVars
<1> QED BY <1>2, <1>3, <1>4, <1>5, <1>6, UserFacts, QuietKeeps

\* shutdown() in the callback, and the first half of a call
LEMMA CallIInv ==
  ASSUME IInv, NEW c \in Conn,
         OwnerShutdown(c) \/ \E op \in CallOps : BeginCall(op, c)
  PROVE  IInv'
<1>1. /\ UNCHANGED <<acceptVars, registered, ups, downs, revived, connections_, queue, callback,
                     held, stopVars>>
      /\ state_' \in [Conn -> {"kConnecting", "kConnected", "kDisconnecting",
                               "kDisconnected"}]
      /\ \/ call' = call
         \/ call' \in [op : CallOps, conn : Conn] /\ call'.conn \in held
  <2>1. CASE OwnerShutdown(c)
    BY <2>1 DEF OwnerShutdown, AppUnchanged, userVars, IInv, TypeOK
  <2>2. CASE \E op \in CallOps : BeginCall(op, c)
    BY <2>2 DEF BeginCall, AppUnchanged, IInv, TypeOK
  <2> QED BY <2>1, <2>2
<1>2. TypeOK'
  BY <1>1 DEF IInv, TypeOK, acceptVars, stopVars
<1>3. QueueInv(queue', loopOf, connections_')
  BY <1>1, InvParts
<1>4. \A d \in Conn : Covered(d) => Covered(d)'
  BY <1>1 DEF Covered, acceptVars
<1>5. UNCHANGED <<next_, loopOf, callback, registered, revived, backlog, phase, connections_,
                held, running>>
  BY <1>1 DEF acceptVars, stopVars
<1>6. call' # NoCall => loopOf[call'.conn] # NoLoop
  BY <1>1, UserFacts
<1> QED BY <1>2, <1>3, <1>4, <1>5, <1>6, UserFacts, QuietKeeps

LEMMA FinishCallIInv ==
  ASSUME IInv, FinishCall
  PROVE  IInv'
<1> DEFINE c == call.conn
           l == loopOf[c]
           f == Functor(call.op, c)
<1>1. /\ call # NoCall /\ call' = NoCall /\ queue' = Enqueue(queue, l, f)
      /\ state_' \in {[state_ EXCEPT ![c] = "kDisconnecting"], state_}
      /\ UNCHANGED <<acceptVars, registered, ups, downs, revived, connections_, callback, held, stopVars>>
  BY DEF FinishCall, AppUnchanged
<1>2. call.op \in CallOps /\ c \in Conn
  BY <1>1 DEF IInv, TypeOK
<1>3. l \in Loop /\ queue \in QType
  BY <1>1, <1>2, UserFacts DEF IInv, TypeOK, QType
<1>4. /\ f \in Functors /\ f.op = call.op /\ AtLoop(f, l, loopOf)
      /\ f.op # "established" /\ \A d : f # Functor("destroyed", d)
  <2>1. f \in Functors /\ f.op = call.op /\ f.conn = c
    BY <1>2, FunctorType
  <2>2. \A d : Functor("destroyed", d).op = "destroyed"
    BY DEF Functor
  <2>3. AtLoop(f, l, loopOf)
    BY <1>2, <2>1 DEF AtLoop, CallOps
  <2> HIDE DEF f
  <2> QED BY <1>2, <2>1, <2>2, <2>3 DEF CallOps
<1> HIDE DEF f, l
<1>5. /\ queue' \in QType /\ QueueInv(queue', loopOf, connections_)
      /\ \A k \in Loop : \A d : Doomed(queue, k, d) => Doomed(queue', k, d)
  <2>1. QueueInv(queue, loopOf, connections_) /\ queue' = Enqueue(queue, l, f)
    BY <1>1, InvParts
  <2> QED BY <1>3, <1>4, <2>1, EnqueueKeeps
<1>6. TypeOK'
  <2>1. state_' \in [Conn -> {"kConnecting", "kConnected", "kDisconnecting",
                              "kDisconnected"}]
    BY <1>1, <1>2 DEF IInv, TypeOK
  <2> QED BY <1>1, <1>5, <2>1 DEF IInv, TypeOK, QType, acceptVars, stopVars
<1>7. ASSUME NEW d \in Conn, loopOf[d] \in running', Covered(d) PROVE Covered(d)'
  <2>1. loopOf[d] \in Loop
    BY <1>1, <1>7 DEF IInv, TypeOK, stopVars
  <2> QED BY <1>1, <1>5, <1>7, <2>1 DEF Covered, Doomed, acceptVars
<1>8. UNCHANGED <<next_, loopOf, callback, registered, revived, backlog, phase, connections_,
                held, running>>
  BY <1>1 DEF acceptVars, stopVars
<1> QED BY <1>1, <1>5, <1>6, <1>7, <1>8, UserFacts, QuietKeeps

-----------------------------------------------------------------------------
LEMMA StepIInv == IInv /\ [Next]_vars => IInv'
<1> SUFFICES ASSUME IInv, [Next]_vars PROVE IInv'
  OBVIOUS
<1>1. CASE UNCHANGED vars
  <2>1. TypeOK' /\ QueueInv(queue', loopOf', connections_') /\ OtherHome'
    BY <1>1, InvParts DEF vars, acceptVars, connVars, userVars, stopVars, TypeOK, OtherHome
  <2>2. \A c \in Conn : Covered(c) => Covered(c)'
    BY <1>1 DEF vars, acceptVars, Covered
  <2> QED BY <1>1, <2>1, <2>2, StepParts DEF vars, acceptVars, connVars, stopVars
<1>2. ASSUME NEW l \in Loop, LoopStep(l) PROVE IInv'
  BY <1>2, ConnectEstablishedIInv, ConnectDestroyedIInv, RunCallIInv, RunSendIInv, ReturnFromCloseIInv,
     ReturnFromCallbackIInv, RemoveConnectionInLoopIInv DEF LoopStep
<1>3. ASSUME NEW l \in Loop, \/ LoopExit(l) \/ \E c \in Conn : HandleClose(l, c)
      PROVE  IInv'
  BY <1>3, LoopExitIInv, HandleCloseIInv
<1>4. ASSUME NEW c \in Conn, Arrive(c) \/ NewConnection(c) \/ AppStep(c) PROVE IInv'
  BY <1>4, ArriveIInv, NewConnectionIInv, UserIInv, CallIInv DEF AppStep
<1>5. CASE StopStep
  BY <1>5, MoveIInv, ServerGoneIInv, ResetConnectionIInv DEF StopStep
<1>6. CASE BaseLoopEnds \/ FinishCall
  BY <1>6, MoveIInv, FinishCallIInv
<1>7. ASSUME NEW n \in 0 .. MaxThreads, Start(n) PROVE IInv'
  BY <1>7, StartIInv
<1> QED BY <1>1, <1>2, <1>3, <1>4, <1>5, <1>6, <1>7 DEF Next

(* IInv holds for ever.                                                    *)
THEOREM Inductive == Spec => []IInv
BY InitIInv, StepIInv, PTL DEF Spec

(* The variables of the server keep their types: in particular the round   *)
(* robin index of getNextLoop never leaves the pool.                       *)
THEOREM TypeCorrect == Spec => []TypeOK
<1>1. IInv => TypeOK
  BY DEF IInv
<1> QED BY <1>1, Inductive, PTL

(* A channel registered with the poller of a running loop belongs to a     *)
(* living connection, whoever else has dropped its pointer: unless a       *)
(* sendInLoop that came too late has put it back.                          *)
THEOREM RegisteredStaysAlive == Spec => []RegisteredAlive
<1>1. IInv => RegisteredAlive
  <2> SUFFICES ASSUME IInv, NEW c \in Conn \ revived, registered[c],
                      loopOf[c] \in running
               PROVE  Alive(c)
    BY DEF RegisteredAlive
  <2>1. Covered(c) /\ loopOf[c] \in Loop
    BY DEF IInv, RegisteredHeld, TypeOK
  <2>2. CASE \E j \in DOMAIN queue[loopOf[c]] :
               queue[loopOf[c]][j] = Functor("destroyed", c)
    BY <2>1, <2>2 DEF Alive, HeldByLoop, Owning, Functor
  <2>3. CASE callback[loopOf[c]] = [op |-> "destroyed", conn |-> c]
    BY <2>1, <2>3 DEF Alive, HeldByLoop, NoCall
  <2> QED BY <2>1, <2>2, <2>3 DEF Covered, Alive
<1> QED BY <1>1, Inductive, PTL
=============================================================================
