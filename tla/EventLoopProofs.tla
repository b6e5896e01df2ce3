--------------------------- MODULE EventLoopProofs ---------------------------
(***************************************************************************)
(* Proofs about EventLoop for any set of tasks, clients and channels:      *)
(* IInv is an inductive invariant, from which NoLostWakeup, NoSleepOnQuit  *)
(* and the refinement of TaskQueue follow.                                 *)
(***************************************************************************)
EXTENDS EventLoop, Integers, TLAPS

\* Elements speaks of sequences as sets; these three are all that is needed.
LEMMA ElementsAppend ==
  ASSUME NEW S, NEW s \in Seq(S), NEW e \in S
  PROVE  Elements(Append(s, e)) = Elements(s) \cup {e}
<1>1. DOMAIN Append(s, e) = 1 .. Len(s) + 1 /\ DOMAIN s = 1 .. Len(s)
  OBVIOUS
<1>2. \A i \in 1 .. Len(s) : Append(s, e)[i] = s[i]
  OBVIOUS
<1>3. Append(s, e)[Len(s) + 1] = e
  OBVIOUS
<1> QED BY <1>1, <1>2, <1>3 DEF Elements

LEMMA ElementsConcat ==
  ASSUME NEW S, NEW s \in Seq(S), NEW u \in Seq(S)
  PROVE  Elements(s \o u) = Elements(s) \cup Elements(u)
<1>1. /\ DOMAIN (s \o u) = 1 .. Len(s) + Len(u)
      /\ DOMAIN s = 1 .. Len(s) /\ DOMAIN u = 1 .. Len(u)
      /\ Len(s) \in Nat /\ Len(u) \in Nat
  OBVIOUS
<1>2. \A i \in 1 .. Len(s) : (s \o u)[i] = s[i]
  OBVIOUS
<1>3. \A i \in 1 .. Len(u) : (s \o u)[Len(s) + i] = u[i]
  OBVIOUS
<1>4. \A i \in 1 .. Len(s) + Len(u) :
        i \in 1 .. Len(s) \/ (i - Len(s) \in 1 .. Len(u) /\ i = Len(s) + (i - Len(s)))
  BY <1>1
<1>5. \A i \in 1 .. Len(u) : Len(s) + i \in 1 .. Len(s) + Len(u)
  BY <1>1
<1>6. 1 .. Len(s) \subseteq 1 .. Len(s) + Len(u)
  BY <1>1
<1>7. Elements(s \o u) \subseteq Elements(s) \cup Elements(u)
  BY <1>1, <1>2, <1>3, <1>4 DEF Elements
<1>8. Elements(s) \cup Elements(u) \subseteq Elements(s \o u)
  BY <1>1, <1>2, <1>3, <1>5, <1>6 DEF Elements
<1> QED BY <1>7, <1>8

LEMMA ElementsOf ==
  ASSUME NEW S, NEW s \in Seq(S)
  PROVE  Elements(s) \subseteq S
BY DEF Elements

-----------------------------------------------------------------------------
\* A new loop satisfies the inductive invariant.
LEMMA InitIInv == Init => IInv
<1> SUFFICES ASSUME Init PROVE IInv
  OBVIOUS
<1>1. TypeOK
  <2>1. <<>> \in Seq(Task)
    OBVIOUS
  <2>2. clientPc \in [Client -> {"idle", "wakeup"}]
    BY DEF Init
  <2> QED BY <2>1, <2>2 DEF Init, TypeOK, Place
<1>2. BatchPlace /\ Announced /\ NoSleepOnQuit
  BY DEF Init, BatchPlace, Announced, NoSleepOnQuit, Elements
<1> QED BY <1>1, <1>2 DEF IInv

\* Every step keeps the types.
LEMMA NextTypeOK ==
  ASSUME TypeOK, [Next]_vars
  PROVE  TypeOK'
<1> USE DEF TypeOK, Place
<1>1. CASE StartLoop
  BY <1>1 DEF StartLoop
<1>2. CASE LoopStep
  <2>1. CASE TestQuit
    BY <2>1 DEF TestQuit
  <2>2. CASE HandleRead
    BY <2>2 DEF HandleRead
  <2>3. CASE BeginPendingFunctors
    BY <2>3 DEF BeginPendingFunctors
  <2>4. CASE Swap
    BY <2>4 DEF Swap
  <2>5. CASE BeginFunctor
    BY <2>5 DEF BeginFunctor
  <2>6. CASE EndPendingFunctors
    BY <2>6 DEF EndPendingFunctors
  <2>7. CASE ReturnFromCallback
    BY <2>7 DEF ReturnFromCallback
  <2>8. CASE \E ch \in IOChannel : BeginHandler(ch)
    BY <2>8 DEF BeginHandler
  <2> QED BY <1>2, <2>1, <2>2, <2>3, <2>4, <2>5, <2>6, <2>7, <2>8 DEF LoopStep
<1>3. CASE Poll
  BY <1>3 DEF Poll, PollEvents
<1>4. CASE PollTimeout
  BY <1>4 DEF PollTimeout
<1>5. CASE OwnerStep
  <2>1. CASE OwnerQuit
    BY <2>1 DEF OwnerQuit, loopVars
  <2>2. CASE \E t \in Task : OwnerQueueInLoop(t)
    BY <2>2 DEF OwnerQueueInLoop, OwnerWakes, loopVars
  <2>3. CASE \E t \in Task : OwnerRunInLoop(t)
    BY <2>3 DEF OwnerRunInLoop, loopVars
  <2> QED BY <1>5, <2>1, <2>2, <2>3 DEF OwnerStep
<1>6. CASE \E c \in Client : ClientStep(c)
  <2> PICK c \in Client : ClientStep(c)
    BY <1>6
  <2>1. CASE ClientQuit(c)
    BY <2>1 DEF ClientQuit, loopVars
  <2>2. CASE ClientWakeup(c)
    BY <2>2 DEF ClientWakeup, loopVars
  <2>3. CASE \E t \in Task : ClientQueueInLoop(c, t)
    BY <2>3 DEF ClientQueueInLoop, loopVars
  <2> QED BY <2>1, <2>2, <2>3 DEF ClientStep
<1>7. CASE UNCHANGED vars
  BY <1>7 DEF vars
<1> QED BY <1>1, <1>2, <1>3, <1>4, <1>5, <1>6, <1>7 DEF Next
\* The batch and the flag live inside doPendingFunctors.
LEMMA NextBatchPlace ==
  ASSUME TypeOK, BatchPlace, [Next]_vars
  PROVE  BatchPlace'
<1> USE DEF BatchPlace
<1>1. CASE StartLoop
  BY <1>1 DEF StartLoop
<1>2. CASE LoopStep
  <2>1. CASE TestQuit
    BY <2>1 DEF TestQuit
  <2>2. CASE HandleRead
    BY <2>2 DEF HandleRead
  <2>3. CASE BeginPendingFunctors
    BY <2>3 DEF BeginPendingFunctors
  <2>4. CASE Swap
    BY <2>4 DEF Swap
  <2>5. CASE BeginFunctor
    BY <2>5 DEF BeginFunctor
  <2>6. CASE EndPendingFunctors
    BY <2>6 DEF EndPendingFunctors
  <2>7. CASE ReturnFromCallback
    BY <2>7 DEF ReturnFromCallback
  <2>8. CASE \E ch \in IOChannel : BeginHandler(ch)
    BY <2>8 DEF BeginHandler
  <2> QED BY <1>2, <2>1, <2>2, <2>3, <2>4, <2>5, <2>6, <2>7, <2>8 DEF LoopStep
<1>3. CASE Poll
  BY <1>3 DEF Poll, PollEvents
<1>4. CASE PollTimeout
  BY <1>4 DEF PollTimeout
<1>5. CASE OwnerStep
  BY <1>5 DEF OwnerStep, OwnerQuit, OwnerQueueInLoop, OwnerRunInLoop, loopVars
<1>6. CASE \E c \in Client : ClientStep(c)
  BY <1>6 DEF ClientStep, ClientQuit, ClientWakeup, ClientQueueInLoop, loopVars
<1>7. CASE UNCHANGED vars
  BY <1>7 DEF vars
<1> QED BY <1>1, <1>2, <1>3, <1>4, <1>5, <1>6, <1>7 DEF Next

\* Whoever adds a task outside the window between dispatch and swap wakes
\* the loop or marks the task unannounced, and the eventfd is read only in
\* that window.
LEMMA NextAnnounced ==
  ASSUME TypeOK, BatchPlace, Announced, [Next]_vars
  PROVE  Announced'
<1> USE DEF Announced, WakeupComing
<1>1. CASE StartLoop
  BY <1>1 DEF StartLoop
<1>2. CASE LoopStep
  <2>1. CASE TestQuit
    BY <2>1 DEF TestQuit
  <2>2. CASE HandleRead
    BY <2>2 DEF HandleRead
  <2>3. CASE BeginPendingFunctors
    BY <2>3 DEF BeginPendingFunctors
  <2>4. CASE Swap
    <3>1. Elements(pendingFunctors_') = {}
      BY <2>4 DEF Swap, Elements
    <3> QED BY <3>1
  <2>5. CASE BeginFunctor
    BY <2>5 DEF BeginFunctor
  <2>6. CASE EndPendingFunctors
    BY <2>6 DEF EndPendingFunctors
  <2>7. CASE ReturnFromCallback
    BY <2>7 DEF ReturnFromCallback
  <2>8. CASE \E ch \in IOChannel : BeginHandler(ch)
    BY <2>8 DEF BeginHandler
  <2> QED BY <1>2, <2>1, <2>2, <2>3, <2>4, <2>5, <2>6, <2>7, <2>8 DEF LoopStep
<1>3. CASE Poll
  BY <1>3 DEF Poll, PollEvents
<1>4. CASE PollTimeout
  BY <1>4 DEF PollTimeout
<1>5. CASE OwnerStep
  <2>1. CASE OwnerQuit
    BY <2>1 DEF OwnerQuit, loopVars
  <2>2. CASE \E t \in Task : OwnerRunInLoop(t)
    BY <2>2 DEF OwnerRunInLoop, loopVars
  <2>3. ASSUME NEW t \in Task, OwnerQueueInLoop(t) PROVE Announced'
    <3>1. Elements(pendingFunctors_') = Elements(pendingFunctors_) \cup {t}
      BY <2>3, ElementsAppend DEF OwnerQueueInLoop, TypeOK
    <3>2. CASE pc = "out"
      BY <2>3, <3>1, <3>2 DEF OwnerQueueInLoop, OwnerWakes, loopVars
    <3>3. CASE pc = "handler"
      BY <2>3, <3>3 DEF OwnerQueueInLoop, loopVars
    <3>4. CASE pc = "functor"
      BY <2>3, <3>4 DEF OwnerQueueInLoop, OwnerWakes, BatchPlace, TypeOK
    <3> QED BY <2>3, <3>2, <3>3, <3>4 DEF OwnerQueueInLoop, InUserCode
  <2> QED BY <1>5, <2>1, <2>2, <2>3 DEF OwnerStep
<1>6. ASSUME NEW c \in Client, ClientStep(c) PROVE Announced'
  <2>1. CASE ClientQuit(c)
    BY <2>1 DEF ClientQuit, TypeOK
  <2>2. CASE ClientWakeup(c)
    BY <2>2 DEF ClientWakeup
  <2>3. CASE \E t \in Task : ClientQueueInLoop(c, t)
    BY <2>3 DEF ClientQueueInLoop, TypeOK
  <2> QED BY <1>6, <2>1, <2>2, <2>3 DEF ClientStep
<1>7. CASE UNCHANGED vars
  BY <1>7 DEF vars
<1> QED BY <1>1, <1>2, <1>3, <1>4, <1>5, <1>6, <1>7 DEF Next

\* The loop enters poll only after it has seen quit_ down.
LEMMA NextNoSleepOnQuit ==
  ASSUME TypeOK, NoSleepOnQuit, [Next]_vars
  PROVE  NoSleepOnQuit'
<1> USE DEF NoSleepOnQuit, WakeupComing
<1>1. CASE StartLoop
  BY <1>1 DEF StartLoop
<1>2. CASE LoopStep
  BY <1>2 DEF LoopStep, TestQuit, HandleRead, BeginPendingFunctors, Swap,
              BeginFunctor, EndPendingFunctors, ReturnFromCallback, BeginHandler
<1>3. CASE Poll
  BY <1>3 DEF Poll, PollEvents
<1>4. CASE PollTimeout
  BY <1>4 DEF PollTimeout
<1>5. CASE OwnerStep
  BY <1>5 DEF OwnerStep, OwnerQuit, OwnerQueueInLoop, OwnerRunInLoop, loopVars,
              InUserCode
<1>6. ASSUME NEW c \in Client, ClientStep(c) PROVE NoSleepOnQuit'
  BY <1>6 DEF ClientStep, ClientQuit, ClientWakeup, ClientQueueInLoop, loopVars,
              TypeOK
<1>7. CASE UNCHANGED vars
  BY <1>7 DEF vars
<1> QED BY <1>1, <1>2, <1>3, <1>4, <1>5, <1>6, <1>7 DEF Next

-----------------------------------------------------------------------------
(* The inductive invariant of queueInLoop, quit, poll and                  *)
(* doPendingFunctors.                                                      *)
THEOREM Inductive == Spec => []IInv
<1>1. Init => IInv
  BY InitIInv
<1>2. IInv /\ [Next]_vars => IInv'
  BY NextTypeOK, NextBatchPlace, NextAnnounced, NextNoSleepOnQuit DEF IInv
<1> QED BY <1>1, <1>2, PTL DEF Spec

(* The loop's state keeps its types.                                       *)
THEOREM TypeCorrect == Spec => []TypeOK
<1>1. IInv => TypeOK
  BY DEF IInv
<1> QED BY <1>1, Inductive, PTL

(* No wakeup is lost: the loop never sleeps in poll over a task it was     *)
(* told of without a write to the eventfd done or under way.               *)
THEOREM WakeupNotLost == Spec => []NoLostWakeup
<1>1. IInv => NoLostWakeup
  BY DEF IInv, Announced, NoLostWakeup
<1> QED BY <1>1, Inductive, PTL

(* quit() from another thread never leaves the loop asleep.                *)
THEOREM QuitNotLost == Spec => []NoSleepOnQuit
<1>1. IInv => NoSleepOnQuit
  BY DEF IInv
<1> QED BY <1>1, Inductive, PTL

(* The batch that doPendingFunctors runs never grows while it runs.        *)
THEOREM BatchShrinks == Spec => BatchOnlyShrinks
<1>1. IInv /\ [Next]_vars
        => [functors # <<>> => functors' \in {functors, Tail(functors)}]_vars
  BY DEF IInv, BatchPlace, Next, vars, loopVars, StartLoop, LoopStep, TestQuit,
         HandleRead, BeginPendingFunctors, Swap, BeginFunctor,
         EndPendingFunctors, ReturnFromCallback, BeginHandler, Poll,
         PollEvents, PollTimeout, OwnerStep, OwnerQuit, OwnerQueueInLoop,
         OwnerRunInLoop, ClientStep, ClientQuit, ClientWakeup,
         ClientQueueInLoop
<1> QED BY <1>1, Inductive, PTL DEF Spec, BatchOnlyShrinks
-----------------------------------------------------------------------------
(* The refinement of TaskQueue: what queueInLoop appends goes to the end   *)
(* of functors \o pendingFunctors_, what BeginFunctor takes comes from its *)
(* front, and the swap does not change it.                                 *)

LEMMA AppendToConcat ==
  ASSUME NEW S, NEW s \in Seq(S), NEW u \in Seq(S), NEW e \in S
  PROVE  s \o Append(u, e) = Append(s \o u, e)
OBVIOUS

LEMMA FrontOfConcat ==
  ASSUME NEW S, NEW s \in Seq(S), NEW u \in Seq(S), s # <<>>
  PROVE  /\ s \o u # <<>>
         /\ Head(s \o u) = Head(s)
         /\ Tail(s \o u) = Tail(s) \o u
OBVIOUS

LEMMA EmptyConcat ==
  ASSUME NEW S, NEW s \in Seq(S)
  PROVE  <<>> \o s = s /\ s \o <<>> = s
OBVIOUS

\* Fresh says the same of both queues.
LEMMA FreshRefined ==
  ASSUME TypeOK, NEW t \in Task, Fresh(t)
  PROVE  Tasks!Fresh(t)
<1>1. Elements(functors \o pendingFunctors_)
        = Elements(functors) \cup Elements(pendingFunctors_)
  BY ElementsConcat DEF TypeOK
<1>2. Elements(functors \o pendingFunctors_) = Tasks!Elements(functors \o pendingFunctors_)
  BY DEF Elements, Tasks!Elements
<1>3. Elements(executed) = Tasks!Elements(executed)
  BY DEF Elements, Tasks!Elements
<1> QED BY <1>1, <1>2, <1>3 DEF Fresh, Tasks!Fresh

\* Every step of the loop and its clients is a step of the FIFO or none.
LEMMA StepRefined ==
  ASSUME IInv, [Next]_vars
  PROVE  [Tasks!Next]_(Tasks!vars)
<1> DEFINE q == functors \o pendingFunctors_
<1>t. TypeOK /\ BatchPlace
  BY DEF IInv
<1>s. UNCHANGED <<pendingFunctors_, functors, executed>> => UNCHANGED Tasks!vars
  BY DEF Tasks!vars
<1>1. CASE StartLoop
  BY <1>1, <1>s DEF StartLoop
<1>2. CASE LoopStep
  <2>1. CASE Swap
    <3>1. functors = <<>>
      BY <2>1, <1>t DEF Swap, BatchPlace
    <3>2. q = pendingFunctors_ /\ q' = pendingFunctors_
      BY <2>1, <3>1, <1>t, EmptyConcat DEF Swap, TypeOK
    <3> QED BY <2>1, <3>2 DEF Swap, Tasks!vars
  <2>2. CASE BeginFunctor
    <3>1. /\ q # <<>>
          /\ Head(q) = Head(functors)
          /\ Tail(q) = q'
      BY <2>2, <1>t, FrontOfConcat DEF BeginFunctor, TypeOK
    <3>2. Tasks!RunNext
      BY <2>2, <3>1 DEF BeginFunctor, Tasks!RunNext
    <3> QED BY <3>2 DEF Tasks!Next
  <2>3. CASE TestQuit \/ HandleRead \/ BeginPendingFunctors
             \/ EndPendingFunctors \/ ReturnFromCallback
             \/ \E ch \in IOChannel : BeginHandler(ch)
    BY <2>3, <1>s DEF TestQuit, HandleRead, BeginPendingFunctors,
                      EndPendingFunctors, ReturnFromCallback, BeginHandler
  <2> QED BY <1>2, <2>1, <2>2, <2>3 DEF LoopStep
<1>3. CASE Poll
  BY <1>3, <1>s DEF Poll, PollEvents
<1>4. CASE PollTimeout
  BY <1>4, <1>s DEF PollTimeout
<1>5. CASE OwnerStep
  <2>1. CASE OwnerQuit
    BY <2>1, <1>s DEF OwnerQuit, loopVars
  <2>2. ASSUME NEW t \in Task, OwnerQueueInLoop(t) PROVE Tasks!Next
    <3>1. q' = Append(q, t)
      BY <2>2, <1>t, AppendToConcat DEF OwnerQueueInLoop, loopVars, TypeOK
    <3>2. Tasks!Fresh(t)
      BY <2>2, <1>t, FreshRefined DEF OwnerQueueInLoop
    <3>3. Tasks!Submit(t)
      BY <2>2, <3>1, <3>2 DEF OwnerQueueInLoop, Tasks!Submit
    <3> QED BY <3>3 DEF Tasks!Next
  <2>3. ASSUME NEW t \in Task, OwnerRunInLoop(t) PROVE Tasks!Next
    <3>1. Tasks!Fresh(t)
      BY <2>3, <1>t, FreshRefined DEF OwnerRunInLoop
    <3>2. Tasks!RunNow(t)
      BY <2>3, <3>1 DEF OwnerRunInLoop, loopVars, Tasks!RunNow
    <3> QED BY <3>2 DEF Tasks!Next
  <2> QED BY <1>5, <2>1, <2>2, <2>3 DEF OwnerStep
<1>6. ASSUME NEW c \in Client, ClientStep(c) PROVE [Tasks!Next]_(Tasks!vars)
  <2>1. CASE ClientQuit(c) \/ ClientWakeup(c)
    BY <2>1, <1>s DEF ClientQuit, ClientWakeup, loopVars
  <2>2. ASSUME NEW t \in Task, ClientQueueInLoop(c, t) PROVE Tasks!Next
    <3>1. q' = Append(q, t)
      BY <2>2, <1>t, AppendToConcat DEF ClientQueueInLoop, loopVars, TypeOK
    <3>2. Tasks!Fresh(t)
      BY <2>2, <1>t, FreshRefined DEF ClientQueueInLoop
    <3>3. Tasks!Submit(t)
      BY <2>2, <3>1, <3>2 DEF ClientQueueInLoop, Tasks!Submit
    <3> QED BY <3>3 DEF Tasks!Next
  <2> QED BY <1>6, <2>1, <2>2 DEF ClientStep
<1>7. CASE UNCHANGED vars
  BY <1>7, <1>s DEF vars
<1> QED BY <1>1, <1>2, <1>3, <1>4, <1>5, <1>6, <1>7 DEF Next

(* queueInLoop, runInLoop and doPendingFunctors implement the FIFO: no     *)
(* task is lost, run twice or overtaken, whatever the threads do.          *)
THEOREM RefinesTaskQueue == Spec => ImplementsTaskQueue
<1>1. Init => Tasks!Init
  BY EmptyConcat DEF Init, Tasks!Init
<1>2. IInv /\ [Next]_vars => [Tasks!Next]_(Tasks!vars)
  BY StepRefined
<1> QED BY <1>1, <1>2, Inductive, PTL DEF Spec, ImplementsTaskQueue, Tasks!Spec
=============================================================================
