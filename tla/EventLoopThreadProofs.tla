------------------------ MODULE EventLoopThreadProofs ------------------------
(***************************************************************************)
(* Proofs about EventLoopThread.  The two threads only ever take steps of  *)
(* EventLoop on the loop's variables, so that everything proved of         *)
(* EventLoop holds of the loop in an EventLoopThread.  On top of that the  *)
(* published pointer is good and the destructor leaves no thread behind.   *)
(***************************************************************************)
EXTENDS EventLoopThread, EventLoopProofs

\* A step of either thread is a step of the loop or leaves it alone.
LEMMA StepOfLoop ==
  ASSUME [ThreadNext]_allVars
  PROVE  [Next]_vars
<1>1. CASE MainStart \/ MainSemWait \/ MainCheck \/ DtorTest \/ DtorJoin
  BY <1>1 DEF MainStart, MainSemWait, MainCheck, DtorTest, DtorJoin
<1>2. CASE DtorQuit \/ DtorWakeup \/ MainUse
  BY <1>2, MainAssumption
     DEF DtorQuit, DtorWakeup, MainUse, Next, ClientStep
<1>3. CASE SubPost \/ SubCreate \/ SubPublish \/ SubLeaveLoop \/ SubClear
           \/ SubDestroy
  BY <1>3 DEF SubPost, SubCreate, SubPublish, SubLeaveLoop, SubClear, SubDestroy
<1>4. CASE SubEnterLoop \/ SubLoop \/ SubIdlePoll \/ SubTimeout
  BY <1>4 DEF SubEnterLoop, SubLoop, SubIdlePoll, SubTimeout, Next
<1>5. CASE SubInitCallback \/ SubCallback
  BY <1>5 DEF SubInitCallback, SubCallback, Next, OwnerStep
<1>6. CASE UNCHANGED allVars
  BY <1>6 DEF allVars
<1> QED BY <1>1, <1>2, <1>3, <1>4, <1>5, <1>6
        DEF ThreadNext, MainStep, SubStep, Terminated

(* An EventLoopThread runs a correct EventLoop: the loop's part of every   *)
(* behaviour is a behaviour of EventLoop.                                  *)
THEOREM ThreadRunsEventLoop == ThreadSpec => Spec
<1>1. ThreadInit => Init
  BY DEF ThreadInit
<1>2. [ThreadNext]_allVars => [Next]_vars
  BY StepOfLoop
<1> QED BY <1>1, <1>2, PTL DEF ThreadSpec, Spec

(* What EventLoop guarantees, it guarantees in its own thread.             *)
THEOREM ThreadWakeupNotLost ==
  ThreadSpec => []NoLostWakeup /\ []NoSleepOnQuit /\ ImplementsTaskQueue
BY ThreadRunsEventLoop, WakeupNotLost, QuitNotLost, RefinesTaskQueue

-----------------------------------------------------------------------------
LEMMA ThreadInitInv == ThreadInit => ThreadInv
BY InitIInv
   DEF ThreadInit, ThreadInv, ThreadTypeOK, IInv, SubPlace, MainPlace,
       BeforeQuit, JoinedBeforeFreed, Init

\* Only DtorQuit raises quit_, only TestQuit lets the loop out of loop().
LEMMA ThreadNextInv ==
  ASSUME ThreadInv, [ThreadNext]_allVars
  PROVE  ThreadInv'
<1>t. TypeOK' /\ quit_ \in BOOLEAN /\ quit_' \in BOOLEAN
  <2>1. TypeOK'
    BY StepOfLoop, NextTypeOK DEF ThreadInv, ThreadTypeOK
  <2> QED BY <2>1 DEF ThreadInv, ThreadTypeOK, TypeOK
<1> USE DEF ThreadInv, ThreadTypeOK, SubPlace, MainPlace, BeforeQuit,
            JoinedBeforeFreed
<1>1. CASE MainStart
  BY <1>1, <1>t DEF MainStart, vars
<1>2. CASE MainSemWait \/ MainCheck
  BY <1>2, <1>t DEF MainSemWait, MainCheck, vars
<1>3. CASE MainUse
  BY <1>3, <1>t DEF MainUse, ClientQueueInLoop, ClientWakeup, loopVars, threadVars
<1>4. CASE DtorTest \/ DtorJoin
  BY <1>4, <1>t DEF DtorTest, DtorJoin, vars
<1>5. CASE DtorQuit
  BY <1>5, <1>t DEF DtorQuit, ClientQuit, loopVars
<1>6. CASE DtorWakeup
  BY <1>6, <1>t DEF DtorWakeup, ClientWakeup, loopVars
<1>7. CASE SubPost \/ SubCreate \/ SubPublish \/ SubLeaveLoop \/ SubClear
           \/ SubDestroy
  <2>1. CASE SubPost \/ SubCreate
    BY <1>t, <2>1 DEF SubPost, SubCreate, vars
  <2>2. CASE SubPublish
    BY <1>t, <2>2 DEF SubPublish, vars
  <2>3. CASE SubLeaveLoop
    <3>1. pc = "out" /\ quit_ /\ quit_' = quit_ /\ pc' = pc /\ loop_' = loop_ /\ mainPc' = mainPc
      BY <2>3 DEF SubLeaveLoop, vars
    <3>2. subPc = "looping" /\ subPc' = "clear"
      BY <2>3 DEF SubLeaveLoop
    <3>3. ThreadTypeOK'
      BY <1>t, <3>1, <3>2
    <3>4. (loop_ <=> subPc \in {"enter", "looping", "clear"})'
      BY <1>t, <3>1, <3>2
    <3>5. (subPc # "looping" => pc = "out")'
      BY <1>t, <3>1, <3>2
    <3>6. (mainPc \in BeforeQuit => ~quit_)' /\ quit_'
      BY <1>t, <3>1, <3>2
    <3>7. (mainPc = "out" <=> subPc = "none")' /\ (mainPc \in {"returned", "quit"} => loop_)'
      BY <1>t, <3>1, <3>2
    <3>8. JoinedBeforeFreed'
      BY <1>t, <3>1, <3>2
    <3> QED BY <3>2, <3>3, <3>4, <3>5, <3>6, <3>7, <3>8
  <2>4. CASE SubClear \/ SubDestroy
    <3>1. quit_ /\ quit_' /\ pc' = "out" /\ mainPc' = mainPc /\ loop_' = FALSE
      BY <2>4 DEF SubClear, SubDestroy, vars
    <3>2. mainPc \notin BeforeQuit /\ mainPc # "done"
      BY <2>4, <3>1 DEF SubClear, SubDestroy
    <3>3. subPc' \in {"destroy", "exited"}
      BY <2>4 DEF SubClear, SubDestroy
    <3> QED BY <1>t, <3>1, <3>2, <3>3
  <2> QED BY <1>7, <2>1, <2>2, <2>3, <2>4
<1>8. CASE SubInitCallback \/ SubCallback
  BY <1>8, <1>t DEF SubInitCallback, SubCallback, OwnerQueueInLoop,
                    OwnerRunInLoop, loopVars, threadVars, vars
<1>9. CASE SubEnterLoop
  BY <1>9, <1>t DEF SubEnterLoop, StartLoop
<1>10. CASE SubLoop
  BY <1>10, <1>t
     DEF SubLoop, LoopStep, TestQuit, HandleRead, BeginPendingFunctors, Swap,
         BeginFunctor, EndPendingFunctors, ReturnFromCallback, BeginHandler,
         Poll, PollEvents, threadVars
<1>11. CASE SubIdlePoll \/ SubTimeout
  BY <1>11, <1>t DEF SubIdlePoll, SubTimeout, Poll, PollEvents, PollTimeout,
                     threadVars
<1>12. CASE UNCHANGED allVars
  BY <1>12, <1>t DEF allVars, vars, threadVars
<1> QED BY <1>1, <1>2, <1>3, <1>4, <1>5, <1>6, <1>7, <1>8, <1>9, <1>10, <1>11,
           <1>12 DEF ThreadNext, MainStep, SubStep, Terminated

(* The handshake of startLoop, threadFunc and the destructor.              *)
THEOREM ThreadInductive == ThreadSpec => []ThreadInv
<1>1. ThreadInv /\ [ThreadNext]_allVars => ThreadInv'
  BY ThreadNextInv
<1> QED BY <1>1, ThreadInitInv, PTL DEF ThreadSpec

(* The variables of the thread, its owner and its loop keep their types.   *)
THEOREM ThreadTypeCorrect == ThreadSpec => []ThreadTypeOK
<1>1. ThreadInv => ThreadTypeOK
  BY DEF ThreadInv
<1> QED BY <1>1, ThreadInductive, PTL

(* The pointer startLoop() returned is good until quit() is called, even   *)
(* if the EventLoopThread is destroyed before its loop is entered.         *)
THEOREM PublishedStaysAlive == ThreadSpec => []PublishedLoopAlive
<1>1. ThreadInv => PublishedLoopAlive
  BY DEF ThreadInv, PublishedLoopAlive, LoopAlive
<1> QED BY <1>1, ThreadInductive, PTL

(* No thread outlives the EventLoopThread whose members it uses.           *)
THEOREM ThreadJoined == ThreadSpec => []JoinedBeforeFreed
<1>1. ThreadInv => JoinedBeforeFreed
  BY DEF ThreadInv
<1> QED BY <1>1, ThreadInductive, PTL
=============================================================================
