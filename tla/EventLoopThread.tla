--------------------------- MODULE EventLoopThread ---------------------------
(***************************************************************************)
(* An EventLoopThread: a second thread that builds an EventLoop on its own *)
(* stack, publishes its address in loop_ and runs it, and the main thread, *)
(* which starts it (startLoop), uses the loop, and destroys the            *)
(* EventLoopThread (quit and join).  The loop is the one of EventLoop.tla: *)
(* the new thread is its owner and Main is one of its clients.             *)
(***************************************************************************)
EXTENDS EventLoop

CONSTANTS Main,              \* the thread that owns the EventLoopThread
          EarlyDestruction   \* it may be destroyed before loop() is entered

ASSUME MainAssumption == Main \in Client
ASSUME EarlyAssumption == EarlyDestruction \in BOOLEAN

VARIABLES loop_,             \* TRUE when the pointer is not null
          subPc, mainPc

threadVars == <<loop_, subPc, mainPc>>
allVars == <<vars, threadVars>>

\* "looping" is inside loop.loop(); before and after it the loop is "out".
SubPlace == {"none", "tid", "create", "init", "publish", "enter", "looping",
             "clear", "destroy", "exited"}
MainPlace == {"out", "sem", "check", "waiting", "returned", "quit", "wakeup",
              "join", "done"}

ThreadTypeOK ==
  /\ TypeOK
  /\ loop_ \in BOOLEAN
  /\ subPc \in SubPlace
  /\ mainPc \in MainPlace

\* The EventLoop object exists on the new thread's stack.
LoopAlive ==
  subPc \in {"init", "publish", "enter", "looping", "clear", "destroy"}

\* Mutant: the constructor forgets loop_(nullptr).
ThreadInitUninitialised ==
  /\ Init
  /\ loop_ \in {FALSE, Main}
  /\ subPc = "none"
  /\ mainPc = "out"

ThreadInit ==
  /\ Init
  /\ loop_ = FALSE
  /\ subPc = "none"
  /\ mainPc = "out"

-----------------------------------------------------------------------------
(* Main in startLoop()                                                     *)

\* Thread::start creates the thread ...
MainStart ==
  /\ mainPc = "out"
  /\ mainPc' = "sem"
  /\ subPc' = "tid"
  /\ UNCHANGED <<vars, loop_>>

\* ... and waits for the semaphore the new thread posts with its tid.
MainSemWait ==
  /\ mainPc = "sem"
  /\ subPc # "tid"
  /\ mainPc' = "check"
  /\ UNCHANGED <<vars, loop_, subPc>>

\* cond_.wait tests its predicate under mutex_ and sleeps if it is false
MainCheck ==
  /\ mainPc = "check"
  /\ mainPc' = IF loop_ THEN "returned" ELSE "waiting"
  /\ UNCHANGED <<vars, loop_, subPc>>

(* Main between startLoop() and the destructor: any call on the loop.      *)
MainUse ==
  /\ mainPc = "returned"
  /\ \/ \E t \in Task : ClientQueueInLoop(Main, t)
     \/ ClientWakeup(Main)
  /\ UNCHANGED threadVars

(* Main in ~EventLoopThread()                                              *)

\* Mutant: the destructor joins without quit().
DtorOnlyJoins ==
  /\ mainPc = "returned"
  /\ clientPc[Main] = "idle"
  /\ EarlyDestruction \/ subPc # "enter"
  /\ mainPc' = IF loop_ THEN "join" ELSE "done"
  /\ UNCHANGED <<vars, loop_, subPc>>

\* if (loop_ != nullptr), read without mutex_; a null pointer means neither
\* quit nor join: the thread is detached.
DtorTest ==
  /\ mainPc = "returned"
  /\ clientPc[Main] = "idle"
  /\ EarlyDestruction \/ subPc # "enter"
  /\ mainPc' = IF loop_ THEN "quit" ELSE "done"
  /\ UNCHANGED <<vars, loop_, subPc>>

DtorQuit ==
  /\ mainPc = "quit"
  /\ ClientQuit(Main)
  /\ mainPc' = "wakeup"
  /\ UNCHANGED <<loop_, subPc>>

\* Mutant: the destructor quits without join(): the thread is detached.
DtorWakeupNoJoin ==
  /\ mainPc = "wakeup"
  /\ ClientWakeup(Main)
  /\ mainPc' = "done"
  /\ UNCHANGED <<loop_, subPc>>

DtorWakeup ==
  /\ mainPc = "wakeup"
  /\ ClientWakeup(Main)
  /\ mainPc' = "join"
  /\ UNCHANGED <<loop_, subPc>>

DtorJoin ==
  /\ mainPc = "join"
  /\ subPc = "exited"
  /\ mainPc' = "done"
  /\ UNCHANGED <<vars, loop_, subPc>>

-----------------------------------------------------------------------------
(* The new thread in threadFunc()                                          *)

SubPost ==
  /\ subPc = "tid"
  /\ subPc' = "create"
  /\ UNCHANGED <<vars, loop_, mainPc>>

\* EventLoop loop; its initial state is Init of EventLoop
SubCreate ==
  /\ subPc = "create"
  /\ subPc' = "init"
  /\ UNCHANGED <<vars, loop_, mainPc>>

\* callback_(&loop) may submit tasks; then it returns
SubInitCallback ==
  /\ subPc = "init"
  /\ \/ /\ \E t \in Task : OwnerQueueInLoop(t) \/ OwnerRunInLoop(t)
        /\ UNCHANGED subPc
     \/ /\ subPc' = "publish"
        /\ UNCHANGED vars
  /\ UNCHANGED <<loop_, mainPc>>

\* Mutant: loop_ is set and nobody is notified.
SubPublishSilently ==
  /\ subPc = "publish"
  /\ loop_' = TRUE
  /\ subPc' = "enter"
  /\ UNCHANGED <<vars, mainPc>>

\* loop_ = &loop and notify_one, in one critical section
SubPublish ==
  /\ subPc = "publish"
  /\ loop_' = TRUE
  /\ mainPc' = IF mainPc = "waiting" THEN "check" ELSE mainPc
  /\ subPc' = "enter"
  /\ UNCHANGED vars

SubEnterLoop ==
  /\ subPc = "enter"
  /\ StartLoop
  /\ subPc' = "looping"
  /\ UNCHANGED <<loop_, mainPc>>

\* The callbacks of this loop may submit tasks but do not quit it: in this
\* repository only ~EventLoopThread calls quit().
SubCallback ==
  /\ subPc = "looping" /\ pc \in {"handler", "functor"}
  /\ \E t \in Task : OwnerQueueInLoop(t) \/ OwnerRunInLoop(t)
  /\ UNCHANGED threadVars

SubLoop ==
  /\ subPc = "looping"
  /\ LoopStep \/ (wakeupFd_ /\ Poll)
  /\ UNCHANGED threadVars

SubIdlePoll ==
  /\ subPc = "looping"
  /\ Poll /\ ~wakeupFd_
  /\ UNCHANGED threadVars

SubTimeout ==
  /\ subPc = "looping"
  /\ PollTimeout
  /\ UNCHANGED threadVars

SubLeaveLoop ==
  /\ subPc = "looping" /\ pc = "out"
  /\ subPc' = "clear"
  /\ UNCHANGED <<vars, loop_, mainPc>>

\* Mutant: threadFunc returns without loop_ = nullptr.
SubNeverClears ==
  /\ subPc = "clear"
  /\ subPc' = "destroy"
  /\ UNCHANGED <<vars, loop_, mainPc>>

\* loop_ = nullptr under mutex_
SubClear ==
  /\ subPc = "clear"
  /\ loop_' = FALSE
  /\ subPc' = "destroy"
  /\ UNCHANGED <<vars, mainPc>>

\* threadFunc returns: ~EventLoop closes the eventfd, the thread ends
SubDestroy ==
  /\ subPc = "destroy"
  /\ subPc' = "exited"
  /\ UNCHANGED <<vars, loop_, mainPc>>

-----------------------------------------------------------------------------
MainStep ==
  \/ MainSemWait \/ MainCheck \/ DtorQuit \/ DtorWakeup \/ DtorJoin

SubStep ==
  \/ SubPost \/ SubCreate \/ SubPublish \/ SubEnterLoop \/ SubLoop
  \/ SubLeaveLoop \/ SubClear \/ SubDestroy
  \/ (SubInitCallback /\ subPc' # subPc)

Terminated == mainPc = "done" /\ subPc = "exited" /\ UNCHANGED allVars

ThreadNext ==
  \/ MainStart \/ MainStep \/ MainUse \/ DtorTest
  \/ SubStep \/ SubInitCallback \/ SubCallback \/ SubIdlePoll \/ SubTimeout
  \/ Terminated

\* Both threads run when they can and the init callback returns; as in
\* EventLoop nothing is owed to the poll timeout.
ThreadFairness ==
  /\ WF_allVars(MainStep) /\ WF_allVars(SubStep)
  /\ WF_allVars(MainUse /\ ClientWakeup(Main))

ThreadSpec == ThreadInit /\ [][ThreadNext]_allVars
FairThreadSpec == ThreadSpec /\ ThreadFairness
\* ... and with timeouts that do elapse, which helps a lost wakeup along
TimeoutThreadSpec == FairThreadSpec /\ WF_allVars(SubTimeout)

-----------------------------------------------------------------------------
(* Properties                                                              *)

(* startLoop() returns: the publication and its notification cannot be     *)
(* missed, whichever of the two threads is first.                          *)
StartLoopReturns ==
  mainPc \in {"sem", "check", "waiting"} ~> mainPc = "returned"

(* The address in loop_ is that of a living EventLoop, and the pointer     *)
(* that startLoop() returned stays good until the destructor asks to quit. *)
PublishedLoopAlive ==
  /\ loop_ => LoopAlive /\ subPc # "destroy"
  /\ mainPc \in {"returned", "quit"} => LoopAlive /\ loop_

(* When the destructor has returned, and with it mutex_, cond_ and loop_   *)
(* are gone, the thread that used them has ended.                          *)
JoinedBeforeFreed == mainPc = "done" => subPc = "exited"

(* Once the destructor has a loop to quit, it returns.                     *)
DestructorReturns == mainPc \in {"quit", "wakeup", "join"} ~> mainPc = "done"

(* Before the destructor calls quit() nothing ends the loop, so that the   *)
(* published address cannot go away under Main; with this strengthening    *)
(* the two invariants above are inductive.                                 *)
BeforeQuit == {"out", "sem", "check", "waiting", "returned", "quit"}
ThreadInv ==
  /\ ThreadTypeOK
  /\ loop_ <=> subPc \in {"enter", "looping", "clear"}
  /\ subPc # "looping" => pc = "out"
  /\ subPc = "looping" /\ pc = "out" => quit_
  /\ subPc \in {"clear", "destroy", "exited"} => quit_
  /\ mainPc \in BeforeQuit => ~quit_
  /\ mainPc = "out" <=> subPc = "none"
  /\ mainPc \in {"returned", "quit"} => loop_
  /\ JoinedBeforeFreed

(* What threadFunc's closing comment promises: the loop is not taken away  *)
(* while the main thread may be accessing it.  Main is inside              *)
(* loop_->quit() in "wakeup".                                              *)
QuitTouchesLiveLoop == mainPc \in {"quit", "wakeup"} => LoopAlive
=============================================================================
