------------------------------ MODULE EventLoop ------------------------------
(***************************************************************************)
(* One EventLoop: the thread that owns it (the one that may run loop())    *)
(* and any number of other threads that call queueInLoop, runInLoop and    *)
(* quit on it.  The mutex of the code protects exactly one push_back and   *)
(* one swap, so each is one atomic step here; everything the code does     *)
(* outside the mutex is a step of its own.                                 *)
(***************************************************************************)
EXTENDS Sequences

CONSTANTS Task,              \* functors handed to queueInLoop / runInLoop
          Client,            \* threads other than the loop's own
          IOChannel,         \* the channels that carry sockets
          WakeupChannel      \* wakeupChannel_, on the eventfd wakeupFd_

ASSUME WakeupAssumption == WakeupChannel \notin IOChannel

VARIABLES pendingFunctors_,  \* shared with the clients, under mutex_
          functors,          \* what is left of doPendingFunctors' batch
          callingPendingFunctors_,
          quit_,
          wakeupFd_,         \* TRUE when the eventfd's counter is not zero
          activeChannels_,   \* polled and not yet handled
          pc,                \* where the loop's thread is
          clientPc,          \* a client is idle or about to call wakeup()
          executed,          \* history: tasks in the order they started
          unannounced        \* history: queued by the owner outside loop()

loopVars   == <<functors, callingPendingFunctors_, activeChannels_, pc>>
vars == <<pendingFunctors_, functors, callingPendingFunctors_, quit_,
          wakeupFd_, activeChannels_, pc, clientPc, executed, unannounced>>

Elements(s) == {s[i] : i \in DOMAIN s}

\* "out" is outside loop(); "handler" and "functor" are user callbacks.
Place == {"out", "while", "poll", "dispatch", "handler", "swap", "call",
          "functor"}

Fresh(t) ==
  t \notin Elements(pendingFunctors_) \cup Elements(functors) \cup Elements(executed)

TypeOK ==
  /\ pendingFunctors_ \in Seq(Task)
  /\ functors \in Seq(Task)
  /\ callingPendingFunctors_ \in BOOLEAN
  /\ quit_ \in BOOLEAN
  /\ wakeupFd_ \in BOOLEAN
  /\ activeChannels_ \subseteq IOChannel \cup {WakeupChannel}
  /\ pc \in Place
  /\ clientPc \in [Client -> {"idle", "wakeup"}]
  /\ executed \in Seq(Task)
  /\ unannounced \subseteq Task

\* Mutant: the constructor forgets callingPendingFunctors_(false).
InitUninitialised ==
  /\ pendingFunctors_ = <<>> /\ functors = <<>> /\ executed = <<>>
  /\ callingPendingFunctors_ \in {FALSE, WakeupChannel}
  /\ quit_ = FALSE /\ wakeupFd_ = FALSE /\ activeChannels_ = {} /\ pc = "out"
  /\ clientPc = [c \in Client |-> "idle"] /\ unannounced = {}

Init ==
  /\ pendingFunctors_ = <<>>
  /\ functors = <<>>
  /\ callingPendingFunctors_ = FALSE
  /\ quit_ = FALSE
  /\ wakeupFd_ = FALSE
  /\ activeChannels_ = {}
  /\ pc = "out"
  /\ clientPc = [c \in Client |-> "idle"]
  /\ executed = <<>>
  /\ unannounced = {}

-----------------------------------------------------------------------------
(* The loop's thread inside loop().                                        *)

StartLoop ==
  /\ pc = "out"
  /\ quit_' = FALSE
  /\ pc' = "while"
  /\ UNCHANGED <<pendingFunctors_, functors, callingPendingFunctors_,
                 wakeupFd_, activeChannels_, clientPc, executed, unannounced>>

\* while (!quit_): leave, or clear the active list and poll
TestQuit ==
  /\ pc = "while"
  /\ pc' = IF quit_ THEN "out" ELSE "poll"
  /\ activeChannels_' = IF quit_ THEN activeChannels_ ELSE {}
  /\ UNCHANGED <<pendingFunctors_, functors, callingPendingFunctors_, quit_,
                 wakeupFd_, clientPc, executed, unannounced>>

\* epoll_wait is level triggered: the eventfd is reported while it is
\* readable, together with whatever sockets are ready.
PollEvents(ready) ==
  /\ pc = "poll"
  /\ activeChannels_' = ready \cup (IF wakeupFd_ THEN {WakeupChannel} ELSE {})
  /\ activeChannels_' # {}
  /\ pc' = "dispatch"
  /\ UNCHANGED <<pendingFunctors_, functors, callingPendingFunctors_, quit_,
                 wakeupFd_, clientPc, executed, unannounced>>

\* Mutant: loop() polls again when nothing was active.
PollTimeoutGoesRound ==
  /\ pc = "poll" /\ ~wakeupFd_
  /\ pc' = "while"
  /\ UNCHANGED <<pendingFunctors_, functors, callingPendingFunctors_, quit_,
                 wakeupFd_, activeChannels_, clientPc, executed, unannounced>>

\* kPollTimeMs has passed, or a signal interrupted the wait
PollTimeout ==
  /\ pc = "poll"
  /\ ~wakeupFd_
  /\ pc' = "dispatch"
  /\ UNCHANGED <<pendingFunctors_, functors, callingPendingFunctors_, quit_,
                 wakeupFd_, activeChannels_, clientPc, executed, unannounced>>

\* handleEvent of wakeupChannel_: the read takes the whole count
HandleRead ==
  /\ pc = "dispatch"
  /\ WakeupChannel \in activeChannels_
  /\ activeChannels_' = activeChannels_ \ {WakeupChannel}
  /\ wakeupFd_' = FALSE
  /\ UNCHANGED <<pendingFunctors_, functors, callingPendingFunctors_, quit_,
                 pc, clientPc, executed, unannounced>>

\* handleEvent of a socket's channel calls into user code
BeginHandler(ch) ==
  /\ pc = "dispatch"
  /\ ch \in activeChannels_
  /\ activeChannels_' = activeChannels_ \ {ch}
  /\ pc' = "handler"
  /\ UNCHANGED <<pendingFunctors_, functors, callingPendingFunctors_, quit_,
                 wakeupFd_, clientPc, executed, unannounced>>

BeginPendingFunctors ==
  /\ pc = "dispatch"
  /\ activeChannels_ = {}
  /\ callingPendingFunctors_' = TRUE
  /\ pc' = "swap"
  /\ UNCHANGED <<pendingFunctors_, functors, quit_, wakeupFd_,
                 activeChannels_, clientPc, executed, unannounced>>

\* Mutant: the queue is copied instead of swapped.
SwapCopies ==
  /\ pc = "swap"
  /\ functors' = pendingFunctors_
  /\ pc' = "call"
  /\ UNCHANGED <<pendingFunctors_, callingPendingFunctors_, quit_, wakeupFd_,
                 activeChannels_, clientPc, executed, unannounced>>

Swap ==
  /\ pc = "swap"
  /\ functors' = pendingFunctors_
  /\ pendingFunctors_' = <<>>
  /\ pc' = "call"
  /\ UNCHANGED <<callingPendingFunctors_, quit_, wakeupFd_, activeChannels_,
                 clientPc, executed, unannounced>>

BeginFunctor ==
  /\ pc = "call"
  /\ functors # <<>>
  /\ executed' = Append(executed, Head(functors))
  /\ functors' = Tail(functors)
  /\ pc' = "functor"
  /\ UNCHANGED <<pendingFunctors_, callingPendingFunctors_, quit_, wakeupFd_,
                 activeChannels_, clientPc, unannounced>>

\* Mutant: the eventfd is drained after the batch instead of before it.
EndPendingFunctorsDrains ==
  /\ pc = "call"
  /\ functors = <<>>
  /\ callingPendingFunctors_' = FALSE
  /\ wakeupFd_' = FALSE
  /\ pc' = "while"
  /\ UNCHANGED <<pendingFunctors_, functors, quit_, activeChannels_, clientPc,
                 executed, unannounced>>

EndPendingFunctors ==
  /\ pc = "call"
  /\ functors = <<>>
  /\ callingPendingFunctors_' = FALSE
  /\ pc' = "while"
  /\ UNCHANGED <<pendingFunctors_, functors, quit_, wakeupFd_,
                 activeChannels_, clientPc, executed, unannounced>>

\* A user callback returns to dispatch or to the batch of functors.
ReturnFromCallback ==
  /\ pc \in {"handler", "functor"}
  /\ pc' = IF pc = "handler" THEN "dispatch" ELSE "call"
  /\ UNCHANGED <<pendingFunctors_, functors, callingPendingFunctors_, quit_,
                 wakeupFd_, activeChannels_, clientPc, executed, unannounced>>

-----------------------------------------------------------------------------
(* What user code on the loop's own thread calls: from a callback, or      *)
(* before and after loop().                                                *)

InUserCode == pc \in {"out", "handler", "functor"}

\* Mutant: queueInLoop without "|| callingPendingFunctors_".
OwnerNeverWakes == FALSE

\* !isInLoopThread() || callingPendingFunctors_, seen by the owner
OwnerWakes == callingPendingFunctors_

\* Mutant: a functor queued while the batch runs joins the batch.
OwnerQueueInBatch(t) ==
  /\ InUserCode
  /\ Fresh(t)
  /\ IF callingPendingFunctors_
       THEN functors' = Append(functors, t) /\ UNCHANGED pendingFunctors_
       ELSE pendingFunctors_' = Append(pendingFunctors_, t) /\ UNCHANGED functors
  /\ unannounced' = IF pc = "out" THEN unannounced \cup {t} ELSE unannounced
  /\ UNCHANGED <<callingPendingFunctors_, activeChannels_, pc, wakeupFd_,
                 quit_, clientPc, executed>>

OwnerQueueInLoop(t) ==
  /\ InUserCode
  /\ Fresh(t)
  /\ pendingFunctors_' = Append(pendingFunctors_, t)
  /\ wakeupFd_' = (wakeupFd_ \/ OwnerWakes)
  /\ unannounced' = IF pc = "out" THEN unannounced \cup {t} ELSE unannounced
  /\ UNCHANGED <<loopVars, quit_, clientPc, executed>>

\* isInLoopThread(): cb() runs here and now
OwnerRunInLoop(t) ==
  /\ InUserCode
  /\ Fresh(t)
  /\ executed' = Append(executed, t)
  /\ UNCHANGED <<loopVars, pendingFunctors_, quit_, wakeupFd_, clientPc,
                 unannounced>>

OwnerQuit ==
  /\ InUserCode
  /\ quit_' = TRUE
  /\ UNCHANGED <<loopVars, pendingFunctors_, wakeupFd_, clientPc, executed,
                 unannounced>>

-----------------------------------------------------------------------------
(* The other threads.  The push and the write to the eventfd are two steps *)
(* between which the loop may go round any number of times; so are quit_   *)
(* and the write.                                                          *)

\* queueInLoop, and runInLoop, which calls it from any other thread
ClientQueueInLoop(c, t) ==
  /\ clientPc[c] = "idle"
  /\ Fresh(t)
  /\ pendingFunctors_' = Append(pendingFunctors_, t)
  /\ clientPc' = [clientPc EXCEPT ![c] = "wakeup"]
  /\ UNCHANGED <<loopVars, quit_, wakeupFd_, executed, unannounced>>

\* Mutant: quit() sets the flag and does not wake the loop.
ClientQuitSilently(c) ==
  /\ clientPc[c] = "idle"
  /\ quit_' = TRUE
  /\ UNCHANGED <<loopVars, pendingFunctors_, wakeupFd_, clientPc, executed,
                 unannounced>>

ClientQuit(c) ==
  /\ clientPc[c] = "idle"
  /\ quit_' = TRUE
  /\ clientPc' = [clientPc EXCEPT ![c] = "wakeup"]
  /\ UNCHANGED <<loopVars, pendingFunctors_, wakeupFd_, executed, unannounced>>

ClientWakeup(c) ==
  /\ clientPc[c] = "wakeup"
  /\ wakeupFd_' = TRUE
  /\ clientPc' = [clientPc EXCEPT ![c] = "idle"]
  /\ UNCHANGED <<loopVars, pendingFunctors_, quit_, executed, unannounced>>

-----------------------------------------------------------------------------
LoopStep ==
  \/ TestQuit \/ HandleRead \/ BeginPendingFunctors \/ Swap \/ BeginFunctor
  \/ EndPendingFunctors \/ ReturnFromCallback
  \/ \E ch \in IOChannel : BeginHandler(ch)

Poll == \E ready \in SUBSET IOChannel : PollEvents(ready)

OwnerStep ==
  \/ OwnerQuit
  \/ \E t \in Task : OwnerQueueInLoop(t) \/ OwnerRunInLoop(t)

ClientStep(c) ==
  \/ ClientQuit(c) \/ ClientWakeup(c)
  \/ \E t \in Task : ClientQueueInLoop(c, t)

Next ==
  \/ StartLoop \/ LoopStep \/ Poll \/ PollTimeout \/ OwnerStep
  \/ \E c \in Client : ClientStep(c)

\* The scheduler runs every thread that can run, callbacks return, and
\* epoll_wait returns when the eventfd is readable.  Nothing obliges the
\* user to submit, quit or enter loop(), a socket to become ready, or ten
\* seconds to pass: what the loop promises it must not owe to the timeout.
Fairness ==
  /\ WF_vars(LoopStep)
  /\ WF_vars(wakeupFd_ /\ Poll)
  /\ \A c \in Client : WF_vars(ClientWakeup(c))

Spec == Init /\ [][Next]_vars
FairSpec == Spec /\ Fairness

-----------------------------------------------------------------------------
(* Properties                                                              *)

WakeupComing == wakeupFd_ \/ \E c \in Client : clientPc[c] = "wakeup"

(* queueInLoop's wakeup rule: the loop is never asleep in poll over a task *)
(* that was given to it by another thread, by a functor or by a handler,   *)
(* unless the eventfd is readable or some thread is about to write it.     *)
NoLostWakeup ==
  pc = "poll" /\ ~(Elements(pendingFunctors_) \subseteq unannounced)
    => WakeupComing

(* The same for quit(): the loop does not sleep through a request to stop. *)
NoSleepOnQuit == pc = "poll" /\ quit_ => WakeupComing

(* queueInLoop and doPendingFunctors together are the FIFO of TaskQueue:   *)
(* swapping the batch out loses, repeats and reorders nothing, however the *)
(* pushes of the clients interleave with it.                               *)
Tasks == INSTANCE TaskQueue WITH queue <- functors \o pendingFunctors_
ImplementsTaskQueue == Tasks!Spec

(* A task accepted while its loop runs is executed, and promptly: without  *)
(* the help of the poll timeout, unless the loop is told to quit first.    *)
TasksRun ==
  \A t \in Task :
    (t \in Elements(pendingFunctors_) /\ t \notin unannounced /\ pc # "out")
      ~> (t \in Elements(executed) \/ pc = "out")

(* And a task that nobody announced, queued by the owner outside loop(),   *)
(* waits for the poll timeout at worst: every task is executed if only     *)
(* timeouts elapse.                                                        *)
LateTasksRun ==
  WF_vars(PollTimeout) =>
    \A t \in Task :
      (t \in Elements(pendingFunctors_) /\ pc # "out")
        ~> (t \in Elements(executed) \/ pc = "out")

(* A quit() that loop() sees makes loop() return, again without waiting    *)
(* for the poll timeout.                                                   *)
QuitStops == (quit_ /\ pc # "out") ~> pc = "out"

(* A functor that queues functors does not keep the loop from polling: the *)
(* batch that is being run never grows, it only shrinks to its end.        *)
BatchOnlyShrinks ==
  [][functors # <<>> => functors' \in {functors, Tail(functors)}]_vars

(* What makes NoLostWakeup and NoSleepOnQuit inductive: the batch is empty *)
(* and the flag down outside doPendingFunctors, and the wakeup may be      *)
(* missing only between the dispatch and the swap, which takes whatever    *)
(* the handlers queued without one.                                        *)
BatchPlace ==
  /\ functors # <<>> => pc \in {"call", "functor"}
  /\ callingPendingFunctors_ <=> pc \in {"swap", "call", "functor"}

Announced ==
  pc \notin {"dispatch", "handler", "swap"}
    /\ ~(Elements(pendingFunctors_) \subseteq unannounced)
  => WakeupComing

IInv == TypeOK /\ BatchPlace /\ Announced /\ NoSleepOnQuit
=============================================================================
