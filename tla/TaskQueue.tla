------------------------------ MODULE TaskQueue ------------------------------
(***************************************************************************)
(* What EventLoop promises to the callers of queueInLoop and runInLoop: a  *)
(* FIFO of tasks of which each is executed at most once and none is lost   *)
(* or overtaken, whichever thread submitted it.  How the detailed loop     *)
(* splits the FIFO into the shared vector pendingFunctors_ and the batch   *)
(* it is working through is the business of EventLoop.tla, which           *)
(* implements this module.                                                 *)
(***************************************************************************)
EXTENDS Sequences

CONSTANT Task                \* the functors that are ever submitted

VARIABLES queue,             \* accepted and not yet started, oldest first
          executed           \* started, in the order they were started

vars == <<queue, executed>>

Elements(s) == {s[i] : i \in DOMAIN s}

\* The same functor is not submitted twice: tasks stand for submissions.
Fresh(t) == t \notin Elements(queue) \cup Elements(executed)

Init == queue = <<>> /\ executed = <<>>

\* queueInLoop, or runInLoop from another thread
Submit(t) == /\ Fresh(t)
             /\ queue' = Append(queue, t)
             /\ UNCHANGED executed

\* runInLoop from the loop's own thread: the task does not pass the queue
RunNow(t) == /\ Fresh(t)
             /\ executed' = Append(executed, t)
             /\ UNCHANGED queue

RunNext == /\ queue # <<>>
           /\ executed' = Append(executed, Head(queue))
           /\ queue' = Tail(queue)

Next == RunNext \/ \E t \in Task : Submit(t) \/ RunNow(t)

Spec == Init /\ [][Next]_vars
=============================================================================
