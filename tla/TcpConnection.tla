---------------------------- MODULE TcpConnection ----------------------------
(***************************************************************************)
(* One TcpConnection on its I/O loop: the socket, its channel, the output  *)
(* buffer, the functors queued for it, and other threads that hold a       *)
(* TcpConnectionPtr and call send, sendFile and shutdown.  A message is a  *)
(* sequence of units; a unit is what one write can split a message into.   *)
(* The object outlives the module: who keeps it alive is TcpServer.tla.    *)
(***************************************************************************)
EXTENDS Integers, FiniteSets, SequencesExt

CONSTANTS User,              \* threads other than the I/O loop's
          Msg,               \* what is sent with send()
          File,              \* what is sent with sendFile()
          Size,              \* units of each message and file
          HighWaterMark,     \* highWaterMark_
          MaxUnread,         \* bound: deliveries waiting to be read
          MaxSubmitted       \* bound: calls of send() and sendFile()

ASSUME DataAssumption ==
  /\ Msg \cap File = {}
  /\ Size \in [Msg \cup File -> Nat \ {0}]
  /\ HighWaterMark \in Nat \ {0}
  /\ MaxUnread \in Nat /\ MaxSubmitted \in Nat

VARIABLES state_,
          reading, writing,  \* channel_->events()
          registered,        \* the channel is kAdded in the poller
          outputBuffer_,
          wire,              \* units the kernel has taken
          finSent,           \* shutdown(SHUT_WR) has been called
          peer,              \* "open", "fin" or "reset"
          soError,           \* SO_ERROR is pending
          unread,            \* deliveries waiting in the receive buffer
          phase,             \* of the I/O loop: "event" while it dispatches,
                             \* else "poll", after the functors of batch
          revents,           \* callbacks handleEvent has still to make
          cb,                \* the user callback that is running
          queue, batch,      \* pendingFunctors_ and doPendingFunctors' batch
          removing,          \* calls of removeConnectionInLoop that are
                             \* queued on the base loop
          server,            \* "holds" the connection in connections_, has
                             \* "erased" it, or is "gone" itself
          userPc,            \* where each other thread is in its call
          submitted,         \* history: what was given to send, sendFile
          accepted,          \* history: messages sendInLoop did not drop
          ups, downs         \* history: connection callbacks made

chanVars   == <<reading, writing, registered>>
dataVars   == <<outputBuffer_, wire, finSent>>
sockVars   == <<peer, soError, unread>>
roundVars  == <<phase, revents>>
serverVars == <<removing, server>>
envVars    == <<sockVars, serverVars, userPc>>
callVars   == <<ups, downs>>
sentVars   == <<submitted, accepted>>
histVars   == <<callVars, sentVars>>
vars == <<state_, chanVars, dataVars, envVars, roundVars, cb, queue, batch, histVars>>

Data == Msg \cup File
Units(d) == [k \in 1 .. Size[d] |-> <<d, k>>]
From(s, k) == SubSeq(s, k, Len(s))

\* Functors: the file ones carry the offset they continue from.
Functor(op) == [op |-> op]
SendOf(m) == [op |-> "send", msg |-> m]
FileOf(f, k) == [op |-> "file", msg |-> f, from |-> k]
Functors ==
  {Functor(op) : op \in {"established", "destroyed", "shutdown",
                         "writeComplete", "highWater"}}
    \cup {SendOf(m) : m \in Msg}
    \cup UNION {{FileOf(f, k) : k \in 1 .. Size[f]} : f \in File}

Idle == [at |-> "idle"]
UserPlaces ==
  {Idle, [at |-> "shutSet"], [at |-> "shutQueue"]}
    \cup {[at |-> "sendQueue", msg |-> d] : d \in Data}

TypeOK ==
  /\ state_ \in {"kConnecting", "kConnected", "kDisconnecting", "kDisconnected"}
  /\ reading \in BOOLEAN /\ writing \in BOOLEAN /\ registered \in BOOLEAN
  /\ finSent \in BOOLEAN /\ soError \in BOOLEAN
  /\ outputBuffer_ \in Seq(Data \X Nat) /\ wire \in Seq(Data \X Nat)
  /\ peer \in {"open", "fin", "reset"}
  /\ unread \in 0 .. MaxUnread
  /\ removing \in Nat /\ server \in {"holds", "erased", "gone"}
  /\ phase \in {"poll", "event"}
  /\ revents \subseteq {"close", "error", "read", "write"}
  /\ cb \in {"none", "message", "established", "close", "destroying",
            "destroyed", "other"}
  /\ queue \in Seq(Functors) /\ batch \in Seq(Functors)
  /\ userPc \in [User -> UserPlaces]
  /\ submitted \subseteq Data /\ accepted \in Seq(Msg)
  /\ ups \in Nat /\ downs \in Nat

\* newConnection has built the object and queued connectEstablished.
Init ==
  /\ state_ = "kConnecting"
  /\ reading = FALSE /\ writing = FALSE /\ registered = FALSE
  /\ outputBuffer_ = <<>> /\ wire = <<>> /\ finSent = FALSE
  /\ peer = "open" /\ soError = FALSE /\ unread = 0
  /\ phase = "poll" /\ revents = {} /\ cb = "none"
  /\ queue = <<Functor("established")>> /\ batch = <<>>
  /\ removing = 0 /\ server = "holds"
  /\ userPc = [u \in User |-> Idle]
  /\ submitted = {} /\ accepted = <<>>
  /\ ups = 0 /\ downs = 0

-----------------------------------------------------------------------------
(* Sending, on the I/O loop's thread                                       *)

\* Mutant: neither test is made before write().
WritesAlways == TRUE

WritesDirectly == ~writing /\ outputBuffer_ = <<>>

\* write and sendfile fail with EPIPE or ECONNRESET; otherwise they take
\* between nothing (EWOULDBLOCK) and everything.
Broken == peer = "reset" \/ finSent

If(c, s) == IF c THEN s ELSE <<>>

\* sendInLoop: q is the queue the caller leaves
SendInLoop(m, q) ==
  \E n \in 0 .. Size[m], fault \in BOOLEAN :
    LET rest == From(Units(m), n + 1)
        keep == ~fault /\ rest # <<>>
        crosses == /\ Len(outputBuffer_) + Len(rest) >= HighWaterMark
                   /\ Len(outputBuffer_) < HighWaterMark
    IN /\ fault <=> WritesDirectly /\ Broken
       /\ fault \/ ~WritesDirectly => n = 0
       /\ wire' = wire \o SubSeq(Units(m), 1, n)
       /\ outputBuffer_' = IF keep THEN outputBuffer_ \o rest ELSE outputBuffer_
       /\ writing' = (writing \/ keep)
       /\ registered' = (registered \/ (keep /\ ~writing))
       /\ queue' = q \o If(rest = <<>>, <<Functor("writeComplete")>>)
                     \o If(keep /\ crosses, <<Functor("highWater")>>)
       /\ accepted' = IF fault THEN accepted ELSE Append(accepted, m)
       /\ UNCHANGED <<reading, finSent>>

\* sendFileInLoop, continuing at unit k; left[n] is what it queues when n
\* units have been taken, or failed when sendfile has failed for good.  None
\* are taken when sendfile is not called, when it fails with EWOULDBLOCK or
\* with an error that is only logged, and when the file is shorter than it
\* should be: all of these are tried again.
SendFileLeaving(f, k, q, left, failed) ==
  /\ IF state_ = "kDisconnecting"
       THEN queue' = q /\ UNCHANGED wire
       ELSE \E n \in 0 .. Size[f] - k + 1, fault \in BOOLEAN :
              /\ fault <=> WritesDirectly /\ Broken
              /\ fault \/ ~WritesDirectly => n = 0
              /\ wire' = wire \o SubSeq(Units(f), k, k + n - 1)
              /\ queue' = q \o IF fault THEN failed ELSE left[n]
  /\ UNCHANGED <<chanVars, outputBuffer_, finSent, accepted>>

\* Continue behind the units that were taken, or report that all are.
Continue(f, k) ==
  [n \in 0 .. Size[f] |-> IF k + n > Size[f] THEN <<Functor("writeComplete")>>
                                             ELSE <<FileOf(f, k + n)>>]

\* Mutant: what is left is queued with the offset sendfile started from.
SendFileKeepsOffset(f, k, q) ==
  SendFileLeaving(f, k, q,
    [n \in 0 .. Size[f] |-> If(k + n <= Size[f], <<FileOf(f, k)>>)], <<>>)

\* Mutant: remaining >= 0 for remaining > 0.
SendFileNeverEnds(f, k, q) ==
  SendFileLeaving(f, k, q, [n \in 0 .. Size[f] |-> <<FileOf(f, k + n)>>], <<>>)

\* Mutant: faultError is not tested.
SendFileIgnoresFault(f, k, q) ==
  SendFileLeaving(f, k, q, Continue(f, k), <<FileOf(f, k)>>)

SendFileInLoop(f, k, q) == SendFileLeaving(f, k, q, Continue(f, k), <<>>)

\* Mutant: shutdownWrite() at once, without the isWriting() test.
ShutdownAtOnce == finSent' = TRUE

ShutdownInLoop == finSent' = (finSent \/ ~writing)

-----------------------------------------------------------------------------
(* The I/O loop                                                            *)

\* What epoll_wait reports of the channel, level triggered and masked by its
\* interest except for EPOLLHUP and EPOLLERR, and the callbacks
\* handleEventWithGuard makes of it, in its order.
Poll(out) ==
  /\ phase = "poll" /\ cb = "none" /\ batch = <<>>
  /\ out => registered /\ writing
  /\ LET in  == registered /\ reading /\ (unread > 0 \/ peer # "open")
         hup == registered /\ (peer = "reset" \/ (peer = "fin" /\ finSent))
     IN revents' = {c \in {"close", "error", "read", "write"} :
                      CASE c = "close" -> hup /\ ~in
                        [] c = "error" -> registered /\ soError
                        [] c = "read"  -> in
                        [] c = "write" -> out}
  /\ revents' # {} \/ queue # <<>>
  /\ phase' = "event"
  /\ UNCHANGED <<state_, chanVars, dataVars, envVars, cb, queue, batch, histVars>>

InEvent(e, before) ==
  phase = "event" /\ cb = "none" /\ e \in revents /\ revents \cap before = {}

\* setState, disableAll and the connection callback; closeCallback_ follows
\* when that callback returns.
HandleClose ==
  /\ state_' = "kDisconnected"
  /\ reading' = FALSE /\ writing' = FALSE
  /\ registered' = ~registered
  /\ cb' = "close"
  /\ downs' = downs + 1
  /\ UNCHANGED ups

OnClose ==
  /\ InEvent("close", {})
  /\ revents' = revents \ {"close"}
  /\ HandleClose
  /\ UNCHANGED <<dataVars, envVars, phase, queue, batch, sentVars>>

\* handleError reads, and so clears, SO_ERROR
OnError ==
  /\ InEvent("error", {"close"})
  /\ revents' = revents \ {"error"}
  /\ soError' = FALSE
  /\ UNCHANGED <<state_, chanVars, dataVars, peer, unread, phase, cb, queue,
                 batch, serverVars, userPc, histVars>>

\* handleRead: an error is only logged, data goes to the message callback
\* (readFd may leave some behind), end of file comes when both are taken.
ReadEvent(atEof) ==
  /\ InEvent("read", {"close", "error"})
  /\ revents' = revents \ {"read"}
  /\ \/ /\ unread > 0
        /\ unread' \in 0 .. unread - 1
        /\ cb' = "message"
        /\ UNCHANGED <<state_, chanVars, soError, callVars>>
     \/ /\ unread = 0 /\ soError
        /\ soError' = FALSE
        /\ UNCHANGED <<state_, chanVars, unread, cb, callVars>>
     \/ /\ unread = 0 /\ ~soError /\ peer # "open"
        /\ atEof
        /\ UNCHANGED <<unread, soError>>
  /\ UNCHANGED <<dataVars, peer, phase, queue, batch, serverVars, userPc,
                 sentVars>>

\* Mutant: end of file is taken for an error, which is only logged.
OnReadIgnoresEof == ReadEvent(UNCHANGED <<state_, chanVars, cb, callVars>>)

OnRead == ReadEvent(HandleClose)

\* handleWrite when write succeeds: fin is what the drained buffer leads to
Drain(stillWriting, fin) ==
  /\ writing /\ ~Broken
  /\ \E n \in 1 .. Len(outputBuffer_) :
       /\ wire' = wire \o SubSeq(outputBuffer_, 1, n)
       /\ outputBuffer_' = From(outputBuffer_, n + 1)
  /\ IF outputBuffer_' = <<>>
       THEN /\ writing' = stillWriting
            /\ registered' = (reading \/ stillWriting)
            /\ queue' = Append(queue, Functor("writeComplete"))
            /\ finSent' = (finSent \/ fin)
       ELSE UNCHANGED <<writing, registered, queue, finSent>>
  /\ UNCHANGED reading

\* handleWrite: nothing unless writing; a failing write is only logged
WriteEvent(drain) ==
  /\ InEvent("write", {"close", "error", "read"})
  /\ revents' = revents \ {"write"}
  /\ \/ drain
     \/ /\ ~writing \/ Broken
        /\ UNCHANGED <<chanVars, dataVars, queue>>
  /\ UNCHANGED <<state_, envVars, phase, cb, batch, histVars>>

\* Mutant: disableWriting() is missing.
OnWriteKeepsWriting == WriteEvent(Drain(TRUE, state_ = "kDisconnecting"))

\* Mutant: the drained buffer does not lead to shutdownInLoop().
OnWriteNoShutdown == WriteEvent(Drain(FALSE, FALSE))

OnWrite == WriteEvent(Drain(FALSE, state_ = "kDisconnecting"))

Swap ==
  /\ phase = "event" /\ cb = "none" /\ revents = {}
  /\ phase' = "poll"
  /\ batch' = queue
  /\ queue' = <<>>
  /\ UNCHANGED <<state_, chanVars, dataVars, envVars, revents, cb, histVars>>

\* One functor of the batch; the batch shrinks in every case.
RunFunctor(op) ==
  /\ phase = "poll" /\ cb = "none"
  /\ batch # <<>> /\ Head(batch).op = op
  /\ batch' = Tail(batch)
  /\ UNCHANGED <<envVars, roundVars>>

\* connectEstablished: setState, tie, enableReading, the UP callback
ConnectEstablished ==
  /\ RunFunctor("established")
  /\ state_' = "kConnected"
  /\ reading' = TRUE /\ registered' = TRUE
  /\ cb' = "established"
  /\ ups' = ups + 1
  /\ UNCHANGED <<writing, dataVars, queue, downs, sentVars>>

\* connectDestroyed: the test of state_ and the rest are two steps, between
\* which another thread may call setState(kDisconnecting).
ConnectDestroyed ==
  /\ RunFunctor("destroyed")
  /\ IF state_ = "kConnected"
       THEN cb' = "destroying" /\ UNCHANGED registered
       ELSE registered' = FALSE /\ UNCHANGED cb
  /\ UNCHANGED <<state_, reading, writing, dataVars, queue, histVars>>

\* setState(kDisconnected), disableAll and the DOWN callback
Disconnect ==
  /\ cb = "destroying"
  /\ state_' = "kDisconnected"
  /\ reading' = FALSE /\ writing' = FALSE
  /\ registered' = ~registered
  /\ cb' = "destroyed"
  /\ downs' = downs + 1
  /\ UNCHANGED <<dataVars, envVars, roundVars, queue, batch, ups, sentVars>>

RunSend ==
  /\ RunFunctor("send")
  /\ SendInLoop(Head(batch).msg, queue)
  /\ UNCHANGED <<state_, cb, callVars, submitted>>

RunSendFile ==
  /\ RunFunctor("file")
  /\ SendFileInLoop(Head(batch).msg, Head(batch).from, queue)
  /\ UNCHANGED <<state_, cb, callVars, submitted>>

RunShutdown ==
  /\ RunFunctor("shutdown")
  /\ ShutdownInLoop
  /\ UNCHANGED <<state_, chanVars, outputBuffer_, wire, queue, cb, histVars>>

\* writeCompleteCallback_ and highWaterMarkCallback_
RunUserCallback ==
  /\ RunFunctor("writeComplete") \/ RunFunctor("highWater")
  /\ cb' = "other"
  /\ UNCHANGED <<state_, chanVars, dataVars, queue, histVars>>

-----------------------------------------------------------------------------
(* User callbacks on the I/O loop's thread                                 *)

InCallback == cb \notin {"none", "destroying"}

\* handleClose goes on with closeCallback_, which hands the connection to
\* the base loop; connectDestroyed goes on with channel_->remove().
ReturnFromCallback ==
  /\ InCallback
  /\ cb' = "none"
  /\ removing' = IF cb = "close" /\ server # "gone" THEN removing + 1 ELSE removing
  /\ registered' = (registered /\ cb # "destroyed")
  /\ UNCHANGED <<state_, reading, writing, dataVars, sockVars, roundVars, queue,
                 batch, server, userPc, histVars>>

Submits(d) ==
  /\ d \notin submitted /\ Cardinality(submitted) < MaxSubmitted
  /\ submitted' = submitted \cup {d}

OwnerSend(m) ==
  /\ InCallback /\ state_ = "kConnected" /\ Submits(m)
  /\ SendInLoop(m, queue)
  /\ UNCHANGED <<state_, envVars, roundVars, cb, batch, callVars>>

OwnerSendFile(f) ==
  /\ InCallback /\ state_ = "kConnected" /\ Submits(f)
  /\ SendFileInLoop(f, 1, queue)
  /\ UNCHANGED <<state_, envVars, roundVars, cb, batch, callVars>>

OwnerShutdown ==
  /\ InCallback /\ state_ = "kConnected"
  /\ state_' = "kDisconnecting"
  /\ ShutdownInLoop
  /\ UNCHANGED <<chanVars, outputBuffer_, wire, envVars, roundVars, cb, queue,
                 batch, histVars>>

-----------------------------------------------------------------------------
(* Other threads, which have the connection since the UP callback.  The    *)
(* test of state_ and what follows it are separate steps.                  *)

UserUnchanged ==
  UNCHANGED <<chanVars, dataVars, sockVars, roundVars, cb, batch, serverVars,
              callVars, accepted>>

UserCalls(u) == ups > 0 /\ userPc[u] = Idle /\ state_ = "kConnected"

\* send and sendFile: if (state_ == kConnected), not on the loop's thread
UserSendTest(u, d) ==
  /\ UserCalls(u)
  /\ Submits(d)
  /\ userPc' = [userPc EXCEPT ![u] = [at |-> "sendQueue", msg |-> d]]
  /\ UserUnchanged /\ UNCHANGED <<state_, queue>>

UserSendQueue(u) ==
  /\ userPc[u].at = "sendQueue"
  /\ LET d == userPc[u].msg
     IN queue' = Append(queue, IF d \in File THEN FileOf(d, 1) ELSE SendOf(d))
  /\ userPc' = [userPc EXCEPT ![u] = Idle]
  /\ UserUnchanged /\ UNCHANGED <<state_, submitted>>

UserShutdownTest(u) ==
  /\ UserCalls(u)
  /\ userPc' = [userPc EXCEPT ![u] = [at |-> "shutSet"]]
  /\ UserUnchanged /\ UNCHANGED <<state_, queue, submitted>>

UserShutdownSet(u) ==
  /\ userPc[u].at = "shutSet"
  /\ state_' = "kDisconnecting"
  /\ userPc' = [userPc EXCEPT ![u] = [at |-> "shutQueue"]]
  /\ UserUnchanged /\ UNCHANGED <<queue, submitted>>

UserShutdownQueue(u) ==
  /\ userPc[u].at = "shutQueue"
  /\ queue' = Append(queue, Functor("shutdown"))
  /\ userPc' = [userPc EXCEPT ![u] = Idle]
  /\ UserUnchanged /\ UNCHANGED <<state_, submitted>>

-----------------------------------------------------------------------------
(* The base loop and the peer                                              *)

EnvUnchanged ==
  UNCHANGED <<state_, chanVars, dataVars, roundVars, cb, batch, userPc, histVars>>

\* removeConnectionInLoop: erase from connections_, queue connectDestroyed
RemoveConnection ==
  /\ removing > 0
  /\ removing' = removing - 1 /\ server' = "erased"
  /\ queue' = Append(queue, Functor("destroyed"))
  /\ EnvUnchanged /\ UNCHANGED sockVars

\* ~TcpServer, after the base loop has ended
ServerDestroyed ==
  /\ server # "gone"
  /\ server' = "gone" /\ removing' = 0
  /\ queue' = queue \o If(server = "holds", <<Functor("destroyed")>>)
  /\ EnvUnchanged /\ UNCHANGED sockVars

PeerSends ==
  /\ peer = "open" /\ unread < MaxUnread
  /\ unread' = unread + 1
  /\ EnvUnchanged /\ UNCHANGED <<peer, soError, queue, serverVars>>

PeerCloses ==
  /\ peer = "open"
  /\ peer' = "fin"
  /\ EnvUnchanged /\ UNCHANGED <<soError, unread, queue, serverVars>>

PeerResets ==
  /\ peer # "reset"
  /\ peer' = "reset" /\ soError' = TRUE
  /\ EnvUnchanged /\ UNCHANGED <<unread, queue, serverVars>>

-----------------------------------------------------------------------------
LoopStep ==
  \/ (\E out \in BOOLEAN : Poll(out))
  \/ OnClose \/ OnError \/ OnRead \/ OnWrite \/ Swap
  \/ ConnectEstablished \/ ConnectDestroyed \/ Disconnect
  \/ RunSend \/ RunSendFile \/ RunShutdown \/ RunUserCallback
  \/ ReturnFromCallback

OwnerStep ==
  \/ OwnerShutdown
  \/ \E m \in Msg : OwnerSend(m)
  \/ \E f \in File : OwnerSendFile(f)

UserFinish(u) ==
  UserSendQueue(u) \/ UserShutdownSet(u) \/ UserShutdownQueue(u)

UserStep(u) ==
  \/ UserFinish(u) \/ UserShutdownTest(u)
  \/ \E d \in Data : UserSendTest(u, d)

PeerStep == PeerSends \/ PeerCloses \/ PeerResets

Next ==
  \/ LoopStep \/ OwnerStep \/ RemoveConnection \/ ServerDestroyed \/ PeerStep
  \/ \E u \in User : UserStep(u)

\* The loop goes round and user callbacks return; a call that has been
\* started is finished; the peer keeps reading, so that EPOLLOUT, which is
\* level triggered, is reported again and again while it is asked for.
Fairness ==
  /\ WF_vars(LoopStep)
  /\ SF_vars(Poll(TRUE))
  /\ WF_vars(RemoveConnection)
  /\ \A u \in User : WF_vars(UserFinish(u))

Spec == Init /\ [][Next]_vars
FairSpec == Spec /\ Fairness

\* And a sendfile that is repeated takes something in the end: the file is as
\* long as it should be, and its errors pass.
TakingSpec == FairSpec /\ SF_vars(RunSendFile /\ wire' # wire)

-----------------------------------------------------------------------------
(* Properties                                                              *)

Sent == wire \o outputBuffer_

(* handleWrite, sendInLoop and disableWriting keep EPOLLOUT asked for      *)
(* exactly while there is something buffered: no data is left behind       *)
(* without a wakeup and no empty buffer keeps the loop busy.               *)
WriteInterest == reading => (writing <=> outputBuffer_ # <<>>)

\* Where the units of m lie in a stream when they come behind its first p units
Places(p, m) == p + 1 .. p + Size[m]

(* Nothing that sendInLoop accepted is lost, duplicated, reordered or torn *)
(* apart on its way through the direct write, the buffer and handleWrite,  *)
(* whatever is sent from which thread and however files interleave with    *)
(* it: the stream has every message in one piece, behind those accepted    *)
(* before it, and no unit of a message besides.                            *)
StreamIntact ==
  \E at \in [DOMAIN accepted -> 0 .. Len(Sent)] :
    /\ \A i \in DOMAIN accepted :
         /\ Places(at[i], accepted[i]) \subseteq DOMAIN Sent
         /\ \A k \in 1 .. Size[accepted[i]] : Sent[at[i] + k] = <<accepted[i], k>>
    /\ \A i, j \in DOMAIN accepted : i < j => at[i] + Size[accepted[i]] <= at[j]
    /\ \A p \in DOMAIN Sent : Sent[p][1] \in Msg
         => \E i \in DOMAIN accepted : p \in Places(at[i], accepted[i])

\* A step hands a message to the connection that it keeps in full, or a piece
\* of a file, or nothing.
Keeps(m) == accepted' = Append(accepted, m) /\ Sent' = Sent \o Units(m)
Moves == accepted' = accepted /\ Sent' = Sent
SendsPiece(f) ==
  /\ accepted' = accepted
  /\ \E k, n \in 1 .. Size[f] : Sent' = Sent \o SubSeq(Units(f), k, n)

(* Step by step: what is on the wire or buffered only ever grows at its    *)
(* end, by all the units of a message sendInLoop has just accepted or by a *)
(* piece of a file.  No write, drain or close takes, repeats or reorders   *)
(* anything, also not when the kernel takes only part of it.               *)
StreamKept ==
  [][Moves \/ (\E m \in Msg : Keeps(m)) \/ (\E f \in File : SendsPiece(f))]_vars

\* The functors that wait, in the order they will run in
Waiting == batch \o queue

\* sendFileInLoop of f is queued, or sendFile is about to queue it.
FileQueued(f) == \E k \in 1 .. Size[f] : FileOf(f, k) \in Range(Waiting)
FileSubmitted(f) == \E u \in User : userPc[u] = [at |-> "sendQueue", msg |-> f]

\* s has the first n units of f, each once and in their order, and no others.
HasFirst(n, f, s) ==
  /\ \A k \in 1 .. n : \E p \in DOMAIN s : s[p] = <<f, k>>
  /\ \A p \in DOMAIN s : s[p][1] = f => s[p][2] \in 1 .. n
  /\ \A p, q \in DOMAIN s : s[p][1] = f /\ s[q][1] = f /\ p < q => s[p][2] < s[q][2]

(* A file goes out in order and whole: the functor that waits continues    *)
(* where the wire has stopped, and while the connection is kConnected no   *)
(* unit is given up, whatever messages, full buffers and other files come  *)
(* between.  Only shutdown(), a close and a reset cut a file short.        *)
FilesWhole ==
  \A f \in File : \E n \in 0 .. Size[f] :
    /\ HasFirst(n, f, wire)
    /\ \A k \in 1 .. Size[f] : FileOf(f, k) \in Range(Waiting) => k = n + 1
    /\ f \in submitted /\ state_ = "kConnected" /\ peer # "reset"
         => FileQueued(f) \/ FileSubmitted(f) \/ n = Size[f]

(* A file whose sendfile comes to nothing does not keep the loop busy for  *)
(* ever: once the connection is shut down or reset, from whichever thread  *)
(* and at whatever moment, its functor stops queueing itself, unless the   *)
(* connection goes DOWN with bytes in the output buffer.                   *)
FilesGivenUp ==
  \A f \in File :
    (state_ = "kDisconnecting" \/ peer = "reset") /\ FileQueued(f)
      ~> (~FileQueued(f) \/ (downs > 0 /\ outputBuffer_ # <<>>))

(* While the connection is read, the FIN waits for the output buffer, and  *)
(* after it nothing is buffered: with StreamIntact, all that was accepted  *)
(* by then is on the wire.  A close gives the buffer up, and a shutdown    *)
(* that was queued before it sends the FIN all the same.                   *)
FinAfterAccepted == finSent /\ reading => outputBuffer_ = <<>>

(* shutdown() ends with the FIN, whichever of shutdownInLoop and           *)
(* handleWrite comes last.                                                 *)
ShutdownDone ==
  state_ = "kDisconnecting" ~> (finSent \/ downs > 0 \/ peer = "reset" \/ server = "gone")

(* The end of the peer is noticed and reported to the user.                *)
CloseNoticed == (peer # "open" /\ ups > 0) ~> (downs > 0 \/ server = "gone")

(* What sendInLoop's comment says: once the connection is disconnected     *)
(* nothing more is sent.                                                   *)
NothingSentAfterDisconnect ==
  [][state_ = "kDisconnected" => UNCHANGED <<wire, outputBuffer_>>]_vars

(* What sendFileInLoop's comment says: once the connection is disconnected *)
(* a file needs no sending any more, so that its functor comes to an end.  *)
FileStopsWhenDown ==
  \A f \in File : state_ = "kDisconnected" /\ FileQueued(f) ~> ~FileQueued(f)
=============================================================================
