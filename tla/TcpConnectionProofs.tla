------------------------ MODULE TcpConnectionProofs -------------------------
(***************************************************************************)
(* Proofs about TcpConnection for any messages and files, threads and high *)
(* water mark: EPOLLOUT is asked for exactly while something is buffered,  *)
(* the FIN waits for the buffer, and every step keeps the stream.          *)
(***************************************************************************)
EXTENDS TcpConnection, SequenceTheorems, TLAPS

Unit == Data \X Nat

\* connectEstablished is queued once, before everything else: in the queue q or
\* the batch b, and only while the callback has been called u = 0 times.
Once(q, b, u) ==
  /\ \A i \in DOMAIN q : q[i].op = "established" => u = 0 /\ b = <<>> /\ i = 1
  /\ \A i \in DOMAIN b : b[i].op = "established" => u = 0 /\ i = 1

EstablishedOnce == Once(queue, batch, ups)

OnlyLife(q) == \A i \in DOMAIN q : q[i].op \in {"established", "destroyed"}

\* Until it has run nobody knows the connection but the server.
Untouched ==
  ups = 0 =>
    /\ state_ = "kConnecting"
    /\ reading = FALSE /\ writing = FALSE /\ registered = FALSE
    /\ outputBuffer_ = <<>> /\ finSent = FALSE
    /\ revents = {} /\ cb = "none"
    /\ \A u \in User : userPc[u] = Idle
    /\ OnlyLife(queue) /\ OnlyLife(batch)

\* What makes WriteInterest and FinAfterAccepted inductive
IInv == TypeOK /\ EstablishedOnce /\ Untouched /\ WriteInterest /\ FinAfterAccepted

-----------------------------------------------------------------------------
(* Sequences                                                               *)

LEMMA UnitsFacts ==
  ASSUME NEW d \in Data
  PROVE  /\ Size[d] \in Nat \ {0} /\ Units(d) \in Seq(Unit)
         /\ Len(Units(d)) = Size[d] /\ Units(d) # <<>>
<1>1. Size[d] \in Nat \ {0}
  BY DataAssumption DEF Data
<1>2. /\ Units(d) = [k \in 1 .. Size[d] |-> <<d, k>>]
      /\ \A k \in 1 .. Size[d] : <<d, k>> \in Unit
  BY <1>1 DEF Units, Unit
<1> QED BY <1>1, <1>2

\* A sequence cut after n: the two parts, and together they are the whole.
LEMMA CutFacts ==
  ASSUME NEW S, NEW s \in Seq(S), NEW n \in 0 .. Len(s)
  PROVE  /\ SubSeq(s, 1, n) \in Seq(S) /\ From(s, n + 1) \in Seq(S)
         /\ Len(From(s, n + 1)) = Len(s) - n
         /\ SubSeq(s, 1, n) \o From(s, n + 1) = s
         /\ n = 0 => SubSeq(s, 1, n) = <<>> /\ From(s, n + 1) = s
         /\ From(s, n + 1) = <<>> <=> n = Len(s)
<1>1. Len(s) \in Nat /\ n \in Nat /\ \A i \in 1 .. Len(s) : s[i] \in S
  BY LenProperties, ElementOfSeq
<1>2. SubSeq(s, 1, n) \in Seq(S)
  BY <1>1, SubSeqProperties
<1>3. From(s, n + 1) \in Seq(S) /\ Len(From(s, n + 1)) = Len(s) - n
  BY <1>1, SubSeqProperties DEF From
<1>4. SubSeq(s, 1, n) \o From(s, n + 1) = s
  <2>1. SubSeq(s, 1, Len(s)) = s
    BY SubSeqFull
  <2>2. SubSeq(s, 1, n) \o SubSeq(s, n + 1, Len(s)) = SubSeq(s, 1, Len(s))
    <3>1. 1 \in 1 .. Len(s) + 1 /\ n \in 1 - 1 .. Len(s) /\ Len(s) \in n .. Len(s)
      BY <1>1
    <3> QED BY <3>1, ConcatAdjacentSubSeq
  <2> QED BY <2>1, <2>2 DEF From
<1>5. n = 0 => SubSeq(s, 1, n) = <<>> /\ From(s, n + 1) = s
  BY <1>1, SubSeqEmpty, SubSeqFull DEF From
<1>6. From(s, n + 1) = <<>> <=> n = Len(s)
  BY <1>1, <1>3, EmptySeq
<1> QED BY <1>2, <1>3, <1>4, <1>5, <1>6

-----------------------------------------------------------------------------
(* Queues                                                                  *)

\* r is the queue q with other functors than connectEstablished behind it.
Extends(q, r) ==
  /\ r \in Seq(Functors)
  /\ \A b, u : Once(q, b, u) => Once(r, b, u)

LEMMA ExtendsByOne ==
  ASSUME NEW q \in Seq(Functors), NEW f \in Functors, f.op # "established"
  PROVE  /\ Extends(q, Append(q, f)) /\ Extends(q, q \o <<f>>)
         /\ OnlyLife(q) /\ f.op = "destroyed" => OnlyLife(Append(q, f))
<1>1. /\ Append(q, f) \in Seq(Functors) /\ Append(q, f) = q \o <<f>>
      /\ Len(q) \in Nat /\ DOMAIN q = 1 .. Len(q)
      /\ DOMAIN Append(q, f) = 1 .. Len(q) + 1
      /\ \A i \in 1 .. Len(q) : Append(q, f)[i] = q[i]
      /\ Append(q, f)[Len(q) + 1] = f
  OBVIOUS
<1>2. ASSUME NEW b, NEW u, Once(q, b, u) PROVE Once(Append(q, f), b, u)
  BY <1>1, <1>2 DEF Once
<1>3. OnlyLife(q) /\ f.op = "destroyed" => OnlyLife(Append(q, f))
  BY <1>1 DEF OnlyLife
<1> QED BY <1>1, <1>2, <1>3 DEF Extends

LEMMA ExtendsMaybe ==
  ASSUME NEW q \in Seq(Functors), NEW c, NEW f \in Functors, f.op # "established"
  PROVE  Extends(q, q \o If(c, <<f>>))
<1>1. CASE c
  BY <1>1, ExtendsByOne DEF If
<1>2. CASE ~c
  <2>1. q \o <<>> = q
    OBVIOUS
  <2> QED BY <1>2, <2>1 DEF If, Extends
<1> QED BY <1>1, <1>2

\* Taking the first functor of the batch
LEMMA TailKeeps ==
  ASSUME NEW q, NEW b \in Seq(Functors), b # <<>>, NEW u, Once(q, b, u)
  PROVE  /\ Tail(b) \in Seq(Functors) /\ Head(b) \in Functors
         /\ \A v : Once(q, Tail(b), v)
         /\ Head(b).op = "established" => u = 0
         /\ OnlyLife(b) => OnlyLife(Tail(b)) /\ Head(b).op \in {"established", "destroyed"}
<1>1. /\ Len(b) \in Nat /\ DOMAIN b = 1 .. Len(b) /\ 1 \in DOMAIN b
      /\ Tail(b) \in Seq(Functors) /\ DOMAIN Tail(b) = 1 .. Len(b) - 1
      /\ \A i \in 1 .. Len(b) - 1 : Tail(b)[i] = b[i + 1] /\ i + 1 \in DOMAIN b /\ i + 1 # 1
      /\ Head(b) = b[1] /\ b[1] \in Functors
  OBVIOUS
<1>2. \A v : Once(q, Tail(b), v)
  BY <1>1 DEF Once
<1>3. Head(b).op = "established" => u = 0
  BY <1>1 DEF Once
<1>4. OnlyLife(b) => OnlyLife(Tail(b)) /\ Head(b).op \in {"established", "destroyed"}
  BY <1>1 DEF OnlyLife
<1> QED BY <1>1, <1>2, <1>3, <1>4

LEMMA FunctorFacts ==
  /\ \A op \in {"established", "destroyed", "shutdown", "writeComplete", "highWater"} :
        Functor(op) \in Functors /\ Functor(op).op = op
  /\ \A m \in Msg : SendOf(m) \in Functors /\ SendOf(m).op = "send"
  /\ \A f \in File : \A k \in 1 .. Size[f] :
        FileOf(f, k) \in Functors /\ FileOf(f, k).op = "file"
  /\ \A g \in Functors : g.op = "send" => g.msg \in Msg
  /\ \A g \in Functors : g.op = "file" => g.msg \in File /\ g.from \in 1 .. Size[g.msg]
<1> DEFINE Plain == {Functor(op) : op \in {"established", "destroyed", "shutdown",
                                          "writeComplete", "highWater"}}
           Sends == {SendOf(m) : m \in Msg}
           Files == UNION {{FileOf(f, k) : k \in 1 .. Size[f]} : f \in File}
<1>1. Functors = (Plain \cup Sends) \cup Files
  BY DEF Functors
<1>2. ASSUME NEW op \in {"established", "destroyed", "shutdown", "writeComplete", "highWater"}
      PROVE  Functor(op) \in Functors /\ Functor(op).op = op
  BY <1>1 DEF Functor
<1>3. ASSUME NEW m \in Msg PROVE SendOf(m) \in Functors /\ SendOf(m).op = "send"
  BY <1>1 DEF SendOf
<1>4. ASSUME NEW f \in File, NEW k \in 1 .. Size[f]
      PROVE  FileOf(f, k) \in Functors /\ FileOf(f, k).op = "file"
  <2>1. FileOf(f, k) \in Files
    OBVIOUS
  <2> QED BY <1>1, <2>1 DEF FileOf
<1>5. ASSUME NEW g \in Plain PROVE g.op # "send" /\ g.op # "file"
  BY <1>5 DEF Functor
<1>6. ASSUME NEW g \in Sends PROVE g.op = "send" /\ g.msg \in Msg
  BY <1>6 DEF SendOf
<1>7. ASSUME NEW g \in Files
      PROVE  g.op = "file" /\ g.msg \in File /\ g.from \in 1 .. Size[g.msg]
  <2>1. PICK f \in File : g \in {FileOf(f, k) : k \in 1 .. Size[f]}
    BY <1>7
  <2>2. PICK k \in 1 .. Size[f] : g = FileOf(f, k)
    BY <2>1
  <2> QED BY <2>2 DEF FileOf
<1> HIDE DEF Plain, Sends, Files
<1> QED BY <1>1, <1>2, <1>3, <1>4, <1>5, <1>6, <1>7

-----------------------------------------------------------------------------
(* What sending does to the stream                                         *)

\* TypeOK in parts
FlagTypes ==
  /\ reading \in BOOLEAN /\ writing \in BOOLEAN /\ registered \in BOOLEAN
  /\ finSent \in BOOLEAN /\ soError \in BOOLEAN
SeqTypes ==
  /\ outputBuffer_ \in Seq(Unit) /\ wire \in Seq(Unit)
  /\ queue \in Seq(Functors) /\ batch \in Seq(Functors) /\ accepted \in Seq(Msg)
PlaceTypes ==
  /\ state_ \in {"kConnecting", "kConnected", "kDisconnecting", "kDisconnected"}
  /\ peer \in {"open", "fin", "reset"} /\ unread \in 0 .. MaxUnread
  /\ removing \in Nat /\ server \in {"holds", "erased", "gone"}
  /\ phase \in {"poll", "event"}
  /\ revents \subseteq {"close", "error", "read", "write"}
  /\ cb \in {"none", "message", "established", "close", "destroying",
             "destroyed", "other"}
  /\ userPc \in [User -> UserPlaces]
  /\ submitted \subseteq Data
  /\ ups \in Nat /\ downs \in Nat

LEMMA TypeParts == TypeOK <=> FlagTypes /\ SeqTypes /\ PlaceTypes
BY DEF TypeOK, FlagTypes, SeqTypes, PlaceTypes, Unit

LEMMA NextTypes == FlagTypes' /\ SeqTypes' /\ PlaceTypes' => TypeOK'
BY DEF TypeOK, FlagTypes, SeqTypes, PlaceTypes, Unit

LEMMA StreamTypes == TypeOK => FlagTypes /\ SeqTypes
BY TypeParts

\* What keeps WriteInterest and FinAfterAccepted
Interest == writing <=> outputBuffer_ # <<>>
FinIsLast == finSent => outputBuffer_ = <<>>

\* ConcatAssociative for units
LEMMA StreamAssociative ==
  ASSUME NEW s \in Seq(Unit), NEW t \in Seq(Unit), NEW u \in Seq(Unit)
  PROVE  (s \o t) \o u = s \o (t \o u)
BY ConcatAssociative

LEMMA SendKeeps ==
  ASSUME TypeOK, NEW m \in Msg, SendInLoop(m, queue)
  PROVE  /\ wire' \in Seq(Unit) /\ outputBuffer_' \in Seq(Unit)
         /\ accepted' \in Seq(Msg)
         /\ writing' \in BOOLEAN /\ registered' \in BOOLEAN
         /\ Extends(queue, queue')
         /\ Interest => Interest'
         /\ Interest /\ FinIsLast => FinIsLast'
         /\ Moves \/ Keeps(m)
<1> DEFINE all == Units(m)
<1>u. /\ m \in Data /\ all \in Seq(Unit) /\ all # <<>>
      /\ Size[m] \in Nat /\ Len(all) = Size[m]
  BY UnitsFacts DEF Data
<1>1. PICK n \in 0 .. Len(all), fault \in BOOLEAN :
        LET rest == From(all, n + 1)
            keep == ~fault /\ rest # <<>>
            crosses == /\ Len(outputBuffer_) + Len(rest) >= HighWaterMark
                       /\ Len(outputBuffer_) < HighWaterMark
        IN /\ fault <=> WritesDirectly /\ Broken
           /\ fault \/ ~WritesDirectly => n = 0
           /\ wire' = wire \o SubSeq(all, 1, n)
           /\ outputBuffer_' = IF keep THEN outputBuffer_ \o rest ELSE outputBuffer_
           /\ writing' = (writing \/ keep)
           /\ registered' = (registered \/ (keep /\ ~writing))
           /\ queue' = queue \o If(rest = <<>>, <<Functor("writeComplete")>>)
                             \o If(keep /\ crosses, <<Functor("highWater")>>)
           /\ accepted' = IF fault THEN accepted ELSE Append(accepted, m)
           /\ UNCHANGED <<reading, finSent>>
  BY <1>u DEF SendInLoop
<1> DEFINE rest == From(all, n + 1)
           head == SubSeq(all, 1, n)
           keep == ~fault /\ rest # <<>>
           mark == /\ Len(outputBuffer_) + Len(rest) >= HighWaterMark
                   /\ Len(outputBuffer_) < HighWaterMark
<1>2. /\ head \in Seq(Unit) /\ rest \in Seq(Unit) /\ head \o rest = all
      /\ n = 0 => head = <<>> /\ rest = all
  BY <1>u, CutFacts
<1>3. /\ fault <=> WritesDirectly /\ Broken
      /\ fault \/ ~WritesDirectly => n = 0
      /\ wire' = wire \o head
      /\ outputBuffer_' = IF keep THEN outputBuffer_ \o rest ELSE outputBuffer_
      /\ writing' = (writing \/ keep)
      /\ registered' = (registered \/ (keep /\ ~writing))
      /\ queue' = queue \o If(rest = <<>>, <<Functor("writeComplete")>>)
                        \o If(keep /\ mark, <<Functor("highWater")>>)
      /\ accepted' = IF fault THEN accepted ELSE Append(accepted, m)
      /\ finSent' = finSent
  BY <1>1
<1>t. /\ outputBuffer_ \in Seq(Unit) /\ wire \in Seq(Unit) /\ accepted \in Seq(Msg)
      /\ queue \in Seq(Functors) /\ writing \in BOOLEAN /\ registered \in BOOLEAN
      /\ keep \in BOOLEAN
  BY StreamTypes DEF FlagTypes, SeqTypes
<1>q. Extends(queue, queue')
  <2> DEFINE mid == queue \o If(rest = <<>>, <<Functor("writeComplete")>>)
  <2>1. Extends(queue, mid)
    BY <1>t, FunctorFacts, ExtendsMaybe
  <2>2. Extends(mid, mid \o If(keep /\ mark, <<Functor("highWater")>>))
    BY <2>1, FunctorFacts, ExtendsMaybe DEF Extends
  <2> QED BY <1>3, <2>1, <2>2 DEF Extends
<1> HIDE DEF rest, head, all, mark
<1>w. /\ wire' \in Seq(Unit) /\ accepted' \in Seq(Msg)
      /\ writing' \in BOOLEAN /\ registered' \in BOOLEAN
  BY <1>2, <1>3, <1>t
<1>4. CASE fault
  <2>1. UNCHANGED <<wire, outputBuffer_, writing, accepted>>
    <3>1. wire \o <<>> = wire
      BY <1>t
    <3> QED BY <1>2, <1>3, <1>4, <1>t, <3>1
  <2> QED BY <1>3, <1>q, <1>t, <1>w, <2>1 DEF Interest, FinIsLast, Moves, Sent
<1>5. CASE ~fault /\ WritesDirectly
  <2>1. /\ writing = FALSE /\ outputBuffer_ = <<>> /\ ~finSent
        /\ outputBuffer_' = rest /\ writing' = (rest # <<>>)
    <3>1. outputBuffer_ = <<>> /\ ~writing /\ ~finSent
      BY <1>3, <1>5 DEF WritesDirectly, Broken
    <3>2. <<>> \o rest = rest
      BY <1>2
    <3> QED BY <1>3, <1>5, <1>t, <3>1, <3>2
  <2>2. Keeps(m)
    <3>1. wire \o <<>> = wire
      BY <1>t
    <3>2. (wire \o head) \o rest = wire \o (head \o rest)
      BY <1>2, <1>t, StreamAssociative
    <3> QED BY <1>2, <1>3, <1>5, <2>1, <3>1, <3>2 DEF Keeps, Sent, all
  <2> QED BY <1>2, <1>3, <1>q, <1>w, <2>1, <2>2 DEF Interest, FinIsLast
<1>6. CASE ~fault /\ ~WritesDirectly
  <2>1. /\ outputBuffer_' = outputBuffer_ \o all /\ wire' = wire /\ writing' = TRUE
        /\ outputBuffer_' # <<>> /\ outputBuffer_' \in Seq(Unit)
    <3>1. wire \o <<>> = wire
      BY <1>t
    <3>2. outputBuffer_ \o all # <<>> /\ outputBuffer_ \o all \in Seq(Unit)
      BY <1>u, <1>t
    <3> QED BY <1>u, <1>2, <1>3, <1>6, <1>t, <3>1, <3>2
  <2>2. Keeps(m)
    <3>1. wire \o (outputBuffer_ \o all) = (wire \o outputBuffer_) \o all
      BY <1>u, <1>t, StreamAssociative
    <3> QED BY <1>3, <1>6, <2>1, <3>1 DEF Keeps, Sent, all
  <2>3. Interest /\ FinIsLast => ~finSent
    BY <1>6, <1>t DEF Interest, FinIsLast, WritesDirectly
  <2> QED BY <1>3, <1>q, <1>t, <1>w, <2>1, <2>2, <2>3 DEF Interest, FinIsLast
<1> QED BY <1>4, <1>5, <1>6

LEMMA FileKeeps ==
  ASSUME TypeOK, NEW f \in File, NEW k \in 1 .. Size[f], SendFileInLoop(f, k, queue)
  PROVE  /\ wire' \in Seq(Unit) /\ Extends(queue, queue')
         /\ UNCHANGED <<chanVars, outputBuffer_, finSent, accepted>>
         /\ Moves \/ SendsPiece(f)
<1> DEFINE all == Units(f)
<1>u. /\ f \in Data /\ all \in Seq(Unit) /\ Size[f] \in Nat /\ Len(all) = Size[f]
      /\ k \in Nat \ {0} /\ k <= Size[f]
  BY UnitsFacts DEF Data
<1>t. /\ outputBuffer_ \in Seq(Unit) /\ wire \in Seq(Unit) /\ queue \in Seq(Functors)
      /\ wire \o <<>> = wire
  BY StreamTypes DEF FlagTypes, SeqTypes
<1>1. UNCHANGED <<chanVars, outputBuffer_, finSent, accepted>>
  BY DEF SendFileInLoop, SendFileLeaving
<1>2. CASE state_ = "kDisconnecting"
  <2>1. queue' = queue /\ wire' = wire
    BY <1>2 DEF SendFileInLoop, SendFileLeaving
  <2> QED BY <1>1, <1>t, <2>1 DEF Extends, Moves, Sent
<1>3. CASE state_ # "kDisconnecting"
  <2>1. PICK n \in 0 .. Size[f] - k + 1, fault \in BOOLEAN :
          /\ fault \/ ~WritesDirectly => n = 0
          /\ wire' = wire \o SubSeq(all, k, k + n - 1)
          /\ queue' = queue \o IF fault THEN <<>> ELSE Continue(f, k)[n]
    BY <1>3 DEF SendFileInLoop, SendFileLeaving
  <2>n. n \in Nat /\ k + n - 1 \in Nat /\ k + n - 1 <= Size[f]
    BY <1>u
  <2>2. Extends(queue, queue')
    <3>1. CASE fault
      BY <1>t, <2>1, <3>1 DEF Extends
    <3>2. CASE ~fault
      <4>1. Continue(f, k)[n] = IF k + n > Size[f] THEN <<Functor("writeComplete")>>
                                ELSE <<FileOf(f, k + n)>>
        BY <1>u, <2>n DEF Continue
      <4>2. ASSUME k + n <= Size[f]
            PROVE  FileOf(f, k + n) \in Functors /\ FileOf(f, k + n).op = "file"
        <5>1. k + n \in 1 .. Size[f]
          BY <1>u, <2>n, <4>2
        <5> QED BY <5>1, FunctorFacts
      <4> QED BY <1>t, <1>u, <2>1, <2>n, <3>2, <4>1, <4>2, FunctorFacts, ExtendsByOne
    <3> QED BY <3>1, <3>2
  <2> DEFINE piece == SubSeq(all, k, k + n - 1)
  <2>3. piece \in Seq(Unit)
    <3>1. \A i \in k .. k + n - 1 : all[i] \in Unit
      BY <1>u, <2>n
    <3> QED BY <1>u, <2>n, <3>1, SubSeqProperties
  <2>4. CASE n = 0
    <3>1. piece = <<>>
      BY <1>u, <2>4, SubSeqEmpty
    <3> QED BY <1>1, <1>t, <2>1, <2>2, <3>1 DEF Moves, Sent
  <2>5. CASE n # 0
    <3>1. outputBuffer_ = <<>> /\ k + n - 1 \in 1 .. Size[f]
      BY <1>u, <2>1, <2>n, <2>5 DEF WritesDirectly
    <3>2. wire' = wire \o piece /\ wire' \in Seq(Unit)
      BY <1>t, <2>1, <2>3
    <3>3. Sent = wire /\ Sent' = wire'
      BY <1>1, <1>t, <3>1, <3>2 DEF Sent
    <3> QED BY <1>1, <2>2, <3>1, <3>2, <3>3 DEF SendsPiece
  <2> QED BY <2>4, <2>5
<1> QED BY <1>2, <1>3

\* handleWrite
LEMMA DrainKeeps ==
  ASSUME TypeOK, NEW fin \in BOOLEAN, Drain(FALSE, fin)
  PROVE  /\ wire' \in Seq(Unit) /\ outputBuffer_' \in Seq(Unit)
         /\ writing' \in BOOLEAN /\ registered' \in BOOLEAN /\ finSent' \in BOOLEAN
         /\ Extends(queue, queue')
         /\ Interest' /\ FinIsLast'
         /\ accepted' = accepted => Moves
<1>t. /\ outputBuffer_ \in Seq(Unit) /\ wire \in Seq(Unit) /\ queue \in Seq(Functors)
      /\ reading \in BOOLEAN /\ writing \in BOOLEAN /\ registered \in BOOLEAN
      /\ finSent \in BOOLEAN
  BY StreamTypes DEF FlagTypes, SeqTypes
<1>1. PICK n \in 1 .. Len(outputBuffer_) :
        /\ wire' = wire \o SubSeq(outputBuffer_, 1, n)
        /\ outputBuffer_' = From(outputBuffer_, n + 1)
  BY DEF Drain
<1>2. /\ outputBuffer_' \in Seq(Unit) /\ SubSeq(outputBuffer_, 1, n) \in Seq(Unit)
      /\ SubSeq(outputBuffer_, 1, n) \o outputBuffer_' = outputBuffer_
  <2>1. n \in 0 .. Len(outputBuffer_)
    BY <1>t
  <2> QED BY <1>1, <1>t, <2>1, CutFacts
<1>3. wire' \in Seq(Unit) /\ Sent' = Sent
  <2>1. (wire \o SubSeq(outputBuffer_, 1, n)) \o outputBuffer_'
          = wire \o (SubSeq(outputBuffer_, 1, n) \o outputBuffer_')
    BY <1>2, <1>t, StreamAssociative
  <2>2. Sent' = (wire \o SubSeq(outputBuffer_, 1, n)) \o outputBuffer_'
    BY <1>1 DEF Sent
  <2>3. wire' \in Seq(Unit)
    BY <1>1, <1>2, <1>t
  <2>4. Sent = wire \o outputBuffer_
    BY DEF Sent
  <2> QED BY <1>2, <2>1, <2>2, <2>3, <2>4
<1>4. writing = TRUE /\ finSent = FALSE
  BY <1>t DEF Drain, Broken
<1>5. CASE outputBuffer_' = <<>>
  <2>1. /\ writing' = FALSE /\ registered' = (reading \/ FALSE)
        /\ queue' = Append(queue, Functor("writeComplete"))
        /\ finSent' = (finSent \/ fin)
    BY <1>5 DEF Drain
  <2>2. Extends(queue, queue')
    BY <1>t, <2>1, FunctorFacts, ExtendsByOne
  <2> QED BY <1>2, <1>3, <1>5, <1>t, <2>1, <2>2 DEF Interest, FinIsLast, Moves
<1>6. CASE outputBuffer_' # <<>>
  <2>1. UNCHANGED <<writing, registered, queue, finSent>>
    BY <1>6 DEF Drain
  <2> QED BY <1>2, <1>3, <1>4, <1>6, <1>t, <2>1 DEF Interest, FinIsLast, Moves, Extends
<1> QED BY <1>5, <1>6

-----------------------------------------------------------------------------
(* The invariant, action by action                                         *)

LEMMA InitIInv == Init => IInv
<1> SUFFICES ASSUME Init PROVE IInv
  OBVIOUS
<1>1. /\ Functor("established") \in Functors /\ Functor("established").op = "established"
      /\ queue = <<Functor("established")>>
      /\ queue \in Seq(Functors) /\ DOMAIN queue = {1} /\ queue[1] = Functor("established")
  BY FunctorFacts DEF Init
<1>2. TypeOK
  <2>1. [u \in User |-> Idle] \in [User -> UserPlaces]
    BY DEF UserPlaces
  <2>2. <<>> \in Seq(Unit) /\ <<>> \in Seq(Functors) /\ <<>> \in Seq(Msg)
    OBVIOUS
  <2>3. FlagTypes /\ SeqTypes
    BY <1>1, <2>2 DEF Init, FlagTypes, SeqTypes
  <2>4. PlaceTypes
    BY <2>1, DataAssumption DEF Init, PlaceTypes
  <2> QED BY <2>3, <2>4, TypeParts
<1>3. EstablishedOnce
  BY <1>1 DEF Init, EstablishedOnce, Once
<1>4. Untouched
  BY <1>1 DEF Init, Untouched, OnlyLife
<1>5. WriteInterest /\ FinAfterAccepted
  BY DEF Init, WriteInterest, FinAfterAccepted
<1> QED BY <1>2, <1>3, <1>4, <1>5 DEF IInv

\* What tells that connectEstablished has run
LEMMA UpFacts ==
  ASSUME IInv,
         \/ cb # "none" \/ revents # {} \/ state_ = "kConnected"
         \/ batch # <<>> /\ Head(batch).op \notin {"established", "destroyed"}
         \/ \E u \in User : userPc[u] # Idle
  PROVE  ups # 0
<1> SUFFICES ASSUME ups = 0 PROVE FALSE
  OBVIOUS
<1>1. /\ state_ = "kConnecting" /\ revents = {} /\ cb = "none"
      /\ \A u \in User : userPc[u] = Idle
      /\ OnlyLife(batch)
  BY DEF IInv, Untouched
<1>2. batch \in Seq(Functors) /\ Once(queue, batch, ups)
  BY StreamTypes DEF IInv, EstablishedOnce, SeqTypes
<1>3. batch # <<>> => Head(batch).op \in {"established", "destroyed"}
  BY <1>1, <1>2, TailKeeps
<1> QED BY <1>1, <1>3

\* What an action owes the invariant once the connection is up
LEMMA UpKeeps ==
  ASSUME IInv, TypeOK', ups # 0, ups' = ups,
         queue' = queue \/ Extends(queue, queue'),
         batch' = batch \/ (batch # <<>> /\ batch' = Tail(batch)),
         reading' => reading /\ (Interest /\ FinIsLast => Interest' /\ FinIsLast')
  PROVE  IInv'
<1>1. Once(queue, batch, ups) /\ batch \in Seq(Functors)
  BY StreamTypes DEF IInv, EstablishedOnce, SeqTypes
<1>2. Once(queue, batch', ups)
  BY <1>1, TailKeeps
<1>3. EstablishedOnce'
  BY <1>2 DEF EstablishedOnce, Extends
<1>4. Untouched'
  BY DEF Untouched
<1>5. reading => Interest /\ FinIsLast
  BY DEF IInv, WriteInterest, FinAfterAccepted, Interest, FinIsLast
<1>6. WriteInterest' /\ FinAfterAccepted'
  BY <1>5 DEF WriteInterest, FinAfterAccepted, Interest, FinIsLast
<1> QED BY <1>3, <1>4, <1>6 DEF IInv

LEMMA OnCloseIInv == ASSUME IInv, OnClose PROVE IInv'
<1> USE DEF OnClose, HandleClose, InEvent, dataVars, envVars, sentVars, sockVars, serverVars
<1>t. FlagTypes /\ SeqTypes /\ PlaceTypes
  BY TypeParts DEF IInv
<1>1. TypeOK'
  <2>1. FlagTypes'
    BY <1>t DEF FlagTypes
  <2>2. SeqTypes'
    BY <1>t DEF SeqTypes
  <2>3. PlaceTypes'
    BY <1>t DEF PlaceTypes
  <2> QED BY <2>1, <2>2, <2>3, NextTypes
<1>2. ups # 0
  BY UpFacts
<1> QED BY <1>1, <1>2, UpKeeps

LEMMA OnErrorIInv == ASSUME IInv, OnError PROVE IInv'
<1> USE DEF OnError, InEvent, dataVars, chanVars, callVars, sentVars, histVars, serverVars
<1>t. FlagTypes /\ SeqTypes /\ PlaceTypes
  BY TypeParts DEF IInv
<1>1. TypeOK'
  <2>1. FlagTypes'
    BY <1>t DEF FlagTypes
  <2>2. SeqTypes'
    BY <1>t DEF SeqTypes
  <2>3. PlaceTypes'
    BY <1>t DEF PlaceTypes
  <2> QED BY <2>1, <2>2, <2>3, NextTypes
<1>2. ups # 0
  BY UpFacts
<1> QED BY <1>1, <1>2, UpKeeps DEF Interest, FinIsLast

LEMMA OnReadIInv == ASSUME IInv, OnRead PROVE IInv'
<1> USE DEF OnRead, ReadEvent, HandleClose, InEvent, dataVars, chanVars, callVars, sentVars, serverVars
<1>t. FlagTypes /\ SeqTypes /\ PlaceTypes
  BY TypeParts DEF IInv
<1>1. TypeOK'
  <2>1. unread' \in 0 .. MaxUnread
    BY <1>t, DataAssumption DEF PlaceTypes
  <2>2. FlagTypes'
    BY <1>t DEF FlagTypes
  <2>3. SeqTypes'
    BY <1>t DEF SeqTypes
  <2>4. PlaceTypes'
    BY <1>t, <2>1 DEF PlaceTypes
  <2> QED BY <2>2, <2>3, <2>4, NextTypes
<1>2. ups # 0 /\ ups' = ups
  BY UpFacts
<1>3. reading' => reading /\ (Interest /\ FinIsLast => Interest' /\ FinIsLast')
  BY DEF Interest, FinIsLast
<1> QED BY <1>1, <1>2, <1>3, UpKeeps

LEMMA OnWriteIInv == ASSUME IInv, OnWrite PROVE IInv'
<1> USE DEF InEvent, sentVars, callVars, histVars, envVars, sockVars, serverVars
<1>t. FlagTypes /\ SeqTypes /\ PlaceTypes
  BY TypeParts DEF IInv
<1>0. /\ revents' = revents \ {"write"} /\ revents # {}
      /\ UNCHANGED <<state_, envVars, phase, cb, batch, histVars>>
      /\ \/ Drain(FALSE, state_ = "kDisconnecting")
         \/ UNCHANGED <<chanVars, dataVars, queue>>
  BY DEF OnWrite, WriteEvent
<1>d. /\ FlagTypes' /\ SeqTypes'
      /\ queue' = queue \/ Extends(queue, queue')
      /\ Interest /\ FinIsLast => Interest' /\ FinIsLast'
      /\ reading' = reading
  <2>1. CASE Drain(FALSE, state_ = "kDisconnecting")
    <3>1. reading' = reading /\ soError' = soError /\ batch' = batch /\ accepted' = accepted
      BY <1>0, <2>1 DEF Drain
    <3>2. (state_ = "kDisconnecting") \in BOOLEAN /\ TypeOK
      BY DEF IInv
    <3> HIDE DEF InEvent
    <3> QED BY <1>t, <2>1, <3>1, <3>2, DrainKeeps DEF FlagTypes, SeqTypes, Extends
  <2>2. CASE UNCHANGED <<chanVars, dataVars, queue>>
    BY <1>0, <1>t, <2>2 DEF FlagTypes, SeqTypes, Interest, FinIsLast, chanVars, dataVars
  <2> QED BY <1>0, <2>1, <2>2
<1>1. TypeOK'
  <2>1. PlaceTypes'
    BY <1>0, <1>t DEF PlaceTypes
  <2> QED BY <1>d, <2>1, NextTypes
<1>2. ups # 0 /\ ups' = ups
  BY <1>0, UpFacts
<1> QED BY <1>0, <1>1, <1>2, <1>d, UpKeeps

LEMMA DisconnectIInv == ASSUME IInv, Disconnect PROVE IInv'
<1> USE DEF Disconnect, dataVars, envVars, sockVars, serverVars, roundVars, sentVars
<1>t. FlagTypes /\ SeqTypes /\ PlaceTypes
  BY TypeParts DEF IInv
<1>1. TypeOK'
  <2>1. FlagTypes'
    BY <1>t DEF FlagTypes
  <2>2. SeqTypes'
    BY <1>t DEF SeqTypes
  <2>3. PlaceTypes'
    BY <1>t DEF PlaceTypes
  <2> QED BY <2>1, <2>2, <2>3, NextTypes
<1>2. ups # 0 /\ ups' = ups
  BY UpFacts
<1> QED BY <1>1, <1>2, UpKeeps

LEMMA ReturnFromCallbackIInv == ASSUME IInv, ReturnFromCallback PROVE IInv'
<1> USE DEF ReturnFromCallback, InCallback, dataVars, sockVars, roundVars, histVars,
            callVars, sentVars
<1>t. FlagTypes /\ SeqTypes /\ PlaceTypes
  BY TypeParts DEF IInv
<1>1. TypeOK'
  <2>1. FlagTypes'
    BY <1>t DEF FlagTypes
  <2>2. SeqTypes'
    BY <1>t DEF SeqTypes
  <2>3. PlaceTypes'
    BY <1>t DEF PlaceTypes
  <2> QED BY <2>1, <2>2, <2>3, NextTypes
<1>2. ups # 0 /\ ups' = ups
  BY UpFacts
<1> QED BY <1>1, <1>2, UpKeeps DEF Interest, FinIsLast

\* Steps of the batch that need the connection up
LEMMA RunFacts ==
  ASSUME IInv, NEW op, RunFunctor(op), op \notin {"established", "destroyed"}
  PROVE  /\ ups # 0 /\ batch # <<>> /\ batch' = Tail(batch)
         /\ Tail(batch) \in Seq(Functors) /\ Head(batch) \in Functors
         /\ Head(batch).op = op
<1>1. batch # <<>> /\ Head(batch).op = op /\ batch' = Tail(batch)
  BY DEF RunFunctor
<1>2. batch \in Seq(Functors) /\ Once(queue, batch, ups)
  BY StreamTypes DEF IInv, EstablishedOnce, SeqTypes
<1> QED BY <1>1, <1>2, TailKeeps, UpFacts

LEMMA RunSendIInv == ASSUME IInv, RunSend PROVE IInv'
<1> DEFINE m == Head(batch).msg
<1>0. /\ SendInLoop(m, queue) /\ UNCHANGED <<state_, cb, callVars, submitted>>
      /\ UNCHANGED <<envVars, roundVars>>
      /\ ups # 0 /\ batch # <<>> /\ batch' = Tail(batch)
      /\ Tail(batch) \in Seq(Functors) /\ m \in Msg
  BY RunFacts, FunctorFacts DEF RunSend, RunFunctor
<1> HIDE DEF m
<1>t. FlagTypes /\ SeqTypes /\ PlaceTypes
  BY TypeParts DEF IInv
<1>s. /\ wire' \in Seq(Unit) /\ outputBuffer_' \in Seq(Unit) /\ accepted' \in Seq(Msg)
      /\ writing' \in BOOLEAN /\ registered' \in BOOLEAN
      /\ Extends(queue, queue') /\ reading' = reading /\ finSent' = finSent
      /\ Interest /\ FinIsLast => Interest' /\ FinIsLast'
  BY <1>0, SendKeeps DEF IInv, SendInLoop
<1>1. TypeOK'
  <2>1. FlagTypes'
    BY <1>0, <1>s, <1>t DEF FlagTypes, envVars, sockVars
  <2>2. SeqTypes'
    BY <1>0, <1>s DEF SeqTypes, Extends
  <2>3. PlaceTypes'
    BY <1>0, <1>t DEF PlaceTypes, envVars, sockVars, serverVars, roundVars, callVars
  <2> QED BY <2>1, <2>2, <2>3, NextTypes
<1>2. ups' = ups
  BY <1>0 DEF callVars
<1> QED BY <1>0, <1>1, <1>2, <1>s, UpKeeps

LEMMA RunSendFileIInv == ASSUME IInv, RunSendFile PROVE IInv'
<1> DEFINE f == Head(batch).msg
           k == Head(batch).from
<1>0. /\ SendFileInLoop(f, k, queue)
      /\ UNCHANGED <<state_, cb, callVars, submitted>>
      /\ UNCHANGED <<envVars, roundVars>>
      /\ ups # 0 /\ batch # <<>> /\ batch' = Tail(batch)
      /\ Tail(batch) \in Seq(Functors) /\ f \in File /\ k \in 1 .. Size[f]
  BY RunFacts, FunctorFacts DEF RunSendFile, RunFunctor
<1> HIDE DEF f, k
<1>t. FlagTypes /\ SeqTypes /\ PlaceTypes
  BY TypeParts DEF IInv
<1>s. /\ wire' \in Seq(Unit) /\ Extends(queue, queue')
      /\ UNCHANGED <<chanVars, outputBuffer_, finSent, accepted>>
  BY <1>0, FileKeeps DEF IInv
<1>1. TypeOK'
  <2>1. FlagTypes'
    BY <1>0, <1>s, <1>t DEF FlagTypes, chanVars, envVars, sockVars
  <2>2. SeqTypes'
    BY <1>0, <1>s, <1>t DEF SeqTypes, Extends
  <2>3. PlaceTypes'
    BY <1>0, <1>t DEF PlaceTypes, envVars, sockVars, serverVars, roundVars, callVars
  <2> QED BY <2>1, <2>2, <2>3, NextTypes
<1>2. ups' = ups
  BY <1>0 DEF callVars
<1>3. reading' => reading /\ (Interest /\ FinIsLast => Interest' /\ FinIsLast')
  BY <1>s DEF Interest, FinIsLast, chanVars
<1> QED BY <1>0, <1>1, <1>2, <1>3, <1>s, UpKeeps

LEMMA RunShutdownIInv == ASSUME IInv, RunShutdown PROVE IInv'
<1>0. /\ finSent' = (finSent \/ ~writing)
      /\ UNCHANGED <<state_, chanVars, outputBuffer_, wire, queue, cb, histVars>>
      /\ UNCHANGED <<envVars, roundVars>>
      /\ ups # 0 /\ batch # <<>> /\ batch' = Tail(batch) /\ Tail(batch) \in Seq(Functors)
  BY RunFacts DEF RunShutdown, RunFunctor, ShutdownInLoop
<1>t. FlagTypes /\ SeqTypes /\ PlaceTypes
  BY TypeParts DEF IInv
<1>1. TypeOK'
  <2>1. FlagTypes'
    BY <1>0, <1>t DEF FlagTypes, chanVars, envVars, sockVars
  <2>2. SeqTypes'
    BY <1>0, <1>t DEF SeqTypes, histVars, sentVars
  <2>3. PlaceTypes'
    BY <1>0, <1>t DEF PlaceTypes, envVars, sockVars, serverVars, roundVars, histVars,
                      callVars, sentVars
  <2> QED BY <2>1, <2>2, <2>3, NextTypes
<1>2. ups' = ups
  BY <1>0 DEF histVars, callVars
<1>3. reading' => reading /\ (Interest /\ FinIsLast => Interest' /\ FinIsLast')
  BY <1>0 DEF Interest, FinIsLast, chanVars
<1> QED BY <1>0, <1>1, <1>2, <1>3, UpKeeps

LEMMA RunUserCallbackIInv == ASSUME IInv, RunUserCallback PROVE IInv'
<1>0. /\ cb' = "other" /\ UNCHANGED <<state_, chanVars, dataVars, queue, histVars>>
      /\ UNCHANGED <<envVars, roundVars>>
      /\ ups # 0 /\ batch # <<>> /\ batch' = Tail(batch) /\ Tail(batch) \in Seq(Functors)
  BY RunFacts DEF RunUserCallback, RunFunctor
<1>t. FlagTypes /\ SeqTypes /\ PlaceTypes
  BY TypeParts DEF IInv
<1>1. TypeOK'
  <2>1. FlagTypes'
    BY <1>0, <1>t DEF FlagTypes, chanVars, dataVars, envVars, sockVars
  <2>2. SeqTypes'
    BY <1>0, <1>t DEF SeqTypes, dataVars, histVars, sentVars
  <2>3. PlaceTypes'
    BY <1>0, <1>t DEF PlaceTypes, envVars, sockVars, serverVars, roundVars, histVars,
                      callVars, sentVars
  <2> QED BY <2>1, <2>2, <2>3, NextTypes
<1>2. ups' = ups
  BY <1>0 DEF histVars, callVars
<1>3. reading' => reading /\ (Interest /\ FinIsLast => Interest' /\ FinIsLast')
  BY <1>0 DEF Interest, FinIsLast, chanVars, dataVars
<1> QED BY <1>0, <1>1, <1>2, <1>3, UpKeeps

-----------------------------------------------------------------------------
(* The user, on the loop's thread and on others                            *)

LEMMA OwnerSendIInv == ASSUME IInv, NEW m \in Msg, OwnerSend(m) PROVE IInv'
<1>0. /\ SendInLoop(m, queue) /\ submitted' = submitted \cup {m} /\ cb # "none"
      /\ UNCHANGED <<state_, envVars, roundVars, cb, batch, callVars>>
  BY DEF OwnerSend, Submits, InCallback
<1>t. FlagTypes /\ SeqTypes /\ PlaceTypes
  BY TypeParts DEF IInv
<1>s. /\ wire' \in Seq(Unit) /\ outputBuffer_' \in Seq(Unit) /\ accepted' \in Seq(Msg)
      /\ writing' \in BOOLEAN /\ registered' \in BOOLEAN
      /\ Extends(queue, queue') /\ reading' = reading /\ finSent' = finSent
      /\ Interest /\ FinIsLast => Interest' /\ FinIsLast'
  BY <1>0, SendKeeps DEF IInv, SendInLoop
<1>1. TypeOK'
  <2>1. FlagTypes'
    BY <1>0, <1>s, <1>t DEF FlagTypes, envVars, sockVars
  <2>2. SeqTypes'
    BY <1>0, <1>s, <1>t DEF SeqTypes, Extends
  <2>3. PlaceTypes'
    BY <1>0, <1>t DEF PlaceTypes, Data, envVars, sockVars, serverVars, roundVars, callVars
  <2> QED BY <2>1, <2>2, <2>3, NextTypes
<1>2. ups # 0 /\ ups' = ups
  BY <1>0, UpFacts DEF callVars
<1> QED BY <1>0, <1>1, <1>2, <1>s, UpKeeps

LEMMA OwnerSendFileIInv == ASSUME IInv, NEW f \in File, OwnerSendFile(f) PROVE IInv'
<1>0. /\ SendFileInLoop(f, 1, queue) /\ submitted' = submitted \cup {f} /\ cb # "none"
      /\ UNCHANGED <<state_, envVars, roundVars, cb, batch, callVars>>
  BY DEF OwnerSendFile, Submits, InCallback
<1>t. FlagTypes /\ SeqTypes /\ PlaceTypes
  BY TypeParts DEF IInv
<1>s. /\ wire' \in Seq(Unit) /\ Extends(queue, queue')
      /\ UNCHANGED <<chanVars, outputBuffer_, finSent, accepted>>
  <2>1. f \in Data /\ 1 \in 1 .. Size[f]
    BY UnitsFacts DEF Data
  <2> QED BY <1>0, <2>1, FileKeeps DEF IInv
<1>1. TypeOK'
  <2>1. FlagTypes'
    BY <1>0, <1>s, <1>t DEF FlagTypes, chanVars, envVars, sockVars
  <2>2. SeqTypes'
    BY <1>0, <1>s, <1>t DEF SeqTypes, Extends
  <2>3. PlaceTypes'
    BY <1>0, <1>t DEF PlaceTypes, Data, envVars, sockVars, serverVars, roundVars, callVars
  <2> QED BY <2>1, <2>2, <2>3, NextTypes
<1>2. ups # 0 /\ ups' = ups
  BY <1>0, UpFacts DEF callVars
<1>3. reading' => reading /\ (Interest /\ FinIsLast => Interest' /\ FinIsLast')
  BY <1>s DEF Interest, FinIsLast, chanVars
<1> QED BY <1>0, <1>1, <1>2, <1>3, <1>s, UpKeeps

LEMMA OwnerShutdownIInv == ASSUME IInv, OwnerShutdown PROVE IInv'
<1> USE DEF OwnerShutdown, InCallback, ShutdownInLoop, chanVars, envVars, sockVars,
            serverVars, roundVars, histVars, callVars, sentVars
<1>t. FlagTypes /\ SeqTypes /\ PlaceTypes
  BY TypeParts DEF IInv
<1>1. TypeOK'
  <2>1. FlagTypes'
    BY <1>t DEF FlagTypes
  <2>2. SeqTypes'
    BY <1>t DEF SeqTypes
  <2>3. PlaceTypes'
    BY <1>t DEF PlaceTypes
  <2> QED BY <2>1, <2>2, <2>3, NextTypes
<1>2. ups # 0 /\ ups' = ups
  BY UpFacts
<1> QED BY <1>1, <1>2, UpKeeps DEF Interest, FinIsLast

LEMMA UserIInv == ASSUME IInv, NEW u \in User, UserStep(u) PROVE IInv'
<1> USE DEF UserUnchanged, chanVars, dataVars, sockVars, roundVars, serverVars, callVars
<1>t. FlagTypes /\ SeqTypes /\ PlaceTypes
  BY TypeParts DEF IInv
<1>0. UNCHANGED <<chanVars, dataVars, sockVars, roundVars, cb, batch, serverVars,
                  callVars, accepted>>
  BY DEF UserStep, UserFinish, UserShutdownTest, UserSendTest, UserSendQueue,
         UserShutdownSet, UserShutdownQueue
<1>1. /\ ups # 0
      /\ \/ queue' = queue
         \/ \E g \in Functors : g.op # "established" /\ queue' = Append(queue, g)
      /\ state_' \in {state_, "kDisconnecting"}
      /\ userPc' \in [User -> UserPlaces]
      /\ submitted' \subseteq Data
  <2>1. userPc[u] \in UserPlaces /\ Idle.at = "idle" /\ Idle \in UserPlaces
    BY <1>t DEF PlaceTypes, UserPlaces, Idle
  <2>2. CASE UserShutdownTest(u)
    <3>1. [at |-> "shutSet"] \in UserPlaces
      BY DEF UserPlaces
    <3> QED BY <1>t, <2>2, <3>1, UpFacts DEF UserShutdownTest, UserCalls, PlaceTypes
  <2>3. ASSUME NEW d \in Data, UserSendTest(u, d)
        PROVE  /\ ups # 0 /\ queue' = queue /\ state_' = state_
               /\ userPc' \in [User -> UserPlaces]
               /\ submitted' \subseteq Data
    <3>1. [at |-> "sendQueue", msg |-> d] \in UserPlaces
      BY DEF UserPlaces
    <3> QED BY <1>t, <2>3, <3>1, UpFacts DEF UserSendTest, UserCalls, Submits, PlaceTypes
  <2>4. CASE UserSendQueue(u)
    <3> DEFINE d == userPc[u].msg
               g == IF d \in File THEN FileOf(d, 1) ELSE SendOf(d)
    <3>1. userPc[u].at = "sendQueue" /\ queue' = Append(queue, g)
      BY <2>4 DEF UserSendQueue
    <3>2. d \in Data
      BY <2>1, <3>1 DEF UserPlaces, Idle
    <3>3. g \in Functors /\ g.op # "established"
      <4>1. CASE d \in File
        <5>1. 1 \in 1 .. Size[d]
          BY <3>2, UnitsFacts
        <5> QED BY <4>1, <5>1, FunctorFacts
      <4>2. CASE d \notin File
        BY <3>2, <4>2, FunctorFacts DEF Data
      <4> QED BY <4>1, <4>2
    <3> HIDE DEF g
    <3> QED BY <1>t, <2>1, <2>4, <3>1, <3>3, UpFacts DEF UserSendQueue, PlaceTypes
  <2>5. CASE UserShutdownSet(u)
    <3>1. [at |-> "shutQueue"] \in UserPlaces
      BY DEF UserPlaces
    <3>2. userPc[u] # Idle
      BY <2>1, <2>5 DEF UserShutdownSet
    <3> QED BY <1>t, <2>5, <3>1, <3>2, UpFacts DEF UserShutdownSet, PlaceTypes
  <2>6. CASE UserShutdownQueue(u)
    <3>1. userPc[u] # Idle
      BY <2>1, <2>6 DEF UserShutdownQueue
    <3> QED BY <1>t, <2>1, <2>6, <3>1, UpFacts, FunctorFacts DEF UserShutdownQueue, PlaceTypes
  <2> QED BY <2>2, <2>3, <2>4, <2>5, <2>6 DEF UserStep, UserFinish
<1>2. queue' = queue \/ Extends(queue, queue')
  BY <1>1, <1>t, ExtendsByOne DEF SeqTypes
<1>3. TypeOK'
  <2>1. FlagTypes'
    BY <1>0, <1>t DEF FlagTypes
  <2>2. SeqTypes'
    BY <1>0, <1>2, <1>t DEF SeqTypes, Extends
  <2>3. PlaceTypes'
    BY <1>0, <1>1, <1>t DEF PlaceTypes
  <2> QED BY <2>1, <2>2, <2>3, NextTypes
<1> QED BY <1>0, <1>1, <1>2, <1>3, UpKeeps DEF Interest, FinIsLast

-----------------------------------------------------------------------------
(* The steps that may come before connectEstablished                       *)

LEMMA LifeKeeps ==
  ASSUME IInv, TypeOK',
         UNCHANGED <<state_, reading, writing, outputBuffer_, finSent, userPc, ups>>,
         registered' => registered,
         ups = 0 => revents' = {} /\ cb' = "none",
         Once(queue', batch', ups),
         OnlyLife(queue) /\ OnlyLife(batch) => OnlyLife(queue') /\ OnlyLife(batch')
  PROVE  IInv'
<1>1. EstablishedOnce'
  BY DEF EstablishedOnce
<1>2. registered' \in BOOLEAN
  BY DEF TypeOK
<1>3. Untouched'
  BY <1>2 DEF IInv, Untouched
<1>4. WriteInterest' /\ FinAfterAccepted'
  BY DEF IInv, WriteInterest, FinAfterAccepted
<1> QED BY <1>1, <1>3, <1>4 DEF IInv

LEMMA PollIInv == ASSUME IInv, NEW out \in BOOLEAN, Poll(out) PROVE IInv'
<1> USE DEF chanVars, dataVars, envVars, sockVars, serverVars, histVars, callVars, sentVars
<1>t. FlagTypes /\ SeqTypes /\ PlaceTypes
  BY TypeParts DEF IInv
<1>0. /\ UNCHANGED <<state_, chanVars, dataVars, envVars, cb, queue, batch, histVars>>
      /\ phase' = "event" /\ revents' \subseteq {"close", "error", "read", "write"}
      /\ registered = FALSE => revents' = {}
  BY DEF Poll
<1>1. TypeOK'
  <2>1. FlagTypes'
    BY <1>0, <1>t DEF FlagTypes
  <2>2. SeqTypes'
    BY <1>0, <1>t DEF SeqTypes
  <2>3. PlaceTypes'
    BY <1>0, <1>t DEF PlaceTypes
  <2> QED BY <2>1, <2>2, <2>3, NextTypes
<1>2. ups = 0 => registered = FALSE /\ cb = "none"
  BY DEF IInv, Untouched
<1>3. Once(queue, batch, ups)
  BY DEF IInv, EstablishedOnce
<1> QED BY <1>0, <1>1, <1>2, <1>3, LifeKeeps

LEMMA SwapIInv == ASSUME IInv, Swap PROVE IInv'
<1> USE DEF Swap, chanVars, dataVars, envVars, sockVars, serverVars, histVars, callVars, sentVars
<1>t. FlagTypes /\ SeqTypes /\ PlaceTypes
  BY TypeParts DEF IInv
<1>1. TypeOK'
  <2>1. FlagTypes'
    BY <1>t DEF FlagTypes
  <2>2. SeqTypes'
    <3>1. <<>> \in Seq(Functors)
      OBVIOUS
    <3> QED BY <1>t, <3>1 DEF SeqTypes
  <2>3. PlaceTypes'
    BY <1>t DEF PlaceTypes
  <2> QED BY <2>1, <2>2, <2>3, NextTypes
<1>2. Once(queue', batch', ups) /\ OnlyLife(queue')
  <2>1. Once(queue, batch, ups) /\ DOMAIN queue' = {}
    BY DEF IInv, EstablishedOnce
  <2> QED BY <2>1 DEF Once, OnlyLife
<1> QED BY <1>1, <1>2, LifeKeeps

LEMMA ConnectDestroyedIInv == ASSUME IInv, ConnectDestroyed PROVE IInv'
<1> USE DEF dataVars, envVars, sockVars, serverVars, histVars, callVars, sentVars, roundVars
<1>t. FlagTypes /\ SeqTypes /\ PlaceTypes
  BY TypeParts DEF IInv
<1>0. /\ batch # <<>> /\ batch' = Tail(batch)
      /\ UNCHANGED <<state_, reading, writing, dataVars, queue, histVars>>
      /\ UNCHANGED <<envVars, roundVars>>
      /\ cb' \in {cb, "destroying"} /\ (registered' = registered \/ registered' = FALSE)
      /\ state_ # "kConnected" => cb' = cb
  BY DEF ConnectDestroyed, RunFunctor
<1>2. /\ Once(queue, Tail(batch), ups) /\ Tail(batch) \in Seq(Functors)
      /\ OnlyLife(batch) => OnlyLife(Tail(batch))
  BY <1>0, <1>t, TailKeeps DEF IInv, EstablishedOnce, SeqTypes
<1>1. TypeOK'
  <2>1. FlagTypes'
    BY <1>0, <1>t DEF FlagTypes
  <2>2. SeqTypes'
    BY <1>0, <1>2, <1>t DEF SeqTypes
  <2>3. PlaceTypes'
    BY <1>0, <1>t DEF PlaceTypes
  <2> QED BY <2>1, <2>2, <2>3, NextTypes
<1>3. ups = 0 => revents' = {} /\ cb' = "none"
  BY <1>0 DEF IInv, Untouched
<1> QED BY <1>0, <1>1, <1>2, <1>3, LifeKeeps

LEMMA ConnectEstablishedIInv == ASSUME IInv, ConnectEstablished PROVE IInv'
<1> USE DEF dataVars, envVars, sockVars, serverVars, sentVars, roundVars
<1>t. FlagTypes /\ SeqTypes /\ PlaceTypes
  BY TypeParts DEF IInv
<1>0. /\ batch # <<>> /\ batch' = Tail(batch) /\ Head(batch).op = "established"
      /\ state_' = "kConnected" /\ reading' = TRUE /\ registered' = TRUE
      /\ cb' = "established" /\ ups' = ups + 1
      /\ UNCHANGED <<writing, dataVars, queue, downs, sentVars>>
      /\ UNCHANGED <<envVars, roundVars>>
  BY DEF ConnectEstablished, RunFunctor
<1>2. /\ Once(queue, Tail(batch), ups + 1) /\ Tail(batch) \in Seq(Functors)
      /\ ups = 0
  BY <1>0, <1>t, TailKeeps DEF IInv, EstablishedOnce, SeqTypes
<1>1. TypeOK'
  <2>1. FlagTypes'
    BY <1>0, <1>t DEF FlagTypes
  <2>2. SeqTypes'
    BY <1>0, <1>2, <1>t DEF SeqTypes
  <2>3. PlaceTypes'
    BY <1>0, <1>t DEF PlaceTypes
  <2> QED BY <2>1, <2>2, <2>3, NextTypes
<1>3. EstablishedOnce' /\ Untouched'
  BY <1>0, <1>2 DEF EstablishedOnce, Untouched
<1>4. WriteInterest' /\ FinAfterAccepted'
  BY <1>0, <1>2 DEF IInv, Untouched, WriteInterest, FinAfterAccepted
<1> QED BY <1>1, <1>3, <1>4 DEF IInv

LEMMA ServerIInv == ASSUME IInv, RemoveConnection \/ ServerDestroyed PROVE IInv'
<1> USE DEF EnvUnchanged, chanVars, dataVars, sockVars, roundVars, histVars, callVars, sentVars
<1>t. FlagTypes /\ SeqTypes /\ PlaceTypes
  BY TypeParts DEF IInv
<1>0. /\ EnvUnchanged /\ UNCHANGED sockVars
      /\ queue' = queue \/ queue' = Append(queue, Functor("destroyed"))
      /\ removing' \in Nat /\ server' \in {"holds", "erased", "gone"}
  <2>1. CASE RemoveConnection
    BY <1>t, <2>1 DEF RemoveConnection, PlaceTypes
  <2>2. CASE ServerDestroyed
    <3>1. queue \o <<>> = queue
      BY <1>t DEF SeqTypes
    <3>2. queue \o <<Functor("destroyed")>> = Append(queue, Functor("destroyed"))
      BY <1>t, FunctorFacts, AppendIsConcat DEF SeqTypes
    <3> QED BY <2>2, <3>1, <3>2 DEF ServerDestroyed, If
  <2> QED BY <2>1, <2>2
<1>2. /\ Once(queue', batch, ups) /\ queue' \in Seq(Functors)
      /\ OnlyLife(queue) => OnlyLife(queue')
  <2>1. Once(queue, batch, ups) /\ queue \in Seq(Functors)
    BY <1>t DEF IInv, EstablishedOnce, SeqTypes
  <2> QED BY <1>0, <2>1, FunctorFacts, ExtendsByOne DEF Extends
<1>1. TypeOK'
  <2>1. FlagTypes'
    BY <1>0, <1>t DEF FlagTypes
  <2>2. SeqTypes'
    BY <1>0, <1>2, <1>t DEF SeqTypes
  <2>3. PlaceTypes'
    BY <1>0, <1>t DEF PlaceTypes
  <2> QED BY <2>1, <2>2, <2>3, NextTypes
<1>3. ups = 0 => revents' = {} /\ cb' = "none"
  BY <1>0 DEF IInv, Untouched
<1> QED BY <1>0, <1>1, <1>2, <1>3, LifeKeeps

LEMMA PeerIInv == ASSUME IInv, PeerStep PROVE IInv'
<1>t. FlagTypes /\ SeqTypes /\ PlaceTypes
  BY TypeParts DEF IInv
<1>0. /\ EnvUnchanged /\ UNCHANGED <<queue, serverVars>>
      /\ peer' \in {"open", "fin", "reset"} /\ unread' \in 0 .. MaxUnread
      /\ soError' \in BOOLEAN
  <2>1. MaxUnread \in Nat /\ unread \in 0 .. MaxUnread /\ soError \in BOOLEAN
        /\ peer \in {"open", "fin", "reset"}
    BY <1>t, DataAssumption DEF PlaceTypes, FlagTypes
  <2>2. CASE PeerSends
    BY <2>1, <2>2 DEF PeerSends
  <2>3. CASE PeerCloses
    BY <2>1, <2>3 DEF PeerCloses
  <2>4. CASE PeerResets
    BY <2>1, <2>4 DEF PeerResets
  <2> QED BY <2>2, <2>3, <2>4 DEF PeerStep
<1> USE DEF EnvUnchanged, chanVars, dataVars, serverVars, roundVars, histVars, callVars, sentVars
<1>1. TypeOK'
  <2>1. FlagTypes'
    BY <1>0, <1>t DEF FlagTypes
  <2>2. SeqTypes'
    BY <1>0, <1>t DEF SeqTypes
  <2>3. PlaceTypes'
    BY <1>0, <1>t DEF PlaceTypes
  <2> QED BY <2>1, <2>2, <2>3, NextTypes
<1>2. Once(queue, batch, ups) /\ (ups = 0 => revents = {} /\ cb = "none")
  BY DEF IInv, EstablishedOnce, Untouched
<1> QED BY <1>0, <1>1, <1>2, LifeKeeps

-----------------------------------------------------------------------------
LEMMA StepIInv == ASSUME IInv, [Next]_vars PROVE IInv'
<1>1. CASE UNCHANGED vars
  <2> USE <1>1 DEF vars, chanVars, dataVars, envVars, sockVars, serverVars, roundVars,
                   histVars, callVars, sentVars
  <2>1. TypeOK'
    BY DEF IInv, TypeOK
  <2>2. EstablishedOnce' /\ Untouched'
    BY DEF IInv, EstablishedOnce, Once, Untouched, OnlyLife
  <2>3. WriteInterest' /\ FinAfterAccepted'
    BY DEF IInv, WriteInterest, FinAfterAccepted
  <2> QED BY <2>1, <2>2, <2>3 DEF IInv
<1>2. CASE LoopStep
  BY <1>2, PollIInv, OnCloseIInv, OnErrorIInv, OnReadIInv, OnWriteIInv, SwapIInv,
     ConnectEstablishedIInv, ConnectDestroyedIInv, DisconnectIInv, RunSendIInv,
     RunSendFileIInv, RunShutdownIInv, RunUserCallbackIInv, ReturnFromCallbackIInv
     DEF LoopStep
<1>3. CASE OwnerStep
  BY <1>3, OwnerShutdownIInv, OwnerSendIInv, OwnerSendFileIInv DEF OwnerStep
<1>4. CASE RemoveConnection \/ ServerDestroyed \/ PeerStep
  BY <1>4, ServerIInv, PeerIInv
<1>5. CASE \E u \in User : UserStep(u)
  BY <1>5, UserIInv
<1> QED BY <1>1, <1>2, <1>3, <1>4, <1>5 DEF Next

(* IInv holds for ever.                                                    *)
THEOREM Inductive == Spec => []IInv
BY InitIInv, StepIInv, PTL DEF Spec

(* The variables of a connection keep their types: a functor of a file,    *)
(* for one, always continues within the file.                              *)
THEOREM TypeCorrect == Spec => []TypeOK
<1>1. IInv => TypeOK
  BY DEF IInv
<1> QED BY <1>1, Inductive, PTL

(* While the channel is being read, EPOLLOUT is asked for exactly when     *)
(* something is buffered, whatever is sent from which thread.              *)
THEOREM InterestIsKept == Spec => []WriteInterest
<1>1. IInv => WriteInterest
  BY DEF IInv
<1> QED BY <1>1, Inductive, PTL

(* shutdown() never sends the FIN before what is buffered.                 *)
THEOREM FinComesLast == Spec => []FinAfterAccepted
<1>1. IInv => FinAfterAccepted
  BY DEF IInv
<1> QED BY <1>1, Inductive, PTL

-----------------------------------------------------------------------------
(* The stream                                                              *)

LEMMA StillMoves ==
  ASSUME UNCHANGED <<wire, outputBuffer_, accepted>>
  PROVE  Moves
BY DEF Moves, Sent

LEMMA StepKeeps ==
  ASSUME IInv, [Next]_vars
  PROVE  Moves \/ (\E m \in Msg : Keeps(m)) \/ (\E f \in File : SendsPiece(f))
<1>t. TypeOK
  BY DEF IInv
<1>1. CASE RunSend
  <2>1. Head(batch).msg \in Msg
    BY <1>1, RunFacts, FunctorFacts DEF RunSend
  <2> QED BY <1>1, <1>t, <2>1, SendKeeps DEF RunSend
<1>2. CASE RunSendFile
  <2>1. Head(batch).msg \in File /\ Head(batch).from \in 1 .. Size[Head(batch).msg]
    BY <1>2, RunFacts, FunctorFacts DEF RunSendFile
  <2> QED BY <1>2, <1>t, <2>1, FileKeeps DEF RunSendFile
<1>3. ASSUME NEW m \in Msg, OwnerSend(m) PROVE Keeps(m) \/ Moves
  BY <1>3, <1>t, SendKeeps DEF OwnerSend
<1>4. ASSUME NEW f \in File, OwnerSendFile(f) PROVE Moves \/ SendsPiece(f)
  <2>1. 1 \in 1 .. Size[f]
    BY UnitsFacts DEF Data
  <2> QED BY <1>4, <1>t, <2>1, FileKeeps DEF OwnerSendFile
<1>5. CASE OnWrite
  <2>1. accepted' = accepted
    BY <1>5 DEF OnWrite, WriteEvent, histVars, sentVars
  <2>2. CASE Drain(FALSE, state_ = "kDisconnecting")
    <3>1. (state_ = "kDisconnecting") \in BOOLEAN
      OBVIOUS
    <3> QED BY <1>t, <2>1, <2>2, <3>1, DrainKeeps
  <2>3. CASE UNCHANGED dataVars
    BY <2>1, <2>3, StillMoves DEF dataVars
  <2> QED BY <1>5, <2>2, <2>3 DEF OnWrite, WriteEvent
<1>6. CASE \/ \E out \in BOOLEAN : Poll(out)
           \/ OnClose \/ OnError \/ OnRead \/ Swap
           \/ ConnectEstablished \/ ConnectDestroyed \/ Disconnect
           \/ RunShutdown \/ RunUserCallback \/ ReturnFromCallback
  BY <1>6, StillMoves
     DEF Poll, OnClose, OnError, OnRead, ReadEvent, Swap, ConnectEstablished,
         ConnectDestroyed, Disconnect, RunShutdown, RunUserCallback,
         ReturnFromCallback, dataVars, histVars, sentVars
<1>7. CASE \/ OwnerShutdown \/ RemoveConnection \/ ServerDestroyed \/ PeerStep
           \/ \E u \in User : UserStep(u)
  BY <1>7, StillMoves
     DEF OwnerShutdown, RemoveConnection, ServerDestroyed, PeerStep, PeerSends,
         PeerCloses, PeerResets, EnvUnchanged, UserStep, UserFinish, UserUnchanged,
         UserSendQueue, UserShutdownSet, UserShutdownQueue, UserShutdownTest,
         UserSendTest, dataVars, histVars, sentVars
<1>8. CASE UNCHANGED vars
  BY <1>8, StillMoves DEF vars, dataVars, histVars, sentVars
<1> QED BY <1>1, <1>2, <1>3, <1>4, <1>5, <1>6, <1>7, <1>8 DEF Next, LoopStep, OwnerStep

(* Whatever is written, buffered, drained or refused, and from whichever   *)
(* thread: what sendInLoop accepts is added to the stream in full and in   *)
(* one piece, a file in pieces, and nothing is ever taken out of it.       *)
THEOREM StreamStaysIntact == Spec => StreamKept
<1>1. IInv /\ [Next]_vars
        => [Moves \/ (\E m \in Msg : Keeps(m)) \/ (\E f \in File : SendsPiece(f))]_vars
  BY StepKeeps
<1> QED BY <1>1, Inductive, PTL DEF Spec, StreamKept

-----------------------------------------------------------------------------
(* The connection callback                                                 *)

\* The user is told UP once, and DOWN only after it.
UpFirst == ups <= 1 /\ (downs > 0 => ups = 1)

\* A second DOWN comes only when EPOLLOUT is asked for once more, for what was
\* sent after the first.
DownAgain == [][downs' # downs => downs = 0 \/ writing]_vars

\* What is reported is reported of a channel that is in the poller: its end
\* either to handleClose or to handleRead.
Reported ==
  /\ "close" \in revents => registered /\ "read" \notin revents
  /\ "read" \in revents => registered /\ reading
  /\ revents # {} => phase = "event"

\* The channel is read until the DOWN, which only handleClose and
\* connectDestroyed give, and after it is in the poller only to be written.
Standing ==
  /\ state_ = "kConnected" \/ cb = "destroying" => registered /\ reading /\ downs = 0
  /\ downs > 0 => ~reading /\ (registered => writing)
  /\ cb \in {"destroying", "destroyed"} => phase = "poll"
  /\ cb = "destroyed" => downs > 0

DownInv == UpFirst /\ Reported /\ Standing

LEMMA DownStill ==
  ASSUME DownInv, UNCHANGED <<chanVars, ups, downs, cb, phase, revents>>,
         state_' = "kConnected" => state_ = "kConnected"
  PROVE  DownInv' /\ downs' = downs
BY DEF DownInv, UpFirst, Reported, Standing, chanVars

\* Sending asks for EPOLLOUT when it puts the channel back into the poller.
LEMMA DownSend ==
  ASSUME DownInv, TypeOK, UNCHANGED <<reading, ups, downs, cb, phase, revents, state_>>,
         registered => registered', writing => writing', registered' => registered \/ writing'
  PROVE  DownInv' /\ downs' = downs
<1>t. registered \in BOOLEAN /\ writing \in BOOLEAN
  BY StreamTypes DEF FlagTypes
<1> QED BY <1>t DEF DownInv, UpFirst, Reported, Standing

LEMMA DownInit == Init => DownInv
BY DEF Init, DownInv, UpFirst, Reported, Standing

LEMMA StepDown ==
  ASSUME IInv, DownInv, [Next]_vars
  PROVE  DownInv' /\ (downs' # downs => downs = 0 \/ writing)
<1> USE DEF chanVars, dataVars, sockVars, serverVars, envVars, roundVars, callVars, sentVars, histVars
<1>t. /\ TypeOK /\ registered \in BOOLEAN /\ writing \in BOOLEAN /\ reading \in BOOLEAN
      /\ ups \in Nat /\ downs \in Nat
  BY StreamTypes, TypeParts DEF IInv, FlagTypes, PlaceTypes
<1>u. revents # {} \/ cb # "none" => ups = 1
  BY <1>t, UpFacts DEF DownInv, UpFirst
<1>1. CASE \E out \in BOOLEAN : Poll(out)
  <2>1. PICK out \in BOOLEAN : Poll(out)
    BY <1>1
  <2>2. /\ UNCHANGED <<state_, chanVars, cb, ups, downs>> /\ cb = "none"
        /\ phase' = "event"
        /\ "close" \in revents' => registered /\ "read" \notin revents'
        /\ "read" \in revents' => registered /\ reading
    BY <2>1 DEF Poll
  <2> QED BY <2>2 DEF DownInv, UpFirst, Reported, Standing
<1>2. CASE OnClose
  <2>1. /\ "close" \in revents /\ phase = "event" /\ revents' = revents \ {"close"}
        /\ state_' = "kDisconnected" /\ reading' = FALSE /\ writing' = FALSE
        /\ registered' = ~registered /\ cb' = "close" /\ downs' = downs + 1
        /\ UNCHANGED <<ups, phase>>
    BY <1>2 DEF OnClose, HandleClose, InEvent
  <2>2. registered = TRUE /\ ups = 1 /\ registered' = FALSE /\ downs' # 0
    <3>1. registered = TRUE
      BY <1>t, <2>1, Zenon DEF DownInv, Reported
    <3>2. ups = 1
      BY <1>u, <2>1
    <3>3. registered' = FALSE
      BY <2>1, <3>1
    <3>4. downs' # 0
      BY <1>t, <2>1
    <3> QED BY <3>1, <3>2, <3>3, <3>4
  <2>3. downs = 0 \/ writing
    BY <1>t, <2>2 DEF DownInv, Standing
  <2>4. UpFirst'
    BY <2>1, <2>2 DEF UpFirst
  <2>5. Reported'
    BY <2>1 DEF DownInv, Reported
  <2>6. Standing'
    BY <2>1, <2>2 DEF Standing
  <2> QED BY <2>3, <2>4, <2>5, <2>6 DEF DownInv
<1>3. CASE OnRead
  <2>1. /\ "read" \in revents /\ phase = "event" /\ "close" \notin revents
        /\ revents' = revents \ {"read"} /\ cb = "none" /\ UNCHANGED <<phase, ups>>
    BY <1>3 DEF OnRead, ReadEvent, InEvent, HandleClose
  <2>2. registered = TRUE /\ reading = TRUE /\ ups = 1 /\ downs = 0
    BY <1>t, <1>u, <2>1 DEF DownInv, Reported, Standing
  <2>3. \/ UNCHANGED <<state_, chanVars, downs>> /\ cb' \in {cb, "message"}
        \/ /\ state_' = "kDisconnected" /\ reading' = FALSE /\ registered' = ~registered
           /\ cb' = "close" /\ downs' = downs + 1
    BY <1>3 DEF OnRead, ReadEvent, HandleClose
  <2> QED BY <1>t, <2>1, <2>2, <2>3 DEF DownInv, UpFirst, Reported, Standing
<1>4. CASE OnError
  <2>1. UNCHANGED <<state_, chanVars, ups, downs, cb, phase>> /\ revents' = revents \ {"error"}
    BY <1>4 DEF OnError
  <2> QED BY <2>1 DEF DownInv, UpFirst, Reported, Standing
<1>5. CASE OnWrite
  <2>1. /\ UNCHANGED <<state_, ups, downs, cb, phase>> /\ cb = "none" /\ phase = "event"
        /\ revents' = revents \ {"write"} /\ "read" \notin revents /\ "close" \notin revents
    BY <1>5 DEF OnWrite, WriteEvent, InEvent
  <2>2. UNCHANGED chanVars \/ (reading' = reading /\ writing' = FALSE /\ registered' = reading)
    BY <1>5, <1>t DEF OnWrite, WriteEvent, Drain
  <2> QED BY <1>t, <2>1, <2>2 DEF DownInv, UpFirst, Reported, Standing
<1>6. CASE Swap
  BY <1>6 DEF Swap, DownInv, UpFirst, Reported, Standing
<1>7. CASE ConnectEstablished
  <2>1. /\ state_' = "kConnected" /\ reading' = TRUE /\ registered' = TRUE /\ cb' = "established"
        /\ ups' = ups + 1 /\ downs' = downs /\ phase = "poll" /\ UNCHANGED <<phase, revents>>
        /\ batch # <<>> /\ Head(batch).op = "established"
    BY <1>7 DEF ConnectEstablished, RunFunctor
  <2>2. ups = 0
    <3>1. batch \in Seq(Functors) /\ Once(queue, batch, ups)
      BY <1>t, StreamTypes DEF IInv, EstablishedOnce, SeqTypes
    <3>2. 1 \in DOMAIN batch /\ batch[1] = Head(batch)
      BY <2>1, <3>1
    <3> QED BY <2>1, <3>1, <3>2, <1>t DEF Once
  <2> QED BY <1>t, <2>1, <2>2 DEF DownInv, UpFirst, Reported, Standing
<1>8. CASE ConnectDestroyed
  <2>1. /\ phase = "poll" /\ UNCHANGED <<state_, reading, writing, ups, downs, phase, revents>>
        /\ \/ state_ = "kConnected" /\ cb' = "destroying" /\ registered' = registered
           \/ state_ # "kConnected" /\ cb' = cb /\ cb = "none" /\ registered' = FALSE
    BY <1>8 DEF ConnectDestroyed, RunFunctor
  <2> QED BY <1>t, <2>1 DEF DownInv, UpFirst, Reported, Standing
<1>9. CASE Disconnect
  <2>1. /\ cb = "destroying" /\ state_' = "kDisconnected" /\ reading' = FALSE /\ writing' = FALSE
        /\ registered' = ~registered /\ cb' = "destroyed" /\ downs' = downs + 1
        /\ UNCHANGED <<ups, phase, revents>>
    BY <1>9 DEF Disconnect
  <2>2. phase = "poll" /\ revents = {} /\ registered = TRUE /\ downs = 0 /\ ups = 1
    BY <1>t, <1>u, <2>1 DEF DownInv, Reported, Standing
  <2>3. UpFirst'
    BY <2>1, <2>2 DEF UpFirst
  <2>4. Reported'
    BY <2>1, <2>2 DEF Reported
  <2>5. Standing'
    <3>1. registered' = FALSE /\ phase' = "poll" /\ state_' # "kConnected" /\ cb' # "destroying"
      BY <2>1, <2>2
    <3>2. downs' > 0
      BY <2>1, <2>2
    <3>3. reading' = FALSE
      BY <2>1
    <3> QED BY <3>1, <3>2, <3>3 DEF Standing
  <2> QED BY <2>2, <2>3, <2>4, <2>5 DEF DownInv
<1>10. CASE ReturnFromCallback
  <2>1. /\ cb' = "none" /\ registered' = (registered /\ cb # "destroyed")
        /\ UNCHANGED <<state_, reading, writing, ups, downs, phase, revents>>
    BY <1>10 DEF ReturnFromCallback
  <2> QED BY <1>t, <2>1 DEF DownInv, UpFirst, Reported, Standing
<1>11. CASE RunUserCallback
  <2>1. cb = "none" /\ cb' = "other" /\ UNCHANGED <<state_, chanVars, ups, downs, phase, revents>>
    BY <1>11 DEF RunUserCallback, RunFunctor
  <2> QED BY <2>1 DEF DownInv, UpFirst, Reported, Standing
<1>12. CASE RunSend \/ \E m \in Msg : OwnerSend(m)
  <2>1. UNCHANGED <<reading, ups, downs, cb, phase, revents, state_>>
    BY <1>12 DEF RunSend, RunFunctor, OwnerSend, SendInLoop
  <2>2. (registered => registered') /\ (writing => writing') /\ (registered' => registered \/ writing')
    BY <1>12 DEF RunSend, OwnerSend, SendInLoop
  <2> QED BY <1>t, <2>1, <2>2, DownSend
<1>13. CASE \/ RunSendFile \/ RunShutdown \/ OwnerShutdown
            \/ \E f \in File : OwnerSendFile(f)
  BY <1>13, DownStill DEF RunSendFile, OwnerSendFile, SendFileInLoop, SendFileLeaving,
     RunShutdown, OwnerShutdown, RunFunctor
<1>14. CASE RemoveConnection \/ ServerDestroyed \/ PeerStep
  BY <1>14, DownStill DEF RemoveConnection, ServerDestroyed, PeerStep, PeerSends,
     PeerCloses, PeerResets, EnvUnchanged
<1>15. CASE \E u \in User : UserStep(u)
  BY <1>15, DownStill DEF UserStep, UserFinish, UserUnchanged, UserSendQueue,
     UserShutdownSet, UserShutdownQueue, UserShutdownTest, UserSendTest, UserCalls
<1>16. CASE UNCHANGED vars
  BY <1>16, DownStill DEF vars
<1> QED BY <1>1, <1>2, <1>3, <1>4, <1>5, <1>6, <1>7, <1>8, <1>9, <1>10, <1>11, <1>12,
     <1>13, <1>14, <1>15, <1>16 DEF Next, LoopStep, OwnerStep

LEMMA DownInductive == Spec => []DownInv
BY Inductive, DownInit, StepDown, PTL DEF Spec

(* The connection callback: UP once, and DOWN only after it, also when the *)
(* connection is destroyed before connectEstablished has run.              *)
THEOREM UpComesFirst == Spec => []UpFirst
<1>1. DownInv => UpFirst
  BY DEF DownInv
<1> QED BY <1>1, DownInductive, PTL

(* handleClose and connectDestroyed, whichever comes first and whatever    *)
(* other threads write to state_ meanwhile, give one DOWN between them: a  *)
(* further one is the work of a send that asked for EPOLLOUT again, which  *)
(* sendInLoop does not refuse (NothingSentAfterDisconnect).                *)
THEOREM SecondDownNeedsSend == Spec => DownAgain
<1>1. IInv /\ DownInv /\ [Next]_vars => [downs' # downs => downs = 0 \/ writing]_vars
  BY StepDown
<1> QED BY <1>1, Inductive, DownInductive, PTL DEF Spec, DownAgain
=============================================================================
