---------------------------- MODULE StreamProofs -----------------------------
(***************************************************************************)
(* Proofs about what a TcpConnection puts on the wire, for any messages,   *)
(* files and threads: every accepted message is there in one piece and in  *)
(* its place, and every file goes out in order and whole.                  *)
(***************************************************************************)
EXTENDS TcpConnectionProofs

-----------------------------------------------------------------------------
(* Messages                                                                *)

\* at says where each message of acc starts in s: StreamIntact of acc and s
IntactAt(at, acc, s) ==
  /\ \A i \in DOMAIN acc :
       /\ Places(at[i], acc[i]) \subseteq DOMAIN s
       /\ \A k \in 1 .. Size[acc[i]] : s[at[i] + k] = <<acc[i], k>>
  /\ \A i, j \in DOMAIN acc : i < j => at[i] + Size[acc[i]] <= at[j]
  /\ \A p \in DOMAIN s : s[p][1] \in Msg => \E i \in DOMAIN acc : p \in Places(at[i], acc[i])

Intact(acc, s) == \E at \in [DOMAIN acc -> 0 .. Len(s)] : IntactAt(at, acc, s)

LEMMA MessageSize == \A m \in Msg : m \in Data /\ Size[m] \in Nat \ {0}
BY UnitsFacts DEF Data

LEMMA InPlaces ==
  ASSUME NEW p \in Nat, NEW m \in Msg, NEW k \in 1 .. Size[m]
  PROVE  p + k \in Places(p, m)
BY MessageSize DEF Places

LEMMA ConcatFacts ==
  ASSUME NEW S, NEW s \in Seq(S), NEW t \in Seq(S)
  PROVE  /\ s \o t \in Seq(S) /\ Len(s) \in Nat /\ Len(t) \in Nat
         /\ Len(s \o t) = Len(s) + Len(t)
         /\ DOMAIN s = 1 .. Len(s) /\ DOMAIN t = 1 .. Len(t)
         /\ DOMAIN (s \o t) = 1 .. Len(s) + Len(t)
         /\ \A p \in 1 .. Len(s) : (s \o t)[p] = s[p]
         /\ \A p \in 1 .. Len(t) : (s \o t)[Len(s) + p] = t[p]
OBVIOUS

\* Units that belong to no message leave the messages where they are.
LEMMA IntactBesides ==
  ASSUME NEW acc \in Seq(Msg), NEW s \in Seq(Unit), NEW t \in Seq(Unit),
         \A p \in DOMAIN t : t[p][1] \notin Msg,
         Intact(acc, s)
  PROVE  Intact(acc, s \o t)
<1>1. PICK at \in [DOMAIN acc -> 0 .. Len(s)] : IntactAt(at, acc, s)
  BY DEF Intact
<1> DEFINE r == s \o t
<1>c. /\ Len(s) \in Nat /\ Len(t) \in Nat /\ Len(r) = Len(s) + Len(t)
      /\ DOMAIN s = 1 .. Len(s) /\ DOMAIN t = 1 .. Len(t) /\ DOMAIN r = 1 .. Len(s) + Len(t)
      /\ \A p \in 1 .. Len(s) : r[p] = s[p]
      /\ \A p \in 1 .. Len(t) : r[Len(s) + p] = t[p]
  BY ConcatFacts
<1> HIDE DEF r
<1>2. at \in [DOMAIN acc -> 0 .. Len(r)]
  BY <1>c
<1>3. ASSUME NEW i \in DOMAIN acc
      PROVE  /\ Places(at[i], acc[i]) \subseteq DOMAIN r
             /\ \A k \in 1 .. Size[acc[i]] : r[at[i] + k] = <<acc[i], k>>
  <2>1. /\ Places(at[i], acc[i]) \subseteq DOMAIN s
        /\ \A k \in 1 .. Size[acc[i]] : s[at[i] + k] = <<acc[i], k>>
    BY <1>1 DEF IntactAt
  <2>2. at[i] \in Nat /\ Size[acc[i]] \in Nat
    BY <1>c, MessageSize
  <2>3. \A k \in 1 .. Size[acc[i]] : at[i] + k \in DOMAIN s
    <3>1. acc[i] \in Msg
      OBVIOUS
    <3> QED BY <2>1, <2>2, <3>1, InPlaces
  <2> QED BY <1>c, <2>1, <2>3
<1>4. ASSUME NEW p \in DOMAIN r, r[p][1] \in Msg
      PROVE  \E i \in DOMAIN acc : p \in Places(at[i], acc[i])
  <2>1. CASE p \in DOMAIN s
    BY <1>1, <1>4, <1>c, <2>1 DEF IntactAt
  <2>2. CASE p \notin DOMAIN s
    <3>1. p - Len(s) \in 1 .. Len(t) /\ p = Len(s) + (p - Len(s))
      BY <1>c, <2>2
    <3>2. r[p] = t[p - Len(s)]
      BY <1>c, <3>1
    <3> QED BY <1>4, <1>c, <3>1, <3>2
  <2> QED BY <2>1, <2>2
<1>5. IntactAt(at, acc, r)
  BY <1>1, <1>3, <1>4 DEF IntactAt
<1> QED BY <1>2, <1>5 DEF Intact, r

LEMMA UnitsBehind ==
  ASSUME NEW s \in Seq(Unit), NEW m \in Msg
  PROVE  LET r == s \o Units(m)
         IN /\ Len(s) \in Nat /\ Len(r) = Len(s) + Size[m]
            /\ DOMAIN s = 1 .. Len(s) /\ DOMAIN r = 1 .. Len(s) + Size[m]
            /\ \A p \in 1 .. Len(s) : r[p] = s[p]
            /\ \A p \in 1 .. Size[m] : r[Len(s) + p] = <<m, p>>
<1>1. PICK t \in Seq(Unit) : t = Units(m)
  BY MessageSize, UnitsFacts
<1>2. Len(t) = Size[m] /\ \A k \in 1 .. Size[m] : t[k] = <<m, k>>
  BY <1>1, MessageSize, UnitsFacts DEF Units
<1>3. /\ Len(s) \in Nat /\ Len(t) \in Nat /\ Len(s \o t) = Len(s) + Len(t)
      /\ DOMAIN s = 1 .. Len(s) /\ DOMAIN (s \o t) = 1 .. Len(s) + Len(t)
      /\ \A p \in 1 .. Len(s) : (s \o t)[p] = s[p]
      /\ \A p \in 1 .. Len(t) : (s \o t)[Len(s) + p] = t[p]
  BY ConcatFacts
<1> QED BY <1>1, <1>2, <1>3

\* A message that is accepted takes its place at the end of the stream.
LEMMA IntactBehind ==
  ASSUME NEW acc \in Seq(Msg), NEW s \in Seq(Unit), NEW m \in Msg, Intact(acc, s)
  PROVE  Intact(Append(acc, m), s \o Units(m))
<1>1. PICK at \in [DOMAIN acc -> 0 .. Len(s)] : IntactAt(at, acc, s)
  BY DEF Intact
<1> DEFINE r == s \o Units(m)
           all == Append(acc, m)
           N == Len(acc)
           to == [i \in 1 .. N + 1 |-> IF i = N + 1 THEN Len(s) ELSE at[i]]
<1>m. /\ Size[m] \in Nat \ {0} /\ Units(m) \in Seq(Unit) /\ Len(Units(m)) = Size[m]
      /\ \A k \in 1 .. Size[m] : Units(m)[k] = <<m, k>>
  BY MessageSize, UnitsFacts DEF Units
<1>c. /\ Len(s) \in Nat /\ Len(r) = Len(s) + Size[m]
      /\ DOMAIN s = 1 .. Len(s) /\ DOMAIN r = 1 .. Len(s) + Size[m]
      /\ \A p \in 1 .. Len(s) : r[p] = s[p]
      /\ \A p \in 1 .. Size[m] : r[Len(s) + p] = <<m, p>>
  BY <1>m, UnitsBehind
<1>a. /\ N \in Nat /\ DOMAIN acc = 1 .. N /\ DOMAIN all = 1 .. N + 1
      /\ \A i \in 1 .. N : all[i] = acc[i] /\ acc[i] \in Msg
      /\ all[N + 1] = m
  OBVIOUS
<1>t. \A i \in 1 .. N : to[i] = at[i] /\ at[i] \in 0 .. Len(s)
  BY <1>a
<1>l. to[N + 1] = Len(s)
  BY <1>a
<1>2. to \in [DOMAIN all -> 0 .. Len(r)]
  BY <1>a, <1>c, <1>m, <1>t, <1>l
<1> HIDE DEF r, all, N, to
<1>3. ASSUME NEW i \in 1 .. N
      PROVE  /\ Places(at[i], acc[i]) \subseteq DOMAIN s
             /\ \A k \in 1 .. Size[acc[i]] : s[at[i] + k] = <<acc[i], k>>
             /\ Size[acc[i]] \in Nat \ {0} /\ at[i] + Size[acc[i]] <= Len(s)
  <2>1. /\ Places(at[i], acc[i]) \subseteq DOMAIN s
        /\ \A k \in 1 .. Size[acc[i]] : s[at[i] + k] = <<acc[i], k>>
    BY <1>1, <1>a DEF IntactAt
  <2>2. at[i] \in Nat /\ Size[acc[i]] \in Nat \ {0}
    BY <1>a, <1>c, <1>t, MessageSize
  <2>3. at[i] + Size[acc[i]] \in Places(at[i], acc[i])
    BY <2>2 DEF Places
  <2> QED BY <1>c, <2>1, <2>2, <2>3
<1>4. ASSUME NEW i \in DOMAIN all
      PROVE  /\ Places(to[i], all[i]) \subseteq DOMAIN r
             /\ \A k \in 1 .. Size[all[i]] : r[to[i] + k] = <<all[i], k>>
  <2>1. CASE i \in 1 .. N
    <3>1. to[i] = at[i] /\ all[i] = acc[i] /\ at[i] \in Nat
      BY <1>a, <1>c, <1>t, <2>1
    <3>2. \A k \in 1 .. Size[acc[i]] : at[i] + k \in DOMAIN s
      BY <1>3, <1>a, <2>1, <3>1, InPlaces
    <3>3. DOMAIN s \subseteq DOMAIN r /\ \A p \in DOMAIN s : r[p] = s[p]
      BY <1>c, <1>m
    <3>4. /\ Places(at[i], acc[i]) \subseteq DOMAIN s
          /\ \A k \in 1 .. Size[acc[i]] : s[at[i] + k] = <<acc[i], k>>
      BY <1>3, <2>1
    <3>5. ASSUME NEW k \in 1 .. Size[all[i]] PROVE r[to[i] + k] = <<all[i], k>>
      BY <3>1, <3>2, <3>3, <3>4
    <3> QED BY <3>1, <3>3, <3>4, <3>5
  <2>2. CASE i = N + 1
    <3>1. to[i] = Len(s) /\ all[i] = m
      BY <1>a, <1>l, <2>2
    <3> QED BY <1>c, <1>m, <3>1 DEF Places
  <2>3. i \in 1 .. N \/ i = N + 1
    BY <1>a
  <2> QED BY <2>1, <2>2, <2>3
<1>5. ASSUME NEW i \in DOMAIN all, NEW j \in DOMAIN all, i < j
      PROVE  to[i] + Size[all[i]] <= to[j]
  <2>1. i \in 1 .. N /\ to[i] = at[i] /\ all[i] = acc[i]
    BY <1>a, <1>t, <1>5
  <2>2. CASE j \in 1 .. N
    BY <1>1, <1>5, <1>a, <1>t, <2>1, <2>2 DEF IntactAt
  <2>3. CASE j = N + 1
    BY <1>3, <1>l, <2>1, <2>3
  <2> QED BY <1>a, <2>2, <2>3
<1>6. ASSUME NEW p \in DOMAIN r, r[p][1] \in Msg
      PROVE  \E i \in DOMAIN all : p \in Places(to[i], all[i])
  <2>1. CASE p \in DOMAIN s
    <3>1. PICK i \in DOMAIN acc : p \in Places(at[i], acc[i])
      BY <1>1, <1>6, <1>c, <2>1 DEF IntactAt
    <3> QED BY <1>a, <1>t, <3>1
  <2>2. CASE p \notin DOMAIN s
    <3>1. p \in Places(Len(s), m)
      BY <1>c, <1>m, <2>2 DEF Places
    <3>2. N + 1 \in DOMAIN all /\ to[N + 1] = Len(s) /\ all[N + 1] = m
      BY <1>a, <1>l
    <3> QED BY <3>1, <3>2
  <2> QED BY <2>1, <2>2
<1>7. IntactAt(to, all, r)
  BY <1>4, <1>5, <1>6 DEF IntactAt
<1> QED BY <1>2, <1>7 DEF Intact, r, all

\* What SendsPiece adds
LEMMA PieceFacts ==
  ASSUME NEW f \in File, NEW k \in 1 .. Size[f], NEW n \in 1 .. Size[f]
  PROVE  LET piece == SubSeq(Units(f), k, n)
         IN /\ piece \in Seq(Unit)
            /\ Len(piece) = IF k <= n THEN n - k + 1 ELSE 0
            /\ \A p \in DOMAIN piece : piece[p] = <<f, k + p - 1>>
<1> DEFINE piece == SubSeq(Units(f), k, n)
<1>1. /\ f \in Data /\ Size[f] \in Nat /\ Units(f) \in Seq(Unit) /\ Len(Units(f)) = Size[f]
      /\ \A p \in 1 .. Size[f] : Units(f)[p] = <<f, p>> /\ Units(f)[p] \in Unit
  <2>1. f \in Data
    BY DEF Data
  <2>2. /\ Size[f] \in Nat /\ Units(f) \in Seq(Unit) /\ Len(Units(f)) = Size[f]
    BY <2>1, UnitsFacts
  <2>3. \A p \in 1 .. Size[f] : Units(f)[p] = <<f, p>>
    BY DEF Units
  <2>4. \A p \in 1 .. Size[f] : Units(f)[p] \in Unit
    BY <2>2
  <2> QED BY <2>1, <2>2, <2>3, <2>4
<1>2. \A p \in k .. n : p \in 1 .. Size[f]
  BY <1>1
<1>3. /\ piece \in Seq(Unit) /\ Len(piece) = IF k <= n THEN n - k + 1 ELSE 0
      /\ \A p \in 1 .. n - k + 1 : piece[p] = Units(f)[k + p - 1]
  BY <1>1, <1>2, SubSeqProperties
<1>4. ASSUME NEW p \in DOMAIN piece PROVE piece[p] = <<f, k + p - 1>>
  <2>1. p \in 1 .. n - k + 1
    BY <1>3, <1>1
  <2>2. k + p - 1 \in 1 .. Size[f]
    BY <1>1, <2>1
  <2> QED BY <1>1, <1>3, <2>1, <2>2
<1> QED BY <1>3, <1>4

LEMMA IntactInit == Init => StreamIntact
<1> SUFFICES ASSUME Init PROVE StreamIntact
  OBVIOUS
<1>1. accepted = <<>> /\ Sent = <<>> /\ Len(<<>>) = 0 /\ DOMAIN <<>> = {}
  BY DEF Init, Sent
<1> DEFINE at == [i \in {} |-> 0]
<1>2. at \in [DOMAIN accepted -> 0 .. Len(Sent)]
  BY <1>1
<1> HIDE DEF at
<1> QED BY <1>1, <1>2 DEF StreamIntact

LEMMA IntactStep ==
  ASSUME IInv, [Next]_vars, StreamIntact
  PROVE  StreamIntact'
<1>t. Sent \in Seq(Unit) /\ accepted \in Seq(Msg)
  BY StreamTypes DEF IInv, SeqTypes, Sent
<1>i. Intact(accepted, Sent)
  BY DEF StreamIntact, Intact, IntactAt
<1>1. ASSUME Moves PROVE Intact(accepted', Sent')
  BY <1>1, <1>i DEF Moves
<1>2. ASSUME NEW m \in Msg, Keeps(m) PROVE Intact(accepted', Sent')
  BY <1>2, <1>i, <1>t, IntactBehind DEF Keeps
<1>3. ASSUME NEW f \in File, SendsPiece(f) PROVE Intact(accepted', Sent')
  <2>1. PICK k \in 1 .. Size[f], n \in 1 .. Size[f] :
          Sent' = Sent \o SubSeq(Units(f), k, n) /\ accepted' = accepted
    BY <1>3 DEF SendsPiece
  <2> DEFINE piece == SubSeq(Units(f), k, n)
  <2>2. piece \in Seq(Unit) /\ \A p \in DOMAIN piece : piece[p][1] = f
    BY PieceFacts
  <2>3. f \notin Msg
    BY DataAssumption
  <2> HIDE DEF piece
  <2>4. Intact(accepted, Sent \o piece)
    BY <1>i, <1>t, <2>2, <2>3, IntactBesides
  <2> QED BY <2>1, <2>4 DEF piece
<1>4. Intact(accepted', Sent')
  BY <1>1, <1>2, <1>3, StepKeeps
<1> QED BY <1>4 DEF StreamIntact, Intact, IntactAt

(* Nothing that sendInLoop accepted is lost, duplicated, reordered or torn *)
(* apart: StreamIntact, for any messages, files, sizes and threads.        *)
THEOREM MessagesArriveWhole == Spec => []StreamIntact
BY Inductive, IntactInit, IntactStep, PTL DEF Spec

-----------------------------------------------------------------------------
(* Files                                                                   *)

IsJob(g, f) == g.op = "file" /\ g.msg = f
NoJob(q, f) == \A i \in DOMAIN q : ~IsJob(q[i], f)

\* At most one functor of q sends f, and it continues behind n units.
OneJob(q, f, n) ==
  /\ \A i \in DOMAIN q : IsJob(q[i], f) => q[i] = FileOf(f, n + 1)
  /\ \A i, j \in DOMAIN q : IsJob(q[i], f) /\ IsJob(q[j], f) => i = j

Asks(u, f) == userPc[u] = [at |-> "sendQueue", msg |-> f]

\* n units of f are on the wire, and at most one functor or thread goes on.
Progress(f, n) ==
  /\ HasFirst(n, f, wire)
  /\ OneJob(Waiting, f, n)
  /\ \A u \in User : Asks(u, f) => n = 0 /\ NoJob(Waiting, f) /\ f \in submitted
  /\ \A u, v \in User : Asks(u, f) /\ Asks(v, f) => u = v
  /\ f \notin submitted => n = 0 /\ NoJob(Waiting, f)
  /\ f \in submitted /\ state_ = "kConnected" /\ peer # "reset"
       => ~NoJob(Waiting, f) \/ FileSubmitted(f) \/ n = Size[f]

NoShutdown(q) == \A i \in DOMAIN q : q[i].op # "shutdown"

\* While the connection is kConnected nobody has begun to shut it down.
NotShut ==
  state_ = "kConnected" =>
    /\ ~finSent /\ NoShutdown(Waiting)
    /\ \A u \in User : userPc[u].at # "shutQueue"

\* Only messages are buffered, a batch is done before the next poll, and
\* nothing is sent before connectEstablished.
Quiet ==
  /\ \A p \in DOMAIN outputBuffer_ : outputBuffer_[p][1] \in Msg
  /\ phase = "event" => batch = <<>>
  /\ ups = 0 => submitted = {}

\* What makes FilesWhole inductive
FilesInv ==
  /\ \A f \in File : \E n \in 0 .. Size[f] : Progress(f, n)
  /\ NotShut /\ Quiet

\* Functors that send no file, or another one
LEMMA JobFacts ==
  ASSUME NEW f \in File
  PROVE  /\ \A g \in Functors : g.op # "file" => ~IsJob(g, f)
         /\ \A g \in Functors : IsJob(g, f) => \E k \in 1 .. Size[f] : g = FileOf(f, k)
         /\ \A h \in File : \A k : IsJob(FileOf(h, k), f) <=> h = f
         /\ \A j, k : FileOf(f, j) = FileOf(f, k) <=> j = k
<1>1. \A g \in Functors : g.op # "file" => ~IsJob(g, f)
  BY DEF IsJob
<1>2. \A h \in File : \A k : /\ FileOf(h, k).op = "file" /\ FileOf(h, k).msg = h
                        /\ FileOf(h, k).from = k
  BY DEF FileOf
<1>3. ASSUME NEW g \in Functors, IsJob(g, f)
      PROVE  \E k \in 1 .. Size[f] : g = FileOf(f, k)
  <2>1. g.op = "file" /\ g.msg = f
    BY <1>3 DEF IsJob
  <2>2. g \notin {Functor(op) : op \in {"established", "destroyed", "shutdown",
                                       "writeComplete", "highWater"}}
    BY <2>1 DEF Functor
  <2>3. g \notin {SendOf(m) : m \in Msg}
    BY <2>1 DEF SendOf
  <2>4. g \in UNION {{FileOf(h, k) : k \in 1 .. Size[h]} : h \in File}
    BY <2>2, <2>3 DEF Functors
  <2>5. PICK h \in File : g \in {FileOf(h, k) : k \in 1 .. Size[h]}
    BY <2>4
  <2>6. PICK k \in 1 .. Size[h] : g = FileOf(h, k)
    BY <2>5
  <2>7. h = f
    BY <1>2, <2>1, <2>6
  <2> QED BY <2>6, <2>7
<1> QED BY <1>1, <1>2, <1>3 DEF IsJob

LEMMA JobsConcat ==
  ASSUME NEW f \in File, NEW q \in Seq(Functors), NEW t \in Seq(Functors), NoJob(t, f)
  PROVE  /\ q \o t \in Seq(Functors)
         /\ NoJob(q \o t, f) <=> NoJob(q, f)
         /\ \A n : OneJob(q, f, n) => OneJob(q \o t, f, n)
<1> DEFINE r == q \o t
<1>1. /\ r \in Seq(Functors) /\ Len(q) \in Nat /\ Len(t) \in Nat
      /\ DOMAIN q = 1 .. Len(q) /\ DOMAIN t = 1 .. Len(t) /\ DOMAIN r = 1 .. Len(q) + Len(t)
      /\ \A p \in 1 .. Len(q) : r[p] = q[p]
      /\ \A p \in 1 .. Len(t) : r[Len(q) + p] = t[p]
  BY ConcatFacts
<1> HIDE DEF r
<1>2. ASSUME NEW p \in DOMAIN r, IsJob(r[p], f) PROVE p \in DOMAIN q /\ r[p] = q[p]
  <2>1. CASE p \in 1 .. Len(q)
    BY <1>1, <2>1
  <2>2. CASE p \notin 1 .. Len(q)
    <3>1. p - Len(q) \in 1 .. Len(t) /\ p = Len(q) + (p - Len(q))
      BY <1>1, <2>2
    <3>2. r[p] = t[p - Len(q)]
      BY <1>1, <3>1
    <3> QED BY <1>1, <1>2, <3>1, <3>2 DEF NoJob
  <2> QED BY <2>1, <2>2
<1>3. \A p \in DOMAIN q : p \in DOMAIN r /\ r[p] = q[p]
  BY <1>1
<1>4. NoJob(r, f) <=> NoJob(q, f)
  BY <1>2, <1>3 DEF NoJob
<1>5. ASSUME NEW n, OneJob(q, f, n) PROVE OneJob(r, f, n)
  BY <1>2, <1>5 DEF OneJob
<1> QED BY <1>1, <1>4, <1>5 DEF r

LEMMA JobsTail ==
  ASSUME NEW f \in File, NEW q \in Seq(Functors), q # <<>>
  PROVE  /\ Tail(q) \in Seq(Functors)
         /\ NoJob(q, f) => NoJob(Tail(q), f)
         /\ ~NoJob(q, f) /\ ~IsJob(Head(q), f) => ~NoJob(Tail(q), f)
         /\ \A n : OneJob(q, f, n) =>
              /\ OneJob(Tail(q), f, n)
              /\ IsJob(Head(q), f) => Head(q) = FileOf(f, n + 1) /\ NoJob(Tail(q), f)
<1> DEFINE r == Tail(q)
<1>1. /\ r \in Seq(Functors) /\ Len(q) \in Nat \ {0} /\ DOMAIN q = 1 .. Len(q)
      /\ DOMAIN r = 1 .. Len(q) - 1 /\ \A p \in DOMAIN r : r[p] = q[p + 1]
      /\ Head(q) = q[1] /\ 1 \in DOMAIN q
  OBVIOUS
<1> HIDE DEF r
<1>2. \A p \in DOMAIN r : p + 1 \in DOMAIN q /\ p + 1 # 1
  BY <1>1
<1>3. NoJob(q, f) => NoJob(r, f)
  BY <1>1, <1>2 DEF NoJob
<1>4. ASSUME ~NoJob(q, f), ~IsJob(Head(q), f) PROVE ~NoJob(r, f)
  <2>1. PICK p \in DOMAIN q : IsJob(q[p], f)
    BY <1>4 DEF NoJob
  <2>2. p # 1
    BY <1>1, <1>4, <2>1
  <2>3. p - 1 \in DOMAIN r /\ r[p - 1] = q[p]
    BY <1>1, <2>2
  <2> QED BY <2>1, <2>3 DEF NoJob
<1>5. ASSUME NEW n, OneJob(q, f, n)
      PROVE  /\ OneJob(r, f, n)
             /\ IsJob(Head(q), f) => Head(q) = FileOf(f, n + 1) /\ NoJob(r, f)
  <2>1. \A p \in DOMAIN r : IsJob(r[p], f) => r[p] = FileOf(f, n + 1)
    BY <1>1, <1>2, <1>5 DEF OneJob
  <2>2. ASSUME NEW i \in DOMAIN r, NEW j \in DOMAIN r, IsJob(r[i], f), IsJob(r[j], f)
        PROVE  i = j
    <3>1. i + 1 = j + 1
      BY <1>1, <1>2, <1>5, <2>2 DEF OneJob
    <3> QED BY <1>1, <3>1
  <2>3. ASSUME IsJob(Head(q), f) PROVE Head(q) = FileOf(f, n + 1) /\ NoJob(r, f)
    BY <1>1, <1>2, <1>5, <2>3 DEF OneJob, NoJob
  <2> QED BY <2>1, <2>2, <2>3 DEF OneJob
<1> QED BY <1>1, <1>3, <1>4, <1>5 DEF r

\* sendFileInLoop is queued where it was not.
LEMMA JobsAdd ==
  ASSUME NEW f \in File, NEW q \in Seq(Functors), NoJob(q, f), NEW n
  PROVE  /\ OneJob(q, f, n)
         /\ OneJob(q \o <<FileOf(f, n + 1)>>, f, n)
         /\ ~NoJob(q \o <<FileOf(f, n + 1)>>, f)
<1> DEFINE g == FileOf(f, n + 1)
           r == q \o <<g>>
<1>1. /\ Len(q) \in Nat /\ DOMAIN q = 1 .. Len(q) /\ DOMAIN r = 1 .. Len(q) + 1
      /\ \A p \in 1 .. Len(q) : r[p] = q[p]
      /\ r[Len(q) + 1] = g
  OBVIOUS
<1>2. IsJob(g, f)
  BY JobFacts
<1> HIDE DEF r, g
<1>3. \A p \in DOMAIN r : IsJob(r[p], f) => p = Len(q) + 1
  BY <1>1 DEF NoJob
<1>4. OneJob(r, f, n)
  BY <1>1, <1>3 DEF OneJob, g
<1>5. ~NoJob(r, f)
  <2>1. Len(q) + 1 \in DOMAIN r
    BY <1>1
  <2> QED BY <1>1, <1>2, <2>1 DEF NoJob
<1> QED BY <1>4, <1>5 DEF r, g, OneJob, NoJob

LEMMA Associative ==
  ASSUME NEW s \in Seq(Functors), NEW t \in Seq(Functors), NEW u \in Seq(Functors)
  PROVE  (s \o t) \o u = s \o (t \o u)
BY ConcatAssociative

\* Waiting when functors are queued, and when the first of the batch is run
LEMMA WaitingFacts ==
  ASSUME TypeOK, NEW t \in Seq(Functors), queue' = queue \o t
  PROVE  /\ Waiting \in Seq(Functors)
         /\ batch' = batch => Waiting' = Waiting \o t
         /\ batch # <<>> /\ batch' = Tail(batch)
              => /\ Waiting # <<>> /\ Head(Waiting) = Head(batch)
                 /\ Waiting' = Tail(Waiting) \o t
<1>t. queue \in Seq(Functors) /\ batch \in Seq(Functors)
  BY StreamTypes DEF SeqTypes
<1>1. Waiting = batch \o queue /\ Waiting \in Seq(Functors)
  BY <1>t DEF Waiting
<1>2. Waiting' = batch' \o (queue \o t)
  BY DEF Waiting
<1>3. ASSUME batch' = batch PROVE Waiting' = Waiting \o t
  BY <1>1, <1>2, <1>3, <1>t, Associative
<1>4. ASSUME batch # <<>>, batch' = Tail(batch)
      PROVE  /\ Waiting # <<>> /\ Head(Waiting) = Head(batch)
             /\ Waiting' = Tail(Waiting) \o t
  <2>1. Tail(batch) \in Seq(Functors)
    BY <1>4, <1>t
  <2>2. /\ batch \o queue # <<>> /\ Head(batch \o queue) = Head(batch)
        /\ Tail(batch \o queue) = Tail(batch) \o queue
    BY <1>4, <1>t
  <2>3. Tail(batch) \o (queue \o t) = (Tail(batch) \o queue) \o t
    BY <1>t, <2>1, Associative
  <2> QED BY <1>1, <1>2, <1>4, <2>2, <2>3
<1> QED BY <1>1, <1>3, <1>4

-----------------------------------------------------------------------------
(* The wire                                                                *)

\* Units of something else
LEMMA FirstBesides ==
  ASSUME NEW f \in File, NEW n \in Nat, NEW s \in Seq(Unit), NEW t \in Seq(Unit),
         HasFirst(n, f, s), \A p \in DOMAIN t : t[p][1] # f
  PROVE  HasFirst(n, f, s \o t)
<1> DEFINE r == s \o t
<1>1. /\ Len(s) \in Nat /\ Len(t) \in Nat
      /\ DOMAIN s = 1 .. Len(s) /\ DOMAIN t = 1 .. Len(t) /\ DOMAIN r = 1 .. Len(s) + Len(t)
      /\ \A p \in 1 .. Len(s) : r[p] = s[p]
      /\ \A p \in 1 .. Len(t) : r[Len(s) + p] = t[p]
  BY ConcatFacts
<1> HIDE DEF r
<1>2. ASSUME NEW p \in DOMAIN r, r[p][1] = f PROVE p \in DOMAIN s /\ r[p] = s[p]
  <2>1. CASE p \in 1 .. Len(s)
    BY <1>1, <2>1
  <2>2. CASE p \notin 1 .. Len(s)
    <3>1. p - Len(s) \in 1 .. Len(t) /\ p = Len(s) + (p - Len(s))
      BY <1>1, <2>2
    <3>2. r[p] = t[p - Len(s)]
      BY <1>1, <3>1
    <3> QED BY <1>1, <1>2, <3>1, <3>2
  <2> QED BY <2>1, <2>2
<1>3. \A p \in DOMAIN s : p \in DOMAIN r /\ r[p] = s[p]
  BY <1>1
<1>4. HasFirst(n, f, r)
  BY <1>2, <1>3 DEF HasFirst
<1> QED BY <1>4 DEF r

\* The next piece of the file
LEMMA FirstBehind ==
  ASSUME NEW f \in File, NEW n \in Nat, NEW s \in Seq(Unit), NEW t \in Seq(Unit),
         HasFirst(n, f, s), \A p \in DOMAIN t : t[p] = <<f, n + p>>
  PROVE  HasFirst(n + Len(t), f, s \o t)
<1> DEFINE r == s \o t
<1>1. /\ Len(s) \in Nat /\ Len(t) \in Nat
      /\ DOMAIN s = 1 .. Len(s) /\ DOMAIN t = 1 .. Len(t) /\ DOMAIN r = 1 .. Len(s) + Len(t)
      /\ \A p \in 1 .. Len(s) : r[p] = s[p]
      /\ \A p \in 1 .. Len(t) : r[Len(s) + p] = t[p]
  BY ConcatFacts
<1> HIDE DEF r
<1>2. \A p \in 1 .. Len(t) : Len(s) + p \in DOMAIN r /\ r[Len(s) + p] = <<f, n + p>>
  BY <1>1
<1>3. ASSUME NEW p \in DOMAIN r, p \notin DOMAIN s
      PROVE  /\ p - Len(s) \in 1 .. Len(t) /\ p > Len(s)
             /\ r[p] = <<f, n + (p - Len(s))>>
  <2>1. p - Len(s) \in 1 .. Len(t) /\ p = Len(s) + (p - Len(s)) /\ p > Len(s)
    BY <1>1, <1>3
  <2> QED BY <1>2, <2>1
<1>4. \A p \in DOMAIN s : p \in DOMAIN r /\ r[p] = s[p] /\ p \in Nat
  BY <1>1
<1>5. ASSUME NEW k \in 1 .. n + Len(t) PROVE \E p \in DOMAIN r : r[p] = <<f, k>>
  <2>1. CASE k \in 1 .. n
    BY <1>4, <2>1 DEF HasFirst
  <2>2. CASE k \notin 1 .. n
    <3>1. k - n \in 1 .. Len(t) /\ n + (k - n) = k
      BY <1>1, <2>2
    <3> QED BY <1>2, <3>1
  <2> QED BY <2>1, <2>2
<1>6. ASSUME NEW p \in DOMAIN r, r[p][1] = f PROVE r[p][2] \in 1 .. n + Len(t)
  <2>1. CASE p \in DOMAIN s
    <3>1. r[p][2] \in 1 .. n
      BY <1>4, <1>6, <2>1 DEF HasFirst
    <3> QED BY <1>1, <3>1
  <2>2. CASE p \notin DOMAIN s
    BY <1>1, <1>3, <2>2
  <2> QED BY <2>1, <2>2
<1>7. ASSUME NEW p \in DOMAIN r, NEW q \in DOMAIN r, r[p][1] = f, r[q][1] = f, p < q
      PROVE  r[p][2] < r[q][2]
  <2>1. CASE q \in DOMAIN s
    <3>1. p \in DOMAIN s
      BY <1>1, <1>7, <2>1
    <3> QED BY <1>4, <1>7, <2>1, <3>1 DEF HasFirst
  <2>2. CASE q \notin DOMAIN s /\ p \in DOMAIN s
    <3>1. r[p][2] \in 1 .. n
      BY <1>4, <1>7, <2>2 DEF HasFirst
    <3>2. r[q][2] = n + (q - Len(s)) /\ q - Len(s) \in 1 .. Len(t)
      BY <1>3, <2>2
    <3> QED BY <1>1, <3>1, <3>2
  <2>3. CASE q \notin DOMAIN s /\ p \notin DOMAIN s
    <3>1. r[q][2] = n + (q - Len(s)) /\ r[p][2] = n + (p - Len(s))
      BY <1>3, <2>3
    <3> QED BY <1>1, <1>7, <3>1
  <2> QED BY <2>1, <2>2, <2>3
<1>8. HasFirst(n + Len(t), f, r)
  BY <1>5, <1>6, <1>7 DEF HasFirst
<1> QED BY <1>8 DEF r

-----------------------------------------------------------------------------
(* Steps that leave a file alone                                           *)

\* What a step does that neither sends f nor queues or submits it
SameJobs(f) ==
  /\ NoJob(Waiting', f) <=> NoJob(Waiting, f)
  /\ \A n : OneJob(Waiting, f, n) => OneJob(Waiting', f, n)
SameUnits(f) == \A n \in Nat : HasFirst(n, f, wire) => HasFirst(n, f, wire')
SameCalls(f) ==
  /\ \A u \in User : Asks(u, f)' <=> Asks(u, f)
  /\ f \in submitted' <=> f \in submitted
Aside(f) == SameJobs(f) /\ SameUnits(f) /\ SameCalls(f)

\* The connection does not become kConnected and the reset is not undone.
NoWorse ==
  /\ state_' = "kConnected" => state_ = "kConnected" \/ ups = 0
  /\ peer' # "reset" => peer # "reset"

LEMMA FileSize == \A f \in File : f \in Data /\ Size[f] \in Nat \ {0} /\ f \notin Msg
BY UnitsFacts, DataAssumption DEF Data

LEMMA ProgressKept ==
  ASSUME Quiet, NEW f \in File, Aside(f), NoWorse, NEW n \in 0 .. Size[f], Progress(f, n)
  PROVE  Progress(f, n)'
<1>n. n \in Nat
  BY FileSize
<1>1. HasFirst(n, f, wire)' /\ OneJob(Waiting, f, n)'
  BY <1>n DEF Progress, Aside, SameJobs, SameUnits
<1>2. \A u \in User : Asks(u, f)' => n = 0 /\ NoJob(Waiting, f)' /\ f \in submitted'
  BY DEF Progress, Aside, SameJobs, SameCalls
<1>3. \A u, v \in User : Asks(u, f)' /\ Asks(v, f)' => u = v
  BY DEF Progress, Aside, SameCalls
<1>4. f \notin submitted' => n = 0 /\ NoJob(Waiting, f)'
  BY DEF Progress, Aside, SameJobs, SameCalls
<1>5. FileSubmitted(f)' <=> FileSubmitted(f)
  BY DEF FileSubmitted, Aside, SameCalls, Asks
<1>6. f \in submitted' /\ state_' = "kConnected" /\ peer' # "reset"
        => ~NoJob(Waiting, f)' \/ FileSubmitted(f)' \/ n = Size[f]
  BY <1>5 DEF Progress, Aside, SameJobs, SameCalls, NoWorse, Quiet
<1> QED BY <1>1, <1>2, <1>3, <1>4, <1>6 DEF Progress

\* What every step owes NotShut and Quiet
LEMMA ShutsFacts ==
  ASSUME NEW q \in Seq(Functors), NEW t \in Seq(Functors)
  PROVE  /\ NoShutdown(q) /\ NoShutdown(t) => NoShutdown(q \o t)
         /\ q # <<>> /\ NoShutdown(q) => Head(q).op # "shutdown" /\ NoShutdown(Tail(q))
<1>1. ASSUME NoShutdown(q), NoShutdown(t) PROVE NoShutdown(q \o t)
  <2> DEFINE r == q \o t
  <2>1. /\ Len(q) \in Nat /\ Len(t) \in Nat
        /\ DOMAIN q = 1 .. Len(q) /\ DOMAIN t = 1 .. Len(t) /\ DOMAIN r = 1 .. Len(q) + Len(t)
        /\ \A p \in 1 .. Len(q) : r[p] = q[p]
        /\ \A p \in 1 .. Len(t) : r[Len(q) + p] = t[p]
    BY ConcatFacts
  <2> HIDE DEF r
  <2>2. ASSUME NEW p \in DOMAIN r PROVE r[p].op # "shutdown"
    <3>1. CASE p \in 1 .. Len(q)
      BY <1>1, <2>1, <3>1 DEF NoShutdown
    <3>2. CASE p \notin 1 .. Len(q)
      <4>1. p - Len(q) \in 1 .. Len(t) /\ p = Len(q) + (p - Len(q))
        BY <2>1, <3>2
      <4>2. r[p] = t[p - Len(q)]
        BY <2>1, <4>1
      <4> QED BY <1>1, <2>1, <4>1, <4>2 DEF NoShutdown
    <3> QED BY <3>1, <3>2
  <2> QED BY <2>2 DEF NoShutdown, r
<1>2. ASSUME q # <<>>, NoShutdown(q)
      PROVE  Head(q).op # "shutdown" /\ NoShutdown(Tail(q))
  <2>1. /\ Len(q) \in Nat \ {0} /\ DOMAIN q = 1 .. Len(q)
        /\ DOMAIN Tail(q) = 1 .. Len(q) - 1
        /\ \A p \in 1 .. Len(q) - 1 : Tail(q)[p] = q[p + 1] /\ p + 1 \in DOMAIN q
        /\ Head(q) = q[1] /\ 1 \in DOMAIN q
    BY <1>2
  <2> QED BY <1>2, <2>1 DEF NoShutdown
<1> QED BY <1>1, <1>2

\* The queue gets t, and the first functor of the batch may be run.
Queues(t) ==
  /\ queue' = queue \o t
  /\ batch' = batch \/ (batch # <<>> /\ batch' = Tail(batch))

LEMMA NotShutKept ==
  ASSUME TypeOK, NotShut, NEW t \in Seq(Functors), Queues(t),
         state_' = "kConnected" =>
           /\ state_ = "kConnected" /\ NoShutdown(t) /\ finSent' = finSent
           /\ \A u \in User : userPc'[u].at = "shutQueue" => userPc[u].at = "shutQueue"
  PROVE  NotShut'
<1> SUFFICES ASSUME state_' = "kConnected"
             PROVE  /\ ~finSent' /\ NoShutdown(Waiting')
                    /\ \A u \in User : userPc'[u].at # "shutQueue"
  BY DEF NotShut
<1>1. /\ ~finSent /\ NoShutdown(Waiting) /\ NoShutdown(t) /\ finSent' = finSent
      /\ \A u \in User : userPc'[u].at # "shutQueue"
  BY DEF NotShut
<1>2. Waiting \in Seq(Functors)
  BY WaitingFacts DEF Queues
<1>3. CASE batch' = batch
  <2>1. Waiting' = Waiting \o t
    BY <1>3, WaitingFacts DEF Queues
  <2> QED BY <1>1, <1>2, <2>1, ShutsFacts
<1>4. CASE batch # <<>> /\ batch' = Tail(batch)
  <2>1. Waiting # <<>> /\ Waiting' = Tail(Waiting) \o t
    BY <1>4, WaitingFacts DEF Queues
  <2>2. NoShutdown(Tail(Waiting)) /\ Tail(Waiting) \in Seq(Functors)
    BY <1>1, <1>2, <2>1, ShutsFacts
  <2> QED BY <1>1, <2>1, <2>2, ShutsFacts
<1> QED BY <1>1, <1>3, <1>4 DEF Queues

LEMMA JobsKept ==
  ASSUME TypeOK, NEW t \in Seq(Functors), Queues(t), NEW f \in File, NoJob(t, f),
         batch' = batch \/ ~IsJob(Head(batch), f)
  PROVE  SameJobs(f)
<1>1. Waiting \in Seq(Functors)
  BY WaitingFacts DEF Queues
<1>2. CASE batch' = batch
  <2>1. Waiting' = Waiting \o t
    BY <1>2, WaitingFacts DEF Queues
  <2> QED BY <1>1, <2>1, JobsConcat DEF SameJobs
<1>3. CASE batch # <<>> /\ batch' = Tail(batch) /\ ~IsJob(Head(batch), f)
  <2>1. Waiting # <<>> /\ Head(Waiting) = Head(batch) /\ Waiting' = Tail(Waiting) \o t
    BY <1>3, WaitingFacts DEF Queues
  <2>2. /\ Tail(Waiting) \in Seq(Functors)
        /\ NoJob(Tail(Waiting), f) <=> NoJob(Waiting, f)
        /\ \A n : OneJob(Waiting, f, n) => OneJob(Tail(Waiting), f, n)
    BY <1>1, <1>3, <2>1, JobsTail
  <2>3. /\ NoJob(Waiting', f) <=> NoJob(Tail(Waiting), f)
        /\ \A n : OneJob(Tail(Waiting), f, n) => OneJob(Waiting', f, n)
    BY <2>1, <2>2, JobsConcat
  <2> QED BY <2>2, <2>3 DEF SameJobs
<1> QED BY <1>2, <1>3 DEF Queues

LEMMA UnitsKept ==
  ASSUME TypeOK, NEW f \in File, NEW s \in Seq(Unit), wire' = wire \o s,
         \A p \in DOMAIN s : s[p][1] # f
  PROVE  SameUnits(f)
<1>1. wire \in Seq(Unit)
  BY StreamTypes DEF SeqTypes
<1> QED BY <1>1, FirstBesides DEF SameUnits

LEMMA AsideFiles ==
  ASSUME FilesInv, \A f \in File : Aside(f), NoWorse, NotShut', Quiet'
  PROVE  FilesInv'
<1>1. ASSUME NEW f \in File PROVE \E n \in 0 .. Size[f] : Progress(f, n)'
  <2>1. PICK n \in 0 .. Size[f] : Progress(f, n)
    BY DEF FilesInv
  <2>2. Progress(f, n)'
    BY <2>1, ProgressKept DEF FilesInv
  <2> QED BY <2>2
<1> QED BY <1>1 DEF FilesInv

\* Steps that leave the stream, the queue, the batch and the calls alone
LEMMA StillFiles ==
  ASSUME TypeOK, FilesInv,
         UNCHANGED <<wire, outputBuffer_, queue, batch, submitted, userPc, ups>>, NoWorse,
         state_' = "kConnected" => state_ = "kConnected" /\ finSent' = finSent,
         phase' = "event" => phase = "event" \/ batch = <<>>
  PROVE  FilesInv'
<1>1. Waiting' = Waiting
  BY DEF Waiting
<1>2. ASSUME NEW f \in File PROVE Aside(f)
  BY <1>1 DEF Aside, SameJobs, SameUnits, SameCalls, Asks
<1>3. NotShut' /\ Quiet'
  BY <1>1 DEF FilesInv, NotShut, Quiet
<1> QED BY <1>2, <1>3, AsideFiles

\* Steps that run a functor, or queue some, that send no file
LEMMA QueueFiles ==
  ASSUME TypeOK, FilesInv, NEW t \in Seq(Functors), Queues(t),
         \A i \in DOMAIN t : t[i].op # "file",
         batch' = batch \/ Head(batch).op # "file",
         UNCHANGED <<wire, outputBuffer_, phase, submitted>>, NoWorse, NotShut',
         \A f \in File : \A u \in User : Asks(u, f)' <=> Asks(u, f),
         ups' # ups => ups' # 0
  PROVE  FilesInv'
<1>1. ASSUME NEW f \in File PROVE Aside(f)
  <2>1. NoJob(t, f) /\ (batch' = batch \/ ~IsJob(Head(batch), f))
    BY DEF NoJob, IsJob
  <2> QED BY <2>1, JobsKept DEF Aside, SameUnits, SameCalls
<1>2. Quiet'
  BY DEF FilesInv, Quiet, Queues
<1> QED BY <1>1, <1>2, AsideFiles

-----------------------------------------------------------------------------
(* FilesInv, action by action                                              *)

LEMMA LoopFiles ==
  ASSUME IInv, FilesInv,
         \/ \E out \in BOOLEAN : Poll(out)
         \/ OnClose \/ OnError \/ OnRead \/ Disconnect \/ ReturnFromCallback \/ OwnerShutdown
  PROVE  FilesInv'
<1> USE DEF chanVars, dataVars, sockVars, serverVars, envVars, roundVars, callVars, sentVars, histVars
<1>t. TypeOK
  BY DEF IInv
<1>1. CASE \E out \in BOOLEAN : Poll(out)
  BY <1>1, <1>t, StillFiles DEF Poll, NoWorse
<1>2. CASE OnClose
  BY <1>2, <1>t, StillFiles DEF OnClose, HandleClose, NoWorse
<1>3. CASE OnError
  BY <1>3, <1>t, StillFiles DEF OnError, NoWorse
<1>4. CASE OnRead
  BY <1>4, <1>t, StillFiles DEF OnRead, ReadEvent, HandleClose, NoWorse
<1>5. CASE Disconnect
  BY <1>5, <1>t, StillFiles DEF Disconnect, NoWorse
<1>6. CASE ReturnFromCallback
  BY <1>6, <1>t, StillFiles DEF ReturnFromCallback, NoWorse
<1>7. CASE OwnerShutdown
  BY <1>7, <1>t, StillFiles DEF OwnerShutdown, ShutdownInLoop, NoWorse
<1> QED BY <1>1, <1>2, <1>3, <1>4, <1>5, <1>6, <1>7

LEMMA PeerFiles == ASSUME IInv, FilesInv, PeerStep PROVE FilesInv'
<1> USE DEF chanVars, dataVars, serverVars, roundVars, callVars, sentVars, histVars
<1>1. /\ EnvUnchanged /\ UNCHANGED queue
      /\ peer' # "reset" => peer # "reset"
  BY DEF PeerStep, PeerSends, PeerCloses, PeerResets
<1>2. NoWorse
  BY <1>1 DEF NoWorse, EnvUnchanged
<1> QED BY <1>1, <1>2, StillFiles DEF EnvUnchanged, IInv

LEMMA SwapFiles == ASSUME IInv, FilesInv, Swap PROVE FilesInv'
<1> USE DEF Swap, chanVars, dataVars, sockVars, serverVars, envVars, callVars, sentVars, histVars
<1>1. batch = <<>> /\ queue \in Seq(Functors)
  BY StreamTypes DEF IInv, FilesInv, Quiet, SeqTypes
<1>2. Waiting' = Waiting
  BY <1>1 DEF Waiting
<1>3. ASSUME NEW f \in File PROVE Aside(f)
  BY <1>2 DEF Aside, SameJobs, SameUnits, SameCalls, Asks
<1>4. NotShut' /\ Quiet'
  BY <1>2 DEF FilesInv, NotShut, Quiet
<1>5. NoWorse
  BY DEF NoWorse
<1> QED BY <1>3, <1>4, <1>5, AsideFiles

LEMMA EstablishedFiles == ASSUME IInv, FilesInv, ConnectEstablished PROVE FilesInv'
<1> USE DEF dataVars, sockVars, serverVars, envVars, roundVars, sentVars
<1>t. TypeOK /\ queue \in Seq(Functors) /\ batch \in Seq(Functors) /\ ups \in Nat
  BY StreamTypes, TypeParts DEF IInv, SeqTypes, PlaceTypes
<1>1. /\ batch # <<>> /\ batch' = Tail(batch) /\ Head(batch).op = "established"
      /\ ups' = ups + 1 /\ UNCHANGED <<dataVars, queue, sentVars, envVars, roundVars>>
  BY DEF ConnectEstablished, RunFunctor
<1>2. ups = 0
  <2>1. Once(queue, batch, ups)
    BY DEF IInv, EstablishedOnce
  <2>2. 1 \in DOMAIN batch /\ batch[1] = Head(batch)
    BY <1>1, <1>t
  <2> QED BY <1>1, <2>1, <2>2 DEF Once
<1>3. /\ ~finSent /\ OnlyLife(queue) /\ OnlyLife(batch)
      /\ \A u \in User : userPc[u] = Idle
  BY <1>2 DEF IInv, Untouched
<1>4. NotShut'
  <2>1. NoShutdown(queue) /\ NoShutdown(batch)
    BY <1>3 DEF OnlyLife, NoShutdown
  <2>2. NoShutdown(Tail(batch)) /\ Tail(batch) \in Seq(Functors)
    BY <1>1, <1>t, <2>1, ShutsFacts
  <2>3. NoShutdown(Tail(batch) \o queue)
    BY <1>t, <2>1, <2>2, ShutsFacts
  <2>4. Waiting' = Tail(batch) \o queue
    BY <1>1 DEF Waiting
  <2> QED BY <1>1, <1>3, <2>3, <2>4 DEF NotShut, Idle
<1> DEFINE t == <<>>
<1>5. t \in Seq(Functors) /\ Queues(t) /\ DOMAIN t = {}
  BY <1>1, <1>t DEF Queues
<1>6. NoWorse
  BY <1>1, <1>2 DEF NoWorse
<1>7. \A f \in File : \A u \in User : Asks(u, f)' <=> Asks(u, f)
  BY <1>1 DEF Asks
<1> HIDE DEF t
<1> QED BY <1>1, <1>2, <1>4, <1>5, <1>6, <1>7, <1>t, QueueFiles

LEMMA BatchFiles ==
  ASSUME IInv, FilesInv, ConnectDestroyed \/ RunShutdown \/ RunUserCallback
  PROVE  FilesInv'
<1> USE DEF chanVars, dataVars, sockVars, serverVars, envVars, roundVars, callVars, sentVars, histVars
<1>t. TypeOK /\ queue \in Seq(Functors) /\ batch \in Seq(Functors)
  BY StreamTypes DEF IInv, SeqTypes
<1>1. /\ batch # <<>> /\ batch' = Tail(batch) /\ Head(batch).op # "file"
      /\ UNCHANGED <<state_, outputBuffer_, wire, queue, ups, sentVars, envVars, roundVars>>
      /\ Head(batch).op # "shutdown" => finSent' = finSent
  BY DEF ConnectDestroyed, RunShutdown, RunUserCallback, RunFunctor
<1> DEFINE t == <<>>
<1>2. t \in Seq(Functors) /\ Queues(t) /\ DOMAIN t = {} /\ queue' = queue \o t
  BY <1>1, <1>t DEF Queues
<1> HIDE DEF t
<1>3. Waiting # <<>> /\ Head(Waiting) = Head(batch) /\ Waiting \in Seq(Functors)
  BY <1>1, <1>2, <1>t, WaitingFacts
<1>4. state_ = "kConnected" => finSent' = finSent
  BY <1>1, <1>3, ShutsFacts DEF FilesInv, NotShut
<1>5. NotShut'
  <2>1. NoShutdown(t)
    BY <1>2 DEF NoShutdown
  <2> QED BY <1>1, <1>2, <1>4, <1>t, <2>1, NotShutKept DEF FilesInv
<1>6. NoWorse
  BY <1>1 DEF NoWorse
<1>7. \A f \in File : \A u \in User : Asks(u, f)' <=> Asks(u, f)
  BY <1>1 DEF Asks
<1> QED BY <1>1, <1>2, <1>5, <1>6, <1>7, <1>t, QueueFiles

LEMMA ServerFiles == ASSUME IInv, FilesInv, RemoveConnection \/ ServerDestroyed PROVE FilesInv'
<1> USE DEF EnvUnchanged, chanVars, dataVars, sockVars, serverVars, roundVars, callVars, sentVars, histVars
<1>t. TypeOK /\ queue \in Seq(Functors)
  BY StreamTypes DEF IInv, SeqTypes
<1> DEFINE g == Functor("destroyed")
<1>1. /\ g \in Functors /\ g.op = "destroyed"
      /\ <<>> \in Seq(Functors) /\ <<g>> \in Seq(Functors)
      /\ Append(queue, g) = queue \o <<g>>
  BY <1>t, FunctorFacts
<1>2. EnvUnchanged /\ UNCHANGED sockVars
  BY DEF RemoveConnection, ServerDestroyed
<1>3. \E t \in {<<>>, <<g>>} : queue' = queue \o t
  BY <1>1 DEF RemoveConnection, ServerDestroyed, If
<1> HIDE DEF g
<1>4. PICK t \in {<<>>, <<g>>} : queue' = queue \o t
  BY <1>3
<1>5. t \in Seq(Functors) /\ Queues(t) /\ \A i \in DOMAIN t : t[i].op = "destroyed"
  <2>1. t \in Seq(Functors) /\ Queues(t)
    BY <1>1, <1>2, <1>4 DEF Queues
  <2>2. DOMAIN <<>> = {} /\ DOMAIN <<g>> = {1} /\ <<g>>[1] = g
    OBVIOUS
  <2> QED BY <1>1, <1>4, <2>1, <2>2
<1>6. NotShut' /\ NoWorse
  <2>1. NoShutdown(t)
    BY <1>5 DEF NoShutdown
  <2> QED BY <1>2, <1>5, <1>t, <2>1, NotShutKept DEF FilesInv, NoWorse
<1>7. \A f \in File : \A u \in User : Asks(u, f)' <=> Asks(u, f)
  BY <1>2 DEF Asks
<1> QED BY <1>2, <1>5, <1>6, <1>7, <1>t, QueueFiles

\* What SendInLoop adds to the wire, the buffer and the queue
LEMMA SendShape ==
  ASSUME TypeOK, NEW m \in Msg, SendInLoop(m, queue)
  PROVE  /\ \E s \in Seq(Unit) : wire' = wire \o s /\ \A p \in DOMAIN s : s[p][1] = m
         /\ \E b \in Seq(Unit) :
              outputBuffer_' = outputBuffer_ \o b /\ \A p \in DOMAIN b : b[p][1] = m
         /\ \E t \in Seq(Functors) :
              /\ queue' = queue \o t
              /\ \A i \in DOMAIN t : t[i].op \in {"writeComplete", "highWater"}
<1> DEFINE all == Units(m)
<1>t. outputBuffer_ \in Seq(Unit) /\ queue \in Seq(Functors) /\ outputBuffer_ \o <<>> = outputBuffer_
  BY StreamTypes DEF SeqTypes
<1>u. /\ Size[m] \in Nat /\ all \in Seq(Unit) /\ Len(all) = Size[m]
      /\ \A p \in 1 .. Size[m] : all[p][1] = m
  BY MessageSize, UnitsFacts DEF Units
<1>1. PICK n \in 0 .. Len(all), c \in BOOLEAN, d \in BOOLEAN, e \in BOOLEAN :
        /\ wire' = wire \o SubSeq(all, 1, n)
        /\ outputBuffer_' = IF c THEN outputBuffer_ \o From(all, n + 1) ELSE outputBuffer_
        /\ queue' = queue \o If(d, <<Functor("writeComplete")>>)
                          \o If(e, <<Functor("highWater")>>)
  BY <1>u DEF SendInLoop
<1> DEFINE s == SubSeq(all, 1, n)
           r == From(all, n + 1)
<1>2. s \in Seq(Unit) /\ r \in Seq(Unit)
  BY <1>u, CutFacts
<1>3. /\ \A p \in DOMAIN s : s[p][1] = m
      /\ \A p \in DOMAIN r : r[p][1] = m
  <2>1. n \in Nat /\ n <= Size[m]
    BY <1>u
  <2>2. Len(s) = n /\ \A p \in 1 .. n : s[p] = all[p] /\ p \in 1 .. Size[m]
    BY <1>u, <2>1
  <2>3. Len(r) = Size[m] - n /\ \A p \in 1 .. Size[m] - n : r[p] = all[n + p] /\ n + p \in 1 .. Size[m]
    BY <1>u, <2>1 DEF From
  <2>4. DOMAIN s = 1 .. Len(s) /\ DOMAIN r = 1 .. Len(r)
    BY <1>2
  <2> HIDE DEF all, s, r
  <2>5. \A p \in DOMAIN s : s[p][1] = m
    BY <1>u, <2>2, <2>4
  <2>6. \A p \in DOMAIN r : r[p][1] = m
    BY <1>u, <2>3, <2>4
  <2> QED BY <2>5, <2>6
<1> HIDE DEF all, s, r
<1>4. \E b \in Seq(Unit) :
        outputBuffer_' = outputBuffer_ \o b /\ \A p \in DOMAIN b : b[p][1] = m
  <2>1. CASE c
    BY <1>1, <1>2, <1>3, <2>1 DEF r
  <2>2. CASE ~c
    <3>1. <<>> \in Seq(Unit) /\ DOMAIN <<>> = {}
      OBVIOUS
    <3> QED BY <1>1, <1>t, <2>2, <3>1
  <2> QED BY <2>1, <2>2
<1>5. \E t \in Seq(Functors) :
        /\ queue' = queue \o t
        /\ \A i \in DOMAIN t : t[i].op \in {"writeComplete", "highWater"}
  <2> DEFINE w == Functor("writeComplete")
             h == Functor("highWater")
             x == If(d, <<w>>)
             y == If(e, <<h>>)
  <2>1. w \in Functors /\ h \in Functors /\ w.op = "writeComplete" /\ h.op = "highWater"
    BY FunctorFacts
  <2> HIDE DEF w, h
  <2>2. x \in {<<>>, <<w>>} /\ y \in {<<>>, <<h>>}
    BY DEF If
  <2>3. /\ x \in Seq(Functors) /\ \A i \in DOMAIN x : x[i].op \in {"writeComplete", "highWater"}
        /\ y \in Seq(Functors) /\ \A i \in DOMAIN y : y[i].op \in {"writeComplete", "highWater"}
    <3>1. /\ DOMAIN <<>> = {} /\ DOMAIN <<w>> = {1} /\ <<w>>[1] = w /\ DOMAIN <<h>> = {1} /\ <<h>>[1] = h
          /\ <<>> \in Seq(Functors) /\ <<w>> \in Seq(Functors) /\ <<h>> \in Seq(Functors)
      BY <2>1
    <3> QED BY <2>1, <2>2, <3>1
  <2>4. queue' = (queue \o x) \o y
    BY <1>1 DEF w, h
  <2> HIDE DEF x, y
  <2>5. queue' = queue \o (x \o y)
    BY <1>t, <2>3, <2>4, Associative
  <2>6. /\ x \o y \in Seq(Functors)
        /\ \A i \in DOMAIN (x \o y) : (x \o y)[i].op \in {"writeComplete", "highWater"}
    <3> DEFINE z == x \o y
    <3>1. /\ z \in Seq(Functors) /\ Len(x) \in Nat /\ Len(y) \in Nat
          /\ DOMAIN x = 1 .. Len(x) /\ DOMAIN y = 1 .. Len(y) /\ DOMAIN z = 1 .. Len(x) + Len(y)
          /\ \A p \in 1 .. Len(x) : z[p] = x[p]
          /\ \A p \in 1 .. Len(y) : z[Len(x) + p] = y[p]
      BY <2>3, ConcatFacts
    <3> HIDE DEF z
    <3>2. ASSUME NEW i \in DOMAIN z, i \notin DOMAIN x PROVE z[i].op \in {"writeComplete", "highWater"}
      <4>1. i - Len(x) \in 1 .. Len(y) /\ i = Len(x) + (i - Len(x))
        BY <3>1, <3>2
      <4>2. z[i] = y[i - Len(x)]
        BY <3>1, <4>1
      <4> QED BY <2>3, <3>1, <4>1, <4>2
    <3>3. \A i \in DOMAIN z : z[i].op \in {"writeComplete", "highWater"}
      BY <2>3, <3>1, <3>2
    <3> QED BY <3>1, <3>3 DEF z
  <2> QED BY <2>5, <2>6
<1> QED BY <1>1, <1>2, <1>3, <1>4, <1>5 DEF s

\* A message of the connection's own thread, or of the batch
LEMMA MessageFiles ==
  ASSUME TypeOK, FilesInv, NEW m \in Msg, SendInLoop(m, queue),
         batch' = batch \/ (batch # <<>> /\ batch' = Tail(batch) /\ Head(batch).op # "file"),
         UNCHANGED <<state_, peer, phase, userPc, ups>>,
         submitted' = submitted \/ (ups # 0 /\ submitted' = submitted \cup {m})
  PROVE  FilesInv'
<1>1. PICK s \in Seq(Unit) : wire' = wire \o s /\ \A p \in DOMAIN s : s[p][1] = m
  BY SendShape
<1>2. PICK b \in Seq(Unit) :
        outputBuffer_' = outputBuffer_ \o b /\ \A p \in DOMAIN b : b[p][1] = m
  BY SendShape
<1>3. PICK t \in Seq(Functors) :
        /\ queue' = queue \o t
        /\ \A i \in DOMAIN t : t[i].op \in {"writeComplete", "highWater"}
  BY SendShape
<1>4. Queues(t) /\ finSent' = finSent
  BY <1>3 DEF Queues, SendInLoop
<1>5. ASSUME NEW f \in File PROVE Aside(f)
  <2>1. f # m /\ f \notin Msg
    BY FileSize
  <2>2. SameUnits(f)
    BY <1>1, <2>1, UnitsKept
  <2>3. SameJobs(f)
    <3>1. NoJob(t, f) /\ (batch' = batch \/ ~IsJob(Head(batch), f))
      BY <1>3 DEF NoJob, IsJob
    <3> QED BY <1>4, <3>1, JobsKept
  <2>4. SameCalls(f)
    BY <2>1 DEF SameCalls, Asks
  <2> QED BY <2>2, <2>3, <2>4 DEF Aside
<1>6. NotShut'
  <2>1. NoShutdown(t)
    BY <1>3 DEF NoShutdown
  <2> QED BY <1>4, <2>1, NotShutKept DEF FilesInv
<1>7. Quiet'
  <2>1. \A p \in DOMAIN outputBuffer_' : outputBuffer_'[p][1] \in Msg
    <3>1. outputBuffer_ \in Seq(Unit) /\ \A p \in DOMAIN outputBuffer_ : outputBuffer_[p][1] \in Msg
      BY StreamTypes DEF SeqTypes, FilesInv, Quiet
    <3>2. /\ Len(outputBuffer_) \in Nat /\ Len(b) \in Nat
          /\ DOMAIN outputBuffer_ = 1 .. Len(outputBuffer_) /\ DOMAIN b = 1 .. Len(b)
          /\ DOMAIN outputBuffer_' = 1 .. Len(outputBuffer_) + Len(b)
          /\ \A p \in 1 .. Len(outputBuffer_) : outputBuffer_'[p] = outputBuffer_[p]
          /\ \A p \in 1 .. Len(b) : outputBuffer_'[Len(outputBuffer_) + p] = b[p]
      BY <1>2, <3>1, ConcatFacts
    <3>3. ASSUME NEW p \in DOMAIN outputBuffer_', p \notin DOMAIN outputBuffer_
          PROVE  outputBuffer_'[p][1] \in Msg
      <4>1. p - Len(outputBuffer_) \in 1 .. Len(b)
            /\ p = Len(outputBuffer_) + (p - Len(outputBuffer_))
        BY <3>2, <3>3
      <4>2. outputBuffer_'[p] = b[p - Len(outputBuffer_)]
        BY <3>2, <4>1
      <4> QED BY <1>2, <3>2, <4>1, <4>2
    <3> QED BY <3>1, <3>2, <3>3
  <2> QED BY <2>1 DEF FilesInv, Quiet
<1>8. NoWorse
  BY DEF NoWorse
<1> QED BY <1>5, <1>6, <1>7, <1>8, AsideFiles

LEMMA SendFiles ==
  ASSUME IInv, FilesInv, RunSend \/ \E m \in Msg : OwnerSend(m)
  PROVE  FilesInv'
<1> USE DEF sockVars, serverVars, envVars, roundVars, callVars
<1>t. TypeOK
  BY DEF IInv
<1>1. CASE RunSend
  <2>1. /\ Head(batch).msg \in Msg /\ Head(batch).op = "send"
        /\ batch # <<>> /\ batch' = Tail(batch)
    BY <1>1, RunFacts, FunctorFacts DEF RunSend
  <2>2. SendInLoop(Head(batch).msg, queue) /\ UNCHANGED <<state_, envVars, roundVars, callVars, submitted>>
    BY <1>1 DEF RunSend, RunFunctor
  <2> QED BY <1>t, <2>1, <2>2, MessageFiles
<1>2. ASSUME NEW m \in Msg, OwnerSend(m) PROVE FilesInv'
  <2>1. ups # 0
    BY <1>2, UpFacts DEF OwnerSend
  <2>2. /\ SendInLoop(m, queue) /\ submitted' = submitted \cup {m}
        /\ UNCHANGED <<state_, envVars, roundVars, batch, callVars>>
    BY <1>2 DEF OwnerSend, Submits
  <2> QED BY <1>t, <2>1, <2>2, MessageFiles
<1> QED BY <1>1, <1>2

LEMMA OnWriteFiles == ASSUME IInv, FilesInv, OnWrite PROVE FilesInv'
<1> USE DEF chanVars, dataVars, sockVars, serverVars, envVars, callVars, sentVars, histVars
<1>t. /\ TypeOK /\ outputBuffer_ \in Seq(Unit) /\ wire \in Seq(Unit)
      /\ queue \in Seq(Functors)
  BY StreamTypes DEF IInv, SeqTypes
<1>0. /\ UNCHANGED <<state_, envVars, phase, batch, histVars>>
      /\ \/ Drain(FALSE, state_ = "kDisconnecting")
         \/ UNCHANGED <<chanVars, dataVars, queue>>
  BY DEF OnWrite, WriteEvent
<1>w. NoWorse
  BY <1>0 DEF NoWorse
<1>1. CASE UNCHANGED <<chanVars, dataVars, queue>>
  BY <1>0, <1>1, <1>t, <1>w, StillFiles
<1>2. CASE Drain(FALSE, state_ = "kDisconnecting")
  <2>1. PICK n \in 1 .. Len(outputBuffer_) :
          /\ wire' = wire \o SubSeq(outputBuffer_, 1, n)
          /\ outputBuffer_' = From(outputBuffer_, n + 1)
    BY <1>2 DEF Drain
  <2> DEFINE s == SubSeq(outputBuffer_, 1, n)
  <2>2. n \in Nat /\ n <= Len(outputBuffer_) /\ Len(outputBuffer_) \in Nat
        /\ \A p \in 1 .. Len(outputBuffer_) : outputBuffer_[p][1] \in Msg
    BY <1>t DEF FilesInv, Quiet
  <2>3. s \in Seq(Unit) /\ \A p \in DOMAIN s : s[p][1] \in Msg
    <3>1. n \in 0 .. Len(outputBuffer_)
      BY <2>2
    <3>2. s \in Seq(Unit)
      BY <1>t, <3>1, CutFacts
    <3>3. DOMAIN s = 1 .. n /\ \A p \in 1 .. n : s[p] = outputBuffer_[p] /\ p \in 1 .. Len(outputBuffer_)
      BY <1>t, <2>2
    <3> QED BY <2>2, <3>2, <3>3
  <2>4. \A p \in DOMAIN outputBuffer_' : outputBuffer_'[p][1] \in Msg
    <3>1. n + 1 \in Nat
      BY <2>2
    <3>2. /\ DOMAIN outputBuffer_' = 1 .. Len(outputBuffer_) - n
          /\ \A p \in 1 .. Len(outputBuffer_) - n :
                outputBuffer_'[p] = outputBuffer_[n + p] /\ n + p \in 1 .. Len(outputBuffer_)
      BY <1>t, <2>1, <2>2 DEF From
    <3> QED BY <2>2, <3>2
  <2> DEFINE g == Functor("writeComplete")
  <2>5. g \in Functors /\ g.op = "writeComplete"
    BY FunctorFacts
  <2>6. \E t \in {<<>>, <<g>>} :
          queue' = queue \o t /\ (state_ # "kDisconnecting" => finSent' = finSent)
    <3>1. outputBuffer_' = <<>> => queue' = Append(queue, g) /\ finSent' = (finSent \/ state_ = "kDisconnecting")
      BY <1>2 DEF Drain
    <3>2. outputBuffer_' # <<>> => queue' = queue /\ finSent' = finSent
      BY <1>2 DEF Drain
    <3>3. finSent \in BOOLEAN
      BY <1>t, StreamTypes DEF FlagTypes
    <3> HIDE DEF g
    <3>4. queue \o <<>> = queue /\ Append(queue, g) = queue \o <<g>>
      BY <1>t, <2>5
    <3> QED BY <3>1, <3>2, <3>3, <3>4
  <2> HIDE DEF g, s
  <2>7. PICK t \in {<<>>, <<g>>} :
          queue' = queue \o t /\ (state_ # "kDisconnecting" => finSent' = finSent)
    BY <2>6
  <2>8. t \in Seq(Functors) /\ \A i \in DOMAIN t : t[i].op = "writeComplete"
    <3>1. DOMAIN <<>> = {} /\ DOMAIN <<g>> = {1} /\ <<g>>[1] = g
      OBVIOUS
    <3>2. <<>> \in Seq(Functors) /\ <<g>> \in Seq(Functors)
      BY <2>5
    <3> QED BY <2>5, <2>7, <3>1, <3>2
  <2>9. Queues(t)
    BY <1>0, <2>7 DEF Queues
  <2>10. ASSUME NEW f \in File PROVE Aside(f)
    <3>1. SameUnits(f)
      <4>1. \A p \in DOMAIN s : s[p][1] # f
        BY <2>3, FileSize
      <4> QED BY <1>t, <2>1, <2>3, <4>1, UnitsKept DEF s
    <3>2. SameJobs(f)
      <4>1. NoJob(t, f)
        BY <2>8 DEF NoJob, IsJob
      <4> QED BY <1>0, <1>t, <2>8, <2>9, <4>1, JobsKept
    <3>3. SameCalls(f)
      BY <1>0 DEF SameCalls, Asks
    <3> QED BY <3>1, <3>2, <3>3 DEF Aside
  <2>11. NotShut'
    <3>1. NoShutdown(t)
      BY <2>8 DEF NoShutdown
    <3> QED BY <1>0, <1>t, <2>7, <2>8, <2>9, <3>1, NotShutKept DEF FilesInv
  <2>12. Quiet'
    BY <1>0, <2>4 DEF FilesInv, Quiet
  <2> QED BY <1>w, <2>10, <2>11, <2>12, AsideFiles
<1> QED BY <1>0, <1>1, <1>2

LEMMA IdleAsksNothing ==
  \A u \in User : userPc[u] \in {Idle, [at |-> "shutSet"], [at |-> "shutQueue"]}
    => userPc[u].at # "sendQueue" /\ \A f \in File : ~Asks(u, f)
<1> SUFFICES ASSUME NEW u \in User,
                    userPc[u] \in {Idle, [at |-> "shutSet"], [at |-> "shutQueue"]}
             PROVE  userPc[u].at # "sendQueue" /\ \A f \in File : ~Asks(u, f)
  OBVIOUS
<1>1. userPc[u].at # "sendQueue"
  BY DEF Idle
<1>2. \A f \in File : [at |-> "sendQueue", msg |-> f].at = "sendQueue"
  OBVIOUS
<1> QED BY <1>1, <1>2 DEF Asks

LEMMA UserPlace ==
  ASSUME TypeOK, NEW u \in User
  PROVE  /\ userPc \in [User -> UserPlaces]
         /\ userPc[u].at = "sendQueue"
              => userPc[u].msg \in Data /\ userPc[u] = [at |-> "sendQueue", msg |-> userPc[u].msg]
         /\ userPc[u].at = "shutSet" => userPc[u] = [at |-> "shutSet"]
         /\ userPc[u].at = "shutQueue" => userPc[u] = [at |-> "shutQueue"]
BY TypeParts DEF PlaceTypes, UserPlaces, Idle

\* shutdown() of another thread
LEMMA UserShutdownFiles ==
  ASSUME IInv, FilesInv, NEW u \in User,
         UserShutdownTest(u) \/ UserShutdownSet(u) \/ UserShutdownQueue(u)
  PROVE  FilesInv'
<1> USE DEF UserUnchanged, chanVars, dataVars, sockVars, serverVars, roundVars, callVars
<1>t. TypeOK /\ queue \in Seq(Functors) /\ userPc \in [User -> UserPlaces]
  BY StreamTypes, UserPlace DEF IInv, SeqTypes
<1> DEFINE Calm == {Idle, [at |-> "shutSet"], [at |-> "shutQueue"]}
<1>1. /\ userPc[u] \in Calm
      /\ \E x \in Calm : userPc' = [userPc EXCEPT ![u] = x]
  BY <1>t, UserPlace DEF UserShutdownTest, UserShutdownSet, UserShutdownQueue, UserCalls
<1>2. PICK x \in Calm : userPc' = [userPc EXCEPT ![u] = x]
  BY <1>1
<1>3. userPc'[u] = x /\ \A v \in User \ {u} : userPc'[v] = userPc[v]
  BY <1>2, <1>t
<1>4. ASSUME NEW f \in File, NEW v \in User PROVE Asks(v, f)' <=> Asks(v, f)
  <2>1. CASE v = u
    <3>1. ~Asks(u, f)
      BY <1>1, IdleAsksNothing
    <3>2. userPc'[u] # [at |-> "sendQueue", msg |-> f]
      <4>1. userPc'[u].at # "sendQueue"
        BY <1>3 DEF Idle
      <4> QED BY <4>1
    <3> QED BY <2>1, <3>1, <3>2 DEF Asks
  <2>2. CASE v # u
    BY <1>3, <2>2 DEF Asks
  <2> QED BY <2>1, <2>2
<1> DEFINE g == Functor("shutdown")
<1>5. g \in Functors /\ g.op = "shutdown"
  BY FunctorFacts
<1>6. UNCHANGED <<wire, outputBuffer_, phase, batch, submitted, ups, peer, finSent>>
  BY DEF UserShutdownTest, UserShutdownSet, UserShutdownQueue
<1>7. \E t \in {<<>>, <<g>>} :
        /\ queue' = queue \o t
        /\ state_' = "kConnected"
             => state_ = "kConnected" /\ UserShutdownTest(u) /\ t = <<>>
  <2>1. queue \o <<>> = queue
    BY <1>t
  <2> HIDE DEF g
  <2>2. Append(queue, g) = queue \o <<g>>
    BY <1>t, <1>5
  <2>3. CASE UserShutdownTest(u) \/ UserShutdownSet(u)
    BY <2>1, <2>3 DEF UserShutdownTest, UserShutdownSet, UserCalls
  <2>4. CASE UserShutdownQueue(u)
    <3>1. queue' = Append(queue, g) /\ state_' = state_
      BY <2>4 DEF UserShutdownQueue, g
    <3>2. userPc[u].at = "shutQueue" /\ state_ # "kConnected"
      BY <2>4 DEF UserShutdownQueue, FilesInv, NotShut
    <3> QED BY <2>2, <3>1, <3>2
  <2> QED BY <2>3, <2>4
<1> HIDE DEF g
<1>8. PICK t \in {<<>>, <<g>>} :
        /\ queue' = queue \o t
        /\ state_' = "kConnected"
             => state_ = "kConnected" /\ UserShutdownTest(u) /\ t = <<>>
  BY <1>7
<1>9. t \in Seq(Functors) /\ Queues(t) /\ \A i \in DOMAIN t : t[i].op = "shutdown"
  <2>1. DOMAIN <<>> = {} /\ DOMAIN <<g>> = {1} /\ <<g>>[1] = g
    OBVIOUS
  <2>2. <<>> \in Seq(Functors) /\ <<g>> \in Seq(Functors)
    BY <1>5
  <2> QED BY <1>5, <1>6, <1>8, <2>1, <2>2 DEF Queues
<1>10. NotShut'
  <2>1. state_' = "kConnected" => \A v \in User : userPc'[v].at = "shutQueue" => userPc[v].at = "shutQueue"
    <3>1. UserShutdownTest(u) => userPc'[u].at = "shutSet"
      BY <1>t DEF UserShutdownTest
    <3> QED BY <1>3, <1>8, <3>1
  <2>2. t = <<>> => NoShutdown(t)
    BY DEF NoShutdown
  <2> QED BY <1>6, <1>8, <1>9, <1>t, <2>1, <2>2, NotShutKept DEF FilesInv
<1>11. NoWorse
  BY <1>6, <1>8 DEF NoWorse
<1> QED BY <1>4, <1>6, <1>9, <1>10, <1>11, <1>t, QueueFiles

\* The other files, and NotShut and Quiet, when one file makes a step
LEMMA OneFile ==
  ASSUME FilesInv, NEW f \in File, \E n \in 0 .. Size[f] : Progress(f, n)',
         \A h \in File \ {f} : Aside(h), NoWorse, NotShut', Quiet'
  PROVE  FilesInv'
<1>1. ASSUME NEW h \in File \ {f} PROVE \E n \in 0 .. Size[h] : Progress(h, n)'
  <2>1. PICK n \in 0 .. Size[h] : Progress(h, n)
    BY DEF FilesInv
  <2>2. Progress(h, n)'
    BY <2>1, ProgressKept DEF FilesInv
  <2> QED BY <2>2
<1> QED BY <1>1 DEF FilesInv

\* send() or sendFile() of another thread finds the connection kConnected.
LEMMA UserSendTestFiles ==
  ASSUME IInv, FilesInv, NEW u \in User, NEW d \in Data, UserSendTest(u, d)
  PROVE  FilesInv'
<1> USE DEF UserUnchanged, chanVars, dataVars, sockVars, serverVars, roundVars, callVars
<1>t. TypeOK /\ queue \in Seq(Functors) /\ userPc \in [User -> UserPlaces]
  BY StreamTypes, UserPlace DEF IInv, SeqTypes
<1> DEFINE x == [at |-> "sendQueue", msg |-> d]
<1>1. /\ UNCHANGED <<state_, queue, wire, outputBuffer_, phase, batch, ups, peer, finSent>>
      /\ ups # 0 /\ userPc[u] = Idle /\ d \notin submitted /\ submitted' = submitted \cup {d}
      /\ userPc' = [userPc EXCEPT ![u] = x]
  BY DEF UserSendTest, UserCalls, Submits
<1>2. userPc'[u] = x /\ \A v \in User \ {u} : userPc'[v] = userPc[v]
  BY <1>1, <1>t
<1>3. Waiting' = Waiting
  BY <1>1 DEF Waiting
<1>4. \A f \in File : ~Asks(u, f)
  BY <1>1, IdleAsksNothing
<1>5. \A f \in File, v \in User : Asks(v, f)' <=> IF v = u THEN f = d ELSE Asks(v, f)
  BY <1>2 DEF Asks
<1>6. ASSUME NEW f \in File, f # d PROVE Aside(f)
  BY <1>1, <1>3, <1>4, <1>5, <1>6 DEF Aside, SameJobs, SameUnits, SameCalls
<1>7. NotShut'
  <2>1. \A v \in User : userPc'[v].at = "shutQueue" => userPc[v].at = "shutQueue"
    BY <1>2
  <2> QED BY <1>1, <1>3, <2>1 DEF FilesInv, NotShut
<1>8. Quiet' /\ NoWorse
  BY <1>1 DEF FilesInv, Quiet, NoWorse
<1>9. CASE d \in File
  <2>1. PICK n \in 0 .. Size[d] : Progress(d, n)
    BY <1>9 DEF FilesInv
  <2>2. n = 0 /\ NoJob(Waiting, d) /\ \A v \in User : ~Asks(v, d)
    BY <1>1, <2>1 DEF Progress
  <2>3. FileSubmitted(d)'
    BY <1>2 DEF FileSubmitted
  <2>4. Progress(d, n)'
    BY <1>1, <1>3, <1>5, <1>9, <2>1, <2>2, <2>3 DEF Progress
  <2> QED BY <1>6, <1>7, <1>8, <1>9, <2>4, OneFile
<1>10. CASE d \notin File
  BY <1>6, <1>7, <1>8, <1>10, AsideFiles
<1> QED BY <1>9, <1>10

\* ... and queues sendInLoop or sendFileInLoop.
LEMMA UserSendQueueFiles ==
  ASSUME IInv, FilesInv, NEW u \in User, UserSendQueue(u)
  PROVE  FilesInv'
<1> USE DEF UserUnchanged, chanVars, dataVars, sockVars, serverVars, roundVars, callVars
<1>t. /\ TypeOK /\ queue \in Seq(Functors) /\ batch \in Seq(Functors)
      /\ userPc \in [User -> UserPlaces]
  BY StreamTypes, UserPlace DEF IInv, SeqTypes
<1>0. userPc[u].at = "sendQueue"
  BY DEF UserSendQueue
<1>1. PICK d \in Data : userPc[u] = [at |-> "sendQueue", msg |-> d]
  BY <1>0, <1>t, UserPlace
<1> DEFINE g == IF d \in File THEN FileOf(d, 1) ELSE SendOf(d)
<1>2. /\ UNCHANGED <<state_, submitted, wire, outputBuffer_, phase, batch, ups, peer, finSent>>
      /\ queue' = Append(queue, g) /\ userPc' = [userPc EXCEPT ![u] = Idle]
  BY <1>1 DEF UserSendQueue
<1>3. userPc'[u] = Idle /\ \A v \in User \ {u} : userPc'[v] = userPc[v]
  BY <1>2, <1>t
<1>4. g \in Functors /\ g.op # "shutdown" /\ \A f \in File : IsJob(g, f) <=> f = d
  <2>1. CASE d \in File
    <3>1. 1 \in 1 .. Size[d]
      BY <2>1, FileSize
    <3>2. g \in Functors /\ g.op = "file"
      BY <2>1, <3>1, FunctorFacts
    <3> QED BY <2>1, <3>2, JobFacts
  <2>2. CASE d \notin File
    <3>1. g \in Functors /\ g.op = "send"
      BY <2>2, FunctorFacts DEF Data
    <3> QED BY <2>2, <3>1 DEF IsJob
  <2> QED BY <2>1, <2>2
<1>5. Append(queue, g) = queue \o <<g>> /\ <<g>> \in Seq(Functors)
      /\ DOMAIN <<g>> = {1} /\ <<g>>[1] = g
  <2> HIDE DEF g
  <2> QED BY <1>4, <1>t
<1> DEFINE t == <<g>>
<1>6. t \in Seq(Functors) /\ Queues(t)
  BY <1>2, <1>5 DEF Queues
<1>7. Waiting \in Seq(Functors) /\ Waiting' = Waiting \o t
  BY <1>2, <1>6, <1>t, WaitingFacts DEF Queues
<1>8. \A f \in File, v \in User : Asks(v, f)' <=> v # u /\ Asks(v, f)
  <2>1. \A f \in File : userPc'[u] # [at |-> "sendQueue", msg |-> f]
    BY <1>3 DEF Idle
  <2> QED BY <1>3, <2>1 DEF Asks
<1>9. \A f \in File : Asks(u, f) <=> f = d
  BY <1>1 DEF Asks
<1>10. ASSUME NEW f \in File, f # d PROVE Aside(f)
  <2>1. NoJob(t, f)
    BY <1>4, <1>5, <1>10 DEF NoJob
  <2>2. SameJobs(f)
    BY <1>2, <1>6, <1>t, <2>1, JobsKept
  <2>3. SameCalls(f)
    BY <1>2, <1>8, <1>9, <1>10 DEF SameCalls
  <2> QED BY <1>2, <2>2, <2>3 DEF Aside, SameUnits
<1>11. NotShut'
  <2>1. NoShutdown(t)
    BY <1>4, <1>5 DEF NoShutdown
  <2>2. \A v \in User : userPc'[v].at = "shutQueue" => userPc[v].at = "shutQueue"
    BY <1>3 DEF Idle
  <2> QED BY <1>2, <1>6, <1>t, <2>1, <2>2, NotShutKept DEF FilesInv
<1>12. Quiet' /\ NoWorse
  BY <1>2 DEF FilesInv, Quiet, NoWorse
<1>13. CASE d \in File
  <2>1. PICK n \in 0 .. Size[d] : Progress(d, n)
    BY <1>13 DEF FilesInv
  <2>2. n = 0 /\ NoJob(Waiting, d) /\ d \in submitted
        /\ \A v \in User : Asks(v, d) => v = u
    BY <1>9, <1>13, <2>1 DEF Progress
  <2>3. t = <<FileOf(d, 0 + 1)>>
    BY <1>13
  <2>4. OneJob(Waiting', d, 0) /\ ~NoJob(Waiting', d)
    BY <1>7, <1>13, <2>2, <2>3, JobsAdd
  <2>5. \A v \in User : ~Asks(v, d)'
    BY <1>8, <1>13, <2>2
  <2>6. Progress(d, n)'
    BY <1>2, <2>1, <2>2, <2>4, <2>5 DEF Progress
  <2> QED BY <1>10, <1>11, <1>12, <1>13, <2>6, OneFile
<1>14. CASE d \notin File
  BY <1>10, <1>11, <1>12, <1>14, AsideFiles
<1> QED BY <1>13, <1>14

\* What sendFileInLoop adds: it takes i units and goes on behind them, or has
\* taken the last one, or gives up without having taken any.
LEMMA FileShape ==
  ASSUME TypeOK, NEW f \in File, NEW k \in 1 .. Size[f], SendFileInLoop(f, k, queue)
  PROVE  \E i \in 0 .. Size[f] - k + 1, s \in Seq(Unit), t \in Seq(Functors) :
           /\ wire' = wire \o s /\ Len(s) = i
           /\ \A p \in DOMAIN s : s[p] = <<f, k - 1 + p>>
           /\ queue' = queue \o t
           /\ \/ t = <<FileOf(f, k + i)>> /\ k + i <= Size[f]
              \/ t = <<Functor("writeComplete")>> /\ k + i = Size[f] + 1
              \/ t = <<>> /\ (state_ = "kDisconnecting" \/ Broken)
<1>t. wire \in Seq(Unit) /\ queue \in Seq(Functors) /\ wire \o <<>> = wire /\ queue \o <<>> = queue
  BY StreamTypes DEF SeqTypes
<1>u. Size[f] \in Nat /\ k \in Nat \ {0} /\ k <= Size[f]
  BY FileSize
<1>e. /\ <<>> \in Seq(Unit) /\ Len(<<>>) = 0 /\ DOMAIN <<>> = {} /\ <<>> \in Seq(Functors)
      /\ 0 \in 0 .. Size[f] - k + 1
  BY <1>u
<1>1. CASE state_ = "kDisconnecting"
  <2>1. wire' = wire \o <<>> /\ queue' = queue \o <<>>
    BY <1>1, <1>t DEF SendFileInLoop, SendFileLeaving
  <2> QED BY <1>1, <1>e, <2>1
<1>2. CASE state_ # "kDisconnecting"
  <2>1. PICK i \in 0 .. Size[f] - k + 1, fault \in BOOLEAN :
          /\ fault <=> WritesDirectly /\ Broken
          /\ wire' = wire \o SubSeq(Units(f), k, k + i - 1)
          /\ queue' = queue \o IF fault THEN <<>> ELSE Continue(f, k)[i]
    BY <1>2 DEF SendFileInLoop, SendFileLeaving
  <2>2. i \in Nat /\ k + i \in Nat /\ k + i <= Size[f] + 1 /\ i \in 0 .. Size[f]
    BY <1>u
  <2> DEFINE s == SubSeq(Units(f), k, k + i - 1)
  <2>3. s \in Seq(Unit) /\ Len(s) = i /\ \A p \in DOMAIN s : s[p] = <<f, k - 1 + p>>
    <3>1. CASE i = 0
      <4>1. s = <<>>
        <5>1. Units(f) \in Seq(Unit)
          BY FileSize, UnitsFacts
        <5> QED BY <1>u, <3>1, <5>1, SubSeqEmpty
      <4> QED BY <1>e, <3>1, <4>1
    <3>2. CASE i # 0
      <4>1. k + i - 1 \in 1 .. Size[f] /\ k <= k + i - 1 /\ (k + i - 1) - k + 1 = i
        BY <1>u, <2>2, <3>2
      <4>2. /\ s \in Seq(Unit) /\ Len(s) = (k + i - 1) - k + 1
            /\ \A p \in DOMAIN s : s[p] = <<f, k + p - 1>>
        BY <4>1, PieceFacts
      <4>3. \A p \in DOMAIN s : k + p - 1 = k - 1 + p
        <5>1. DOMAIN s = 1 .. i
          BY <4>1, <4>2
        <5> QED BY <1>u, <5>1
      <4> QED BY <4>1, <4>2, <4>3
    <3> QED BY <3>1, <3>2
  <2> HIDE DEF s
  <2>4. CASE fault
    BY <1>e, <2>1, <2>3, <2>4 DEF s
  <2>5. CASE ~fault /\ k + i <= Size[f]
    <3>1. Continue(f, k)[i] = <<FileOf(f, k + i)>>
      BY <1>u, <2>2, <2>5 DEF Continue
    <3>2. k + i \in 1 .. Size[f]
      BY <1>u, <2>2, <2>5
    <3>3. <<FileOf(f, k + i)>> \in Seq(Functors)
      BY <3>2, FunctorFacts
    <3>4. queue' = queue \o <<FileOf(f, k + i)>>
      BY <2>1, <2>5, <3>1
    <3> QED BY <2>1, <2>3, <2>5, <3>3, <3>4 DEF s
  <2>6. CASE ~fault /\ k + i > Size[f]
    <3>1. Continue(f, k)[i] = <<Functor("writeComplete")>> /\ k + i = Size[f] + 1
      <4>1. Continue(f, k)[i] = <<Functor("writeComplete")>>
        BY <2>2, <2>6 DEF Continue
      <4>2. k + i = Size[f] + 1
        BY <1>u, <2>2, <2>6
      <4> QED BY <4>1, <4>2
    <3>2. <<Functor("writeComplete")>> \in Seq(Functors)
      BY FunctorFacts
    <3>3. queue' = queue \o <<Functor("writeComplete")>>
      BY <2>1, <2>6, <3>1
    <3> QED BY <2>1, <2>3, <3>1, <3>2, <3>3 DEF s
  <2>7. k + i <= Size[f] \/ k + i > Size[f]
    BY <1>u, <2>2
  <2> QED BY <2>4, <2>5, <2>6, <2>7
<1> QED BY <1>1, <1>2

\* A piece of f, by the connection's own thread or from the batch: the jobs
\* that are left are those of rest, where f has none.
LEMMA PieceFiles ==
  ASSUME TypeOK, FilesInv, NEW f \in File, NEW n \in 0 .. Size[f] - 1,
         HasFirst(n, f, wire), SendFileInLoop(f, n + 1, queue),
         NEW rest \in Seq(Functors), NoJob(rest, f),
         \/ batch' = batch /\ rest = Waiting
         \/ /\ batch # <<>> /\ batch' = Tail(batch) /\ IsJob(Head(batch), f)
            /\ rest = Tail(Waiting),
         UNCHANGED <<state_, peer, phase, userPc, ups>>, ups # 0,
         submitted' = submitted \cup {f}, \A u \in User : ~Asks(u, f)
  PROVE  FilesInv'
<1>n. n \in Nat /\ Size[f] \in Nat /\ n + 1 \in 1 .. Size[f] /\ (n + 1) - 1 = n
  BY FileSize
<1>w. wire \in Seq(Unit)
  BY StreamTypes DEF SeqTypes
<1>1. PICK i \in 0 .. Size[f] - (n + 1) + 1, s \in Seq(Unit), t \in Seq(Functors) :
        /\ wire' = wire \o s /\ Len(s) = i
        /\ \A p \in DOMAIN s : s[p] = <<f, (n + 1) - 1 + p>>
        /\ queue' = queue \o t
        /\ \/ t = <<FileOf(f, (n + 1) + i)>> /\ (n + 1) + i <= Size[f]
           \/ t = <<Functor("writeComplete")>> /\ (n + 1) + i = Size[f] + 1
           \/ t = <<>> /\ (state_ = "kDisconnecting" \/ Broken)
  BY <1>n, FileShape
<1>2. /\ i \in Nat /\ n + i \in 0 .. Size[f] /\ (n + 1) + i = (n + i) + 1
      /\ (n + 1) + i = Size[f] + 1 => n + i = Size[f]
  <2>1. PICK c \in Nat : c = Size[f]
    BY <1>n
  <2>2. i \in Nat /\ i <= c - (n + 1) + 1
    BY <1>n, <2>1
  <2>3. n \in Nat
    BY <1>n
  <2>4. /\ n + i \in 0 .. c /\ (n + 1) + i = (n + i) + 1
        /\ (n + 1) + i = c + 1 => n + i = c
    BY <2>2, <2>3
  <2> QED BY <2>1, <2>2, <2>4
<1>3. UNCHANGED <<outputBuffer_, finSent>>
  BY DEF SendFileInLoop, SendFileLeaving
<1>4. Queues(t)
  BY <1>1 DEF Queues
<1>5. Waiting' = rest \o t
  BY <1>1, WaitingFacts
<1>6. HasFirst(n + i, f, wire')
  <2>1. \A p \in DOMAIN s : s[p] = <<f, n + p>>
    BY <1>1, <1>n
  <2> QED BY <1>1, <1>n, <1>w, <2>1, FirstBehind
<1>7. /\ OneJob(Waiting', f, n + i)
      /\ state_ = "kConnected" /\ peer # "reset" => ~NoJob(Waiting', f) \/ n + i = Size[f]
  <2>1. CASE t = <<FileOf(f, (n + 1) + i)>>
    <3>1. t = <<FileOf(f, (n + i) + 1)>>
      BY <1>2, <2>1
    <3> QED BY <1>5, <3>1, JobsAdd
  <2>2. CASE t = <<Functor("writeComplete")>> /\ (n + 1) + i = Size[f] + 1
    <3>1. NoJob(t, f)
      <4> DEFINE g == Functor("writeComplete")
      <4>1. g \in Functors /\ g.op # "file"
        BY FunctorFacts
      <4> HIDE DEF g
      <4>2. DOMAIN <<g>> = {1} /\ <<g>>[1] = g
        OBVIOUS
      <4> QED BY <2>2, <4>1, <4>2 DEF NoJob, IsJob, g
    <3>2. NoJob(rest \o t, f)
      BY <3>1, JobsConcat
    <3> QED BY <1>2, <1>5, <2>2, <3>2 DEF OneJob, NoJob
  <2>3. CASE t = <<>> /\ (state_ = "kDisconnecting" \/ Broken)
    <3>1. rest \o t = rest
      BY <2>3
    <3>2. state_ = "kConnected" /\ peer # "reset" => ~Broken
      BY DEF Broken, FilesInv, NotShut
    <3> QED BY <1>5, <2>3, <3>1, <3>2, JobsAdd
  <2> QED BY <1>1, <2>1, <2>2, <2>3
<1>8. Progress(f, n + i)'
  <2>1. \A u \in User : ~Asks(u, f)'
    BY DEF Asks
  <2> QED BY <1>6, <1>7, <2>1 DEF Progress
<1>9. ASSUME NEW h \in File \ {f} PROVE Aside(h)
  <2>1. SameUnits(h)
    <3>1. \A p \in DOMAIN s : s[p][1] # h
      BY <1>1
    <3> QED BY <1>1, <3>1, UnitsKept
  <2>2. SameJobs(h)
    <3>1. NoJob(t, h)
      <4>1. ~IsJob(FileOf(f, (n + 1) + i), h)
        BY JobFacts
      <4>2. ~IsJob(Functor("writeComplete"), h)
        BY FunctorFacts DEF IsJob
      <4>3. \A g : DOMAIN <<g>> = {1} /\ <<g>>[1] = g
        OBVIOUS
      <4>4. DOMAIN <<>> = {}
        OBVIOUS
      <4> QED BY <1>1, <4>1, <4>2, <4>3, <4>4 DEF NoJob
    <3>2. batch' = batch \/ ~IsJob(Head(batch), h)
      BY DEF IsJob
    <3> QED BY <1>4, <3>1, <3>2, JobsKept
  <2>3. SameCalls(h)
    BY DEF SameCalls, Asks
  <2> QED BY <2>1, <2>2, <2>3 DEF Aside
<1>10. NotShut'
  <2>1. NoShutdown(t)
    <3>1. FileOf(f, (n + 1) + i).op # "shutdown" /\ Functor("writeComplete").op # "shutdown"
      BY DEF FileOf, Functor
    <3>2. \A g : DOMAIN <<g>> = {1} /\ <<g>>[1] = g
      OBVIOUS
    <3>3. DOMAIN <<>> = {}
      OBVIOUS
    <3> QED BY <1>1, <3>1, <3>2, <3>3 DEF NoShutdown
  <2> QED BY <1>3, <1>4, <2>1, NotShutKept DEF FilesInv
<1>11. Quiet' /\ NoWorse
  BY <1>3 DEF FilesInv, Quiet, NoWorse
<1> QED BY <1>2, <1>8, <1>9, <1>10, <1>11, OneFile

LEMMA SendFileFiles ==
  ASSUME IInv, FilesInv, RunSendFile \/ \E f \in File : OwnerSendFile(f)
  PROVE  FilesInv'
<1> USE DEF sockVars, serverVars, envVars, roundVars, callVars
<1>t. TypeOK /\ Waiting \in Seq(Functors) /\ batch \in Seq(Functors) /\ queue \in Seq(Functors)
  BY StreamTypes DEF IInv, SeqTypes, Waiting
<1>1. CASE RunSendFile
  <2>0. /\ Head(batch).msg \in File /\ Head(batch).from \in 1 .. Size[Head(batch).msg]
        /\ Head(batch).op = "file" /\ batch # <<>> /\ batch' = Tail(batch) /\ ups # 0
    BY <1>1, RunFacts, FunctorFacts DEF RunSendFile
  <2>f. PICK f \in File : f = Head(batch).msg
    BY <2>0
  <2>1. PICK k \in 1 .. Size[f] :
          /\ Head(batch).msg = f /\ Head(batch).from = k /\ Head(batch).op = "file"
          /\ batch # <<>> /\ batch' = Tail(batch) /\ ups # 0
    BY <2>0, <2>f
  <2>2. /\ SendFileInLoop(f, k, queue)
        /\ UNCHANGED <<state_, envVars, roundVars, callVars, submitted>>
    BY <1>1, <2>1 DEF RunSendFile, RunFunctor
  <2>3. PICK n \in 0 .. Size[f] : Progress(f, n)
    BY DEF FilesInv
  <2>4. Waiting # <<>> /\ Head(Waiting) = Head(batch)
    BY <1>t, <2>1 DEF Waiting
  <2>5. IsJob(Head(Waiting), f)
    BY <2>1, <2>4 DEF IsJob
  <2>6. Head(batch) = FileOf(f, n + 1) /\ NoJob(Tail(Waiting), f) /\ Tail(Waiting) \in Seq(Functors)
    BY <1>t, <2>3, <2>4, <2>5, JobsTail DEF Progress
  <2>7. k = n + 1
    BY <2>1, <2>6 DEF FileOf
  <2>8. n \in 0 .. Size[f] - 1
    BY <2>7, FileSize
  <2>9. ~NoJob(Waiting, f)
    <3>1. 1 \in DOMAIN Waiting /\ Waiting[1] = Head(Waiting)
      BY <1>t, <2>4
    <3> QED BY <2>5, <3>1 DEF NoJob
  <2>10. f \in submitted /\ \A u \in User : ~Asks(u, f)
    BY <2>3, <2>9 DEF Progress
  <2> QED BY <1>t, <2>1, <2>2, <2>3, <2>4, <2>5, <2>6, <2>7, <2>8, <2>10, PieceFiles DEF Progress
<1>2. ASSUME NEW f \in File, OwnerSendFile(f) PROVE FilesInv'
  <2>1. ups # 0
    BY <1>2, UpFacts DEF OwnerSendFile
  <2>2. /\ SendFileInLoop(f, 1, queue) /\ f \notin submitted /\ submitted' = submitted \cup {f}
        /\ UNCHANGED <<state_, envVars, roundVars, batch, callVars>>
    BY <1>2 DEF OwnerSendFile, Submits
  <2>3. PICK n \in 0 .. Size[f] : Progress(f, n)
    BY DEF FilesInv
  <2>4. n = 0 /\ NoJob(Waiting, f) /\ \A u \in User : ~Asks(u, f)
    BY <2>2, <2>3 DEF Progress
  <2>5. n \in 0 .. Size[f] - 1 /\ n + 1 = 1
    BY <2>4, FileSize
  <2> QED BY <1>t, <2>1, <2>2, <2>3, <2>4, <2>5, PieceFiles DEF Progress
<1> QED BY <1>1, <1>2

-----------------------------------------------------------------------------
LEMMA InitFiles == Init => FilesInv
<1> SUFFICES ASSUME Init PROVE FilesInv
  OBVIOUS
<1> DEFINE g == Functor("established")
<1>1. /\ g.op = "established" /\ Waiting = <<>> \o <<g>> /\ <<>> \o <<g>> = <<g>>
      /\ DOMAIN <<g>> = {1} /\ <<g>>[1] = g
  BY FunctorFacts DEF Init, Waiting
<1>2. wire = <<>> /\ outputBuffer_ = <<>> /\ DOMAIN <<>> = {}
  BY DEF Init
<1> HIDE DEF g
<1>3. ASSUME NEW f \in File PROVE 0 \in 0 .. Size[f] /\ Progress(f, 0)
  <2>1. HasFirst(0, f, wire)
    BY <1>2 DEF HasFirst
  <2>2. NoJob(Waiting, f) /\ OneJob(Waiting, f, 0)
    BY <1>1 DEF NoJob, OneJob, IsJob
  <2>3. \A u \in User : ~Asks(u, f)
    BY IdleAsksNothing DEF Init
  <2> QED BY <2>1, <2>2, <2>3, FileSize DEF Progress, Init
<1>4. NotShut /\ Quiet
  BY <1>2 DEF Init, NotShut, Quiet
<1> QED BY <1>3, <1>4 DEF FilesInv

LEMMA StepFiles == ASSUME IInv, FilesInv, [Next]_vars PROVE FilesInv'
<1>1. CASE UNCHANGED vars
  <2>1. TypeOK /\ NoWorse
    BY <1>1 DEF IInv, NoWorse, vars, envVars, sockVars
  <2> QED BY <1>1, <2>1, StillFiles
       DEF vars, dataVars, envVars, roundVars, histVars, callVars, sentVars
<1>2. CASE LoopStep
  BY <1>2, LoopFiles, OnWriteFiles, SwapFiles, EstablishedFiles, BatchFiles, SendFiles,
     SendFileFiles DEF LoopStep
<1>3. CASE OwnerStep
  BY <1>3, LoopFiles, SendFiles, SendFileFiles DEF OwnerStep
<1>4. CASE RemoveConnection \/ ServerDestroyed \/ PeerStep
  BY <1>4, ServerFiles, PeerFiles
<1>5. CASE \E u \in User : UserStep(u)
  BY <1>5, UserShutdownFiles, UserSendTestFiles, UserSendQueueFiles DEF UserStep, UserFinish
<1> QED BY <1>1, <1>2, <1>3, <1>4, <1>5 DEF Next

LEMMA FilesAreWhole == ASSUME TypeOK, FilesInv PROVE FilesWhole
<1> SUFFICES ASSUME NEW f \in File
             PROVE  \E n \in 0 .. Size[f] :
                      /\ HasFirst(n, f, wire)
                      /\ \A k \in 1 .. Size[f] : FileOf(f, k) \in Range(Waiting) => k = n + 1
                      /\ f \in submitted /\ state_ = "kConnected" /\ peer # "reset"
                           => FileQueued(f) \/ FileSubmitted(f) \/ n = Size[f]
  BY DEF FilesWhole
<1>1. PICK n \in 0 .. Size[f] : Progress(f, n)
  BY DEF FilesInv
<1>2. Waiting \in Seq(Functors)
  BY StreamTypes DEF SeqTypes, Waiting
<1>3. ASSUME NEW k \in 1 .. Size[f], FileOf(f, k) \in Range(Waiting) PROVE k = n + 1
  <2>1. PICK i \in DOMAIN Waiting : Waiting[i] = FileOf(f, k)
    BY <1>3 DEF Range
  <2>2. FileOf(f, k) = FileOf(f, n + 1)
    BY <1>1, <2>1, JobFacts DEF Progress, OneJob
  <2> QED BY <2>2, JobFacts
<1>4. ASSUME ~NoJob(Waiting, f) PROVE FileQueued(f)
  <2>1. PICK i \in DOMAIN Waiting : IsJob(Waiting[i], f)
    BY <1>4 DEF NoJob
  <2>2. Waiting[i] \in Functors
    BY <1>2
  <2>3. PICK k \in 1 .. Size[f] : Waiting[i] = FileOf(f, k)
    BY <2>1, <2>2, JobFacts
  <2> QED BY <2>3 DEF FileQueued, Range
<1> QED BY <1>1, <1>3, <1>4 DEF Progress

LEMMA FilesInductive == Spec => []FilesInv
BY Inductive, InitFiles, StepFiles, PTL DEF Spec

(* A file goes out in order and whole, for any files, sizes, messages and  *)
(* threads: FilesWhole.                                                    *)
THEOREM FilesArriveWhole == Spec => []FilesWhole
<1>1. TypeOK /\ FilesInv => FilesWhole
  BY FilesAreWhole
<1> QED BY <1>1, TypeCorrect, FilesInductive, PTL
=============================================================================
