---------------------------- MODULE BufferProofs ----------------------------
(***************************************************************************)
(* Proofs about Buffer for any byte type and any sizes: the indices stay   *)
(* inside the array, the array implements ByteQueue, and it grows only     *)
(* when there is no room.  The lemmas follow the calls of the code:        *)
(* makeSpace and Write, then append, then the operations.                  *)
(***************************************************************************)
EXTENDS Buffer, SequenceTheorems, TLAPS

\* What holds of the four parts of a buffer, and the bytes they stand for.
Valid(b) ==
  /\ b = [data |-> b.data, size |-> b.size, r |-> b.r, w |-> b.w]
  /\ b.size \in Nat /\ b.r \in Nat /\ b.w \in Nat
  /\ b.data \in [0 .. b.size - 1 -> Byte]
  /\ kCheapPrepend <= b.r /\ b.r <= b.w /\ b.w <= b.size

Content(b) == [i \in 1 .. b.w - b.r |-> b.data[b.r + i - 1]]

LEMMA Constants == /\ Zero \in Byte
                   /\ kCheapPrepend \in Nat /\ InitialSize \in Nat
                   /\ ExtraSize \in Nat /\ MaxReadable \in Nat
BY ByteAssumption, SizesAssumption

\* Concatenation, element by element.
LEMMA ConcatIs ==
  ASSUME NEW S, NEW n \in Nat, NEW f \in [1 .. n -> S], NEW s \in Seq(S)
  PROVE  f \o s = [i \in 1 .. n + Len(s) |-> IF i <= n THEN f[i] ELSE s[i - n]]
<1>1. f \in Seq(S) /\ Len(f) = n /\ Len(s) \in Nat
  OBVIOUS
<1>2. f \o s \in Seq(S) /\ Len(f \o s) = n + Len(s)
  BY <1>1
<1>3. f \o s \in [1 .. n + Len(s) -> S]
  <2>1. \A q \in Seq(S) : q \in [1 .. Len(q) -> S]
    OBVIOUS
  <2> QED BY <2>1, <1>2
<1>4. \A i \in 1 .. n + Len(s) : (f \o s)[i] = IF i <= n THEN f[i] ELSE s[i - n]
  BY <1>1
<1> QED BY <1>3, <1>4

LEMMA ContentType ==
  ASSUME NEW b, Valid(b)
  PROVE  Content(b) \in [1 .. b.w - b.r -> Byte] /\ b.w - b.r \in Nat
BY Constants DEF Valid, Content

-----------------------------------------------------------------------------
\* makeSpace finds or makes the room it is asked for and keeps the bytes.
LEMMA MakeSpaceKeeps ==
  ASSUME NEW b, Valid(b), NEW len \in Nat, b.size - b.w < len
  PROVE  LET e == makeSpace(b, len)
         IN /\ Valid(e) /\ Content(e) = Content(b) /\ e.size - e.w >= len
            /\ e.size > b.size => ~Fits(b, len)
<1> DEFINE e == makeSpace(b, len)
<1>1. CASE ~Fits(b, len)
  <2> DEFINE d == [i \in 0 .. b.w + len - 1 |-> IF i < b.size THEN b.data[i] ELSE Zero]
  <2>1. e = [data |-> d, size |-> b.w + len, r |-> b.r, w |-> b.w]
    BY <1>1 DEF makeSpace, Valid
  <2>2. d \in [0 .. b.w + len - 1 -> Byte]
    BY Constants DEF Valid
  <2> HIDE DEF e
  <2>3. Valid(e) /\ e.size - e.w >= len
    <3> HIDE DEF d
    <3> QED BY <2>1, <2>2, Constants DEF Valid
  <2>4. Content(e) = Content(b)
    BY <2>1, Constants DEF Valid, Content
  <2> QED BY <2>3, <2>4, <1>1 DEF e
<1>2. CASE Fits(b, len)
  <2> DEFINE d == [i \in 0 .. b.size - 1 |->
                     IF i - kCheapPrepend \in 0 .. b.w - b.r - 1
                       THEN b.data[b.r + i - kCheapPrepend] ELSE b.data[i]]
  <2>1. e = [data |-> d, size |-> b.size, r |-> kCheapPrepend,
             w |-> kCheapPrepend + b.w - b.r]
    BY <1>2 DEF makeSpace, Valid
  <2>2. d \in [0 .. b.size - 1 -> Byte]
    <3>1. \A i \in 0 .. b.size - 1 :
            i - kCheapPrepend \in 0 .. b.w - b.r - 1
              => b.r + i - kCheapPrepend \in 0 .. b.size - 1
      BY Constants DEF Valid
    <3> QED BY <3>1 DEF Valid
  <2> HIDE DEF e
  <2>3. Valid(e) /\ e.size - e.w >= len /\ ~(e.size > b.size)
    <3> HIDE DEF d
    <3> QED BY <2>1, <2>2, <1>2, Constants DEF Valid, Fits
  <2>4. \A i \in 1 .. b.w - b.r : d[kCheapPrepend + i - 1] = b.data[b.r + i - 1]
    <3> SUFFICES ASSUME NEW i \in 1 .. b.w - b.r
                 PROVE  d[kCheapPrepend + i - 1] = b.data[b.r + i - 1]
      OBVIOUS
    <3> DEFINE j == kCheapPrepend + i - 1
    <3>1. /\ j \in 0 .. b.size - 1
          /\ j - kCheapPrepend \in 0 .. b.w - b.r - 1
          /\ b.r + j - kCheapPrepend = b.r + i - 1
      BY Constants DEF Valid
    <3> HIDE DEF j
    <3>2. d[j] = b.data[b.r + j - kCheapPrepend]
      BY <3>1
    <3> QED BY <3>1, <3>2 DEF j
  <2>5. Content(e) = [i \in 1 .. b.w - b.r |-> d[kCheapPrepend + i - 1]]
    <3>1. e.w - e.r = b.w - b.r
      BY <2>1, Constants DEF Valid
    <3> HIDE DEF d
    <3> QED BY <2>1, <3>1 DEF Content
  <2>6. Content(e) = Content(b)
    <3> HIDE DEF d
    <3> QED BY <2>4, <2>5 DEF Content
  <2> QED BY <2>3, <2>6 DEF e
<1> QED BY <1>1, <1>2

\* Where there is room Write appends.
LEMMA WriteAppends ==
  ASSUME NEW b, Valid(b), NEW s \in Seq(Byte), b.size - b.w >= Len(s)
  PROVE  LET e == Write(b, s)
         IN Valid(e) /\ Content(e) = Content(b) \o s /\ e.size = b.size
<1> DEFINE e == Write(b, s)
           d == [i \in 0 .. b.size - 1 |->
                   IF i - b.w \in 0 .. Len(s) - 1 THEN s[i - b.w + 1] ELSE b.data[i]]
<1>1. e = [data |-> d, size |-> b.size, r |-> b.r, w |-> b.w + Len(s)]
  BY DEF Write
<1>2. d \in [0 .. b.size - 1 -> Byte]
  <2>1. \A i \in 0 .. b.size - 1 :
          i - b.w \in 0 .. Len(s) - 1 => i - b.w + 1 \in 1 .. Len(s)
    BY DEF Valid
  <2>2. \A i \in 1 .. Len(s) : s[i] \in Byte
    OBVIOUS
  <2> QED BY <2>1, <2>2 DEF Valid
<1> HIDE DEF e
<1>3. Valid(e) /\ e.size = b.size
  <2> HIDE DEF d
  <2> QED BY <1>1, <1>2, Constants DEF Valid
<1>4. Content(e) = Content(b) \o s
  <2>1. Content(b) \o s =
          [i \in 1 .. b.w - b.r + Len(s) |->
             IF i <= b.w - b.r THEN Content(b)[i] ELSE s[i - (b.w - b.r)]]
    <3>1. Content(b) \in [1 .. b.w - b.r -> Byte] /\ b.w - b.r \in Nat
      BY ContentType
    <3> DEFINE n == b.w - b.r
               f == Content(b)
    <3>2. f \in [1 .. n -> Byte] /\ n \in Nat
      BY <3>1
    <3> HIDE DEF n, f
    <3>3. f \o s = [i \in 1 .. n + Len(s) |-> IF i <= n THEN f[i] ELSE s[i - n]]
      BY <3>2, ConcatIs
    <3> QED BY <3>3 DEF n, f
  <2>2. Content(e) = [i \in 1 .. b.w - b.r + Len(s) |-> d[b.r + i - 1]]
    BY <1>1 DEF Content, Valid
  <2>3. \A i \in 1 .. b.w - b.r + Len(s) :
          d[b.r + i - 1] = IF i <= b.w - b.r THEN Content(b)[i] ELSE s[i - (b.w - b.r)]
    <3>1. Len(s) \in Nat
      OBVIOUS
    <3> SUFFICES ASSUME NEW i \in 1 .. b.w - b.r + Len(s)
                 PROVE  d[b.r + i - 1]
                          = IF i <= b.w - b.r THEN Content(b)[i] ELSE s[i - (b.w - b.r)]
      OBVIOUS
    <3> DEFINE j == b.r + i - 1
    <3>2. j \in 0 .. b.size - 1
      BY <3>1, Constants DEF Valid
    <3>3. CASE i <= b.w - b.r
      <4>1. i \in 1 .. b.w - b.r /\ ~(j - b.w \in 0 .. Len(s) - 1)
        BY <3>1, <3>3 DEF Valid
      <4>2. Content(b)[i] = b.data[j]
        BY <4>1 DEF Content
      <4> HIDE DEF j
      <4>3. d[j] = b.data[j]
        BY <3>2, <4>1
      <4> QED BY <3>3, <4>2, <4>3 DEF j
    <3>4. CASE ~(i <= b.w - b.r)
      <4>1. /\ j - b.w \in 0 .. Len(s) - 1
            /\ j - b.w + 1 = i - (b.w - b.r)
        BY <3>1, <3>4 DEF Valid
      <4> HIDE DEF j
      <4>2. d[j] = s[i - (b.w - b.r)]
        BY <3>2, <4>1
      <4> QED BY <3>4, <4>2 DEF j
    <3> QED BY <3>3, <3>4
  <2> HIDE DEF d
  <2> QED BY <2>1, <2>2, <2>3
<1> QED BY <1>3, <1>4 DEF e

\* append writes behind the unread bytes and grows only if it must.
LEMMA AppendAppends ==
  ASSUME NEW b, Valid(b), NEW s \in Seq(Byte)
  PROVE  LET e == append(b, s)
         IN /\ Valid(e) /\ Content(e) = Content(b) \o s
            /\ e.size > b.size => ~Fits(b, Len(s))
<1> DEFINE m == ensureWritableBytes(b, Len(s))
<1>1. /\ Valid(m) /\ Content(m) = Content(b) /\ m.size - m.w >= Len(s)
      /\ m.size > b.size => ~Fits(b, Len(s))
  <2>1. CASE b.size - b.w < Len(s)
    BY <2>1, MakeSpaceKeeps DEF ensureWritableBytes
  <2>2. CASE ~(b.size - b.w < Len(s))
    BY <2>2 DEF ensureWritableBytes, Valid
  <2> QED BY <2>1, <2>2
<1>2. append(b, s) = Write(m, s)
  BY DEF append
<1> HIDE DEF m
<1> QED BY <1>1, <1>2, WriteAppends

-----------------------------------------------------------------------------
\* From the array to the variables and back.
LEMMA ThisValid ==
  ASSUME TypeOK
  PROVE  /\ Valid(This) /\ Content(This) = peek(readableBytes)
         /\ peek(readableBytes) \in Seq(Byte)
         /\ readableBytes \in Nat /\ Len(peek(readableBytes)) = readableBytes
         /\ This.size = size /\ This.r = readerIndex_ /\ This.w = writerIndex_
<1>1. Valid(This) /\ This.size = size /\ This.r = readerIndex_ /\ This.w = writerIndex_
  BY Constants DEF TypeOK, This, Valid
<1>2. Content(This) = peek(readableBytes)
  BY DEF This, Content, peek, readableBytes
<1>3. /\ readableBytes \in Nat
      /\ peek(readableBytes) \in [1 .. readableBytes -> Byte]
  BY <1>1, <1>2, ContentType DEF readableBytes
<1> QED BY <1>1, <1>2, <1>3

LEMMA BecomeValid ==
  ASSUME NEW e, Valid(e), Become(e), given' \in Seq(Byte), taken' \in Seq(Byte)
  PROVE  TypeOK' /\ peek(readableBytes)' = Content(e) /\ size' = e.size
<1>1. TypeOK'
  BY Constants DEF Become, Valid, TypeOK
<1>2. peek(readableBytes)' = Content(e)
  BY DEF Become, Content, peek, readableBytes
<1> QED BY <1>1, <1>2 DEF Become

\* What putting bytes in does to the variables, for append and for readFd.
PutStep(s) ==
  /\ TypeOK'
  /\ peek(readableBytes)' = peek(readableBytes) \o s
  /\ given' = s /\ taken' = <<>>
  /\ size' > size => kCheapPrepend + readableBytes' > size

LEMMA StringsAreSequences ==
  ASSUME NEW max \in Int, NEW s \in Strings(max)
  PROVE  s \in Seq(Byte)
BY DEF Strings

\* Every readable position is one of the array.
LEMMA IndicesInArray ==
  ASSUME NEW r \in Nat, NEW w \in Nat, NEW n \in Nat, r <= w, w <= n
  PROVE  w - r \in Nat /\ \A i \in 1 .. w - r : r + i - 1 \in 0 .. n - 1
OBVIOUS

\* The new number of readable bytes, from the new contents.
LEMMA ReadableIsLength ==
  ASSUME TypeOK, TypeOK', NEW s \in Seq(Byte),
         peek(readableBytes)' = peek(readableBytes) \o s
  PROVE  readableBytes' = readableBytes + Len(s)
<1>1. Len(peek(readableBytes)) = readableBytes /\ peek(readableBytes) \in Seq(Byte)
  BY ThisValid
<1>2. Len(peek(readableBytes)') = readableBytes'
  <2>1. /\ readableBytes' \in Nat
        /\ \A i \in 1 .. readableBytes' : readerIndex_' + i - 1 \in 0 .. size' - 1
        /\ buffer_' \in [0 .. size' - 1 -> Byte]
    <3>1. /\ size' \in Nat /\ buffer_' \in [0 .. size' - 1 -> Byte]
          /\ readerIndex_' \in kCheapPrepend .. writerIndex_'
          /\ writerIndex_' \in kCheapPrepend .. size'
      BY DEF TypeOK
    <3>2. readableBytes' = writerIndex_' - readerIndex_'
      BY DEF readableBytes
    <3>3. /\ readerIndex_' \in Nat /\ writerIndex_' \in Nat
          /\ readerIndex_' <= writerIndex_' /\ writerIndex_' <= size'
      <4>1. \A i, j, k : k \in Nat /\ i \in k .. j /\ j \in k .. size'
                           => i \in Nat /\ j \in Nat /\ i <= j /\ j <= size'
        BY <3>1
      <4> QED BY <3>1, <4>1, Constants
    <3> QED BY <3>1, <3>2, <3>3, IndicesInArray
  <2>2. peek(readableBytes)' = [i \in 1 .. readableBytes' |-> buffer_'[readerIndex_' + i - 1]]
    BY DEF peek
  <2>3. peek(readableBytes)' \in [1 .. readableBytes' -> Byte]
    BY <2>1, <2>2
  <2> QED BY <2>1, <2>3
<1> QED BY <1>1, <1>2, ConcatProperties

LEMMA AppendStep ==
  ASSUME TypeOK, NEW s \in Seq(Byte), AppendBytes(s)
  PROVE  PutStep(s)
<1> DEFINE e == append(This, s)
<1>1. /\ Valid(e) /\ Content(e) = Content(This) \o s
      /\ e.size > This.size => ~Fits(This, Len(s))
  BY ThisValid, AppendAppends
<1>2. Become(e) /\ given' = s /\ taken' = <<>>
  BY DEF AppendBytes
<1> HIDE DEF e
<1>3. TypeOK' /\ peek(readableBytes)' = peek(readableBytes) \o s /\ size' = e.size
  BY <1>1, <1>2, BecomeValid, ThisValid
<1>4. size' > size => kCheapPrepend + readableBytes' > size
  <2>1. readableBytes' = readableBytes + Len(s)
    BY <1>3, ReadableIsLength
  <2>2. size' > size => ~(size - writerIndex_ + readerIndex_ >= Len(s) + kCheapPrepend)
    BY <1>1, <1>3, ThisValid DEF Fits
  <2>3. Len(s) \in Nat
    OBVIOUS
  <2> QED BY <2>1, <2>2, <2>3, Constants DEF TypeOK, readableBytes
<1> QED BY <1>2, <1>3, <1>4 DEF PutStep

\* readFd: the second part of the data follows the first.
LEMMA ReadFdStep ==
  ASSUME TypeOK, NEW s \in Seq(Byte), ReadFd(s)
  PROVE  PutStep(s)
<1>1. Len(s) \in Nat /\ writableBytes \in Nat
  BY DEF TypeOK, writableBytes
<1>2. given' = s /\ taken' = <<>>
  BY DEF ReadFd
<1>3. CASE Len(s) <= writableBytes
  <2> DEFINE e == Write(This, s)
  <2>1. Become(e)
    BY <1>3 DEF ReadFd
  <2>2. Valid(e) /\ Content(e) = Content(This) \o s /\ e.size = size
    BY <1>1, <1>3, ThisValid, WriteAppends DEF writableBytes
  <2> HIDE DEF e
  <2>3. TypeOK' /\ peek(readableBytes)' = peek(readableBytes) \o s /\ size' = size
    BY <1>2, <2>1, <2>2, BecomeValid, ThisValid
  <2> QED BY <1>2, <2>3 DEF PutStep, TypeOK
<1>4. CASE ~(Len(s) <= writableBytes)
  <2> DEFINE first == SubSeq(s, 1, writableBytes)
             rest == SubSeq(s, writableBytes + 1, Len(s))
             b == Write(This, first)
             e == append(b, rest)
  <2>1. Become(e)
    BY <1>1, <1>4 DEF ReadFd
  <2>2. first \in Seq(Byte) /\ Len(first) = writableBytes
    BY <1>1, <1>4, SubSeqProperties
  <2>3. rest \in Seq(Byte) /\ Len(rest) = Len(s) - writableBytes
    BY <1>1, <1>4, SubSeqProperties
  <2>4. first \o rest = s
    <3>1. /\ 1 \in 1 .. Len(s) + 1 /\ writableBytes \in 1 - 1 .. Len(s)
          /\ Len(s) \in writableBytes .. Len(s)
      BY <1>1, <1>4
    <3>2. SubSeq(s, 1, writableBytes) \o SubSeq(s, writableBytes + 1, Len(s))
            = SubSeq(s, 1, Len(s))
      BY <3>1, ConcatAdjacentSubSeq
    <3> QED BY <3>2, SubSeqFull
  <2>5. /\ Valid(b) /\ Content(b) = Content(This) \o first /\ b.size = size
        /\ b.r = readerIndex_ /\ b.w = size
    <3>1. Valid(b) /\ Content(b) = Content(This) \o first /\ b.size = size
      <4> HIDE DEF first
      <4> QED BY <2>2, ThisValid, WriteAppends DEF writableBytes
    <3>2. b.r = readerIndex_ /\ b.w = writerIndex_ + Len(first)
      BY DEF Write, This
    <3> HIDE DEF first, b
    <3> QED BY <2>2, <3>1, <3>2 DEF writableBytes, TypeOK
  <2> HIDE DEF first, rest, b
  <2>6. /\ Valid(e) /\ Content(e) = Content(b) \o rest
        /\ e.size > b.size => ~Fits(b, Len(rest))
    BY <2>3, <2>5, AppendAppends
  <2> HIDE DEF e
  <2>7. Content(e) = peek(readableBytes) \o s
    <3> DEFINE old == peek(readableBytes)
    <3>1. old \in Seq(Byte) /\ Content(This) = old
      BY ThisValid
    <3> HIDE DEF old
    <3>2. Content(e) = (old \o first) \o rest
      BY <2>5, <2>6, <3>1
    <3>3. (old \o first) \o rest = old \o (first \o rest)
      <4>1. \A x, y, z \in Seq(Byte) : (x \o y) \o z = x \o (y \o z)
        BY ConcatAssociative
      <4>2. first \in Seq(Byte) /\ rest \in Seq(Byte)
        BY <2>2, <2>3
      <4> QED BY <3>1, <4>1, <4>2
    <3> QED BY <2>4, <3>2, <3>3 DEF old
  <2>8. TypeOK' /\ peek(readableBytes)' = peek(readableBytes) \o s /\ size' = e.size
    BY <1>2, <2>1, <2>6, <2>7, BecomeValid
  <2>9. size' > size => kCheapPrepend + readableBytes' > size
    <3>1. readableBytes' = readableBytes + Len(s)
      BY <2>8, ReadableIsLength
    <3>2. size' > size => ~(size - size + readerIndex_ >= Len(s) - writableBytes + kCheapPrepend)
      BY <2>3, <2>5, <2>6, <2>8 DEF Fits
    <3> QED BY <1>1, <3>1, <3>2, Constants DEF TypeOK, readableBytes, writableBytes
  <2> QED BY <1>2, <2>8, <2>9 DEF PutStep
<1> QED BY <1>3, <1>4

-----------------------------------------------------------------------------
\* What reading does to the variables: ByteQueue's Take or Show.
GetStep == TypeOK' /\ size' = size /\ \E n \in 0 .. readableBytes :
             Queue!Show(n) \/ Queue!Take(n, TRUE) \/ Queue!Take(n, FALSE)

\* peek hands out a prefix of the unread bytes.
LEMMA PeekIsPrefix ==
  ASSUME TypeOK, NEW n \in 0 .. readableBytes
  PROVE  peek(n) = SubSeq(peek(readableBytes), 1, n) /\ peek(n) \in Seq(Byte)
<1>1. /\ readableBytes \in Nat /\ peek(readableBytes) \in Seq(Byte)
      /\ Len(peek(readableBytes)) = readableBytes
  BY ThisValid
<1>2. \A i \in 1 .. n : peek(n)[i] = peek(readableBytes)[i]
  BY <1>1 DEF peek
<1>3. \A i \in 1 .. n : peek(readableBytes)[i] \in Byte
  BY <1>1
<1>4. peek(n) \in [1 .. n -> Byte]
  BY <1>2, <1>3 DEF peek
<1>5. /\ SubSeq(peek(readableBytes), 1, n) \in Seq(Byte)
      /\ Len(SubSeq(peek(readableBytes), 1, n)) = n
      /\ \A i \in 1 .. n : SubSeq(peek(readableBytes), 1, n)[i] = peek(readableBytes)[i]
  BY <1>1, <1>3, SubSeqProperties
<1> DEFINE p == SubSeq(peek(readableBytes), 1, n)
<1>6. p \in [1 .. n -> Byte]
  <2>1. \A q \in Seq(Byte) : q \in [1 .. Len(q) -> Byte]
    OBVIOUS
  <2> QED BY <1>5, <2>1
<1>7. peek(n) = p
  BY <1>2, <1>4, <1>5, <1>6
<1> QED BY <1>5, <1>7

\* retrieve moves the front of the queue, or empties it.
LEMMA RetrieveDrops ==
  ASSUME TypeOK, NEW n \in 0 .. readableBytes, retrieve(n), taken' \in Seq(Byte)
  PROVE  /\ TypeOK' /\ size' = size
         /\ peek(readableBytes)' = SubSeq(peek(readableBytes), n + 1, Len(peek(readableBytes)))
<1> DEFINE old == peek(readableBytes)
<1>1. /\ readableBytes \in Nat /\ old \in Seq(Byte) /\ Len(old) = readableBytes
  BY ThisValid
<1>2. TypeOK' /\ size' = size /\ buffer_' = buffer_
  BY Constants DEF TypeOK, retrieve, readableBytes
<1>3. readableBytes' = readableBytes - n /\ readableBytes' \in Nat
  BY Constants DEF TypeOK, retrieve, readableBytes
<1>4. \A i \in 1 .. readableBytes - n : readerIndex_' + i - 1 = readerIndex_ + (n + i) - 1
  BY <1>1, Constants DEF TypeOK, retrieve, readableBytes
<1>5. peek(readableBytes)' = [i \in 1 .. readableBytes - n |-> buffer_[readerIndex_ + (n + i) - 1]]
  BY <1>2, <1>3, <1>4 DEF peek
<1>6. \A i \in 1 .. readableBytes - n : n + i \in 1 .. readableBytes
  BY <1>1
<1>7. \A i \in 1 .. readableBytes - n : old[n + i] = buffer_[readerIndex_ + (n + i) - 1]
  BY <1>6 DEF peek
<1> HIDE DEF old
<1>8. \A i \in n + 1 .. readableBytes : old[i] \in Byte
  BY <1>1
<1> DEFINE p == SubSeq(old, n + 1, readableBytes)
<1>9. /\ p \in Seq(Byte) /\ Len(p) = readableBytes - n
      /\ \A i \in 1 .. readableBytes - n : p[i] = old[n + i]
  <2>1. /\ p \in Seq(Byte)
        /\ Len(p) = IF n + 1 <= readableBytes THEN readableBytes - (n + 1) + 1 ELSE 0
        /\ \A i \in 1 .. readableBytes - (n + 1) + 1 : p[i] = old[n + 1 + i - 1]
    BY <1>1, <1>8, SubSeqProperties
  <2> HIDE DEF p
  <2>2. \A i \in 1 .. readableBytes - n : n + 1 + i - 1 = n + i
    BY <1>1
  <2> QED BY <1>1, <2>1, <2>2
<1> HIDE DEF p
<1>10. p = [i \in 1 .. readableBytes - n |-> old[n + i]]
  BY <1>9
<1>11. peek(readableBytes)' = p
  BY <1>5, <1>7, <1>10
<1> QED BY <1>1, <1>2, <1>11 DEF old, p

LEMMA GetOperations ==
  ASSUME TypeOK, NEW n \in 0 .. readableBytes,
         Retrieve(n) \/ RetrieveAsString(n) \/ WriteFd(n)
  PROVE  GetStep
<1>1. peek(n) = SubSeq(peek(readableBytes), 1, n) /\ peek(n) \in Seq(Byte)
  BY PeekIsPrefix
<1>2. CASE Retrieve(n)
  <2>1. retrieve(n) /\ taken' = <<>> /\ given' = <<>> /\ <<>> \in Seq(Byte)
    BY <1>2 DEF Retrieve, retrieve
  <2>2. TypeOK' /\ size' = size /\ Queue!Take(n, FALSE)
    BY <2>1, RetrieveDrops DEF Queue!Take
  <2> QED BY <2>2 DEF GetStep
<1>3. CASE RetrieveAsString(n)
  <2>1. retrieve(n) /\ taken' = peek(n) /\ given' = <<>>
    BY <1>3 DEF RetrieveAsString, retrieve
  <2>2. TypeOK' /\ size' = size /\ Queue!Take(n, TRUE)
    BY <1>1, <2>1, RetrieveDrops DEF Queue!Take
  <2> QED BY <2>2 DEF GetStep
<1>4. CASE WriteFd(n)
  <2>1. TypeOK' /\ size' = size
    BY <1>1, <1>4 DEF WriteFd, arrayVars, TypeOK
  <2>2. Queue!Show(n)
    BY <1>1, <1>4 DEF WriteFd, arrayVars, Queue!Show, peek, readableBytes
  <2> QED BY <2>1, <2>2 DEF GetStep
<1> QED BY <1>2, <1>3, <1>4
-----------------------------------------------------------------------------
\* A new buffer is empty and well formed.
LEMMA InitCorrect == Init => TypeOK /\ Queue!Init
<1> SUFFICES ASSUME Init PROVE TypeOK /\ Queue!Init
  OBVIOUS
<1>1. TypeOK
  BY Constants DEF Init, TypeOK
<1>2. readableBytes = 0
  BY Constants DEF Init, readableBytes
<1>3. peek(readableBytes) = <<>>
  BY <1>2 DEF peek
<1> QED BY <1>1, <1>3 DEF Init, Queue!Init

\* One step of a buffer keeps its type, is a step of the queue, and grows
\* the array only for want of room.
StepFacts ==
  /\ TypeOK'
  /\ Queue!Next \/ UNCHANGED Queue!vars
  /\ size' > size => kCheapPrepend + readableBytes' > size

LEMMA StepCorrect == TypeOK /\ [Next]_vars => StepFacts
<1> SUFFICES ASSUME TypeOK, [Next]_vars PROVE StepFacts
  OBVIOUS
<1>1. CASE UNCHANGED vars
  <2>1. TypeOK' /\ UNCHANGED Queue!vars
    BY <1>1 DEF vars, arrayVars, TypeOK, Queue!vars, peek, readableBytes
  <2>2. size' = size /\ size \in Nat
    BY <1>1 DEF vars, arrayVars, TypeOK
  <2> QED BY <2>1, <2>2 DEF StepFacts
<1>2. CASE Next
  <2>1. CASE \E s \in Strings(MaxReadable - readableBytes) : AppendBytes(s) \/ ReadFd(s)
    <3>1. PICK s \in Strings(MaxReadable - readableBytes) : AppendBytes(s) \/ ReadFd(s)
      BY <2>1
    <3>2. MaxReadable - readableBytes \in Int
      BY ThisValid, Constants
    <3>3. s \in Seq(Byte)
      BY <3>1, <3>2, StringsAreSequences
    <3>4. PutStep(s)
      BY <3>1, <3>3, AppendStep, ReadFdStep
    <3>5. Queue!Put
      BY <3>3, <3>4 DEF PutStep, Queue!Put
    <3> QED BY <3>4, <3>5 DEF PutStep, StepFacts, Queue!Next
  <2>2. CASE \E n \in 0 .. readableBytes : Retrieve(n) \/ RetrieveAsString(n) \/ WriteFd(n)
    <3>1. GetStep
      BY <2>2, GetOperations
    <3>2. \E n \in 0 .. Len(peek(readableBytes)) :
             Queue!Show(n) \/ Queue!Take(n, TRUE) \/ Queue!Take(n, FALSE)
      BY <3>1, ThisValid DEF GetStep
    <3>3. TypeOK' /\ ~(size' > size)
      BY <3>1 DEF GetStep, TypeOK
    <3> QED BY <3>2, <3>3 DEF StepFacts, Queue!Next
  <2> QED BY <1>2, <2>1, <2>2 DEF Next
<1> QED BY <1>1, <1>2

(* The indices never leave the array and never cross, so that peek,        *)
(* beginWrite and the copies of makeSpace stay inside the vector.          *)
THEOREM TypeCorrect == Spec => []TypeOK
<1>1. TypeOK /\ [Next]_vars => TypeOK'
  BY StepCorrect DEF StepFacts
<1> QED BY InitCorrect, <1>1, PTL DEF Spec

(* The array with its two indices is a queue of bytes, for any byte type   *)
(* and any sizes: append, retrieve, readFd and writeFd lose nothing,       *)
(* whatever makeSpace does meanwhile.                                      *)
THEOREM BufferIsQueue == Spec => ImplementsByteQueue
<1>1. Init => Queue!Init
  BY InitCorrect
<1>2. TypeOK /\ [Next]_vars => [Queue!Next]_(Queue!vars)
  BY StepCorrect DEF StepFacts
<1> QED BY <1>1, <1>2, TypeCorrect, PTL DEF Spec, ImplementsByteQueue, Queue!Spec

(* makeSpace resizes only when the unread bytes and the new ones do not    *)
(* fit into the array behind kCheapPrepend.                                *)
THEOREM GrowthIsNeeded == Spec => GrowsOnlyWhenFull
<1>1. TypeOK /\ [Next]_vars
        => [size' > size => kCheapPrepend + readableBytes' > size]_vars
  BY StepCorrect DEF StepFacts
<1> QED BY <1>1, TypeCorrect, PTL DEF Spec, GrowsOnlyWhenFull
=============================================================================
