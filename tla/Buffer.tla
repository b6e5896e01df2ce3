-------------------------------- MODULE Buffer --------------------------------
(***************************************************************************)
(* Buffer: a vector of bytes of which readerIndex_ .. writerIndex_ - 1 is  *)
(* unread.  A buffer belongs to one connection and is used on its loop     *)
(* only, so operations are atomic; what can go wrong is the arithmetic of  *)
(* makeSpace and readFd at the ends of the array.                          *)
(***************************************************************************)
EXTENDS Integers, Sequences

CONSTANTS Byte, Zero,        \* Zero is what resize() fills with
          kCheapPrepend, InitialSize,
          ExtraSize,         \* sizeof(extrabuf) in readFd
          MaxReadable        \* bound: unread bytes

ASSUME ByteAssumption == Zero \in Byte
ASSUME SizesAssumption == {kCheapPrepend, InitialSize, ExtraSize, MaxReadable} \subseteq Nat

VARIABLES buffer_,           \* [0 .. size - 1 -> Byte]
          size,              \* buffer_.size()
          readerIndex_, writerIndex_,
          given, taken       \* history: the bytes that the last operation
                             \* was given and that it handed out

arrayVars == <<buffer_, size, readerIndex_, writerIndex_>>
vars == <<arrayVars, given, taken>>

readableBytes == writerIndex_ - readerIndex_
writableBytes == size - writerIndex_
prependableBytes == readerIndex_

TypeOK ==
  /\ size \in Nat
  /\ buffer_ \in [0 .. size - 1 -> Byte]
  /\ readerIndex_ \in kCheapPrepend .. writerIndex_
  /\ writerIndex_ \in kCheapPrepend .. size
  /\ given \in Seq(Byte) /\ taken \in Seq(Byte)

Init ==
  /\ size = kCheapPrepend + InitialSize
  /\ buffer_ = [i \in 0 .. size - 1 |-> Zero]
  /\ readerIndex_ = kCheapPrepend
  /\ writerIndex_ = kCheapPrepend
  /\ given = <<>> /\ taken = <<>>

-----------------------------------------------------------------------------
(* The array: each operator takes and returns a record of the four parts   *)
(* of a Buffer, so that calls nest as they do in the code.                 *)

This == [data |-> buffer_, size |-> size, r |-> readerIndex_, w |-> writerIndex_]

Become(b) ==
  /\ buffer_' = b.data /\ size' = b.size
  /\ readerIndex_' = b.r /\ writerIndex_' = b.w

\* Mutant: the room in front of the data is counted from 0.
FitsFromZero(b, len) == b.size - b.w + b.r >= len

\* writable and prependable space together have room beside kCheapPrepend
Fits(b, len) == b.size - b.w + b.r >= len + kCheapPrepend

\* Mutant: it grows by len without looking for room in front.
MakeSpaceResizes(b, len) ==
  [b EXCEPT !.size = b.w + len,
            !.data = [i \in 0 .. b.w + len - 1 |-> IF i < b.size THEN b.data[i] ELSE Zero]]

\* resize, or move the unread bytes to the front
makeSpace(b, len) ==
  IF ~Fits(b, len)
    THEN [b EXCEPT !.size = b.w + len,
                   !.data = [i \in 0 .. b.w + len - 1 |->
                               IF i < b.size THEN b.data[i] ELSE Zero]]
    ELSE [b EXCEPT !.r = kCheapPrepend,
                   !.w = kCheapPrepend + b.w - b.r,
                   !.data = [i \in 0 .. b.size - 1 |->
                               IF i - kCheapPrepend \in 0 .. b.w - b.r - 1
                                 THEN b.data[b.r + i - kCheapPrepend]
                                 ELSE b.data[i]]]

ensureWritableBytes(b, len) ==
  IF b.size - b.w < len THEN makeSpace(b, len) ELSE b

\* std::copy to beginWrite(), then writerIndex_ += len
Write(b, s) ==
  [data |-> [i \in 0 .. b.size - 1 |->
               IF i - b.w \in 0 .. Len(s) - 1 THEN s[i - b.w + 1] ELSE b.data[i]],
   size |-> b.size, r |-> b.r, w |-> b.w + Len(s)]

append(b, s) == Write(ensureWritableBytes(b, Len(s)), s)

peek(n) == [i \in 1 .. n |-> buffer_[readerIndex_ + i - 1]]

-----------------------------------------------------------------------------
(* The operations                                                          *)

Strings(max) == UNION {[1 .. n -> Byte] : n \in 0 .. max}

AppendBytes(s) ==
  /\ Become(append(This, s))
  /\ given' = s /\ taken' = <<>>

\* Mutant: the part of the data in extrabuf goes where writerIndex_ was.
ReadFdForgetsFull(s) ==
  LET first == IF Len(s) < writableBytes THEN Len(s) ELSE writableBytes
  IN /\ Len(s) <= writableBytes + (IF writableBytes < ExtraSize THEN ExtraSize ELSE 0)
     /\ IF Len(s) <= writableBytes
          THEN Become(Write(This, s))
          ELSE Become(append(This, SubSeq(s, first + 1, Len(s))))
     /\ given' = s /\ taken' = <<>>

\* readv into the writable part and, unless that is large, into extrabuf,
\* from which the rest is appended
ReadFd(s) ==
  LET first == IF Len(s) < writableBytes THEN Len(s) ELSE writableBytes
  IN /\ Len(s) <= writableBytes + (IF writableBytes < ExtraSize THEN ExtraSize ELSE 0)
     /\ IF Len(s) <= writableBytes
          THEN Become(Write(This, s))
          ELSE Become(append(Write(This, SubSeq(s, 1, first)),
                             SubSeq(s, first + 1, Len(s))))
     /\ given' = s /\ taken' = <<>>

retrieve(n) ==
  /\ IF n < readableBytes
       THEN readerIndex_' = readerIndex_ + n /\ UNCHANGED writerIndex_
       ELSE readerIndex_' = kCheapPrepend /\ writerIndex_' = kCheapPrepend
  /\ UNCHANGED <<buffer_, size>>
  /\ given' = <<>>

\* retrieve, called with what writeFd has written; retrieveAll is the case
\* of all bytes
Retrieve(n) == retrieve(n) /\ taken' = <<>>

\* The callers ask for no more than is readable.
RetrieveAsString(n) == retrieve(n) /\ taken' = peek(n)

\* writeFd hands the kernel the unread bytes, of which it takes n
WriteFd(n) == taken' = peek(n) /\ given' = <<>> /\ UNCHANGED arrayVars

Next ==
  \/ \E s \in Strings(MaxReadable - readableBytes) : AppendBytes(s) \/ ReadFd(s)
  \/ \E n \in 0 .. readableBytes : Retrieve(n) \/ RetrieveAsString(n) \/ WriteFd(n)

Spec == Init /\ [][Next]_vars

-----------------------------------------------------------------------------
(* Properties                                                              *)

(* The array with its two indices is a queue of bytes: no operation loses, *)
(* invents or reorders one, also when makeSpace moves or grows the array   *)
(* under the data and readFd takes it from two pieces.                     *)
Queue == INSTANCE ByteQueue WITH bytes <- peek(readableBytes)
ImplementsByteQueue == Queue!Spec

(* The array grows only when what it would have to hold does not fit:      *)
(* space that was read is used again.                                      *)
GrowsOnlyWhenFull ==
  [][size' > size => kCheapPrepend + readableBytes' > size]_vars
=============================================================================
