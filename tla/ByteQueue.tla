------------------------------ MODULE ByteQueue ------------------------------
(***************************************************************************)
(* What Buffer promises: a queue of bytes.  What goes in comes out, in the *)
(* order it went in; Buffer.tla implements it on one array with two        *)
(* indices.                                                                *)
(***************************************************************************)
EXTENDS Sequences, Naturals

CONSTANT Byte

VARIABLES bytes,             \* unread, oldest first
          given,             \* what the last operation put in
          taken              \* what the last operation handed out

vars == <<bytes, given, taken>>

Init == bytes = <<>> /\ given = <<>> /\ taken = <<>>

Put == /\ given' \in Seq(Byte)
       /\ bytes' = bytes \o given'
       /\ taken' = <<>>

\* retrieve(n) only drops bytes, the others also return them
Take(n, out) ==
  /\ bytes' = SubSeq(bytes, n + 1, Len(bytes))
  /\ taken' = IF out THEN SubSeq(bytes, 1, n) ELSE <<>>
  /\ given' = <<>>

Show(n) ==
  /\ taken' = SubSeq(bytes, 1, n)
  /\ given' = <<>>
  /\ UNCHANGED bytes

Next ==
  \/ Put
  \/ \E n \in 0 .. Len(bytes) : Show(n) \/ Take(n, TRUE) \/ Take(n, FALSE)

Spec == Init /\ [][Next]_vars
=============================================================================
