--------------------------- MODULE MCTcpConnection ---------------------------
(* TcpConnection for TLC: messages and files of two units, or of one.      *)
EXTENDS TcpConnection, TLC

CONSTANTS m1, m2, f1

MCSize == [d \in Msg \cup File |-> IF d = m2 THEN 1 ELSE 2]
=============================================================================
