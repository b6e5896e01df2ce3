----------------------------- MODULE MCTcpServer -----------------------------
(* TcpServer for TLC: what the configs need beside the specification.      *)
EXTENDS TcpServer
=============================================================================
