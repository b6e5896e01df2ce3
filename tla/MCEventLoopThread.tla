-------------------------- MODULE MCEventLoopThread --------------------------
(* EventLoopThread for TLC.                                                *)
EXTENDS EventLoopThread, TLC
=============================================================================
