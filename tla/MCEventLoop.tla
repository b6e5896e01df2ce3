----------------------------- MODULE MCEventLoop -----------------------------
(* EventLoop for TLC: what the configs need beside the specification.      *)
EXTENDS EventLoop, TLC
=============================================================================
