---------------------------- MODULE MCEPollPoller ----------------------------
(* EPollPoller for TLC: what the configs need beside the specification.    *)
EXTENDS EPollPoller, TLC
=============================================================================
