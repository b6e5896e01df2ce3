------------------------------ MODULE MCBuffer ------------------------------
(* Buffer for TLC: what the configs need beside the specification.         *)
EXTENDS Buffer
=============================================================================
