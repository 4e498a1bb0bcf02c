--------------------------- MODULE MCMutexCounter ---------------------------
(* Instances of MutexCounter for TLC. *)
EXTENDS MutexCounter
=============================================================================
