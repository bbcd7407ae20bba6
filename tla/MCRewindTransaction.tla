------------------------ MODULE MCRewindTransaction ------------------------
(* Instance of RewindTransaction for TLC. *)
EXTENDS RewindTransaction
============================================================================
