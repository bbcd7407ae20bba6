---------------------------- MODULE MCLoopGuards ----------------------------
(* LoopGuards for TLC, with the thresholds of the code.                       *)
EXTENDS LoopGuards
=============================================================================
