---------------------------- MODULE MCTurnEngine ----------------------------
(* TurnEngine for TLC: every budget is a constant of the configuration.      *)
EXTENDS TurnEngine
=============================================================================
