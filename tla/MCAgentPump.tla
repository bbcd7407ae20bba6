---------------------------- MODULE MCAgentPump ----------------------------
(* Instantiates AgentPump for TLC; MCAgentPump.cfg gives the constants.    *)
EXTENDS AgentPump
=============================================================================
