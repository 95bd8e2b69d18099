----------------------------- MODULE MCAgentCli -----------------------------
(* Instances of AgentCli for TLC; the cfg files choose among them.         *)
EXTENDS AgentCli

CONSTANTS p1, p2
=============================================================================
