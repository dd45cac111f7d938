---------------------------- MODULE MCAgentHost -----------------------------
(* A small instance of AgentHost for TLC. *)
EXTENDS AgentHost, TLC

CONSTANTS c1, c2   \* two clicks on the same send button

ClickSymmetry == Permutations(Clicks)
=============================================================================
