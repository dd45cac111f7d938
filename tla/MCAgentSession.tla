--------------------------- MODULE MCAgentSession ----------------------------
(* Small instances of AgentSession for TLC. *)
EXTENDS AgentSessionRefinement

CONSTANTS c1, c2         \* contents of actions

OpenPlans    == {<<"review", "read">>, <<"missing">>}
ReviewPlan   == {<<"review">>}
MixedPlans   == {<<"read">>, <<"review", "read">>, <<"missing">>}
=============================================================================
