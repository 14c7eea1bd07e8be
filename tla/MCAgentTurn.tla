---------------------------- MODULE MCAgentTurn ----------------------------
(* AgentTurn with the constants of its run, and the checks of what agents are given. *)
EXTENDS AgentTurn, ReviewInputChecks, TLC

MCCheckout == <<1, 2>>
=============================================================================
