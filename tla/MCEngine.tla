------------------------------- MODULE MCEngine -------------------------------
(* The engine alone, on small flows. *)
EXTENDS AgentflowEngine, MCFlows

LinearFlows == {Approvals, Branches, Looping, Reviewed, Revision}
BesideHumanFlow == {BesideHuman}
===========================================================================
