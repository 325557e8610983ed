------------------------------- MODULE MCAudit -------------------------------
(* The engine with its audit trail, on small flows. *)
EXTENDS AgentflowAudit, MCFlows

WellFormedFlows ==
  {Approvals, Diamond, Branches, MixedJoin, Looping, Revision, Iterating, Reviewed,
   Busy}
===========================================================================
