---------------------------- MODULE AgentflowAudit ----------------------------
(***************************************************************************)
(* The engine with an audit trail: history that no step of the engine      *)
(* reads, and the properties that need it.                                 *)
(***************************************************************************)
EXTENDS AgentflowEngine, FiniteSetsExt

VARIABLES
  runs,       \* how often each node completed in the current request
  answered,   \* how often each node of the latest execution was resumed
  passed      \* how often each node completed in the latest execution

auditVars == <<vars, runs, answered, passed>>

Zero == [n \in flow.nodes |-> 0]

Bump(f, n) == [f EXCEPT ![n] = @ + 1]

AuditInit == Init /\ runs = Zero /\ answered = Zero /\ passed = Zero

AStart ==
  /\ StartExecution
  /\ runs' = Zero /\ answered' = Zero /\ passed' = Zero

AResume ==
  /\ \E decision \in Decisions, named \in flow.nodes \cup {NoNode} :
       ResumeExecution(decision, named)
  /\ runs' = Zero
  /\ answered' = Bump(answered, humanInput'.node)
  /\ UNCHANGED passed

ATurn(n) ==
  \/ /\ Complete(n)
     /\ runs' = Bump(runs, n)
     /\ passed' = Bump(passed, n)
     /\ UNCHANGED answered
  \/ /\ ExceedBudget(n) \/ Terminate(n) \/ Fail(n) \/ Pause(n)
     /\ UNCHANGED <<runs, answered, passed>>

AStep ==
  \/ Finish /\ UNCHANGED <<runs, answered, passed>>
  \/ \E n \in flow.nodes : ATurn(n)

AOther == (Abort \/ Crash) /\ UNCHANGED <<runs, answered, passed>>

AuditNext == AStart \/ AResume \/ AStep \/ AOther

AuditSpec == AuditInit /\ [][AuditNext]_auditVars

FairAuditSpec == AuditSpec /\ WF_auditVars(AStep)

---------------------------------------------------------------------------
(* A human node lets an execution pass only on an answer given to that     *)
(* very node: an answer is used up by the node it was given to             *)
(* (buildAgentflow.ts clears humanInput when it consumes it).              *)
HumanGate ==
  \A n \in flow.nodes : flow.kind[n] = "human" => passed[n] <= answered[n]

(* Every run of a node uses up fresh inputs: it ran no more often than     *)
(* each of its required inputs, and no more often than the members of      *)
(* each of its conditional groups together.  The nodes a request or a loop *)
(* starts at have no inputs to wait for.                                   *)
LoopTargets == {flow.loopTo[n] : n \in {l \in flow.nodes : flow.kind[l] = "loop"}}

FreshInputs ==
  \A n \in flow.nodes \ (StartNodes(flow) \cup LoopTargets) :
    answered[n] = 0 =>
      /\ \A m \in ExpectedInputs(flow, n) : runs[n] <= runs[m]
      /\ \A g \in ConditionalGroups(flow, n) :
           runs[n] <= MapThenSumSet(LAMBDA m : runs[m], g)

(* The body of a loop runs at most as often in a request as the loop node  *)
(* allows, the first time included.                                        *)
LoopBodyBounded ==
  \A l \in {n \in flow.nodes : flow.kind[n] = "loop"} :
    runs[flow.loopTo[l]] <= LoopLimit(l)
===========================================================================
