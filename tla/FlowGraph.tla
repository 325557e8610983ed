----------------------------- MODULE FlowGraph -----------------------------
(***************************************************************************)
(* The agentflow graph as the engine reads it: children, start nodes, the  *)
(* dependencies of a node and the branches a decision switches off.        *)
(* Translated from utils/index.ts (constructGraphs, getStartingNode) and   *)
(* utils/buildAgentflow.ts (setupNodeDependencies, findConditionParent,    *)
(* hasReceivedRequiredInputs, determineNodesToIgnore).                     *)
(*                                                                         *)
(* A flow is a record:                                                     *)
(*   nodes   the node ids (sticky notes are filtered out by the code)      *)
(*   kind    what each node is; conditionAgentflow and                     *)
(*           conditionAgentAgentflow are both "condition"                  *)
(*   edges   the sequence of edges [src, dst, out]; out is the number of   *)
(*           the source handle, from 1 (the code counts from 0)            *)
(*   outs    the number of conditions a decision node answers              *)
(*   parent  the iteration node a node is drawn in (extent 'parent')       *)
(*   loopTo  the node a loop node goes back to                             *)
(*   maxLoop the maximum loop count of a loop node                         *)
(***************************************************************************)
EXTENDS Naturals, Sequences, FiniteSets, SequenceKeep

CONSTANT NoNode      \* null: no node

Kinds == {"start", "plain", "condition", "human", "agent", "loop", "iteration"}

DecisionKinds == {"condition", "human"}

IsFlow(f) ==
  /\ NoNode \notin f.nodes
  /\ IsFiniteSet(f.nodes)
  /\ f.kind \in [f.nodes -> Kinds]
  /\ f.edges \in Seq([src : f.nodes, dst : f.nodes, out : Nat])
  /\ f.outs \in [f.nodes -> Nat]
  /\ f.parent \in [f.nodes -> f.nodes \cup {NoNode}]
  /\ f.loopTo \in [f.nodes -> f.nodes]
  /\ f.maxLoop \in [f.nodes -> Nat]

EdgeSet(f) == {f.edges[i] : i \in DOMAIN f.edges}

(* graph[n]: the targets of n's edges, in the order of the edges. *)
Children(f, n) ==
  LET out == Keep(f.edges, {e \in EdgeSet(f) : e.src = n})
  IN  [i \in DOMAIN out |-> out[i].dst]

Parents(f, n) == {e.src : e \in {d \in EdgeSet(f) : d.dst = n}}

Inside(f) == {n \in f.nodes : f.parent[n] # NoNode}

(* getStartingNode, then checkForMultipleStartNodes: a node without        *)
(* incoming edges, unless it is drawn inside an iteration.                 *)
StartNodes(f) == {n \in f.nodes : Parents(f, n) = {}} \ Inside(f)

---------------------------------------------------------------------------
(***************************************************************************)
(* findConditionParent walks up from a node until it meets a decision      *)
(* node, always through the first edge that enters the current node.  The  *)
(* walk visits at most every node once, which the bound on k stands for.   *)
(***************************************************************************)
FirstOf(I) == CHOOSE i \in I : \A j \in I : i <= j

FirstParent(f, n) ==
  LET entering == {i \in DOMAIN f.edges : f.edges[i].dst = n}
  IN  IF entering = {} THEN NoNode ELSE f.edges[FirstOf(entering)].src

IsDecision(f, n) == n # NoNode /\ f.kind[n] \in DecisionKinds

FindConditionParent(f, n) ==
  LET up[k \in 0..Cardinality(f.nodes)] ==
        IF k = 0 THEN n
        ELSE IF up[k-1] = NoNode \/ IsDecision(f, up[k-1]) THEN up[k-1]
        ELSE FirstParent(f, up[k-1])
      top == up[Cardinality(f.nodes)]
  IN  IF IsDecision(f, top) THEN top ELSE NoNode

---------------------------------------------------------------------------
(***************************************************************************)
(* setupNodeDependencies splits the inputs of a node: those under no       *)
(* decision are all required, those under the same decision form a group   *)
(* of which one is enough.                                                 *)
(***************************************************************************)
ExpectedInputs(f, n) == {m \in Parents(f, n) : FindConditionParent(f, m) = NoNode}

ConditionalGroups(f, n) ==
  LET conditional == Parents(f, n) \ ExpectedInputs(f, n)
  IN  {{m \in conditional : FindConditionParent(f, m) = c} :
         c \in {FindConditionParent(f, m) : m \in conditional}}

MutAnyInput(f, n, received) ==
  /\ ExpectedInputs(f, n) # {} => ExpectedInputs(f, n) \cap received # {}
  /\ \A g \in ConditionalGroups(f, n) : g \cap received # {}

MutAllOfGroup(f, n, received) ==
  /\ ExpectedInputs(f, n) \subseteq received
  /\ \A g \in ConditionalGroups(f, n) : g \subseteq received

HasReceivedRequiredInputs(f, n, received) ==
  /\ ExpectedInputs(f, n) \subseteq received
  /\ \A g \in ConditionalGroups(f, n) : g \cap received # {}

---------------------------------------------------------------------------
(***************************************************************************)
(* determineNodesToIgnore: fulfilled is the sequence of the conditions'    *)
(* isFulfilled flags, << >> when the result has no conditions.  When none  *)
(* is fulfilled the last one is taken to be.  For each unfulfilled         *)
(* condition the target of the FIRST edge of its handle is ignored.        *)
(***************************************************************************)
MutNoFallback(fulfilled) == fulfilled

WithFallback(fulfilled) ==
  IF \E i \in DOMAIN fulfilled : fulfilled[i] THEN fulfilled
  ELSE [i \in DOMAIN fulfilled |-> i = Len(fulfilled)]

MutIgnoreFirstOnly(f, n, fulfilled) ==
  LET edgesOf(i) == {j \in DOMAIN f.edges : f.edges[j].src = n /\ f.edges[j].out = i}
      unfulfilled == {i \in DOMAIN fulfilled : i = 1 /\ ~ WithFallback(fulfilled)[i]}
  IN  IF f.kind[n] \notin DecisionKinds THEN {}
      ELSE {f.edges[FirstOf(edgesOf(i))].dst : i \in {u \in unfulfilled : edgesOf(u) # {}}}

DetermineNodesToIgnore(f, n, fulfilled) ==
  LET edgesOf(i) == {j \in DOMAIN f.edges : f.edges[j].src = n /\ f.edges[j].out = i}
      unfulfilled == {i \in DOMAIN fulfilled : ~ WithFallback(fulfilled)[i]}
  IN  IF f.kind[n] \notin DecisionKinds THEN {}
      ELSE {f.edges[FirstOf(edgesOf(i))].dst : i \in {u \in unfulfilled : edgesOf(u) # {}}}

===========================================================================
