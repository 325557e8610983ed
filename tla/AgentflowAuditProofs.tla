------------------------- MODULE AgentflowAuditProofs -------------------------
(***************************************************************************)
(* What the engine does to the nodes of one execution, over its requests.  *)
(*                                                                         *)
(* A human node never lets an execution pass without an answer given to    *)
(* it.  HumanGate alone is not inductive: a resumption counts the answer   *)
(* before the node runs, so what matters is that the answer is for the     *)
(* node at the head of the queue and is gone when that node has run.       *)
(*                                                                         *)
(* A node runs on inputs that it has not run on before, and the body of a  *)
(* loop as often as the loop node allows.  Neither is inductive: a node is *)
(* paid for by what its parents have run, by the request that began at it  *)
(* and by the loop nodes that went back to it, and has spent it on its     *)
(* runs, on its copies in the queue and on the results that it holds.      *)
(* OriginInv says that for every set of parents that the node waits for.   *)
(* The sections before it are about what it counts with: sums over a set   *)
(* of nodes and copies in a sequence.                                      *)
(*                                                                         *)
(* A decision runs one of its outputs: what its turn delivers is taken     *)
(* apart in the last section.                                              *)
(***************************************************************************)
EXTENDS AgentflowAudit, AgentflowEngineProofs, FiniteSetTheorems

(* The answer that was given and not used yet. *)
Pending(n) == IF humanInput.node = n THEN 1 ELSE 0

GateInv ==
  /\ TypeOK
  /\ passed \in [flow.nodes -> Nat]
  /\ answered \in [flow.nodes -> Nat]
  /\ humanInput = NoHuman \/ humanInput.node \in flow.nodes
  /\ humanInput # NoHuman => queue = << >> \/ queue = <<humanInput.node>>
  /\ \A n \in flow.nodes :
       flow.kind[n] = "human" => passed[n] + Pending(n) <= answered[n]

LEMMA NoNodeOutside == TypeOK => NoNode \notin flow.nodes
BY FlowType DEF TypeOK, IsFlow

(* A turn uses the answer up. *)
LEMMA AnswerIsUsed ==
  ASSUME GateInv, NEW n \in flow.nodes, Turn(n)
  PROVE  /\ AfterConsumption(n) = NoHuman
         /\ humanInput # NoHuman => humanInput.node = n
<1>1. CASE humanInput = NoHuman
  BY <1>1, NoNodeOutside DEF GateInv, AfterConsumption, NoHuman
<1>2. CASE humanInput # NoHuman
  <2>1. queue = <<humanInput.node>>  BY <1>2 DEF GateInv, Turn
  <2>2. n = humanInput.node  BY <2>1 DEF Turn
  <2> QED  BY <2>2 DEF AfterConsumption
<1> QED  BY <1>1, <1>2

LEMMA CompletePasses ==
  ASSUME GateInv, TypeOK', NEW n \in flow.nodes, Complete(n),
         passed' = Bump(passed, n), UNCHANGED answered
  PROVE  GateInv'
<1>1. Turn(n) /\ UNCHANGED flow  BY DEF Complete
<1>2. humanInput' = NoHuman
  <2>1. PICK fulfilled \in Verdicts(n) : ProcessNodeOutputs(n, fulfilled)
    BY DEF Complete
  <2>2. humanInput' = IF LoopsBack(n) THEN NoHuman ELSE AfterConsumption(n)
    BY <2>1 DEF ProcessNodeOutputs
  <2> QED  BY <1>1, <2>2, AnswerIsUsed
<1>3. passed' = [passed EXCEPT ![n] = @ + 1]  BY DEF Bump
<1>4. NoNode \notin flow.nodes  BY NoNodeOutside DEF GateInv
<1>5. ASSUME NEW m \in flow.nodes, flow.kind[m] = "human"
      PROVE  passed'[m] <= answered[m]
  <2>1. passed[m] \in Nat /\ answered[m] \in Nat /\ passed[m] + Pending(m) <= answered[m]
    BY <1>5 DEF GateInv
  <2>2. CASE m # n
    BY <1>3, <2>1, <2>2 DEF GateInv, Pending
  <2>3. CASE m = n
    <3>1. humanInput # NoHuman  BY <1>5, <2>3 DEF Complete
    <3>2. humanInput.node = n  BY <1>1, <3>1, AnswerIsUsed
    <3> QED  BY <1>3, <2>1, <2>3, <3>2 DEF GateInv, Pending
  <2> QED  BY <2>2, <2>3
<1>6. passed' \in [flow.nodes -> Nat]  BY <1>3 DEF GateInv
<1>7. \A m \in flow.nodes : Pending(m)' = 0
  BY <1>2, <1>4 DEF Pending, NoHuman
<1> QED
  <2>1. \A m \in flow.nodes :
          flow.kind[m] = "human" => passed'[m] + Pending(m)' <= answered'[m]
    <3>1. ASSUME NEW m \in flow.nodes, flow.kind[m] = "human"
          PROVE  passed'[m] + Pending(m)' <= answered'[m]
      <4>1. passed'[m] \in Nat /\ passed'[m] <= answered[m] /\ Pending(m)' = 0
        BY <1>5, <1>6, <1>7, <3>1
      <4> QED  BY <4>1
    <3> QED  BY <3>1
  <2>2. NoHuman' = NoHuman  BY DEF NoHuman
  <2> QED  BY <1>1, <1>2, <1>6, <2>1, <2>2 DEF GateInv

(* Steps that use no answer and give none. *)
LEMMA OtherSteps ==
  ASSUME GateInv, TypeOK', UNCHANGED <<flow, passed, answered>>,
         humanInput' = NoHuman \/ UNCHANGED <<humanInput, queue>>
  PROVE  GateInv'
<1>1. \A m \in flow.nodes :
        flow.kind[m] = "human" => passed'[m] + Pending(m)' <= answered'[m]
  <2>1. ASSUME NEW m \in flow.nodes, flow.kind[m] = "human"
        PROVE  passed'[m] + Pending(m)' <= answered'[m]
    <3>1. passed[m] \in Nat /\ answered[m] \in Nat /\ passed[m] + Pending(m) <= answered[m]
      BY <2>1 DEF GateInv
    <3>2. NoNode \notin flow.nodes  BY NoNodeOutside DEF GateInv
    <3>3. Pending(m)' = Pending(m) \/ Pending(m)' = 0
      BY <3>2 DEF Pending, NoHuman
    <3>4. Pending(m) \in {0, 1}  BY DEF Pending
    <3> QED  BY <3>1, <3>3, <3>4
  <2> QED  BY <2>1
<1>2. NoHuman' = NoHuman  BY DEF NoHuman
<1> QED  BY <1>1, <1>2 DEF GateInv

LEMMA ResumeAnswers ==
  ASSUME GateInv, TypeOK', NEW decision \in Decisions, NEW named,
         ResumeExecution(decision, named),
         answered' = Bump(answered, humanInput'.node), UNCHANGED passed
  PROVE  GateInv'
<1>1. PICK n \in flow.nodes :
        /\ humanInput' = [node |-> n, decision |-> decision]
        /\ queue' = IF n \in Inside(flow) THEN << >> ELSE <<n>>
  BY DEF ResumeExecution, BeginRequest
<1>2. UNCHANGED flow /\ humanInput = NoHuman
  BY DEF ResumeExecution, GateInv, TypeOK
<1>3. NoNode \notin flow.nodes  BY NoNodeOutside DEF GateInv
<1>4. answered' = [answered EXCEPT ![n] = @ + 1]  BY <1>1 DEF Bump
<1>5. ASSUME NEW m \in flow.nodes, flow.kind[m] = "human"
      PROVE  passed'[m] + Pending(m)' <= answered'[m]
  <2>1. passed[m] \in Nat /\ answered[m] \in Nat /\ passed[m] + Pending(m) <= answered[m]
    BY <1>5 DEF GateInv
  <2>2. Pending(m) = 0  BY <1>2, <1>3 DEF Pending, NoHuman
  <2>3. CASE m = n
    <3>1. answered'[m] = answered[m] + 1  BY <1>4, <2>3 DEF GateInv
    <3>2. Pending(m)' \in {0, 1}  BY DEF Pending
    <3> QED  BY <2>1, <2>2, <3>1, <3>2
  <2>4. CASE m # n
    <3>1. answered'[m] = answered[m]  BY <1>4, <2>4 DEF GateInv
    <3>2. Pending(m)' = 0  BY <1>1, <2>4 DEF Pending
    <3> QED  BY <2>1, <2>2, <3>1, <3>2
  <2> QED  BY <2>3, <2>4
<1>6. answered' \in [flow.nodes -> Nat]  BY <1>4 DEF GateInv
<1> QED  BY <1>1, <1>2, <1>5, <1>6 DEF GateInv

LEMMA StartResets ==
  ASSUME GateInv, TypeOK', StartExecution, passed' = Zero, answered' = Zero
  PROVE  GateInv'
<1>1. humanInput' = NoHuman /\ UNCHANGED flow
  BY DEF StartExecution, BeginRequest
<1>2. NoNode \notin flow.nodes  BY NoNodeOutside DEF GateInv
<1>3. \A m \in flow.nodes : passed'[m] = 0 /\ answered'[m] = 0 /\ Pending(m)' = 0
  BY <1>1, <1>2 DEF Zero, Pending, NoHuman
<1>4. passed' \in [flow.nodes -> Nat] /\ answered' \in [flow.nodes -> Nat]
  BY DEF Zero
<1>5. \A m \in flow.nodes :
        flow.kind[m] = "human" => passed'[m] + Pending(m)' <= answered'[m]
  BY <1>3
<1>6. NoHuman' = NoHuman  BY DEF NoHuman
<1> QED  BY <1>1, <1>4, <1>5, <1>6 DEF GateInv

LEMMA GateStep ==
  ASSUME GateInv, [AuditNext]_auditVars
  PROVE  GateInv'
<1>1. [Next]_vars
  BY DEF AuditNext, auditVars, AStart, AResume, AStep, ATurn, AOther, Next, Step, ExecuteNode
<1>2. TypeOK'  BY <1>1, StepType DEF GateInv
<1>3. CASE AStart
  BY <1>2, <1>3, StartResets DEF AStart
<1>4. CASE AResume
  BY <1>2, <1>4, ResumeAnswers DEF AResume
<1>5. ASSUME NEW n \in flow.nodes, ATurn(n) PROVE GateInv'
  <2>1. CASE Complete(n) /\ passed' = Bump(passed, n) /\ UNCHANGED answered
    BY <1>2, <2>1, CompletePasses
  <2>2. CASE Pause(n) /\ UNCHANGED <<answered, passed>>
    <3>1. humanInput' = NoHuman /\ UNCHANGED flow
      BY <2>2, AnswerIsUsed DEF Pause
    <3> QED  BY <1>2, <2>2, <3>1, OtherSteps
  <2>3. CASE (ExceedBudget(n) \/ Terminate(n) \/ Fail(n)) /\ UNCHANGED <<answered, passed>>
    BY <1>2, <2>3, OtherSteps DEF ExceedBudget, Terminate, Fail, FailWith, EndRequest
  <2> QED  BY <1>5, <2>1, <2>2, <2>3 DEF ATurn
<1>6. CASE Finish /\ UNCHANGED <<answered, passed>>
  BY <1>2, <1>6, OtherSteps DEF Finish, EndRequest
<1>7. CASE AOther
  BY <1>2, <1>7, OtherSteps DEF AOther, Abort, Crash, EndRequest
<1>8. CASE UNCHANGED auditVars
  BY <1>2, <1>8, OtherSteps DEF auditVars, vars
<1> QED
  BY <1>3, <1>4, <1>5, <1>6, <1>7, <1>8 DEF AuditNext, AStep

(* It holds at first, nobody has answered. *)
LEMMA GateInit == AuditInit => GateInv
<1> SUFFICES ASSUME AuditInit PROVE GateInv  OBVIOUS
<1>1. TypeOK /\ humanInput = NoHuman  BY InitType DEF AuditInit, Init
<1>2. NoNode \notin flow.nodes  BY <1>1, NoNodeOutside
<1>3. \A n \in flow.nodes : passed[n] = 0 /\ answered[n] = 0 /\ Pending(n) = 0
  BY <1>1, <1>2 DEF AuditInit, Zero, Pending, NoHuman
<1>4. passed \in [flow.nodes -> Nat] /\ answered \in [flow.nodes -> Nat]
  BY DEF AuditInit, Zero
<1> QED  BY <1>1, <1>3, <1>4 DEF GateInv

(* A human node completes in an execution at most as often as it was       *)
(* answered: whatever the flow, an approval cannot be passed over, nor one *)
(* answer serve two human nodes, nor one node twice (executeNode clears    *)
(* humanInput when it consumes it).                                        *)
THEOREM HumanNodesWait == AuditSpec => []HumanGate
<1>1. AuditInit => GateInv  BY GateInit
<1>2. GateInv => HumanGate
  <2> SUFFICES ASSUME GateInv, NEW n \in flow.nodes, flow.kind[n] = "human"
               PROVE  passed[n] <= answered[n]
    BY DEF HumanGate
  <2>1. passed[n] \in Nat /\ answered[n] \in Nat /\ passed[n] + Pending(n) <= answered[n]
    BY DEF GateInv
  <2>2. Pending(n) \in {0, 1}  BY DEF Pending
  <2> QED  BY <2>1, <2>2
<1> QED  BY <1>1, <1>2, GateStep, PTL DEF AuditSpec


---------------------------------------------------------------------------
(* The sum of f over a finite set, the way the modules of the properties    *)
(* write it, and the function over the subsets that its definition picks.  *)
Total(f, S) == MapThenSumSet(LAMBDA m : f[m], S)

One(s) == CHOOSE x \in s : TRUE

TotalStep(I, f, s) == IF s = {} THEN 0 ELSE f[One(s)] + I[s \ {One(s)}]

IsTotal(I, f, S) == I = [s \in SUBSET S |-> TotalStep(I, f, s)]

(* The sum in the words of this section. *)
LEMMA TotalIs ==
  ASSUME NEW f, NEW S
  PROVE  Total(f, S) = (CHOOSE I : IsTotal(I, f, S))[S]
BY DEF Total, MapThenSumSet, MapThenFoldSet, IsTotal, TotalStep, One

(* The sets of at most k elements. *)
Upto(S, k) == {s \in SUBSET S : Cardinality(s) <= k}

(* One element less. *)
LEMMA Smaller ==
  ASSUME NEW S, IsFiniteSet(S), NEW s \in SUBSET S, s # {}
  PROVE  /\ One(s) \in s
         /\ s \ {One(s)} \in SUBSET S
         /\ IsFiniteSet(s)
         /\ Cardinality(s) \in Nat \ {0}
         /\ Cardinality(s \ {One(s)}) = Cardinality(s) - 1
<1>1. One(s) \in s  BY DEF One
<1>2. IsFiniteSet(s)  BY FS_Subset
<1>3. Cardinality(s) \in Nat  BY <1>2, FS_CardinalityType
<1>4. Cardinality(s) # 0  BY <1>2, FS_EmptySet
<1>5. Cardinality(s \ {One(s)}) = Cardinality(s) - 1  BY <1>1, <1>2, FS_RemoveElement
<1> QED  BY <1>1, <1>2, <1>3, <1>4, <1>5

(* Sizes of subsets. *)
LEMMA SubsetSize ==
  ASSUME NEW S, IsFiniteSet(S), NEW s \in SUBSET S
  PROVE  Cardinality(s) \in Nat /\ (Cardinality(s) = 0 <=> s = {})
<1>1. IsFiniteSet(s)  BY FS_Subset
<1> QED  BY <1>1, FS_CardinalityType, FS_EmptySet

(* The function exists, by induction on the size of the subsets. *)
LEMMA TotalExists ==
  ASSUME NEW f, NEW S, IsFiniteSet(S)
  PROVE  \E I : IsTotal(I, f, S)
<1> DEFINE Part(I, k) == I = [s \in Upto(S, k) |-> TotalStep(I, f, s)]
           G == {k \in Nat : \E I : Part(I, k)}
<1>1. 0 \in G
  <2> DEFINE I == [s \in Upto(S, 0) |-> 0]
  <2>1. ASSUME NEW s \in Upto(S, 0) PROVE TotalStep(I, f, s) = 0
    <3>1. s = {}
      <4>1. s \in SUBSET S /\ Cardinality(s) <= 0  BY DEF Upto
      <4>2. Cardinality(s) \in Nat /\ (Cardinality(s) = 0 <=> s = {})  BY <4>1, SubsetSize
      <4> QED  BY <4>1, <4>2
    <3> QED  BY <3>1 DEF TotalStep
  <2>2. Part(I, 0)  BY <2>1
  <2> HIDE DEF I, Part
  <2> QED  BY <2>2
<1>2. ASSUME NEW k \in G PROVE k + 1 \in G
  <2>1. k \in Nat  OBVIOUS
  <2>2. PICK I : Part(I, k)  OBVIOUS
  <2> DEFINE J == [s \in Upto(S, k + 1) |-> TotalStep(I, f, s)]
  <2>3. ASSUME NEW s \in Upto(S, k + 1) PROVE TotalStep(I, f, s) = TotalStep(J, f, s)
    <3>1. CASE s = {}  BY <3>1 DEF TotalStep
    <3>2. CASE s # {}
      <4> DEFINE t == s \ {One(s)}
      <4>1. s \in SUBSET S /\ Cardinality(s) <= k + 1  BY DEF Upto
      <4>2. t \in SUBSET S /\ Cardinality(t) = Cardinality(s) - 1 /\ Cardinality(s) \in Nat
        BY <3>2, <4>1, Smaller
      <4> HIDE DEF t
      <4>3. Cardinality(t) <= k /\ Cardinality(t) <= k + 1  BY <2>1, <4>1, <4>2
      <4>4. t \in Upto(S, k) /\ t \in Upto(S, k + 1)  BY <4>2, <4>3 DEF Upto
      <4>5. I[t] = TotalStep(I, f, t)  BY <2>2, <4>4
      <4>6. J[t] = TotalStep(I, f, t)  BY <4>4
      <4> QED  BY <3>2, <4>5, <4>6 DEF TotalStep, t
    <3> QED  BY <3>1, <3>2
  <2>4. Part(J, k + 1)  BY <2>3
  <2> HIDE DEF J, Part
  <2> QED  BY <2>1, <2>4
<1> HIDE DEF G
<1>3. G = Nat
  <2>1. G \in SUBSET Nat  BY DEF G
  <2> QED  BY <1>1, <1>2, <2>1, SetInduction
<1>4. Cardinality(S) \in Nat  BY FS_CardinalityType
<1>5. PICK I : Part(I, Cardinality(S))  BY <1>3, <1>4 DEF G
<1>6. Upto(S, Cardinality(S)) = SUBSET S
  <2>1. \A s \in SUBSET S : Cardinality(s) <= Cardinality(S)  BY FS_Subset
  <2> QED  BY <2>1 DEF Upto
<1>7. IsTotal(I, f, S)  BY <1>5, <1>6 DEF IsTotal
<1> QED  BY <1>7

(* The equations of the sum over the subsets of S. *)
Sums(I, f, S) ==
  /\ Total(f, S) = I[S]
  /\ \A s \in SUBSET S : I[s] = TotalStep(I, f, s)

(* The sum satisfies its equations. *)
LEMMA TotalSums ==
  ASSUME NEW f, NEW S, IsFiniteSet(S)
  PROVE  \E I : Sums(I, f, S)
<1> DEFINE I == CHOOSE J : IsTotal(J, f, S)
<1>1. IsTotal(I, f, S)  BY TotalExists
<1>2. Total(f, S) = I[S]  BY TotalIs
<1> HIDE DEF I
<1>3. ASSUME NEW s \in SUBSET S PROVE I[s] = TotalStep(I, f, s)
  <2> DEFINE F(t) == TotalStep(I, f, t)
  <2>1. I = [t \in SUBSET S |-> F(t)]  BY <1>1 DEF IsTotal
  <2> HIDE DEF F
  <2>2. I[s] = F(s)  BY <2>1
  <2> QED  BY <2>2 DEF F
<1> QED  BY <1>2, <1>3 DEF Sums

(* A sum of naturals is one. *)
LEMMA TotalType ==
  ASSUME NEW D, NEW f \in [D -> Nat], NEW S \in SUBSET D, IsFiniteSet(S)
  PROVE  Total(f, S) \in Nat
<1>1. PICK I : Sums(I, f, S)
  BY TotalSums
<1> DEFINE G == {k \in Nat : \A s \in SUBSET S : Cardinality(s) = k => I[s] \in Nat}
<1>2. 0 \in G
  <2>1. ASSUME NEW s \in SUBSET S, Cardinality(s) = 0 PROVE I[s] \in Nat
    <3>1. s = {}  BY <2>1, SubsetSize
    <3> QED  BY <1>1, <3>1 DEF TotalStep, Sums
  <2> QED  BY <2>1
<1>3. ASSUME NEW k \in G PROVE k + 1 \in G
  <2>1. ASSUME NEW s \in SUBSET S, Cardinality(s) = k + 1 PROVE I[s] \in Nat
    <3>1. s # {}
      <4>1. Cardinality(s) = 0 <=> s = {}  BY SubsetSize
      <4>2. k \in Nat  OBVIOUS
      <4> QED  BY <2>1, <4>1, <4>2
    <3> DEFINE t == s \ {One(s)}
    <3>2. t \in SUBSET S /\ Cardinality(t) = Cardinality(s) - 1 /\ One(s) \in D
      BY <3>1, Smaller
    <3>3. I[s] = f[One(s)] + I[t]  BY <1>1, <3>1 DEF TotalStep, Sums
    <3> HIDE DEF t
    <3>4. Cardinality(t) = k  BY <2>1, <3>2
    <3>5. I[t] \in Nat  BY <3>2, <3>4
    <3> QED  BY <3>2, <3>3, <3>5
  <2> QED  BY <2>1
<1> HIDE DEF G
<1>4. G = Nat
  <2>1. G \in SUBSET Nat  BY DEF G
  <2> QED  BY <1>2, <1>3, <2>1, SetInduction
<1>5. Cardinality(S) \in Nat  BY FS_CardinalityType
<1> QED  BY <1>1, <1>4, <1>5 DEF G, Sums

(* One if n is in G. *)
In(n, G) == IF n \in G THEN 1 ELSE 0

(* One more at x is one more in the sum, if x is among the terms. *)
LEMMA TotalBump ==
  ASSUME NEW D, NEW f \in [D -> Nat], NEW S \in SUBSET D, IsFiniteSet(S), NEW x \in D,
         NEW g, g = Bump(f, x)
  PROVE  Total(g, S) = Total(f, S) + In(x, S)
<1>1. PICK I : Sums(I, f, S)
  BY TotalSums
<1>2. PICK J : Sums(J, g, S)
  BY TotalSums
<1> DEFINE P(s) == I[s] \in Nat /\ J[s] = I[s] + (IF x \in s THEN 1 ELSE 0)
           G == {k \in Nat : \A s \in SUBSET S : Cardinality(s) = k => P(s)}
<1>3. 0 \in G
  <2>1. ASSUME NEW s \in SUBSET S, Cardinality(s) = 0 PROVE P(s)
    <3>1. s = {}  BY <2>1, SubsetSize
    <3>2. I[s] = 0 /\ J[s] = 0  BY <1>1, <1>2, <3>1 DEF TotalStep, Sums
    <3> QED  BY <3>1, <3>2
  <2> QED  BY <2>1
<1>4. ASSUME NEW k \in G PROVE k + 1 \in G
  <2>1. ASSUME NEW s \in SUBSET S, Cardinality(s) = k + 1 PROVE P(s)
    <3>1. s # {}
      <4>1. Cardinality(s) = 0 <=> s = {}  BY SubsetSize
      <4>2. k \in Nat  OBVIOUS
      <4> QED  BY <2>1, <4>1, <4>2
    <3> DEFINE t == s \ {One(s)}
               o == One(s)
    <3>2. t \in SUBSET S /\ Cardinality(t) = Cardinality(s) - 1 /\ o \in D /\ o \in s
      BY <3>1, Smaller
    <3>3. I[s] = f[o] + I[t] /\ J[s] = g[o] + J[t]  BY <1>1, <1>2, <3>1 DEF TotalStep, Sums
    <3>4. x \in t <=> x \in s /\ x # o  OBVIOUS
    <3> HIDE DEF t, o
    <3>5. Cardinality(t) = k  BY <2>1, <3>2
    <3>6. P(t)  BY <3>2, <3>5
    <3>7. f[o] \in Nat /\ g[o] = f[o] + (IF x = o THEN 1 ELSE 0)  BY <3>2 DEF Bump
    <3> QED  BY <3>2, <3>3, <3>4, <3>6, <3>7
  <2> QED  BY <2>1
<1> HIDE DEF G
<1>5. G = Nat
  <2>1. G \in SUBSET Nat  BY DEF G
  <2> QED  BY <1>3, <1>4, <2>1, SetInduction
<1>6. Cardinality(S) \in Nat  BY FS_CardinalityType
<1> QED  BY <1>1, <1>2, <1>5, <1>6 DEF G, Sums, In

(* Sums of one term, and of none. *)
LEMMA TotalSmall ==
  ASSUME NEW f
  PROVE  /\ Total(f, {}) = 0
         /\ \A x : f[x] \in Nat => Total(f, {x}) = f[x]
<1>1. Total(f, {}) = 0
  <2>1. PICK I : Sums(I, f, {})
    BY TotalSums, FS_EmptySet
  <2> QED  BY <2>1 DEF TotalStep, Sums
<1>2. ASSUME NEW x, f[x] \in Nat PROVE Total(f, {x}) = f[x]
  <2>1. IsFiniteSet({x})  BY FS_Singleton
  <2>2. PICK I : Sums(I, f, {x})
    BY <2>1, TotalSums
  <2>3. One({x}) = x  BY DEF One
  <2>4. I[{}] = 0  BY <2>2 DEF TotalStep, Sums
  <2>5. {x} \ {One({x})} = {}  BY <2>3
  <2>6. I[{x}] = f[x] + I[{}]  BY <2>2, <2>3, <2>5 DEF TotalStep, Sums
  <2> QED  BY <1>2, <2>2, <2>4, <2>6 DEF Sums
<1> QED  BY <1>1, <1>2

---------------------------------------------------------------------------
(* How often n is in a sequence. *)
Places(q, n) == {i \in DOMAIN q : q[i] = n}
Occurs(q, n) == Cardinality(Places(q, n))

(* A count is a natural number: zero for what is not there, at most one     *)
(* where nothing is repeated.                                              *)
LEMMA OccursType ==
  ASSUME NEW S, NEW q \in Seq(S), NEW n
  PROVE  /\ IsFiniteSet(Places(q, n)) /\ Occurs(q, n) \in Nat
         /\ (\A i \in DOMAIN q : q[i] # n) => Occurs(q, n) = 0
         /\ (\A i, j \in DOMAIN q : q[i] = q[j] => i = j) => Occurs(q, n) <= 1
<1>1. DOMAIN q = 1..Len(q) /\ Len(q) \in Nat  OBVIOUS
<1>2. IsFiniteSet(DOMAIN q)  BY <1>1, FS_Interval
<1>3. Places(q, n) \in SUBSET (DOMAIN q)  BY DEF Places
<1>4. IsFiniteSet(Places(q, n))  BY <1>2, <1>3, FS_Subset
<1>5. ASSUME \A i \in DOMAIN q : q[i] # n PROVE Occurs(q, n) = 0
  <2>1. Places(q, n) = {}  BY <1>5 DEF Places
  <2> QED  BY <2>1, FS_EmptySet DEF Occurs
<1>6. ASSUME \A i, j \in DOMAIN q : q[i] = q[j] => i = j PROVE Occurs(q, n) <= 1
  <2>1. CASE Places(q, n) = {}
    <3>1. Occurs(q, n) = 0  BY <2>1, FS_EmptySet DEF Occurs
    <3> QED  BY <3>1
  <2>2. CASE Places(q, n) # {}
    <3>1. PICK i : Places(q, n) = {i}
      <4>1. PICK i : i \in Places(q, n)  BY <2>2
      <4>2. \A j \in Places(q, n) : j = i  BY <1>6, <4>1 DEF Places
      <4> QED  BY <4>1, <4>2
    <3>2. Occurs(q, n) = 1  BY <3>1, FS_Singleton DEF Occurs
    <3> QED  BY <3>2
  <2> QED  BY <2>1, <2>2
<1> QED  BY <1>4, <1>5, <1>6, FS_CardinalityType DEF Occurs

(* Moving places keeps their number. *)
LEMMA Shifted ==
  ASSUME NEW B \in SUBSET Nat, IsFiniteSet(B), NEW k \in Nat
  PROVE  /\ IsFiniteSet({i + k : i \in B})
         /\ Cardinality({i + k : i \in B}) = Cardinality(B)
<1> DEFINE T == {i + k : i \in B}
           f == [i \in B |-> i + k]
<1>1. f \in [B -> T]  OBVIOUS
<1>2. ASSUME NEW i \in B, NEW j \in B, f[i] = f[j] PROVE i = j
  <2>1. f[i] = i + k /\ f[j] = j + k  OBVIOUS
  <2>2. i \in Nat /\ j \in Nat  OBVIOUS
  <2> QED  BY <1>2, <2>1, <2>2
<1>3. \A t \in T : \E i \in B : f[i] = t  OBVIOUS
<1> HIDE DEF f, T
<1>4. f \in Bijection(B, T)
  BY <1>1, <1>2, <1>3 DEF Bijection, Injection, Surjection, IsInjective
<1>5. ExistsBijection(B, T)  BY <1>4 DEF ExistsBijection
<1> QED  BY <1>5, FS_Bijection DEF T

(* Counts of a concatenation add up. *)
LEMMA OccursConcat ==
  ASSUME NEW S, NEW a \in Seq(S), NEW b \in Seq(S), NEW n
  PROVE  Occurs(a \o b, n) = Occurs(a, n) + Occurs(b, n)
<1> DEFINE A == Places(a, n)
           B == Places(b, n)
           C == {i + Len(a) : i \in B}
<1>1. Len(a) \in Nat /\ Len(b) \in Nat  OBVIOUS
<1>2. DOMAIN a = 1..Len(a) /\ DOMAIN b = 1..Len(b)  OBVIOUS
<1>3. DOMAIN (a \o b) = 1..(Len(a) + Len(b))  OBVIOUS
<1>4. \A i \in 1..Len(a) : (a \o b)[i] = a[i]  OBVIOUS
<1>5. \A i \in 1..Len(b) : (a \o b)[i + Len(a)] = b[i]  BY <1>1
<1>6. Places(a \o b, n) = A \cup C
  <2>1. ASSUME NEW i \in Places(a \o b, n) PROVE i \in A \cup C
    <3>1. i \in 1..(Len(a) + Len(b)) /\ (a \o b)[i] = n  BY <1>3 DEF Places
    <3>2. CASE i <= Len(a)
      <4>1. i \in 1..Len(a)  BY <1>1, <3>1, <3>2
      <4> QED  BY <1>2, <1>4, <3>1, <4>1 DEF Places
    <3>3. CASE ~ (i <= Len(a))
      <4>1. i - Len(a) \in 1..Len(b) /\ (i - Len(a)) + Len(a) = i  BY <1>1, <3>1, <3>3
      <4>2. b[i - Len(a)] = n  BY <1>5, <3>1, <4>1
      <4>3. i - Len(a) \in B  BY <1>2, <4>1, <4>2 DEF Places
      <4> QED  BY <4>1, <4>3
    <3> QED  BY <3>2, <3>3
  <2>2. ASSUME NEW i \in A PROVE i \in Places(a \o b, n)
    <3>1. i \in 1..Len(a) /\ a[i] = n  BY <1>2 DEF Places
    <3>2. i \in 1..(Len(a) + Len(b))  BY <1>1, <3>1
    <3> QED  BY <1>3, <1>4, <3>1, <3>2 DEF Places
  <2>3. ASSUME NEW j \in C PROVE j \in Places(a \o b, n)
    <3>1. PICK i \in B : j = i + Len(a)  OBVIOUS
    <3>2. i \in 1..Len(b) /\ b[i] = n  BY <1>2 DEF Places
    <3>3. j \in 1..(Len(a) + Len(b))  BY <1>1, <3>1, <3>2
    <3> QED  BY <1>3, <1>5, <3>1, <3>2, <3>3 DEF Places
  <2> QED  BY <2>1, <2>2, <2>3
<1>7. A \cap C = {}
  <2>1. \A i \in A : i \in 1..Len(a)  BY <1>2 DEF Places
  <2>2. \A i \in B : i \in 1..Len(b)  BY <1>2 DEF Places
  <2> QED  BY <1>1, <2>1, <2>2
<1>8. IsFiniteSet(A) /\ IsFiniteSet(B) /\ Occurs(a, n) \in Nat  BY OccursType
<1>9. B \in SUBSET Nat  BY <1>2 DEF Places
<1>10. IsFiniteSet(C) /\ Cardinality(C) = Cardinality(B)
  <2> HIDE DEF B
  <2> QED  BY <1>1, <1>8, <1>9, Shifted
<1> HIDE DEF A, B, C
<1>11. Cardinality(A \cup C) = Cardinality(A) + Cardinality(C) - Cardinality(A \cap C)
  BY <1>8, <1>10, FS_Union
<1>12. Cardinality(A \cap C) = 0  BY <1>7, FS_EmptySet
<1>13. Cardinality(A) \in Nat /\ Cardinality(C) \in Nat  BY <1>8, <1>10, FS_CardinalityType
<1> QED  BY <1>6, <1>10, <1>11, <1>12, <1>13 DEF Occurs, A, B

(* Counts in sequences of at most one element. *)
LEMMA OccursShort ==
  ASSUME NEW n
  PROVE  /\ Occurs(<< >>, n) = 0
         /\ \A m : Occurs(<<m>>, n) = IF m = n THEN 1 ELSE 0
<1>1. Places(<< >>, n) = {}  BY DEF Places
<1>2. ASSUME NEW m PROVE Occurs(<<m>>, n) = IF m = n THEN 1 ELSE 0
  <2>1. Places(<<m>>, n) = IF m = n THEN {1} ELSE {}  BY DEF Places
  <2> QED  BY <2>1, FS_EmptySet, FS_Singleton DEF Occurs
<1> QED  BY <1>1, <1>2, FS_EmptySet DEF Occurs

(* The head that leaves. *)
LEMMA OccursTail ==
  ASSUME NEW S, NEW q \in Seq(S), q # << >>, NEW n
  PROVE  Occurs(q, n) = Occurs(Tail(q), n) + (IF Head(q) = n THEN 1 ELSE 0)
<1>1. q = <<Head(q)>> \o Tail(q)  OBVIOUS
<1>2. <<Head(q)>> \in Seq(S) /\ Tail(q) \in Seq(S)  OBVIOUS
<1>3. Occurs(Tail(q), n) \in Nat  BY <1>2, OccursType
<1>4. Occurs(<<Head(q)>> \o Tail(q), n) = Occurs(<<Head(q)>>, n) + Occurs(Tail(q), n)
  BY <1>2, OccursConcat
<1>5. Occurs(<<Head(q)>>, n) = IF Head(q) = n THEN 1 ELSE 0  BY OccursShort
<1>6. Occurs(q, n) = Occurs(<<Head(q)>>, n) + Occurs(Tail(q), n)  BY <1>1, <1>4
<1> QED  BY <1>3, <1>5, <1>6

---------------------------------------------------------------------------
(* No two edges join the same two nodes. *)
SingleEdges ==
  \A f \in Flows : \A i, j \in DOMAIN f.edges :
    f.edges[i].src = f.edges[j].src /\ f.edges[i].dst = f.edges[j].dst => i = j

(* The sets of nodes of which each must have sent n one result before n    *)
(* runs; the empty set when n has no parents.                              *)
Sources(f, n) ==
  IF Parents(f, n) = {} THEN {{}}
  ELSE {{m} : m \in ExpectedInputs(f, n)} \cup ConditionalGroups(f, n)

(* The loop nodes that go back to n. *)
LoopsTo(f, n) == {l \in f.nodes : f.kind[l] = "loop" /\ f.loopTo[l] = n}

(* One or none: n is o, n holds a result of G. *)
Is(n, o) == IF n = o THEN 1 ELSE 0
Held(n, G) == IF waiting[n] \cap G # {} THEN 1 ELSE 0

(* Both are finite sets of nodes. *)
LEMMA SourcesType ==
  ASSUME NEW f, IsFlow(f), NEW n, NEW G \in Sources(f, n)
  PROVE  G \in SUBSET f.nodes /\ IsFiniteSet(G)
<1>1. Parents(f, n) \subseteq f.nodes
  <2> DEFINE Edge == [src : f.nodes, dst : f.nodes, out : Nat]
  <2>1. f.edges \in Seq(Edge)  BY DEF IsFlow
  <2>2. \A e \in Edge : e.src \in f.nodes  OBVIOUS
  <2> HIDE DEF Edge
  <2>3. \A i \in DOMAIN f.edges : f.edges[i].src \in f.nodes  BY <2>1, <2>2
  <2> QED  BY <2>3 DEF Parents, EdgeSet
<1>2. G \subseteq f.nodes
  <2>1. CASE G = {}  BY <2>1
  <2>2. CASE \E m \in ExpectedInputs(f, n) : G = {m}
    BY <1>1, <2>2 DEF ExpectedInputs
  <2>3. CASE G \in ConditionalGroups(f, n)
    <3>1. G \subseteq Parents(f, n)
      BY <2>3, Zenon DEF ConditionalGroups
    <3> QED  BY <1>1, <3>1
  <2> QED  BY <2>1, <2>2, <2>3 DEF Sources
<1>3. IsFiniteSet(f.nodes)  BY DEF IsFlow
<1> QED  BY <1>2, <1>3, FS_Subset

LEMMA LoopsToType ==
  ASSUME NEW f, IsFlow(f), NEW n
  PROVE  LoopsTo(f, n) \in SUBSET f.nodes /\ IsFiniteSet(LoopsTo(f, n))
<1>1. LoopsTo(f, n) \subseteq f.nodes  BY DEF LoopsTo
<1>2. IsFiniteSet(f.nodes)  BY DEF IsFlow
<1> QED  BY <1>1, <1>2, FS_Subset

(* A node that is ready got a result of each of its sources. *)
LEMMA ReadySources ==
  ASSUME NEW f, NEW n, Parents(f, n) # {}, NEW received,
         HasReceivedRequiredInputs(f, n, received), NEW G \in Sources(f, n)
  PROVE  G \cap received # {}
BY DEF HasReceivedRequiredInputs, Sources

(* The children of a node are different nodes, and children of it. *)
LEMMA ChildrenDistinct ==
  ASSUME NEW f \in Flows, SingleEdges, NEW n \in f.nodes
  PROVE  /\ Children(f, n) \in Seq(f.nodes)
         /\ \A i, j \in DOMAIN Children(f, n) :
              Children(f, n)[i] = Children(f, n)[j] => i = j
         /\ \A i \in DOMAIN Children(f, n) : n \in Parents(f, Children(f, n)[i])
<1> DEFINE Edge == [src : f.nodes, dst : f.nodes, out : Nat]
           Leaving == {e \in EdgeSet(f) : e.src = n}
           out == Keep(f.edges, Leaving)
<1>1. IsFlow(f)  BY EngineAssumption
<1>2. f.edges \in Seq(Edge)  BY <1>1 DEF IsFlow
<1>3. \A i, j \in DOMAIN f.edges : f.edges[i] = f.edges[j] => i = j
  BY DEF SingleEdges
<1>4. \A e \in Leaving : \E i \in DOMAIN f.edges : e = f.edges[i] /\ e.src = n
  BY DEF EdgeSet
<1>5. Children(f, n) = [i \in DOMAIN out |-> out[i].dst]  BY DEF Children
<1>6. Children(f, n) \in Seq(f.nodes)  BY <1>1, ChildrenType
<1> HIDE DEF Edge, Leaving
<1>7. out \in Seq(Edge \cap Leaving)  BY <1>2, KeepType
<1>8. \A i, j \in DOMAIN out : out[i] = out[j] => i = j
  BY <1>2, <1>3, KeepDistinct
<1> HIDE DEF out
<1>9. \A i \in DOMAIN out : out[i] \in Leaving  BY <1>7
<1>10. ASSUME NEW i \in DOMAIN out, NEW j \in DOMAIN out, out[i].dst = out[j].dst
       PROVE  i = j
  <2>1. PICK k \in DOMAIN f.edges : out[i] = f.edges[k] /\ out[i].src = n  BY <1>4, <1>9
  <2>2. PICK l \in DOMAIN f.edges : out[j] = f.edges[l] /\ out[j].src = n  BY <1>4, <1>9
  <2>3. k = l  BY <1>10, <2>1, <2>2 DEF SingleEdges
  <2> QED  BY <1>8, <2>1, <2>2, <2>3
<1>11. \A i \in DOMAIN out : n \in Parents(f, out[i].dst)
  BY <1>9 DEF Leaving, Parents
<1> QED  BY <1>5, <1>6, <1>10, <1>11

(* What the queue gets of the children. *)
LEMMA KeptChildren ==
  ASSUME NEW f \in Flows, SingleEdges, NEW n \in f.nodes, NEW T, NEW c
  PROVE  /\ Keep(Children(f, n), T) \in Seq(f.nodes)
         /\ Occurs(Keep(Children(f, n), T), c) \in {0, 1}
         /\ c \notin T => Occurs(Keep(Children(f, n), T), c) = 0
<1> DEFINE s == Children(f, n)
           k == Keep(s, T)
<1>1. s \in Seq(f.nodes) /\ \A i, j \in DOMAIN s : s[i] = s[j] => i = j
  BY ChildrenDistinct
<1> HIDE DEF s
<1>2. k \in Seq(f.nodes \cap T)  BY <1>1, KeepType
<1>3. \A i, j \in DOMAIN k : k[i] = k[j] => i = j  BY <1>1, KeepDistinct
<1> HIDE DEF k
<1>4. k \in Seq(f.nodes) /\ \A i \in DOMAIN k : k[i] \in T  BY <1>2
<1>5. Occurs(k, c) \in Nat /\ Occurs(k, c) <= 1  BY <1>3, <1>4, OccursType
<1>6. c \notin T => Occurs(k, c) = 0  BY <1>4, OccursType
<1> QED  BY <1>4, <1>5, <1>6 DEF k, s

---------------------------------------------------------------------------
(* A turn that delivers a result to c: the copies of c that it queues are  *)
(* paid for by the results that c held and by the one of n.                *)
LEMMA Delivery ==
  ASSUME TypeOK, SingleEdges, NEW n \in flow.nodes, queue # << >>, n = Head(queue),
         NEW fulfilled, ProcessNodeOutputs(n, fulfilled), NEW c \in flow.nodes, UNCHANGED flow
  PROVE  \E r \in {0, 1} :
           /\ Occurs(queue', c) + Is(c, n)
                = Occurs(queue, c) + r + (IF LoopsBack(n) THEN Is(c, flow.loopTo[n]) ELSE 0)
           /\ \A G \in Sources(flow, c) : r + Held(c, G)' <= Held(c, G) + In(n, G)
<1> DEFINE ignored == DetermineNodesToIgnore(flow, n, fulfilled)
           live == {Children(flow, n)[i] : i \in DOMAIN Children(flow, n)} \ ignored
           received(d) == waiting[d] \cup {n}
           ready == {d \in live : HasReceivedRequiredInputs(flow, d, received(d))}
           kept == Keep(Children(flow, n), ready)
           back == IF LoopsBack(n) THEN <<flow.loopTo[n]>> ELSE << >>
<1>1. /\ waiting' = [d \in flow.nodes |-> IF d \in ready THEN {}
                                           ELSE IF d \in live THEN received(d)
                                           ELSE waiting[d]]
      /\ queue' = Tail(queue) \o kept \o back
  BY DEF ProcessNodeOutputs
<1>2. flow \in Flows /\ IsFlow(flow)  BY FlowType DEF TypeOK
<1>3. \A d \in live : n \in Parents(flow, d)  BY <1>2, ChildrenDistinct
<1>4. \A d \in ready : d \in live /\ HasReceivedRequiredInputs(flow, d, received(d))  OBVIOUS
<1> HIDE DEF live, ready
<1>5. kept \in Seq(flow.nodes) /\ Occurs(kept, c) \in {0, 1} /\ (c \notin ready => Occurs(kept, c) = 0)
  BY <1>2, KeptChildren
<1>6. back \in Seq(flow.nodes)
      /\ Occurs(back, c) = IF LoopsBack(n) THEN Is(c, flow.loopTo[n]) ELSE 0
  <2>1. flow.loopTo[n] \in flow.nodes  BY <1>2 DEF IsFlow
  <2>2. Occurs(<< >>, c) = 0 /\ Occurs(<<flow.loopTo[n]>>, c) = Is(c, flow.loopTo[n])
    BY OccursShort DEF Is
  <2>3. << >> \in Seq(flow.nodes) /\ <<flow.loopTo[n]>> \in Seq(flow.nodes)
    BY <2>1, ShortSeq
  <2> QED  BY <2>2, <2>3
<1> HIDE DEF kept, back
<1>7. Occurs(queue', c) + Is(c, n)
        = Occurs(queue, c) + Occurs(kept, c) + (IF LoopsBack(n) THEN Is(c, flow.loopTo[n]) ELSE 0)
  <2>1. queue \in Seq(flow.nodes) /\ Tail(queue) \in Seq(flow.nodes)  BY DEF TypeOK
  <2>2. Tail(queue) \o kept \in Seq(flow.nodes)  BY <1>5, <2>1
  <2>3. Occurs(queue', c) = Occurs(Tail(queue) \o kept, c) + Occurs(back, c)
    BY <1>1, <1>6, <2>2, OccursConcat
  <2>4. Occurs(Tail(queue) \o kept, c) = Occurs(Tail(queue), c) + Occurs(kept, c)
    BY <1>5, <2>1, OccursConcat
  <2>5. Occurs(queue, c) = Occurs(Tail(queue), c) + Is(c, n)
    <3>1. Occurs(queue, c) = Occurs(Tail(queue), c) + (IF Head(queue) = c THEN 1 ELSE 0)
      BY <2>1, OccursTail
    <3> QED  BY <3>1 DEF Is
  <2>6. Occurs(Tail(queue), c) \in Nat /\ Occurs(back, c) \in Nat /\ Is(c, n) \in Nat
    <3>1. Occurs(Tail(queue), c) \in Nat  BY <2>1, OccursType
    <3>2. Occurs(back, c) \in Nat  BY <1>6, OccursType
    <3> QED  BY <3>1, <3>2 DEF Is
  <2> QED  BY <1>5, <1>6, <2>3, <2>4, <2>5, <2>6
<1>8. ASSUME NEW G \in Sources(flow, c)
      PROVE  Occurs(kept, c) + Held(c, G)' <= Held(c, G) + In(n, G)
  <2>1. Held(c, G) \in {0, 1} /\ In(n, G) \in {0, 1}  BY DEF Held, In
  <2>2. CASE c \in ready
    <3>1. waiting'[c] = {}  BY <1>1, <2>2
    <3>2. Held(c, G)' = 0  BY <3>1 DEF Held
    <3>3. c \in live /\ HasReceivedRequiredInputs(flow, c, received(c))  BY <1>4, <2>2
    <3>4. G \cap received(c) # {}  BY <1>3, <3>3, ReadySources
    <3>5. Held(c, G) = 1 \/ In(n, G) = 1  BY <3>4 DEF Held, In
    <3> QED  BY <1>5, <2>1, <3>2, <3>5
  <2>3. CASE c \notin ready
    <3>1. waiting'[c] = waiting[c] \/ waiting'[c] = waiting[c] \cup {n}  BY <1>1, <2>3
    <3>2. Held(c, G)' <= Held(c, G) + In(n, G)  BY <3>1 DEF Held, In
    <3>3. Held(c, G)' \in {0, 1}  BY <3>1 DEF Held
    <3> QED  BY <1>5, <2>1, <2>3, <3>2, <3>3
  <2> QED  BY <2>2, <2>3
<1> QED  BY <1>5, <1>7, <1>8

---------------------------------------------------------------------------
(* What n has spent, and what paid for it, when the request began at o and  *)
(* the loop nodes went back as often as c says.                            *)
Sourced(n, o, c) ==
  \A G \in Sources(flow, n) :
    runs[n] + Occurs(queue, n) + Held(n, G)
      <= Total(runs, G) + Is(n, o) + Total(c, LoopsTo(flow, n))

(* The request began at o, and its loop nodes went back as often as c      *)
(* says, which is forgotten when it ends.                                  *)
Counted(o, c) ==
  /\ o = NoNode \/ o \in StartNodes(flow) \/ (o \in flow.nodes /\ answered[o] > 0)
  /\ c \in [flow.nodes -> Nat]
  /\ status # "NONE" => c = loopCounts
  /\ \A l \in flow.nodes : c[l] # 0 => c[l] + 1 <= LoopLimit(l)
  /\ \A n \in flow.nodes : Sourced(n, o, c)

(* The invariant: some beginning and some counts of the loops explain the  *)
(* runs.                                                                   *)
OriginInv ==
  /\ TypeOK
  /\ runs \in [flow.nodes -> Nat]
  /\ answered \in [flow.nodes -> Nat]
  /\ \E o, c : Counted(o, c)

(* All that is counted is natural. *)
LEMMA CountTypes ==
  ASSUME TypeOK, runs \in [flow.nodes -> Nat], NEW c \in [flow.nodes -> Nat],
         NEW n \in flow.nodes, NEW G \in Sources(flow, n), NEW o
  PROVE  /\ runs[n] \in Nat /\ Occurs(queue, n) \in Nat /\ Held(n, G) \in {0, 1}
         /\ Total(runs, G) \in Nat /\ Is(n, o) \in {0, 1}
         /\ Total(c, LoopsTo(flow, n)) \in Nat
<1>1. IsFlow(flow)  BY FlowType DEF TypeOK
<1>2. Total(runs, G) \in Nat  BY <1>1, SourcesType, TotalType
<1>3. Total(c, LoopsTo(flow, n)) \in Nat  BY <1>1, LoopsToType, TotalType
<1>4. Occurs(queue, n) \in Nat  BY OccursType DEF TypeOK
<1> QED  BY <1>2, <1>3, <1>4 DEF Held, Is

(* Steps that run nothing and queue nothing. *)
LEMMA FewerCounted ==
  ASSUME OriginInv, TypeOK', UNCHANGED <<flow, runs, answered>>,
         \A n \in flow.nodes : /\ Occurs(queue', n) <= Occurs(queue, n)
                               /\ waiting'[n] \subseteq waiting[n],
         status' # "NONE" => status # "NONE" /\ UNCHANGED loopCounts
  PROVE  OriginInv'
<1>1. PICK o, c : Counted(o, c)  BY DEF OriginInv
<1>2. \A l \in flow.nodes : LoopLimit(l)' = LoopLimit(l)  BY DEF LoopLimit
<1>3. ASSUME NEW n \in flow.nodes, NEW G \in Sources(flow, n)
      PROVE  runs[n] + Occurs(queue', n) + Held(n, G)'
               <= Total(runs, G) + Is(n, o) + Total(c, LoopsTo(flow, n))
  <2>1. c \in [flow.nodes -> Nat] /\ runs \in [flow.nodes -> Nat] /\ TypeOK
    BY <1>1 DEF Counted, OriginInv
  <2>2. /\ runs[n] \in Nat /\ Occurs(queue, n) \in Nat /\ Held(n, G) \in {0, 1}
        /\ Total(runs, G) \in Nat /\ Is(n, o) \in {0, 1}
        /\ Total(c, LoopsTo(flow, n)) \in Nat
    BY <2>1, CountTypes
  <2>3. Held(n, G)' <= Held(n, G) /\ Held(n, G)' \in {0, 1}  BY DEF Held
  <2>4. Occurs(queue', n) \in Nat  BY OccursType DEF TypeOK
  <2>5. runs[n] + Occurs(queue, n) + Held(n, G)
          <= Total(runs, G) + Is(n, o) + Total(c, LoopsTo(flow, n))
    BY <1>1 DEF Counted, Sourced
  <2> QED  BY <2>2, <2>3, <2>4, <2>5
<1>4. \A n \in flow.nodes : Sourced(n, o, c)'
  BY <1>3 DEF Sourced
<1>5. Counted(o, c)'
  BY <1>1, <1>2, <1>4 DEF Counted
<1> QED  BY <1>5 DEF OriginInv

(* A request that begins at o, or at nothing. *)
LEMMA BeginCounted ==
  ASSUME OriginInv, TypeOK', UNCHANGED flow, NEW o \in flow.nodes,
         runs' = Zero, answered' \in [flow.nodes -> Nat],
         o \in StartNodes(flow) \/ answered'[o] > 0,
         queue' = << >> \/ queue' = <<o>>,
         waiting' = [n \in flow.nodes |-> {}], loopCounts' = Zero
  PROVE  OriginInv'
<1> DEFINE none == [n \in flow.nodes |-> 0]
<1>1. runs' = none /\ loopCounts' = none  BY DEF Zero
<1>2. none \in [flow.nodes -> Nat] /\ \A l \in flow.nodes : none[l] = 0  OBVIOUS
<1>3. PICK c : c = none  OBVIOUS
<1> HIDE DEF none
<1>4. ASSUME NEW n \in flow.nodes, NEW G \in Sources(flow, n)
      PROVE  runs'[n] + Occurs(queue', n) + Held(n, G)'
               <= Total(runs', G) + Is(n, o) + Total(c, LoopsTo(flow, n))
  <2>1. IsFlow(flow)  BY FlowType DEF TypeOK, OriginInv
  <2>2. Total(runs', G) \in Nat
    <3>1. Total(c, G) \in Nat  BY <1>2, <1>3, <2>1, SourcesType, TotalType
    <3> QED  BY <1>1, <1>3, <3>1
  <2>3. Total(c, LoopsTo(flow, n)) \in Nat  BY <1>2, <1>3, <2>1, LoopsToType, TotalType
  <2>4. Held(n, G)' = 0  BY DEF Held
  <2>5. Occurs(queue', n) <= Is(n, o) /\ Occurs(queue', n) \in Nat /\ Is(n, o) \in Nat
    <3>1. Occurs(<< >>, n) = 0 /\ Occurs(<<o>>, n) = IF o = n THEN 1 ELSE 0  BY OccursShort
    <3> QED  BY <3>1 DEF Is
  <2>6. runs'[n] = 0  BY <1>1, <1>2
  <2> QED  BY <2>2, <2>3, <2>4, <2>5, <2>6
<1>5. \A n \in flow.nodes : Sourced(n, o, c)'
  BY <1>4 DEF Sourced
<1>6. Counted(o, c)'
  BY <1>1, <1>2, <1>3, <1>5 DEF Counted
<1> QED  BY <1>1, <1>2, <1>6 DEF OriginInv

(* A turn that ends with its outputs processed. *)
LEMMA CompleteCounted ==
  ASSUME SingleEdges, OriginInv, TypeOK', NEW n \in flow.nodes, Complete(n),
         runs' = Bump(runs, n), UNCHANGED answered
  PROVE  OriginInv'
<1>1. PICK o, c : Counted(o, c)  BY DEF OriginInv
<1>2. PICK fulfilled \in Verdicts(n) : ProcessNodeOutputs(n, fulfilled)  BY DEF Complete
<1>3. queue # << >> /\ n = Head(queue) /\ status = "INPROGRESS" /\ UNCHANGED <<flow, status>>
  BY DEF Complete, Turn
<1>4. c = loopCounts  BY <1>1, <1>3 DEF Counted
<1>5. PICK d : d = IF LoopsBack(n) THEN Bump(c, n) ELSE c  OBVIOUS
<1>6. d = loopCounts'  BY <1>2, <1>4, <1>5 DEF ProcessNodeOutputs, Bump
<1>7. PICK g : g = Bump(runs, n)  OBVIOUS
<1>8. runs' = g  BY <1>7
<1>9. TypeOK /\ runs \in [flow.nodes -> Nat] /\ answered \in [flow.nodes -> Nat]  BY DEF OriginInv
<1>10. IsFlow(flow)  BY <1>9, FlowType DEF TypeOK
<1>11. c \in [flow.nodes -> Nat] /\ d \in [flow.nodes -> Nat] /\ g \in [flow.nodes -> Nat]
  BY <1>1, <1>5, <1>7, <1>9 DEF Counted, Bump
<1>12. ASSUME NEW m \in flow.nodes, NEW G \in Sources(flow, m)
       PROVE  g[m] + Occurs(queue', m) + Held(m, G)'
                <= Total(g, G) + Is(m, o) + Total(d, LoopsTo(flow, m))
  <2> DEFINE back == IF LoopsBack(n) THEN Is(m, flow.loopTo[n]) ELSE 0
  <2>1. PICK r \in {0, 1} :
          /\ Occurs(queue', m) + Is(m, n) = Occurs(queue, m) + r + back
          /\ r + Held(m, G)' <= Held(m, G) + In(n, G)
    BY <1>2, <1>3, <1>9, Delivery
  <2>2. g[m] = runs[m] + Is(m, n)  BY <1>7, <1>9 DEF Is, Bump
  <2>3. Total(g, G) = Total(runs, G) + In(n, G)
    <3>1. G \in SUBSET flow.nodes /\ IsFiniteSet(G)  BY <1>10, SourcesType
    <3> QED  BY <1>7, <1>9, <3>1, TotalBump
  <2>4. Total(d, LoopsTo(flow, m)) = Total(c, LoopsTo(flow, m)) + back
    <3>1. LoopsTo(flow, m) \in SUBSET flow.nodes /\ IsFiniteSet(LoopsTo(flow, m))
      BY <1>10, LoopsToType
    <3>2. Total(c, LoopsTo(flow, m)) \in Nat  BY <1>11, <3>1, TotalType
    <3>3. CASE LoopsBack(n)
      <4>1. d = Bump(c, n)  BY <1>5, <3>3
      <4>2. Total(d, LoopsTo(flow, m)) = Total(c, LoopsTo(flow, m)) + In(n, LoopsTo(flow, m))
        BY <1>11, <3>1, <4>1, TotalBump
      <4>3. n \in LoopsTo(flow, m) <=> m = flow.loopTo[n]  BY <3>3 DEF LoopsBack, LoopsTo
      <4> QED  BY <3>3, <4>2, <4>3 DEF Is, In
    <3>4. CASE ~ LoopsBack(n)  BY <1>5, <3>2, <3>4
    <3> QED  BY <3>3, <3>4
  <2>5. /\ runs[m] \in Nat /\ Occurs(queue, m) \in Nat /\ Held(m, G) \in {0, 1}
        /\ Total(runs, G) \in Nat /\ Is(m, o) \in {0, 1}
        /\ Total(c, LoopsTo(flow, m)) \in Nat
    BY <1>9, <1>11, CountTypes
  <2>6. runs[m] + Occurs(queue, m) + Held(m, G)
          <= Total(runs, G) + Is(m, o) + Total(c, LoopsTo(flow, m))
    BY <1>1 DEF Counted, Sourced
  <2>7. Is(m, n) \in {0, 1} /\ back \in {0, 1} /\ In(n, G) \in {0, 1} /\ Held(m, G)' \in {0, 1}
    BY DEF Is, In, Held
  <2>8. Occurs(queue', m) \in Nat  BY OccursType DEF TypeOK
  <2> HIDE DEF back
  <2> QED  BY <2>1, <2>2, <2>3, <2>4, <2>5, <2>6, <2>7, <2>8
<1>13. \A m \in flow.nodes : Sourced(m, o, d)'
  BY <1>3, <1>8, <1>12 DEF Sourced
<1>14. \A l \in flow.nodes : d[l] # 0 => d[l] + 1 <= LoopLimit(l)
  <2>1. ASSUME NEW l \in flow.nodes, d[l] # 0 PROVE d[l] + 1 <= LoopLimit(l)
    <3>1. CASE LoopsBack(n) /\ l = n
      <4>1. d[l] = c[l] + 1 /\ c[l] + 1 < LoopLimit(l) /\ c[l] \in Nat
        BY <1>4, <1>5, <1>11, <3>1 DEF LoopsBack, Bump
      <4>2. LoopLimit(l) \in Nat
        BY <1>10, EngineAssumption DEF LoopLimit, IsFlow
      <4> QED  BY <4>1, <4>2
    <3>2. CASE ~ (LoopsBack(n) /\ l = n)
      <4>1. d[l] = c[l]  BY <1>5, <1>11, <3>2 DEF Bump
      <4> QED  BY <1>1, <2>1, <4>1 DEF Counted
    <3> QED  BY <3>1, <3>2
  <2> QED  BY <2>1
<1>15. \A l \in flow.nodes : LoopLimit(l)' = LoopLimit(l)  BY <1>3 DEF LoopLimit
<1>16. Counted(o, d)'
  BY <1>1, <1>3, <1>6, <1>11, <1>13, <1>14, <1>15 DEF Counted
<1> QED  BY <1>3, <1>8, <1>9, <1>11, <1>16 DEF OriginInv

(* Every step keeps the invariant. *)
LEMMA OriginStep ==
  ASSUME SingleEdges, OriginInv, [AuditNext]_auditVars
  PROVE  OriginInv'
<1>1. [Next]_vars
  BY DEF AuditNext, auditVars, AStart, AResume, AStep, ATurn, AOther, Next, Step, ExecuteNode
<1>2. TypeOK /\ TypeOK'  BY <1>1, StepType DEF OriginInv
<1>3. \A n : Occurs(<< >>, n) = 0  BY OccursShort
<1>4. \A n \in flow.nodes : Occurs(queue, n) \in Nat  BY <1>2, OccursType DEF TypeOK
<1>5. CASE AStart
  <2>1. PICK n \in StartNodes(flow) : BeginRequest(<<n>>, << >>, NoHuman)
    BY <1>5 DEF AStart, StartExecution
  <2>2. n \in flow.nodes /\ UNCHANGED flow /\ runs' = Zero /\ answered' = Zero
    BY <1>5 DEF AStart, StartExecution, StartNodes
  <2>3. answered' \in [flow.nodes -> Nat]  BY <2>2 DEF Zero
  <2>4. queue' = <<n>> /\ waiting' = [m \in flow.nodes |-> {}] /\ loopCounts' = Zero
    BY <2>1 DEF BeginRequest, Zero
  <2> QED  BY <1>2, <2>1, <2>2, <2>3, <2>4, BeginCounted
<1>6. CASE AResume
  <2>1. PICK decision \in Decisions, named \in flow.nodes \cup {NoNode} :
          ResumeExecution(decision, named)
    BY <1>6 DEF AResume
  <2>2. PICK n \in flow.nodes :
          BeginRequest(IF n \in Inside(flow) THEN << >> ELSE <<n>>, Checkpoint(Latest),
                       [node |-> n, decision |-> decision])
    BY <2>1 DEF ResumeExecution
  <2>3. humanInput'.node = n /\ UNCHANGED flow /\ runs' = Zero
    BY <1>6, <2>1, <2>2 DEF AResume, ResumeExecution, BeginRequest
  <2>4. answered' = [answered EXCEPT ![n] = @ + 1]
    BY <1>6, <2>3 DEF AResume, Bump
  <2>5. answered' \in [flow.nodes -> Nat] /\ answered'[n] > 0  BY <2>4 DEF OriginInv
  <2>6. (queue' = << >> \/ queue' = <<n>>) /\ waiting' = [m \in flow.nodes |-> {}]
        /\ loopCounts' = Zero
    BY <2>2 DEF BeginRequest, Zero
  <2> QED  BY <1>2, <2>3, <2>5, <2>6, BeginCounted
<1>7. ASSUME NEW n \in flow.nodes, ATurn(n) PROVE OriginInv'
  <2>1. CASE Complete(n) /\ runs' = Bump(runs, n) /\ UNCHANGED answered
    BY <1>2, <2>1, CompleteCounted
  <2>2. CASE Pause(n) /\ UNCHANGED <<runs, answered>>
    <3>1. queue # << >> /\ queue' = Tail(queue) /\ UNCHANGED <<flow, waiting, loopCounts>>
          /\ status # "NONE"
      BY <2>2 DEF Pause, Turn
    <3>2. \A m \in flow.nodes : Occurs(queue', m) <= Occurs(queue, m)
      <4>1. ASSUME NEW m \in flow.nodes PROVE Occurs(queue', m) <= Occurs(queue, m)
        <5>1. queue \in Seq(flow.nodes)  BY <1>2 DEF TypeOK
        <5>2. Occurs(queue, m) = Occurs(Tail(queue), m) + (IF Head(queue) = m THEN 1 ELSE 0)
          BY <3>1, <5>1, OccursTail
        <5>3. Tail(queue) \in Seq(flow.nodes)  BY <3>1, <5>1
        <5>4. Occurs(Tail(queue), m) \in Nat  BY <5>3, OccursType
        <5> QED  BY <3>1, <5>2, <5>4
      <4> QED  BY <4>1
    <3> QED  BY <1>2, <2>2, <3>1, <3>2, FewerCounted
  <2>3. CASE (ExceedBudget(n) \/ Terminate(n) \/ Fail(n)) /\ UNCHANGED <<runs, answered>>
    <3>1. EndRequest /\ UNCHANGED flow
      BY <2>3 DEF ExceedBudget, Terminate, Fail, FailWith
    <3> QED  BY <1>2, <1>3, <1>4, <2>3, <3>1, FewerCounted DEF EndRequest
  <2> QED  BY <1>7, <2>1, <2>2, <2>3 DEF ATurn
<1>8. CASE (Finish \/ Crash) /\ UNCHANGED <<runs, answered>>
  <2>1. EndRequest /\ UNCHANGED flow  BY <1>8 DEF Finish, Crash
  <2> QED  BY <1>2, <1>3, <1>4, <1>8, <2>1, FewerCounted DEF EndRequest
<1>9. CASE Abort /\ UNCHANGED <<runs, answered>>
  BY <1>2, <1>4, <1>9, FewerCounted DEF Abort
<1>10. CASE UNCHANGED auditVars
  BY <1>2, <1>4, <1>10, FewerCounted DEF auditVars, vars
<1> QED
  BY <1>5, <1>6, <1>7, <1>8, <1>9, <1>10 DEF AuditNext, AStep, AOther

(* No execution has begun: nothing has run and nothing is queued. *)
LEMMA OriginInit == AuditInit => OriginInv
<1> SUFFICES ASSUME AuditInit PROVE OriginInv  OBVIOUS
<1>1. TypeOK  BY InitType DEF AuditInit
<1>2. runs = Zero /\ answered = Zero /\ loopCounts = Zero /\ queue = << >>
      /\ waiting = [n \in flow.nodes |-> {}]
  BY DEF AuditInit, Init, Zero
<1>3. PICK c : c = [n \in flow.nodes |-> 0]  OBVIOUS
<1>4. runs = c /\ loopCounts = c  BY <1>2, <1>3 DEF Zero
<1>5. c \in [flow.nodes -> Nat] /\ \A l \in flow.nodes : c[l] = 0  BY <1>3
<1>6. ASSUME NEW n \in flow.nodes, NEW G \in Sources(flow, n)
      PROVE  runs[n] + Occurs(queue, n) + Held(n, G)
               <= Total(runs, G) + Is(n, NoNode) + Total(c, LoopsTo(flow, n))
  <2>1. runs \in [flow.nodes -> Nat]  BY <1>4, <1>5
  <2>2. /\ Total(runs, G) \in Nat /\ Is(n, NoNode) \in {0, 1}
        /\ Total(c, LoopsTo(flow, n)) \in Nat
    BY <1>1, <1>5, <2>1, CountTypes
  <2>3. Occurs(queue, n) = 0  BY <1>2, OccursShort
  <2>4. Held(n, G) = 0  BY <1>2 DEF Held
  <2>5. runs[n] = 0  BY <1>4, <1>5
  <2> QED  BY <2>2, <2>3, <2>4, <2>5
<1>7. Counted(NoNode, c)  BY <1>4, <1>5, <1>6 DEF Counted, Sourced
<1>8. answered \in [flow.nodes -> Nat]  BY <1>2 DEF Zero
<1> QED  BY <1>1, <1>4, <1>5, <1>7, <1>8 DEF OriginInv

(* The bound of the invariant on how often a node has run. *)
LEMMA RunsBounded ==
  ASSUME OriginInv, NEW o, NEW c, Counted(o, c), NEW n \in flow.nodes,
         NEW G \in Sources(flow, n)
  PROVE  /\ runs[n] <= Total(runs, G) + Is(n, o) + Total(c, LoopsTo(flow, n))
         /\ runs[n] \in Nat /\ Total(runs, G) \in Nat /\ Is(n, o) \in {0, 1}
         /\ Total(c, LoopsTo(flow, n)) \in Nat
<1>1. TypeOK /\ runs \in [flow.nodes -> Nat] /\ c \in [flow.nodes -> Nat]
  BY DEF OriginInv, Counted
<1>2. /\ runs[n] \in Nat /\ Occurs(queue, n) \in Nat /\ Held(n, G) \in {0, 1}
      /\ Total(runs, G) \in Nat /\ Is(n, o) \in {0, 1}
      /\ Total(c, LoopsTo(flow, n)) \in Nat
  BY <1>1, CountTypes
<1>3. runs[n] + Occurs(queue, n) + Held(n, G)
        <= Total(runs, G) + Is(n, o) + Total(c, LoopsTo(flow, n))
  BY DEF Counted, Sourced
<1> QED  BY <1>2, <1>3

(* Without answer and without loop, what paid for n is what its parents ran. *)
LEMMA OriginFresh == OriginInv => FreshInputs
<1> SUFFICES ASSUME OriginInv, NEW n \in flow.nodes \ (StartNodes(flow) \cup LoopTargets),
                    answered[n] = 0
             PROVE  /\ \A m \in ExpectedInputs(flow, n) : runs[n] <= runs[m]
                    /\ \A g \in ConditionalGroups(flow, n) :
                         runs[n] <= MapThenSumSet(LAMBDA m : runs[m], g)
  BY DEF FreshInputs
<1>1. PICK o, c : Counted(o, c)  BY DEF OriginInv
<1>2. n # o
  <2>1. n # NoNode  BY NoNodeOutside DEF OriginInv
  <2> QED  BY <1>1, <2>1 DEF Counted
<1>3. LoopsTo(flow, n) = {}  BY DEF LoopsTo, LoopTargets
<1>4. ASSUME NEW G \in Sources(flow, n) PROVE runs[n] <= Total(runs, G)
  <2>1. Total(c, LoopsTo(flow, n)) = 0  BY <1>3, TotalSmall
  <2>2. Is(n, o) = 0  BY <1>2 DEF Is
  <2>3. runs[n] <= Total(runs, G) + Is(n, o) + Total(c, LoopsTo(flow, n))
        /\ Total(runs, G) \in Nat
    BY <1>1, RunsBounded
  <2> QED  BY <2>1, <2>2, <2>3
<1>5. ASSUME NEW m \in ExpectedInputs(flow, n) PROVE runs[n] <= runs[m]
  <2>1. m \in Parents(flow, n)  BY DEF ExpectedInputs
  <2>2. {m} \in Sources(flow, n)  BY <2>1 DEF Sources
  <2>3. IsFlow(flow)  BY FlowType DEF OriginInv, TypeOK
  <2>4. {m} \in SUBSET flow.nodes  BY <2>2, <2>3, SourcesType
  <2>5. runs[m] \in Nat  BY <2>4 DEF OriginInv
  <2>6. Total(runs, {m}) = runs[m]  BY <2>5, TotalSmall
  <2> QED  BY <1>4, <2>2, <2>6
<1>6. ASSUME NEW g \in ConditionalGroups(flow, n)
      PROVE  runs[n] <= MapThenSumSet(LAMBDA m : runs[m], g)
  <2>1. Parents(flow, n) # {}  BY DEF ConditionalGroups, ExpectedInputs
  <2>2. g \in Sources(flow, n)  BY <2>1 DEF Sources
  <2>3. runs[n] <= Total(runs, g)  BY <1>4, <2>2
  <2> QED  BY <2>3 DEF Total
<1> QED  BY <1>5, <1>6

(* Every run of a node uses up fresh inputs, in every flow in which no two *)
(* edges join the same nodes: a join is not run again on results that it   *)
(* was run on, whatever loops, resumptions and failures there are.         *)
THEOREM InputsAreFresh ==
  ASSUME SingleEdges
  PROVE  AuditSpec => []FreshInputs
<1>1. AuditInit => OriginInv  BY OriginInit
<1>2. OriginInv /\ [AuditNext]_auditVars => OriginInv'  BY OriginStep
<1>3. OriginInv => FreshInputs  BY OriginFresh
<1> QED  BY <1>1, <1>2, <1>3, PTL DEF AuditSpec

---------------------------------------------------------------------------
(* A way through the flow from a node without parents: each node waits for *)
(* the one before, and no loop goes back to one of them but the last.      *)
Trunk(f, p) ==
  /\ p \in Seq(f.nodes) /\ p # << >>
  /\ Parents(f, p[1]) = {}
  /\ \A i \in 1..(Len(p) - 1) : {p[i]} \in Sources(f, p[i+1]) /\ LoopsTo(f, p[i]) = {}

(* Loops are not nested and share no target, and what a loop goes back to  *)
(* is reached on a trunk.                                                  *)
LoopsOnTrunks ==
  \A f \in Flows : \A l \in f.nodes : f.kind[l] = "loop" =>
    /\ LoopsTo(f, f.loopTo[l]) = {l}
    /\ \E p : Trunk(f, p) /\ p[Len(p)] = f.loopTo[l]

(* The request began within the first j nodes of the trunk. *)
Seen(p, o, j) == \E k \in 1..j : p[k] = o

(* A node of a trunk runs once, and only in a request that began before it. *)
LEMMA TrunkRuns ==
  ASSUME OriginInv, NEW o, NEW c, Counted(o, c), NEW p, Trunk(flow, p),
         NEW j \in 1..(Len(p) - 1)
  PROVE  runs[p[j]] <= (IF Seen(p, o, j) THEN 1 ELSE 0)
<1> DEFINE Once(i) == runs[p[i]] <= (IF Seen(p, o, i) THEN 1 ELSE 0)
           G == {k \in Nat : \A i \in 1..k : i < Len(p) => Once(i)}
<1>1. p \in Seq(flow.nodes) /\ p # << >> /\ Len(p) \in Nat  BY DEF Trunk
<1>2. \A i \in 1..Len(p) : p[i] \in flow.nodes  BY <1>1
<1>3. 0 \in G  OBVIOUS
<1>4. ASSUME NEW i \in Nat \ {0}, i < Len(p)
      PROVE  Total(c, LoopsTo(flow, p[i])) = 0
  <2>1. i \in 1..(Len(p) - 1)  BY <1>1, <1>4
  <2>2. LoopsTo(flow, p[i]) = {}  BY <2>1 DEF Trunk
  <2> QED  BY <2>2, TotalSmall
<1>5. ASSUME NEW k \in G PROVE k + 1 \in G
  <2>1. k \in Nat /\ \A i \in 1..k : i < Len(p) => Once(i)  OBVIOUS
  <2>2. SUFFICES ASSUME k + 1 < Len(p) PROVE Once(k + 1)
    <3> HIDE DEF Once
    <3>1. \A i \in 1..(k+1) : i \in 1..k \/ i = k + 1  BY <2>1
    <3> QED  BY <2>1, <3>1
  <2>3. p[k+1] \in flow.nodes /\ Total(c, LoopsTo(flow, p[k+1])) = 0
    BY <1>1, <1>2, <1>4, <2>1, <2>2
  <2>4. p[k+1] = o => Seen(p, o, k + 1)  BY <2>1 DEF Seen
  <2>5. CASE k = 0
    <3>1. {} \in Sources(flow, p[1])  BY DEF Trunk, Sources
    <3>2. Total(runs, {}) = 0  BY TotalSmall
    <3>3. runs[p[1]] <= Total(runs, {}) + Is(p[1], o) + Total(c, LoopsTo(flow, p[1]))
          /\ runs[p[1]] \in Nat /\ Is(p[1], o) \in {0, 1}
      BY <2>3, <2>5, <3>1, RunsBounded
    <3>4. runs[p[1]] <= Is(p[1], o)  BY <2>3, <2>5, <3>2, <3>3
    <3> QED  BY <2>4, <2>5, <3>3, <3>4 DEF Is
  <2>6. CASE k # 0
    <3>1. k \in 1..(Len(p) - 1) /\ k \in 1..k /\ k < Len(p)  BY <1>1, <2>1, <2>2, <2>6
    <3>2. {p[k]} \in Sources(flow, p[k+1])  BY <3>1 DEF Trunk
    <3>3. p[k] \in flow.nodes  BY <1>2, <1>1, <3>1
    <3>4. runs[p[k]] \in Nat  BY <3>3 DEF OriginInv
    <3>5. Total(runs, {p[k]}) = runs[p[k]]  BY <3>4, TotalSmall
    <3>6. runs[p[k+1]] <= Total(runs, {p[k]}) + Is(p[k+1], o) + Total(c, LoopsTo(flow, p[k+1]))
          /\ runs[p[k+1]] \in Nat /\ Is(p[k+1], o) \in {0, 1}
      BY <2>3, <3>2, RunsBounded
    <3>7. Once(k)  BY <2>1, <3>1
    <3>8. runs[p[k+1]] <= runs[p[k]] + Is(p[k+1], o)  BY <2>3, <3>4, <3>5, <3>6
    <3>9. CASE ~ Seen(p, o, k)
      BY <2>4, <3>4, <3>6, <3>7, <3>8, <3>9 DEF Is
    <3>10. CASE Seen(p, o, k)
      <4>1. PICK i \in 1..k : p[i] = o  BY <3>10 DEF Seen
      <4>2. Seen(p, o, k + 1)  BY <2>1, <4>1 DEF Seen
      <4>3. CASE p[k+1] = o
        <5>1. i < Len(p) /\ i \in 1..k  BY <1>1, <2>1, <2>2
        <5>2. Once(i)  BY <2>1, <5>1
        <5>3. runs[p[i]] <= 1  BY <4>1, <4>3, <3>6, <5>2
        <5> QED  BY <4>1, <4>2, <4>3, <5>3
      <4>4. CASE p[k+1] # o
        <5>1. Is(p[k+1], o) = 0  BY <4>4 DEF Is
        <5> QED  BY <3>4, <3>6, <3>7, <3>8, <3>10, <4>2, <5>1
      <4> QED  BY <4>3, <4>4
    <3> QED  BY <3>9, <3>10
  <2> QED  BY <2>5, <2>6
<1> HIDE DEF G, Once
<1>6. G = Nat
  <2>1. G \in SUBSET Nat  BY DEF G
  <2> QED  BY <1>3, <1>5, <2>1, SetInduction
<1>7. j \in G /\ j \in 1..j /\ j < Len(p)  BY <1>1, <1>6
<1>8. Once(j)  BY <1>7 DEF G
<1> QED  BY <1>8 DEF Once

(* The target of a loop runs once for the trunk or for the request that     *)
(* began at it, never both, and once for each time the loop went back.     *)
LEMMA OriginLoops ==
  ASSUME LoopsOnTrunks, DefaultMaxLoop # 0, OriginInv
  PROVE  LoopBodyBounded
<1> SUFFICES ASSUME NEW l \in flow.nodes, flow.kind[l] = "loop"
             PROVE  runs[flow.loopTo[l]] <= LoopLimit(l)
  BY DEF LoopBodyBounded
<1> DEFINE t == flow.loopTo[l]
<1>1. PICK o, c : Counted(o, c)  BY DEF OriginInv
<1>2. flow \in Flows /\ IsFlow(flow)  BY FlowType DEF OriginInv, TypeOK
<1>3. t \in flow.nodes  BY <1>2 DEF IsFlow
<1>4. LoopsTo(flow, t) = {l}  BY <1>2 DEF LoopsOnTrunks
<1>5. PICK p : Trunk(flow, p) /\ p[Len(p)] = t  BY <1>2 DEF LoopsOnTrunks
<1>6. c[l] \in Nat /\ (c[l] # 0 => c[l] + 1 <= LoopLimit(l))  BY <1>1 DEF Counted
<1>7. LoopLimit(l) \in Nat \ {0}
  BY <1>2, EngineAssumption DEF LoopLimit, IsFlow
<1>8. Total(c, LoopsTo(flow, t)) = c[l]  BY <1>4, <1>6, TotalSmall
<1>9. p \in Seq(flow.nodes) /\ Len(p) \in Nat \ {0}  BY <1>5 DEF Trunk
<1> HIDE DEF t
<1>10. runs[t] <= 1 + c[l] /\ runs[t] \in Nat
  <2>1. CASE Len(p) = 1
    <3>1. {} \in Sources(flow, t)  BY <1>5, <2>1 DEF Trunk, Sources
    <3>2. Total(runs, {}) = 0  BY TotalSmall
    <3>3. runs[t] <= Total(runs, {}) + Is(t, o) + Total(c, LoopsTo(flow, t))
          /\ runs[t] \in Nat /\ Is(t, o) \in {0, 1}
      BY <1>1, <1>3, <3>1, RunsBounded
    <3> QED  BY <1>6, <1>8, <3>2, <3>3
  <2>2. CASE Len(p) # 1
    <3>1. PICK k \in 1..(Len(p) - 1) : k + 1 = Len(p) /\ k \in 1..Len(p)
      <4>1. PICK j \in Nat \ {0} : j = Len(p)  BY <1>9
      <4>2. j - 1 \in 1..(j - 1) /\ (j - 1) + 1 = j /\ j - 1 \in 1..j  BY <2>2, <4>1
      <4> QED  BY <4>1, <4>2
    <3>2. {p[k]} \in Sources(flow, t)
      <4>1. {p[k]} \in Sources(flow, p[k+1])  BY <1>5, <3>1 DEF Trunk
      <4> QED  BY <1>5, <3>1, <4>1
    <3>3. runs[p[k]] <= (IF Seen(p, o, k) THEN 1 ELSE 0)  BY <1>1, <1>5, <3>1, TrunkRuns
    <3>4. Seen(p, o, k) => t # o
      <4>1. ASSUME NEW i \in 1..k, p[i] = o, t = o PROVE FALSE
        <5>1. i \in 1..(Len(p) - 1)  BY <1>9, <3>1
        <5>2. LoopsTo(flow, p[i]) = {}  BY <1>5, <5>1 DEF Trunk
        <5> QED  BY <1>4, <4>1, <5>2
      <4> QED  BY <4>1 DEF Seen
    <3>5. p[k] \in flow.nodes  BY <1>9, <3>1
    <3>6. runs[p[k]] \in Nat  BY <3>5 DEF OriginInv
    <3>7. Total(runs, {p[k]}) = runs[p[k]]  BY <3>6, TotalSmall
    <3>8. runs[t] <= Total(runs, {p[k]}) + Is(t, o) + Total(c, LoopsTo(flow, t))
          /\ runs[t] \in Nat /\ Is(t, o) \in {0, 1}
      BY <1>1, <1>3, <3>2, RunsBounded
    <3>9. runs[p[k]] + Is(t, o) <= 1  BY <3>3, <3>4, <3>6 DEF Is
    <3> QED  BY <1>6, <1>8, <3>6, <3>7, <3>8, <3>9
  <2> QED  BY <2>1, <2>2
<1> QED  BY <1>6, <1>7, <1>10 DEF t

(* A request runs the body of a loop at most as often as the loop node     *)
(* allows, also one that resumes in the middle of the body, where the      *)
(* counts begin at zero again.                                             *)
THEOREM LoopsAreBounded ==
  ASSUME SingleEdges, LoopsOnTrunks, DefaultMaxLoop # 0
  PROVE  AuditSpec => []LoopBodyBounded
<1>1. AuditInit => OriginInv  BY OriginInit
<1>2. OriginInv /\ [AuditNext]_auditVars => OriginInv'  BY OriginStep
<1>3. OriginInv => LoopBodyBounded  BY OriginLoops
<1> QED  BY <1>1, <1>2, <1>3, PTL DEF AuditSpec

---------------------------------------------------------------------------
(* A decision has two outputs and at most one edge from each. *)
TwoHandles ==
  \A f \in Flows : \A n \in f.nodes : f.kind[n] \in DecisionKinds =>
    /\ f.outs[n] = 2
    /\ \A i, j \in DOMAIN f.edges : f.edges[i].src = n =>
         /\ f.edges[i].out \in 1..2
         /\ f.edges[j].src = n /\ f.edges[i].out = f.edges[j].out => i = j

(* What a decision answers: one of the two, or none of them. *)
LEMMA TwoVerdicts ==
  ASSUME TwoHandles, GateInv, NEW n \in flow.nodes, Turn(n), flow.kind[n] \in DecisionKinds,
         ~ (flow.kind[n] = "human" /\ humanInput = NoHuman), NEW fulfilled \in Verdicts(n)
  PROVE  \E k \in 0..2 : fulfilled = [i \in 1..2 |-> i = k]
<1>1. flow \in Flows  BY DEF GateInv, TypeOK
<1>2. CASE flow.kind[n] = "condition"
  <2>1. flow.outs[n] = 2  BY <1>1 DEF TwoHandles
  <2>2. fulfilled \in {[i \in 1..2 |-> i = k] : k \in 0..2}
    BY <1>2, <2>1 DEF Verdicts
  <2> QED  BY <2>2
<1>3. CASE flow.kind[n] = "human"
  <2>1. humanInput.node = n  BY <1>3, AnswerIsUsed
  <2>2. humanInput.decision \in 0..2  BY DEF GateInv, TypeOK, Decisions
  <2>3. fulfilled = [i \in 1..2 |-> i = humanInput.decision]
    BY <1>3, <2>1 DEF Verdicts
  <2> QED  BY <2>2, <2>3
<1> QED  BY <1>2, <1>3 DEF DecisionKinds

(* The output that is taken, the last when none is fulfilled. *)
LEMMA OneTaken ==
  ASSUME NEW k \in 0..2, NEW fulfilled, fulfilled = [i \in 1..2 |-> i = k]
  PROVE  \E w \in 1..2 : WithFallback(fulfilled) = [i \in 1..2 |-> i = w]
<1>1. CASE k = 0
  <2>1. \A i \in DOMAIN fulfilled : ~ fulfilled[i]
    <3>1. \A i \in 1..2 : i # k  BY <1>1
    <3>2. DOMAIN fulfilled = 1..2 /\ \A i \in 1..2 : fulfilled[i] = (i = k)  BY Zenon
    <3> QED  BY <3>1, <3>2, Zenon
  <2>2. fulfilled \in Seq(BOOLEAN) /\ DOMAIN fulfilled = 1..2  OBVIOUS
  <2>3. Len(fulfilled) = 2  BY <2>2
  <2>4. WithFallback(fulfilled) = [i \in 1..2 |-> i = 2]
    BY <2>1, <2>2, <2>3 DEF WithFallback
  <2> QED  BY <2>4
<1>2. CASE k # 0
  <2>1. k \in DOMAIN fulfilled /\ fulfilled[k] /\ k \in 1..2
    <3>1. k \in 1..2  BY <1>2
    <3>2. DOMAIN fulfilled = 1..2 /\ \A i \in 1..2 : fulfilled[i] = (i = k)  BY Zenon
    <3> QED  BY <3>1, <3>2, Zenon
  <2>2. WithFallback(fulfilled) = [i \in 1..2 |-> i = k]  BY <2>1 DEF WithFallback
  <2> QED  BY <2>1, <2>2
<1> QED  BY <1>1, <1>2

(* A child that is not ignored hangs on the output that is taken. *)
LEMMA OneBranchLive ==
  ASSUME TwoHandles, flow \in Flows, NEW n \in flow.nodes, flow.kind[n] \in DecisionKinds,
         NEW fulfilled, NEW w \in 1..2, WithFallback(fulfilled) = [i \in 1..2 |-> i = w],
         DOMAIN fulfilled = 1..2,
         NEW i \in DOMAIN flow.edges, flow.edges[i].src = n,
         flow.edges[i].dst \notin DetermineNodesToIgnore(flow, n, fulfilled)
  PROVE  flow.edges[i].dst \in Branch(n, w)
<1> DEFINE edgesOf(k) == {j \in DOMAIN flow.edges : flow.edges[j].src = n /\ flow.edges[j].out = k}
           unfulfilled == {k \in DOMAIN fulfilled : ~ WithFallback(fulfilled)[k]}
<1>1. DetermineNodesToIgnore(flow, n, fulfilled)
        = {flow.edges[FirstOf(edgesOf(k))].dst : k \in {u \in unfulfilled : edgesOf(u) # {}}}
  BY DEF DetermineNodesToIgnore
<1>2. flow.edges[i].out \in 1..2  BY DEF TwoHandles
<1>3. CASE flow.edges[i].out = w
  <2>1. flow.edges[i] \in EdgeSet(flow)  BY DEF EdgeSet
  <2> QED  BY <1>3, <2>1 DEF Branch
<1>4. CASE flow.edges[i].out # w
  <2> DEFINE u == flow.edges[i].out
  <2>1. u \in unfulfilled  BY <1>2, <1>4
  <2>2. edgesOf(u) = {i}
    <3>1. \A j \in edgesOf(u) : j = i  BY DEF TwoHandles
    <3> QED  BY <3>1
  <2>3. FirstOf(edgesOf(u)) = i
    <3>1. i \in Nat
      <4> DEFINE Edge == [src : flow.nodes, dst : flow.nodes, out : Nat]
      <4>1. flow.edges \in Seq(Edge)  BY FlowType DEF IsFlow
      <4> HIDE DEF Edge
      <4> QED  BY <4>1
    <3>2. i <= i  BY <3>1
    <3> QED  BY <2>2, <3>2 DEF FirstOf
  <2>4. u \in {k \in unfulfilled : edgesOf(k) # {}}  BY <2>1, <2>2
  <2> HIDE DEF u, unfulfilled, edgesOf
  <2>5. flow.edges[i].dst \in DetermineNodesToIgnore(flow, n, fulfilled)
    BY <1>1, <2>3, <2>4
  <2> QED  BY <2>5
<1> QED  BY <1>3, <1>4

(* The children that a turn of n delivers its result to, those of them     *)
(* that it queues, and what a turn of a decision does.                     *)
Live(n, fulfilled) ==
  {Children(flow, n)[i] : i \in DOMAIN Children(flow, n)} \ DetermineNodesToIgnore(flow, n, fulfilled)

Ready(n, fulfilled) ==
  {d \in Live(n, fulfilled) : HasReceivedRequiredInputs(flow, d, waiting[d] \cup {n})}

Took(n, fulfilled, w) ==
  /\ DOMAIN fulfilled = 1..2
  /\ WithFallback(fulfilled) = [i \in 1..2 |-> i = w]
  /\ \A c \in flow.nodes : c \notin Live(n, fulfilled) => waiting'[c] = waiting[c]
  /\ \A c \in flow.nodes :
       /\ Occurs(queue', c) = Occurs(Tail(queue), c) + Occurs(Keep(Children(flow, n), Ready(n, fulfilled)), c)
       /\ Occurs(Tail(queue), c) \in Nat

(* A turn of a decision takes one of its outputs. *)
LEMMA DecisionTakes ==
  ASSUME TwoHandles, GateInv, TypeOK', NEW n \in flow.nodes, Complete(n),
         flow.kind[n] \in DecisionKinds
  PROVE  \E fulfilled : \E w \in 1..2 : Took(n, fulfilled, w)
<1>1. Turn(n) /\ UNCHANGED flow /\ flow \in Flows /\ TypeOK  BY DEF Complete, GateInv, TypeOK
<1>2. PICK fulfilled \in Verdicts(n) : ProcessNodeOutputs(n, fulfilled)  BY DEF Complete
<1>3. PICK k \in 0..2 : fulfilled = [i \in 1..2 |-> i = k]
  BY <1>1, TwoVerdicts DEF Complete
<1>4. PICK w \in 1..2 : WithFallback(fulfilled) = [i \in 1..2 |-> i = w]
  BY <1>3, OneTaken
<1>5. DOMAIN fulfilled = 1..2  BY <1>3
<1> DEFINE live == Live(n, fulfilled)
           ready == Ready(n, fulfilled)
           kept == Keep(Children(flow, n), ready)
<1>6. /\ waiting' = [d \in flow.nodes |-> IF d \in ready THEN {}
                                           ELSE IF d \in live THEN waiting[d] \cup {n}
                                           ELSE waiting[d]]
      /\ queue' = Tail(queue) \o kept \o (IF LoopsBack(n) THEN <<flow.loopTo[n]>> ELSE << >>)
  BY <1>2 DEF ProcessNodeOutputs, Live, Ready
<1>7. ready \subseteq live  BY DEF Ready
<1>8. Children(flow, n) \in Seq(flow.nodes)  BY <1>1, FlowType, ChildrenType
<1> HIDE DEF live, ready
<1>9. kept \in Seq(flow.nodes \cap ready)  BY <1>8, KeepType
<1> HIDE DEF kept
<1>10. kept \in Seq(flow.nodes) /\ Tail(queue) \in Seq(flow.nodes)
  BY <1>1, <1>9 DEF TypeOK, Turn
<1>11. queue' = Tail(queue) \o kept
  <2>1. ~ LoopsBack(n)  BY DEF LoopsBack, DecisionKinds
  <2>2. Tail(queue) \o kept \in Seq(flow.nodes)  BY <1>10
  <2>3. queue' = (Tail(queue) \o kept) \o << >>  BY <1>6, <2>1
  <2> QED  BY <2>2, <2>3
<1>12. ASSUME NEW c \in flow.nodes
       PROVE  Occurs(queue', c) = Occurs(Tail(queue), c) + Occurs(kept, c)
              /\ Occurs(Tail(queue), c) \in Nat
  <2>1. Occurs(Tail(queue) \o kept, c) = Occurs(Tail(queue), c) + Occurs(kept, c)
    BY <1>10, OccursConcat
  <2>2. Occurs(Tail(queue), c) \in Nat  BY <1>10, OccursType
  <2> QED  BY <1>11, <2>1, <2>2
<1>13. \A c \in flow.nodes : c \notin live => waiting'[c] = waiting[c]
  BY <1>6, <1>7
<1> QED  BY <1>4, <1>5, <1>12, <1>13 DEF Took, live, kept, ready

(* What leads from a node to its children. *)
LEMMA ChildEdge ==
  ASSUME flow \in Flows, NEW n \in flow.nodes
  PROVE  /\ \A i \in DOMAIN Children(flow, n) : \E j \in DOMAIN flow.edges :
              flow.edges[j].src = n /\ flow.edges[j].dst = Children(flow, n)[i]
         /\ \A j \in DOMAIN flow.edges : flow.edges[j].src = n =>
              \E i \in DOMAIN Children(flow, n) : Children(flow, n)[i] = flow.edges[j].dst
<1> DEFINE Edge == [src : flow.nodes, dst : flow.nodes, out : Nat]
           Leaving == {e \in EdgeSet(flow) : e.src = n}
           out == Keep(flow.edges, Leaving)
<1>1. flow.edges \in Seq(Edge)  BY FlowType DEF IsFlow
<1>2. Children(flow, n) = [m \in DOMAIN out |-> out[m].dst]  BY DEF Children
<1>3. \A e \in Leaving : \E j \in DOMAIN flow.edges : e = flow.edges[j] /\ e.src = n
  BY DEF EdgeSet
<1>4. \A j \in DOMAIN flow.edges : flow.edges[j].src = n => flow.edges[j] \in Leaving
  BY DEF EdgeSet
<1> HIDE DEF Edge, Leaving
<1>5. out \in Seq(Edge \cap Leaving)  BY <1>1, KeepType
<1>6. \A j \in DOMAIN flow.edges : flow.edges[j] \in Leaving =>
        \E i \in DOMAIN out : out[i] = flow.edges[j]
  BY <1>1, KeepComplete
<1> HIDE DEF out
<1>7. ASSUME NEW i \in DOMAIN Children(flow, n)
      PROVE  \E j \in DOMAIN flow.edges :
               flow.edges[j].src = n /\ flow.edges[j].dst = Children(flow, n)[i]
  <2>1. i \in DOMAIN out /\ Children(flow, n)[i] = out[i].dst /\ out[i] \in Leaving
    BY <1>2, <1>5
  <2> QED  BY <1>3, <2>1
<1>8. ASSUME NEW j \in DOMAIN flow.edges, flow.edges[j].src = n
      PROVE  \E i \in DOMAIN Children(flow, n) : Children(flow, n)[i] = flow.edges[j].dst
  <2>1. PICK i \in DOMAIN out : out[i] = flow.edges[j]  BY <1>4, <1>6, <1>8
  <2> QED  BY <1>2, <2>1
<1> QED  BY <1>7, <1>8

(* What the turn delivers goes to the output that is taken. *)
LEMMA BranchStep ==
  ASSUME TwoHandles, GateInv, TypeOK', NEW n \in flow.nodes, Complete(n),
         flow.kind[n] \in DecisionKinds
  PROVE  \E k \in 1..2 : Delivered \subseteq Branch(n, k)
<1>1. flow \in Flows /\ IsFlow(flow)  BY FlowType DEF GateInv, TypeOK
<1>2. PICK fulfilled, w : w \in 1..2 /\ Took(n, fulfilled, w)  BY DecisionTakes
<1>3. Live(n, fulfilled) \subseteq Branch(n, w)
  <2> SUFFICES ASSUME NEW i \in DOMAIN Children(flow, n),
                      Children(flow, n)[i] \notin DetermineNodesToIgnore(flow, n, fulfilled)
               PROVE  Children(flow, n)[i] \in Branch(n, w)
    BY DEF Live
  <2>1. PICK j \in DOMAIN flow.edges :
          flow.edges[j].src = n /\ flow.edges[j].dst = Children(flow, n)[i]
    BY <1>1, ChildEdge
  <2> QED  BY <1>1, <1>2, <2>1, OneBranchLive DEF Took
<1>4. ASSUME NEW c \in Delivered PROVE c \in Live(n, fulfilled)
  <2> DEFINE kept == Keep(Children(flow, n), Ready(n, fulfilled))
  <2>1. SUFFICES ASSUME c \notin Live(n, fulfilled) PROVE FALSE  OBVIOUS
  <2>2. c \in flow.nodes /\ (\/ Cardinality(Places(queue', c)) > Cardinality(Places(Tail(queue), c))
                            \/ waiting'[c] \ waiting[c] # {})
    BY DEF Delivered, Places
  <2>3. /\ waiting'[c] = waiting[c]
        /\ Occurs(queue', c) = Occurs(Tail(queue), c) + Occurs(kept, c)
        /\ Occurs(Tail(queue), c) \in Nat
    BY <1>2, <2>1, <2>2 DEF Took
  <2>4. Occurs(kept, c) = 0
    <3>1. Children(flow, n) \in Seq(flow.nodes)  BY <1>1, ChildrenType
    <3>2. Ready(n, fulfilled) \subseteq Live(n, fulfilled)  BY DEF Ready
    <3>3. kept \in Seq(flow.nodes \cap Ready(n, fulfilled))  BY <3>1, KeepType
    <3> HIDE DEF kept
    <3>4. \A i \in DOMAIN kept : kept[i] # c  BY <2>1, <3>2, <3>3
    <3>5. kept \in Seq(flow.nodes)  BY <3>3
    <3> QED  BY <3>4, <3>5, OccursType
  <2> HIDE DEF kept
  <2> QED  BY <2>2, <2>3, <2>4 DEF Occurs
<1> QED  BY <1>2, <1>3, <1>4

(* The steps that the properties of decisions are about. *)
LEMMA DecidedCompletes ==
  ASSUME GateInv, [AuditNext]_auditVars, NEW n \in flow.nodes, Decided(n)
  PROVE  Complete(n) /\ flow.kind[n] \in DecisionKinds
<1>1. iterations \in Nat /\ iterations' = iterations + 1 /\ status = "INPROGRESS"
      /\ status' = "INPROGRESS" /\ n = Head(queue)
  BY DEF Decided, GateInv, TypeOK
<1>2. ~ UNCHANGED iterations  BY <1>1
<1>3. PICK m \in flow.nodes : ATurn(m)
  BY <1>1, <1>2 DEF AuditNext, auditVars, vars, AStart, StartExecution, AResume,
     ResumeExecution, AStep, AOther, Abort, Crash, Finish, EndRequest
<1>4. Complete(m)
  BY <1>1, <1>3 DEF ATurn, ExceedBudget, Terminate, Fail, FailWith, EndRequest, Pause
<1>5. m = n  BY <1>1, <1>4 DEF Complete, Turn
<1> QED  BY <1>4, <1>5 DEF Decided

(* A decision runs the nodes of one of its outputs and ignores those of    *)
(* the other, whatever the condition or the human answers and whatever     *)
(* else is in the queue, where one edge leaves each output (the code       *)
(* ignores the first edge of an unfulfilled output only).                  *)
THEOREM DecisionsTakeOneBranch ==
  ASSUME TwoHandles
  PROVE  AuditSpec => OneBranchOnly
<1>1. AuditInit => GateInv  BY GateInit
<1>2. GateInv /\ [AuditNext]_auditVars => GateInv'  BY GateStep
<1>3. ASSUME GateInv, GateInv', [AuditNext]_auditVars
      PROVE  [\A n \in flow.nodes :
                Decided(n) => \E k \in 1..2 : Delivered \subseteq Branch(n, k)]_vars
  <2> SUFFICES ASSUME NEW n \in flow.nodes, Decided(n)
               PROVE  \E k \in 1..2 : Delivered \subseteq Branch(n, k)
    OBVIOUS
  <2> QED  BY <1>3, DecidedCompletes, BranchStep DEF GateInv
<1> QED  BY <1>1, <1>2, <1>3, PTL DEF AuditSpec, OneBranchOnly

(* The nodes that a decision leads to wait for nothing but the decision. *)
BranchesWaitForNothing ==
  \A f \in Flows : \A n, c \in f.nodes :
    f.kind[n] \in DecisionKinds /\ n \in Parents(f, c) => \A G \in Sources(f, c) : n \in G

(* What is in a sequence is counted. *)
LEMMA OccursSome ==
  ASSUME NEW S, NEW q \in Seq(S), NEW i \in DOMAIN q
  PROVE  Occurs(q, q[i]) \in Nat \ {0}
<1>1. IsFiniteSet(Places(q, q[i])) /\ Occurs(q, q[i]) \in Nat  BY OccursType
<1>2. Places(q, q[i]) # {}  BY DEF Places
<1> QED  BY <1>1, <1>2, FS_EmptySet DEF Occurs

(* The node on the output that is taken is queued. *)
LEMMA SomeBranchStep ==
  ASSUME SingleEdges, TwoHandles, BranchesWaitForNothing, GateInv, TypeOK',
         NEW n \in flow.nodes, Complete(n), flow.kind[n] \in DecisionKinds,
         \A k \in 1..2 : Branch(n, k) # {}
  PROVE  Delivered # {}
<1>1. flow \in Flows /\ IsFlow(flow)  BY FlowType DEF GateInv, TypeOK
<1>2. PICK fulfilled, w : w \in 1..2 /\ Took(n, fulfilled, w)  BY DecisionTakes
<1>3. PICK i \in DOMAIN flow.edges : flow.edges[i].src = n /\ flow.edges[i].out = w
  BY <1>2 DEF Branch, EdgeSet
<1> DEFINE c == flow.edges[i].dst
<1>4. c \in flow.nodes /\ n \in Parents(flow, c)
  <2> DEFINE Edge == [src : flow.nodes, dst : flow.nodes, out : Nat]
  <2>1. flow.edges \in Seq(Edge)  BY <1>1 DEF IsFlow
  <2>2. \A e \in Edge : e.dst \in flow.nodes  OBVIOUS
  <2> HIDE DEF Edge
  <2>3. flow.edges[i].dst \in flow.nodes  BY <2>1, <2>2
  <2>4. flow.edges[i] \in EdgeSet(flow)  BY DEF EdgeSet
  <2> QED  BY <1>3, <2>3, <2>4 DEF Parents
<1>5. c \notin DetermineNodesToIgnore(flow, n, fulfilled)
  <2> DEFINE edgesOf(k) == {j \in DOMAIN flow.edges : flow.edges[j].src = n /\ flow.edges[j].out = k}
             unfulfilled == {k \in DOMAIN fulfilled : ~ WithFallback(fulfilled)[k]}
  <2>1. DetermineNodesToIgnore(flow, n, fulfilled)
          = {flow.edges[FirstOf(edgesOf(k))].dst : k \in {u \in unfulfilled : edgesOf(u) # {}}}
    BY DEF DetermineNodesToIgnore
  <2>2. ASSUME NEW k \in unfulfilled, edgesOf(k) # {}, c = flow.edges[FirstOf(edgesOf(k))].dst
        PROVE  FALSE
    <3>1. PICK j : j \in edgesOf(k)  BY <2>2
    <3>2. edgesOf(k) = {j}
      <4>1. \A h \in edgesOf(k) : h = j  BY <1>1, <3>1 DEF TwoHandles
      <4> QED  BY <3>1, <4>1
    <3>3. j \in DOMAIN flow.edges /\ flow.edges[j].src = n /\ flow.edges[j].out = k  BY <3>1
    <3>4. FirstOf(edgesOf(k)) = j
      <4>1. j \in Nat
        <5> DEFINE Edge == [src : flow.nodes, dst : flow.nodes, out : Nat]
        <5>1. flow.edges \in Seq(Edge)  BY <1>1 DEF IsFlow
        <5> HIDE DEF Edge
        <5> QED  BY <3>3, <5>1
      <4>2. j <= j  BY <4>1
      <4> QED  BY <3>2, <4>2 DEF FirstOf
    <3>5. j = i  BY <1>1, <1>3, <2>2, <3>3, <3>4 DEF SingleEdges
    <3>6. k = w  BY <1>3, <3>3, <3>5
    <3> QED  BY <1>2, <3>6 DEF Took
  <2> QED  BY <2>1, <2>2
<1>6. PICK m \in DOMAIN Children(flow, n) : Children(flow, n)[m] = c
  BY <1>1, <1>3, ChildEdge
<1> HIDE DEF c
<1>7. c \in Ready(n, fulfilled)
  <2>1. c \in Live(n, fulfilled)  BY <1>5, <1>6 DEF Live
  <2>2. \A G \in Sources(flow, c) : n \in G  BY <1>1, <1>4 DEF BranchesWaitForNothing
  <2>3. HasReceivedRequiredInputs(flow, c, waiting[c] \cup {n})
    BY <1>4, <2>2 DEF HasReceivedRequiredInputs, Sources
  <2> QED  BY <2>1, <2>3 DEF Ready
<1>8. Occurs(Keep(Children(flow, n), Ready(n, fulfilled)), c) \in Nat \ {0}
  <2> DEFINE kept == Keep(Children(flow, n), Ready(n, fulfilled))
  <2>1. Children(flow, n) \in Seq(flow.nodes)  BY <1>1, ChildrenType
  <2>2. kept \in Seq(flow.nodes \cap Ready(n, fulfilled))  BY <2>1, KeepType
  <2>3. PICK h \in DOMAIN kept : kept[h] = c  BY <1>6, <1>7, <2>1, KeepComplete
  <2> HIDE DEF kept
  <2>4. Occurs(kept, kept[h]) \in Nat \ {0}  BY <2>2, OccursSome
  <2> QED  BY <2>3, <2>4 DEF kept
<1>9. Occurs(queue', c) > Occurs(Tail(queue), c)
  BY <1>2, <1>4, <1>8 DEF Took
<1>10. c \in Delivered  BY <1>4, <1>9 DEF Delivered, Occurs, Places
<1> QED  BY <1>10

(* A decision runs at least one of its branches, also when no condition    *)
(* holds or the answer is neither to proceed nor to reject: the last       *)
(* output is taken then.                                                   *)
THEOREM DecisionsTakeABranch ==
  ASSUME SingleEdges, TwoHandles, BranchesWaitForNothing
  PROVE  AuditSpec => SomeBranchExecutes
<1>1. AuditInit => GateInv  BY GateInit
<1>2. GateInv /\ [AuditNext]_auditVars => GateInv'  BY GateStep
<1>3. ASSUME GateInv, GateInv', [AuditNext]_auditVars
      PROVE  [\A n \in flow.nodes :
                Decided(n) /\ (\A k \in 1..2 : Branch(n, k) # {}) => Delivered # {}]_vars
  <2> SUFFICES ASSUME NEW n \in flow.nodes, Decided(n), \A k \in 1..2 : Branch(n, k) # {}
               PROVE  Delivered # {}
    OBVIOUS
  <2> QED  BY <1>3, DecidedCompletes, SomeBranchStep DEF GateInv
<1> QED  BY <1>1, <1>2, <1>3, PTL DEF AuditSpec, SomeBranchExecutes
===========================================================================
