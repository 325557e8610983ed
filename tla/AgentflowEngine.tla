--------------------------- MODULE AgentflowEngine ---------------------------
(***************************************************************************)
(* executeAgentFlow (utils/buildAgentflow.ts): one chat session of one     *)
(* agentflow.  A request either starts a new execution or resumes the      *)
(* latest one with a human's answer; the engine then takes nodes from a    *)
(* queue, runs them, delivers their results to their children and persists *)
(* the execution record when it ends.                                      *)
(*                                                                         *)
(* One action is one turn of the main loop: everything executeNode,        *)
(* processNodeOutputs and the catch block do to the state.  The engine's   *)
(* own state is local to the request, so nothing interleaves with a turn   *)
(* but the abort signal, which is only looked at between turns.            *)
(***************************************************************************)
EXTENDS FlowGraph

CONSTANTS
  Flows,           \* the flows that may be run
  MaxIterations,   \* MAX_ITERATIONS
  MaxSteps,        \* step budget of the loop guardrail (above MaxIterations: off)
  DefaultMaxLoop,  \* MAX_LOOP_COUNT, used when a loop node gives none
  MaxExecs,        \* bound: executions of the session
  MaxResumes,      \* bound: resumptions of an execution
  MaxItems,        \* bound: results an iteration node collects
  Crashes          \* whether the process may die during a run

ASSUME EngineAssumption ==
  /\ \A f \in Flows : IsFlow(f)
  /\ MaxIterations \in Nat
  /\ MaxSteps \in Nat
  /\ DefaultMaxLoop \in Nat
  /\ MaxExecs \in Nat
  /\ MaxResumes \in Nat
  /\ MaxItems \in Nat
  /\ Crashes \in BOOLEAN

VARIABLES
  flow,        \* the flow of this session, never changed
  execs,       \* the Execution records of the session, oldest first
  resumes,     \* how often the latest execution was resumed
  status,      \* status of the running request, "NONE" when none runs
  queue,       \* nodeExecutionQueue
  waiting,     \* waitingNodes: the inputs a node has, {} when it has no entry
  loopCounts,  \* loopCounts
  data,        \* agentFlowExecutedData
  humanInput,  \* currentHumanInput
  iterations,  \* iterations
  aborted      \* abortController.signal.aborted

vars == <<flow, execs, resumes, status, queue, waiting, loopCounts, data,
          humanInput, iterations, aborted>>

locals == <<queue, waiting, loopCounts, data, humanInput, iterations, aborted>>

---------------------------------------------------------------------------
EntryStatus == {"FINISHED", "STOPPED", "ERROR", "TERMINATED"}
ExecutionState == EntryStatus \cup {"INPROGRESS"}

Entry(n, s) == [node |-> n, status |-> s]
Entries == [node : flow.nodes, status : EntryStatus]

(* No human input: undefined. *)
NoHuman == [node |-> NoNode, decision |-> 0]

(* The answers of a human: 1 proceed, 2 reject, 0 anything else. *)
Decisions == 0..2

WithStatus(d, s) == \E i \in DOMAIN d : d[i].status = s

Without(d, n) == Keep(d, {e \in Entries : e.node # n})

Last(d) == d[Len(d)]

Latest == execs[Len(execs)]

SaveLatest(rec) == execs' = [execs EXCEPT ![Len(execs)] = rec]

MutEndRequest ==
  /\ status' = "NONE"
  /\ queue' = << >>
  /\ waiting' = [n \in flow.nodes |-> {}]
  /\ loopCounts' = [n \in flow.nodes |-> 0]
  /\ data' = << >>
  /\ humanInput' = NoHuman
  /\ iterations' = 0
  /\ UNCHANGED aborted

(* What the request leaves when it returns or throws: nothing is kept. *)
EndRequest ==
  /\ status' = "NONE"
  /\ queue' = << >>
  /\ waiting' = [n \in flow.nodes |-> {}]
  /\ loopCounts' = [n \in flow.nodes |-> 0]
  /\ data' = << >>
  /\ humanInput' = NoHuman
  /\ iterations' = 0
  /\ aborted' = FALSE

(* The local state of a request that begins; nothing of an earlier request *)
(* of the same execution is restored but its executed data.                *)
BeginRequest(starting, executed, human) ==
  /\ status' = "INPROGRESS"
  /\ queue' = starting
  /\ waiting' = [n \in flow.nodes |-> {}]
  /\ loopCounts' = [n \in flow.nodes |-> 0]
  /\ data' = executed
  /\ humanInput' = human
  /\ iterations' = 0
  /\ aborted' = FALSE

---------------------------------------------------------------------------
Init ==
  /\ flow \in Flows
  /\ execs = << >>
  /\ resumes = 0
  /\ status = "NONE"
  /\ queue = << >>
  /\ waiting = [n \in flow.nodes |-> {}]
  /\ loopCounts = [n \in flow.nodes |-> 0]
  /\ data = << >>
  /\ humanInput = NoHuman
  /\ iterations = 0
  /\ aborted = FALSE

(* A request without human input: a new execution record and the single    *)
(* start node; several start nodes are refused before anything is stored.  *)
StartExecution ==
  /\ status = "NONE"
  /\ Len(execs) < MaxExecs
  /\ execs' = Append(execs, [state |-> "INPROGRESS", data |-> << >>])
  /\ resumes' = 0
  /\ \E n \in StartNodes(flow) :
       /\ StartNodes(flow) = {n}
       /\ BeginRequest(<<n>>, << >>, NoHuman)
  /\ UNCHANGED flow

---------------------------------------------------------------------------
(***************************************************************************)
(* Resuming the latest execution of the session.                           *)
(***************************************************************************)
ErrorAfterStop(rec) ==
  /\ rec.state = "ERROR"
  /\ Len(rec.data) >= 2
  /\ Last(rec.data).status = "ERROR"
  /\ rec.data[Len(rec.data) - 1].status = "STOPPED"

MutCanResume(rec) == rec.state \in {"STOPPED", "FINISHED"} \/ ErrorAfterStop(rec)

CanResume(rec) == rec.state = "STOPPED" \/ ErrorAfterStop(rec)

(* The executed data the run continues with: a trailing error is dropped.  *)
Checkpoint(rec) ==
  IF rec.state = "ERROR" THEN SubSeq(rec.data, 1, Len(rec.data) - 1) ELSE rec.data

StoppedNodes(d) == {i \in DOMAIN d : d[i].status = "STOPPED"}

(* startNodeId of the request, or the node that stopped last. *)
IsResumePoint(d, named, n) ==
  IF named # NoNode
  THEN n = named /\ \E i \in DOMAIN d : d[i].node = n
  ELSE \E i \in StoppedNodes(d) :
         /\ \A j \in StoppedNodes(d) : j <= i
         /\ n = d[i].node

ResumeExecution(decision, named) ==
  /\ status = "NONE"
  /\ execs # << >>
  /\ resumes < MaxResumes
  /\ CanResume(Latest)
  /\ \E n \in flow.nodes :
       /\ IsResumePoint(Checkpoint(Latest), named, n)
       /\ BeginRequest(IF n \in Inside(flow) THEN << >> ELSE <<n>>,
                       Checkpoint(Latest),
                       [node |-> n, decision |-> decision])
  /\ SaveLatest([state |-> "INPROGRESS", data |-> Checkpoint(Latest)])
  /\ resumes' = resumes + 1
  /\ UNCHANGED flow

(* The abort endpoint, which finds the controller of the running request.  *)
Abort ==
  /\ status # "NONE"
  /\ ~ aborted
  /\ aborted' = TRUE
  /\ UNCHANGED <<flow, execs, resumes, status, queue, waiting, loopCounts,
                 data, humanInput, iterations>>

---------------------------------------------------------------------------
(***************************************************************************)
(* One turn of the main loop.                                              *)
(***************************************************************************)
MutOverBudget == iterations > MaxIterations \/ iterations > MaxSteps

OverBudget == iterations > MaxIterations \/ iterations + 1 > MaxSteps

Turn(n) ==
  /\ status = "INPROGRESS"
  /\ queue # << >>
  /\ n = Head(queue)

(* Both limits throw outside of the try block: the record is not updated.  *)
ExceedBudget(n) ==
  /\ Turn(n)
  /\ OverBudget
  /\ EndRequest
  /\ UNCHANGED <<flow, execs, resumes>>

(* On the resumed node executeNode first drops every entry of that node    *)
(* from its own copy of the executed data and clears the human input.      *)
Executed(n) == IF humanInput.node = n THEN Without(data, n) ELSE data

MutAfterConsumption(n) == humanInput

AfterConsumption(n) == IF humanInput.node = n THEN NoHuman ELSE humanInput

(* The catch block working on the copy that executeNode had filtered. *)
MutFailWith(n, s) ==
  /\ SaveLatest([state |-> s, data |-> Append(Executed(n), Entry(n, s))])
  /\ EndRequest
  /\ UNCHANGED <<flow, resumes>>

MutFailUnsaved(n, s) == EndRequest /\ UNCHANGED <<flow, execs, resumes>>

(* The catch block: the entry of the failed node, the record, the rethrow. *)
FailWith(n, s) ==
  /\ SaveLatest([state |-> s, data |-> Append(data, Entry(n, s))])
  /\ EndRequest
  /\ UNCHANGED <<flow, resumes>>

Terminate(n) ==
  /\ Turn(n)
  /\ ~ OverBudget
  /\ aborted
  /\ FailWith(n, "TERMINATED")

Fail(n) ==
  /\ Turn(n)
  /\ ~ OverBudget
  /\ ~ aborted
  /\ FailWith(n, "ERROR")

(* A human node without an answer always stops, an agent may stop because  *)
(* a tool wants approval.  The rest of the queue is not run.               *)
Pause(n) ==
  /\ Turn(n)
  /\ ~ OverBudget
  /\ ~ aborted
  /\ \/ flow.kind[n] = "human" /\ humanInput = NoHuman
     \/ flow.kind[n] = "agent"
  /\ data' = Append(Executed(n), Entry(n, "STOPPED"))
  /\ humanInput' = AfterConsumption(n)
  /\ status' = "STOPPED"
  /\ queue' = Tail(queue)
  /\ iterations' = iterations + 1
  /\ UNCHANGED <<flow, execs, resumes, waiting, loopCounts, aborted>>

---------------------------------------------------------------------------
(* The isFulfilled flags a node may answer; at most one is set. *)
Verdicts(n) ==
  CASE flow.kind[n] = "condition" ->
         {[i \in 1..flow.outs[n] |-> i = k] : k \in 0..flow.outs[n]}
    [] flow.kind[n] = "human" /\ humanInput.node = n ->
         {[i \in 1..2 |-> i = humanInput.decision]}
    [] OTHER -> {<< >>}

(* What the sub-flow runs of an iteration node add to the executed data,   *)
(* one entry for each item whose run returned: a run that threw (abort     *)
(* included) is caught and adds nothing.  Only an agent can stop there.    *)
SubRuns(n) ==
  LET inner == {c \in flow.nodes : flow.parent[c] = n}
      ends == {e \in [node : inner, status : {"FINISHED", "STOPPED"}] :
                 e.status = "STOPPED" => flow.kind[e.node] = "agent"}
  IN  IF flow.kind[n] = "iteration"
      THEN UNION {[1..k -> ends] : k \in 0..MaxItems}
      ELSE {<< >>}

LoopLimit(n) == IF flow.maxLoop[n] = 0 THEN DefaultMaxLoop ELSE flow.maxLoop[n]

MutLoopsBack(n) == flow.kind[n] = "loop" /\ loopCounts[n] < LoopLimit(n)

LoopsBack(n) == flow.kind[n] = "loop" /\ loopCounts[n] + 1 < LoopLimit(n)

(* processNodeOutputs: the result goes to every child that is not ignored; *)
(* a child with all its inputs leaves waitingNodes for the queue.  A loop  *)
(* node below its limit queues its target.                                 *)
ProcessNodeOutputs(n, fulfilled) ==
  LET ignored == DetermineNodesToIgnore(flow, n, fulfilled)
      live == {Children(flow, n)[i] : i \in DOMAIN Children(flow, n)} \ ignored
      received(c) == waiting[c] \cup {n}
      ready == {c \in live : HasReceivedRequiredInputs(flow, c, received(c))}
  IN  /\ waiting' = [c \in flow.nodes |->
                       IF c \in ready THEN {}
                       ELSE IF c \in live THEN received(c)
                       ELSE waiting[c]]
      /\ queue' = Tail(queue) \o Keep(Children(flow, n), ready)
                    \o (IF LoopsBack(n) THEN <<flow.loopTo[n]>> ELSE << >>)
      /\ loopCounts' = IF LoopsBack(n)
                       THEN [loopCounts EXCEPT ![n] = @ + 1]
                       ELSE loopCounts
      /\ humanInput' = IF LoopsBack(n) THEN NoHuman ELSE AfterConsumption(n)

Complete(n) ==
  /\ Turn(n)
  /\ ~ OverBudget
  /\ ~ aborted
  /\ ~ (flow.kind[n] = "human" /\ humanInput = NoHuman)
  /\ \E fulfilled \in Verdicts(n), sub \in SubRuns(n) :
       /\ ProcessNodeOutputs(n, fulfilled)
       /\ data' = Append(Executed(n) \o sub, Entry(n, "FINISHED"))
       /\ IF sub = << >> THEN UNCHANGED execs
          ELSE SaveLatest([Latest EXCEPT !.data = Executed(n) \o sub])
  /\ iterations' = iterations + 1
  /\ UNCHANGED <<flow, resumes, status, aborted>>

---------------------------------------------------------------------------
MutFinalStatus(d) == IF Last(d).status = "STOPPED" THEN "STOPPED" ELSE "FINISHED"

FinalStatus(d) ==
  CASE WithStatus(d, "TERMINATED") -> "TERMINATED"
    [] ~ WithStatus(d, "TERMINATED") /\ WithStatus(d, "ERROR") -> "ERROR"
    [] ~ WithStatus(d, "TERMINATED") /\ ~ WithStatus(d, "ERROR")
         /\ WithStatus(d, "STOPPED") -> "STOPPED"
    [] OTHER -> "FINISHED"

MutFinish ==
  /\ status = "INPROGRESS" /\ queue = << >>
  /\ SaveLatest([state |-> FinalStatus(data), data |-> data])
  /\ EndRequest
  /\ UNCHANGED <<flow, resumes>>

(* The loop is left: the status is computed anew from the executed data.   *)
Finish ==
  /\ \/ status = "STOPPED"
     \/ status = "INPROGRESS" /\ queue = << >>
  /\ SaveLatest([state |-> FinalStatus(data), data |-> data])
  /\ EndRequest
  /\ UNCHANGED <<flow, resumes>>

(* The process dies: the record stays as it was last saved. *)
Crash ==
  /\ Crashes
  /\ status # "NONE"
  /\ EndRequest
  /\ UNCHANGED <<flow, execs, resumes>>

---------------------------------------------------------------------------
ExecuteNode(n) ==
  ExceedBudget(n) \/ Terminate(n) \/ Fail(n) \/ Pause(n) \/ Complete(n)

Step == Finish \/ \E n \in flow.nodes : ExecuteNode(n)

Next ==
  \/ StartExecution
  \/ \E decision \in Decisions, named \in flow.nodes \cup {NoNode} :
       ResumeExecution(decision, named)
  \/ Abort
  \/ Step
  \/ Crash

Spec == Init /\ [][Next]_vars

(* The request runs in one event loop that keeps turning while it runs; a  *)
(* client need not start, resume or abort anything.                        *)
FairSpec == Spec /\ WF_vars(Step)

---------------------------------------------------------------------------
(* The types, and: a request that runs has an execution to save to; no     *)
(* request runs means no local state is left.                              *)
TypeOK ==
  /\ flow \in Flows
  /\ execs \in Seq([state : ExecutionState, data : Seq(Entries)])
  /\ resumes \in Nat
  /\ status \in {"NONE", "INPROGRESS", "STOPPED"}
  /\ status # "NONE" => execs # << >>
  /\ queue \in Seq(flow.nodes)
  /\ waiting \in [flow.nodes -> SUBSET flow.nodes]
  /\ loopCounts \in [flow.nodes -> Nat]
  /\ data \in Seq(Entries)
  /\ humanInput \in [node : flow.nodes \cup {NoNode}, decision : Decisions]
  /\ iterations \in Nat
  /\ aborted \in BOOLEAN
  /\ status = "NONE" =>
       /\ queue = << >> /\ data = << >> /\ humanInput = NoHuman
       /\ iterations = 0 /\ ~ aborted

(* The saved state tells how the saved data ended: finished means no node  *)
(* failed, stopped or was terminated; stopped means that some node stopped *)
(* and none failed (the resume code relies on both).                       *)
StateMatchesData ==
  \A i \in DOMAIN execs :
    LET rec == execs[i]
    IN  /\ rec.state = "FINISHED" =>
             \A s \in {"STOPPED", "ERROR", "TERMINATED"} : ~ WithStatus(rec.data, s)
        /\ rec.state = "STOPPED" =>
             /\ WithStatus(rec.data, "STOPPED")
             /\ ~ WithStatus(rec.data, "ERROR")
        /\ rec.state \in {"ERROR", "TERMINATED"} => Last(rec.data).status = rec.state

(* A request that ends, however it ends, settles its record: only the      *)
(* death of the process leaves one in progress (observe polls a record     *)
(* while it is).                                                           *)
RequestSettles ==
  [][Step /\ status' = "NONE" => Latest'.state # "INPROGRESS"]_vars

(* A join with all its inputs delivered never keeps waiting, and when the  *)
(* queue runs dry nothing is left half delivered.                          *)
NoStarvedJoin ==
  status = "INPROGRESS" /\ queue = << >> => \A n \in flow.nodes : waiting[n] = {}

(* A node that stops for a human stops its own route only: no other node   *)
(* that was ready, or had inputs, is dropped with it.                      *)
OnlyItsRouteStops ==
  status = "STOPPED" => queue = << >> /\ \A n \in flow.nodes : waiting[n] = {}

(* No request runs more nodes than the limits allow.                       *)
StepBudget == iterations <= MaxIterations + 1 /\ iterations <= MaxSteps

(* When the node that a human answered fails, the execution can be resumed *)
(* again at that node: the failure keeps the stopped entry before it.      *)
FailedAnswerCanBeRetried ==
  [][\A n \in flow.nodes :
       /\ execs # << >> /\ status # "NONE" /\ status' = "NONE"
       /\ execs'[Len(execs')].state = "ERROR"
       /\ humanInput.node = n /\ data # << >> /\ Last(data) = Entry(n, "STOPPED")
       => CanResume(execs'[Len(execs')])]_vars

(* The nodes that a turn delivered the result of n to. *)
Delivered ==
  {c \in flow.nodes : \/ Cardinality({i \in DOMAIN queue' : queue'[i] = c})
                          > Cardinality({i \in DOMAIN Tail(queue) : Tail(queue)[i] = c})
                     \/ waiting'[c] \ waiting[c] # {}}

Branch(n, k) == {e.dst : e \in {d \in EdgeSet(flow) : d.src = n /\ d.out = k}}

Decided(n) ==
  /\ status = "INPROGRESS" /\ queue # << >> /\ n = Head(queue)
  /\ flow.kind[n] \in DecisionKinds
  /\ status' = "INPROGRESS" /\ iterations' = iterations + 1

(* A decision runs at least one of its branches, also when no condition    *)
(* holds: the fallback is there "so at least one branch executes".         *)
SomeBranchExecutes ==
  [][\A n \in flow.nodes :
       Decided(n) /\ (\A k \in 1..2 : Branch(n, k) # {}) => Delivered # {}]_vars

(* A decision runs the nodes of one of its branches and ignores those of   *)
(* the others.                                                             *)
OneBranchOnly ==
  [][\A n \in flow.nodes :
       Decided(n) => \E k \in 1..2 : Delivered \subseteq Branch(n, k)]_vars

(* Every request ends.                                                     *)
RequestEnds == status # "NONE" ~> status = "NONE"

(* The engine implements the lifecycle of the execution table.             *)
Lifecycle ==
  INSTANCE ExecutionLifecycle WITH states <- [i \in DOMAIN execs |-> execs[i].state]

LifecycleSpec == Lifecycle!Spec
===========================================================================
