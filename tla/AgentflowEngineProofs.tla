------------------------ MODULE AgentflowEngineProofs ------------------------
(***************************************************************************)
(* Theorems about the engine for every set of flows, every limit and every *)
(* bound: its variables keep their types, the saved state tells how the    *)
(* saved data ended, no request exceeds its step budget, a request that    *)
(* ends settles its record, no join is left half delivered in flows of a   *)
(* certain form, and the engine implements the lifecycle of the Execution  *)
(* table.                                                                  *)
(***************************************************************************)
EXTENDS AgentflowEngine, SequenceKeepProofs

(* What TypeOK says of the flow: it is one the engine may be given. *)
LEMMA FlowType ==
  ASSUME flow \in Flows
  PROVE  IsFlow(flow)
BY EngineAssumption

(* The children of a node are nodes. *)
LEMMA ChildrenType ==
  ASSUME NEW f, IsFlow(f), NEW n \in f.nodes
  PROVE  Children(f, n) \in Seq(f.nodes)
<1> DEFINE Edge == [src : f.nodes, dst : f.nodes, out : Nat]
           Leaving == {e \in EdgeSet(f) : e.src = n}
           out == Keep(f.edges, Leaving)
<1>1. f.edges \in Seq(Edge)  BY DEF IsFlow
<1> HIDE DEF Edge, Leaving
<1>2. out \in Seq(Edge \cap Leaving)  BY <1>1, KeepType
<1> HIDE DEF out
<1>3. out \in Seq(Edge)  BY <1>2
<1>4. ASSUME NEW i \in DOMAIN out PROVE out[i].dst \in f.nodes
  <2>1. out[i] \in Edge  BY <1>3
  <2> QED  BY <2>1 DEF Edge
<1>5. DOMAIN out = 1..Len(out) /\ Len(out) \in Nat  BY <1>3
<1>6. [i \in DOMAIN out |-> out[i].dst] \in Seq(f.nodes)  BY <1>4, <1>5
<1> QED  BY <1>6 DEF Children, out, Leaving

(* Dropping the entries of a node leaves a sequence of entries. *)
LEMMA ExecutedType ==
  ASSUME NEW S, S \subseteq Entries, data \in Seq(S), NEW n
  PROVE  Executed(n) \in Seq(S)
<1> DEFINE others == {e \in Entries : e.node # n}
<1>1. Keep(data, others) \in Seq(S \cap others)
  <2> HIDE DEF others
  <2> QED  BY KeepType
<1>2. Keep(data, others) \in Seq(S)
  <2> HIDE DEF others
  <2> QED  BY <1>1
<1> QED  BY <1>2 DEF Executed, Without

(* What an iteration adds is a sequence of entries without a failure. *)
Benign == {e \in Entries : e.status \in {"FINISHED", "STOPPED"}}

LEMMA SubRunsType ==
  ASSUME NEW n, NEW sub \in SubRuns(n)
  PROVE  sub \in Seq(Benign)
<1> DEFINE inner == {c \in flow.nodes : flow.parent[c] = n}
           ends == {e \in [node : inner, status : {"FINISHED", "STOPPED"}] :
                      e.status = "STOPPED" => flow.kind[e.node] = "agent"}
<1>1. ends \subseteq Benign  BY DEF Benign, Entries, EntryStatus
<1>2. CASE flow.kind[n] = "iteration"
  <2>1. PICK k \in 0..MaxItems : sub \in [1..k -> ends]
    BY <1>2 DEF SubRuns
  <2>2. k \in Nat  BY EngineAssumption
  <2> HIDE DEF ends
  <2>3. sub \in Seq(ends)  BY <2>1, <2>2
  <2> QED  BY <2>3, <1>1
<1>3. CASE flow.kind[n] # "iteration"
  <2>1. sub = << >>  BY <1>3 DEF SubRuns
  <2> QED  BY <2>1
<1> QED  BY <1>2, <1>3

---------------------------------------------------------------------------
(***************************************************************************)
(* Type correctness.                                                       *)
(***************************************************************************)
Record == [state : ExecutionState, data : Seq(Entries)]

(* Storing a record over the latest one keeps the type of the records. *)
LEMMA SaveLatestType ==
  ASSUME NEW R, execs \in Seq(R), execs # << >>, NEW rec \in R, SaveLatest(rec)
  PROVE  /\ execs' \in Seq(R)
         /\ Len(execs') = Len(execs)
         /\ execs' # << >>
         /\ execs'[Len(execs)] = rec
         /\ \A i \in 1..Len(execs) : i # Len(execs) => execs'[i] = execs[i]
<1>1. Len(execs) \in DOMAIN execs  OBVIOUS
<1> QED  BY <1>1 DEF SaveLatest

LEMMA LatestType ==
  ASSUME NEW R, execs \in Seq(R), execs # << >>
  PROVE  Latest \in R
BY DEF Latest

(* Ending a request leaves variables of their types. *)
LEMMA EndRequestType ==
  ASSUME TypeOK, EndRequest, UNCHANGED <<flow, resumes>>,
         execs' \in Seq(Record)
  PROVE  TypeOK'
<1>1. waiting' \in [flow.nodes -> SUBSET flow.nodes] /\ loopCounts' \in [flow.nodes -> Nat]
  BY DEF EndRequest
<1>2. queue' \in Seq(flow.nodes) /\ data' \in Seq(Entries)
  BY DEF EndRequest
<1>3. humanInput' \in [node : flow.nodes \cup {NoNode}, decision : Decisions]
  BY DEF EndRequest, NoHuman, Decisions
<1>4. execs' \in Seq([state : ExecutionState, data : Seq(Entries)])
  BY DEF Record
<1>5. Entries' = Entries /\ flow' = flow  BY DEF Entries
<1>6. /\ status' = "NONE" /\ queue' = << >> /\ data' = << >> /\ humanInput' = NoHuman
      /\ iterations' = 0 /\ aborted' = FALSE /\ resumes' = resumes
  BY DEF EndRequest
<1> QED  BY <1>1, <1>2, <1>3, <1>4, <1>5, <1>6 DEF TypeOK

LEMMA FailWithType ==
  ASSUME TypeOK, status # "NONE", NEW n \in flow.nodes,
         NEW s \in {"ERROR", "TERMINATED"}, FailWith(n, s)
  PROVE  TypeOK'
<1>1. Entry(n, s) \in Entries  BY DEF Entry, Entries, EntryStatus
<1>2. [state |-> s, data |-> Append(data, Entry(n, s))] \in Record
  BY <1>1 DEF TypeOK, Record, ExecutionState, EntryStatus
<1>3. execs' \in Seq(Record)
  BY <1>2, SaveLatestType DEF FailWith, TypeOK, Record
<1> QED  BY <1>3, EndRequestType DEF FailWith

LEMMA FinishType ==
  ASSUME TypeOK, Finish
  PROVE  TypeOK'
<1>1. FinalStatus(data) \in ExecutionState
  BY DEF FinalStatus, ExecutionState, EntryStatus
<1>2. [state |-> FinalStatus(data), data |-> data] \in Record
  BY <1>1 DEF TypeOK, Record
<1>3. execs' \in Seq(Record)
  BY <1>2, SaveLatestType DEF Finish, TypeOK, Record
<1> QED  BY <1>3, EndRequestType DEF Finish

LEMMA PauseType ==
  ASSUME TypeOK, NEW n \in flow.nodes, Pause(n)
  PROVE  TypeOK'
<1>1. Entry(n, "STOPPED") \in Entries  BY DEF Entry, Entries, EntryStatus
<1>2. Executed(n) \in Seq(Entries)  BY ExecutedType DEF TypeOK
<1>3. data' \in Seq(Entries)  BY <1>1, <1>2 DEF Pause
<1>4. queue' \in Seq(flow.nodes)  BY DEF Pause, Turn, TypeOK
<1>5. humanInput' \in [node : flow.nodes \cup {NoNode}, decision : Decisions]
  BY DEF Pause, AfterConsumption, TypeOK, NoHuman, Decisions
<1> QED  BY <1>3, <1>4, <1>5 DEF TypeOK, Pause, Turn, Entries

LEMMA CompleteType ==
  ASSUME TypeOK, NEW n \in flow.nodes, Complete(n)
  PROVE  TypeOK'
<1>1. PICK fulfilled \in Verdicts(n), sub \in SubRuns(n) :
        /\ ProcessNodeOutputs(n, fulfilled)
        /\ data' = Append(Executed(n) \o sub, Entry(n, "FINISHED"))
        /\ IF sub = << >> THEN UNCHANGED execs
           ELSE SaveLatest([Latest EXCEPT !.data = Executed(n) \o sub])
  BY DEF Complete
<1>2. IsFlow(flow)  BY FlowType DEF TypeOK
<1>3. Entry(n, "FINISHED") \in Entries  BY DEF Entry, Entries, EntryStatus
<1>4. Executed(n) \in Seq(Entries)  BY ExecutedType DEF TypeOK
<1>5. sub \in Seq(Entries)
  <2>1. Benign \subseteq Entries  BY DEF Benign
  <2> QED  BY <2>1, SubRunsType
<1>6. Executed(n) \o sub \in Seq(Entries)  BY <1>4, <1>5
<1>7. data' \in Seq(Entries)  BY <1>1, <1>3, <1>6
<1>8. execs' \in Seq(Record) /\ execs' # << >>
  <2>1. execs \in Seq(Record) /\ execs # << >>
    BY DEF TypeOK, Record, Complete, Turn
  <2>2. Latest \in Record  BY <2>1, LatestType
  <2>3. [Latest EXCEPT !.data = Executed(n) \o sub] \in Record
    BY <2>2, <1>6 DEF Record
  <2> QED  BY <1>1, <2>1, <2>3, SaveLatestType
<1>9. /\ queue' \in Seq(flow.nodes)
      /\ waiting' \in [flow.nodes -> SUBSET flow.nodes]
      /\ loopCounts' \in [flow.nodes -> Nat]
      /\ humanInput' \in [node : flow.nodes \cup {NoNode}, decision : Decisions]
  <2> DEFINE live == {Children(flow, n)[i] : i \in DOMAIN Children(flow, n)}
                       \ DetermineNodesToIgnore(flow, n, fulfilled)
             received(c) == waiting[c] \cup {n}
             ready == {c \in live : HasReceivedRequiredInputs(flow, c, received(c))}
             again == IF LoopsBack(n) THEN <<flow.loopTo[n]>> ELSE << >>
  <2>1. /\ waiting' = [c \in flow.nodes |->
                        IF c \in ready THEN {}
                        ELSE IF c \in live THEN received(c)
                        ELSE waiting[c]]
        /\ queue' = Tail(queue) \o Keep(Children(flow, n), ready) \o again
        /\ loopCounts' = IF LoopsBack(n)
                         THEN [loopCounts EXCEPT ![n] = @ + 1]
                         ELSE loopCounts
        /\ humanInput' = IF LoopsBack(n) THEN NoHuman ELSE AfterConsumption(n)
    BY <1>1 DEF ProcessNodeOutputs
  <2>2. Keep(Children(flow, n), ready) \in Seq(flow.nodes)
    <3> HIDE DEF ready
    <3>1. Children(flow, n) \in Seq(flow.nodes)  BY <1>2, ChildrenType
    <3>2. Keep(Children(flow, n), ready) \in Seq(flow.nodes \cap ready)
      BY <3>1, KeepType
    <3> QED  BY <3>2
  <2>3. Tail(queue) \in Seq(flow.nodes)  BY DEF Complete, Turn, TypeOK
  <2>4. again \in Seq(flow.nodes)
    <3>1. flow.loopTo[n] \in flow.nodes  BY <1>2 DEF IsFlow
    <3> QED  BY <3>1, ShortSeq
  <2> HIDE DEF ready, live, again
  <2>5. queue' \in Seq(flow.nodes)  BY <2>1, <2>2, <2>3, <2>4
  <2>6. waiting' \in [flow.nodes -> SUBSET flow.nodes]  BY <2>1 DEF TypeOK
  <2>7. loopCounts' \in [flow.nodes -> Nat]  BY <2>1 DEF TypeOK
  <2>8. humanInput' \in [node : flow.nodes \cup {NoNode}, decision : Decisions]
    BY <2>1 DEF AfterConsumption, NoHuman, Decisions, TypeOK
  <2> QED  BY <2>5, <2>6, <2>7, <2>8
<1> QED
  <2>1. UNCHANGED <<flow, resumes, status, aborted>> /\ iterations' = iterations + 1
        /\ status = "INPROGRESS"
    BY DEF Complete, Turn
  <2> QED  BY <1>7, <1>8, <1>9, <2>1 DEF TypeOK, Record, Entries

(* So does beginning one, once its execution is stored. *)
LEMMA BeginRequestType ==
  ASSUME TypeOK, UNCHANGED flow, resumes' \in Nat,
         execs' \in Seq(Record), execs' # << >>,
         NEW starting \in Seq(flow.nodes), NEW executed \in Seq(Entries),
         NEW human \in [node : flow.nodes \cup {NoNode}, decision : Decisions],
         BeginRequest(starting, executed, human)
  PROVE  TypeOK'
<1>1. waiting' \in [flow.nodes -> SUBSET flow.nodes] /\ loopCounts' \in [flow.nodes -> Nat]
  BY DEF BeginRequest
<1>2. execs' \in Seq([state : ExecutionState, data : Seq(Entries)])
  BY DEF Record
<1>3. Entries' = Entries  BY DEF Entries
<1>4. /\ status' = "INPROGRESS" /\ queue' = starting /\ data' = executed
      /\ humanInput' = human /\ iterations' = 0 /\ aborted' = FALSE
  BY DEF BeginRequest
<1> QED  BY <1>1, <1>2, <1>3, <1>4 DEF TypeOK

LEMMA StartType ==
  ASSUME TypeOK, StartExecution
  PROVE  TypeOK'
<1>1. PICK n \in StartNodes(flow) : BeginRequest(<<n>>, << >>, NoHuman)
  BY DEF StartExecution
<1>2. n \in flow.nodes  BY DEF StartNodes
<1>3. execs' \in Seq(Record) /\ execs' # << >>
  BY DEF StartExecution, TypeOK, Record, ExecutionState
<1>4. NoHuman \in [node : flow.nodes \cup {NoNode}, decision : Decisions]
  BY DEF NoHuman, Decisions
<1>5. <<n>> \in Seq(flow.nodes) /\ << >> \in Seq(Entries)
  BY <1>2, ShortSeq
<1> QED
  BY <1>1, <1>3, <1>4, <1>5, BeginRequestType DEF StartExecution

(* What a resumption continues with is a sequence of entries. *)
LEMMA CheckpointType ==
  ASSUME NEW rec \in Record, CanResume(rec)
  PROVE  Checkpoint(rec) \in Seq(Entries)
<1>1. rec.data \in Seq(Entries)  BY DEF Record
<1>2. CASE rec.state = "ERROR"
  <2>1. Len(rec.data) - 1 \in 0..Len(rec.data)
    BY <1>1, <1>2 DEF CanResume, ErrorAfterStop
  <2> QED  BY <1>1, <1>2, <2>1 DEF Checkpoint
<1>3. CASE rec.state # "ERROR"
  BY <1>1, <1>3 DEF Checkpoint
<1> QED  BY <1>2, <1>3

LEMMA ResumeType ==
  ASSUME TypeOK, NEW decision \in Decisions, NEW named, ResumeExecution(decision, named)
  PROVE  TypeOK'
<1>1. PICK n \in flow.nodes :
        BeginRequest(IF n \in Inside(flow) THEN << >> ELSE <<n>>,
                     Checkpoint(Latest),
                     [node |-> n, decision |-> decision])
  BY DEF ResumeExecution
<1>2. execs \in Seq(Record) /\ execs # << >>
  BY DEF TypeOK, Record, ResumeExecution
<1>3. Checkpoint(Latest) \in Seq(Entries)
  BY <1>2, LatestType, CheckpointType DEF ResumeExecution
<1>4. [state |-> "INPROGRESS", data |-> Checkpoint(Latest)] \in Record
  BY <1>3 DEF Record, ExecutionState
<1>5. execs' \in Seq(Record) /\ execs' # << >>
  BY <1>2, <1>4, SaveLatestType DEF ResumeExecution
<1>6. [node |-> n, decision |-> decision]
        \in [node : flow.nodes \cup {NoNode}, decision : Decisions]
  OBVIOUS
<1>7. (IF n \in Inside(flow) THEN << >> ELSE <<n>>) \in Seq(flow.nodes)
  BY ShortSeq
<1>8. resumes' \in Nat /\ UNCHANGED flow
  BY DEF ResumeExecution, TypeOK
<1> QED
  BY <1>1, <1>3, <1>5, <1>6, <1>7, <1>8, BeginRequestType

(* One step of the engine keeps the types. *)
LEMMA StepType ==
  ASSUME TypeOK, [Next]_vars
  PROVE  TypeOK'
<1>1. CASE StartExecution  BY <1>1, StartType
<1>2. ASSUME NEW decision \in Decisions, NEW named \in flow.nodes \cup {NoNode},
             ResumeExecution(decision, named)
      PROVE  TypeOK'
  BY <1>2, ResumeType
<1>3. CASE Abort
  BY <1>3 DEF Abort, TypeOK, Entries
<1>4. CASE Finish  BY <1>4, FinishType
<1>5. ASSUME NEW n \in flow.nodes, ExceedBudget(n) PROVE TypeOK'
  BY <1>5, EndRequestType DEF ExceedBudget, TypeOK, Record
<1>6. ASSUME NEW n \in flow.nodes, Terminate(n) PROVE TypeOK'
  BY <1>6, FailWithType DEF Terminate, Turn
<1>7. ASSUME NEW n \in flow.nodes, Fail(n) PROVE TypeOK'
  BY <1>7, FailWithType DEF Fail, Turn
<1>8. ASSUME NEW n \in flow.nodes, Pause(n) PROVE TypeOK'
  BY <1>8, PauseType
<1>9. ASSUME NEW n \in flow.nodes, Complete(n) PROVE TypeOK'
  BY <1>9, CompleteType
<1>10. CASE Crash
  BY <1>10, EndRequestType DEF Crash, TypeOK, Record
<1>11. CASE UNCHANGED vars
  BY <1>11 DEF vars, TypeOK, Entries
<1> QED
  BY <1>1, <1>2, <1>3, <1>4, <1>5, <1>6, <1>7, <1>8, <1>9, <1>10, <1>11
     DEF Next, Step, ExecuteNode

LEMMA InitType ==
  ASSUME Init
  PROVE  TypeOK
<1>1. waiting \in [flow.nodes -> SUBSET flow.nodes] /\ loopCounts \in [flow.nodes -> Nat]
  BY DEF Init
<1>2. humanInput \in [node : flow.nodes \cup {NoNode}, decision : Decisions]
  BY DEF Init, NoHuman, Decisions
<1>3. execs \in Seq([state : ExecutionState, data : Seq(Entries)])
  BY DEF Init
<1>4. queue \in Seq(flow.nodes) /\ data \in Seq(Entries)
  BY ShortSeq DEF Init
<1> QED  BY <1>1, <1>2, <1>3, <1>4 DEF Init, TypeOK

(* Every variable of the engine keeps its type, and a request that runs    *)
(* has an execution to save to, whatever the flows and the limits are.     *)
THEOREM TypeCorrect == Spec => []TypeOK
BY InitType, StepType, PTL DEF Spec

---------------------------------------------------------------------------
(***************************************************************************)
(* The Execution records: what the saved state says of the saved data,     *)
(* which steps change a record, and that a failed answer can be given      *)
(* again.  StateMatchesData is not inductive: that a record ends in the    *)
(* error it reports, and only there, depends on what the running request   *)
(* has in its hands, and that on the records it was resumed from.          *)
(***************************************************************************)
(* Records whose state tells how the data ended. *)
Sound ==
  {rec \in Record :
     /\ rec.state = "FINISHED" =>
          rec.data \in Seq(Benign) /\ ~ WithStatus(rec.data, "STOPPED")
     /\ rec.state = "STOPPED" =>
          rec.data \in Seq(Benign) /\ WithStatus(rec.data, "STOPPED")
     /\ rec.state \in {"ERROR", "TERMINATED"} =>
          \E d \in Seq(Benign), e \in Entries :
            rec.data = Append(d, e) /\ e.status = rec.state}

(* The inductive invariant: every record is sound, and a request that runs *)
(* holds no failure and has the latest record in progress.                 *)
RecordInv ==
  /\ TypeOK
  /\ execs \in Seq(Sound)
  /\ status # "NONE" => data \in Seq(Benign) /\ Latest.state = "INPROGRESS"

---------------------------------------------------------------------------
LEMMA BenignStatus ==
  ASSUME NEW d \in Seq(Benign)
  PROVE  ~ WithStatus(d, "ERROR") /\ ~ WithStatus(d, "TERMINATED")
<1>1. ASSUME NEW i \in DOMAIN d PROVE d[i].status \in {"FINISHED", "STOPPED"}
  <2>1. d[i] \in Benign  OBVIOUS
  <2> QED  BY <2>1 DEF Benign
<1> QED  BY <1>1 DEF WithStatus

LEMMA BenignSubset == Benign \subseteq Entries /\ Seq(Benign) \subseteq Seq(Entries)
<1>1. Benign \subseteq Entries  BY DEF Benign
<1> QED  BY <1>1

(* The record of a failure. *)
LEMMA FailureSound ==
  ASSUME data \in Seq(Benign), NEW n \in flow.nodes, NEW s \in {"ERROR", "TERMINATED"}
  PROVE  [state |-> s, data |-> Append(data, Entry(n, s))] \in Sound
<1>1. Entry(n, s) \in Entries /\ Entry(n, s).status = s
  BY DEF Entry, Entries, EntryStatus
<1>2. Append(data, Entry(n, s)) \in Seq(Entries)
  BY <1>1, BenignSubset
<1> QED  BY <1>1, <1>2 DEF Sound, Record, ExecutionState, EntryStatus

(* The record of a run that left the main loop. *)
LEMMA FinalSound ==
  ASSUME data \in Seq(Benign)
  PROVE  /\ FinalStatus(data) \in {"FINISHED", "STOPPED"}
         /\ [state |-> FinalStatus(data), data |-> data] \in Sound
<1>1. ~ WithStatus(data, "ERROR") /\ ~ WithStatus(data, "TERMINATED")
  BY BenignStatus
<1>2. FinalStatus(data) = IF WithStatus(data, "STOPPED") THEN "STOPPED" ELSE "FINISHED"
  BY <1>1 DEF FinalStatus
<1>3. data \in Seq(Entries)  BY BenignSubset
<1> QED  BY <1>2, <1>3 DEF Sound, Record, ExecutionState, EntryStatus

(* A record in progress claims nothing of its data. *)
LEMMA InProgressSound ==
  ASSUME NEW d \in Seq(Entries)
  PROVE  [state |-> "INPROGRESS", data |-> d] \in Sound
BY DEF Sound, Record, ExecutionState, EntryStatus

(* What a resumption continues with holds no failure. *)
LEMMA CheckpointBenign ==
  ASSUME NEW rec \in Sound, CanResume(rec)
  PROVE  Checkpoint(rec) \in Seq(Benign)
<1>1. CASE rec.state = "STOPPED"
  BY <1>1 DEF Checkpoint, Sound
<1>2. CASE rec.state = "ERROR"
  <2>1. PICK d \in Seq(Benign), e \in Entries : rec.data = Append(d, e)
    BY <1>2 DEF Sound
  <2>2. /\ Len(rec.data) = Len(d) + 1
        /\ \A i \in 1..Len(d) : rec.data[i] = d[i]
    BY <2>1
  <2>3. SubSeq(rec.data, 1, Len(d)) = d
    BY <2>1, <2>2
  <2>4. Len(rec.data) - 1 = Len(d)  BY <2>2
  <2> QED  BY <1>2, <2>3, <2>4 DEF Checkpoint
<1> QED  BY <1>1, <1>2 DEF CanResume, ErrorAfterStop

---------------------------------------------------------------------------
(***************************************************************************)
(* Each action preserves the invariant.                                    *)
(***************************************************************************)
LEMMA FlowFixed ==
  ASSUME UNCHANGED flow
  PROVE  Entries' = Entries /\ Benign' = Benign /\ Record' = Record /\ Sound' = Sound
<1>1. Entries' = Entries  BY DEF Entries
<1>2. Benign' = Benign  BY <1>1 DEF Benign
<1>3. Record' = Record  BY <1>1 DEF Record
<1> QED  BY <1>1, <1>2, <1>3 DEF Sound, WithStatus

(* A step that leaves the records alone, with what the request holds. *)
LEMMA KeepsRecords ==
  ASSUME RecordInv, TypeOK', UNCHANGED <<flow, execs>>,
         status' # "NONE" => status # "NONE" /\ data' \in Seq(Benign)
  PROVE  RecordInv'
BY FlowFixed DEF RecordInv, Latest

(* A step that settles the latest record and ends the request. *)
LEMMA SettlesRecord ==
  ASSUME RecordInv, TypeOK', UNCHANGED flow, execs # << >>, status' = "NONE",
         NEW rec \in Sound, SaveLatest(rec)
  PROVE  RecordInv'
<1>1. execs' \in Seq(Sound)  BY SaveLatestType DEF RecordInv
<1> QED  BY <1>1, FlowFixed DEF RecordInv

LEMMA StartKeeps ==
  ASSUME RecordInv, TypeOK', StartExecution
  PROVE  RecordInv'
<1>1. UNCHANGED flow /\ execs' = Append(execs, [state |-> "INPROGRESS", data |-> << >>])
      /\ data' = << >>
  BY DEF StartExecution, BeginRequest
<1>2. << >> \in Seq(Entries) /\ << >> \in Seq(Benign)  BY ShortSeq
<1>3. [state |-> "INPROGRESS", data |-> << >>] \in Sound  BY <1>2, InProgressSound
<1>4. execs' \in Seq(Sound) /\ execs'[Len(execs')].state = "INPROGRESS"
  BY <1>1, <1>3 DEF RecordInv
<1> QED  BY <1>1, <1>2, <1>4, FlowFixed DEF RecordInv, Latest

LEMMA ResumeKeeps ==
  ASSUME RecordInv, TypeOK', NEW decision \in Decisions, NEW named,
         ResumeExecution(decision, named)
  PROVE  RecordInv'
<1>1. execs # << >> /\ CanResume(Latest) /\ UNCHANGED flow
      /\ SaveLatest([state |-> "INPROGRESS", data |-> Checkpoint(Latest)])
      /\ data' = Checkpoint(Latest)
  BY DEF ResumeExecution, BeginRequest
<1>2. Latest \in Sound  BY <1>1, LatestType DEF RecordInv
<1>3. Checkpoint(Latest) \in Seq(Benign)  BY <1>1, <1>2, CheckpointBenign
<1> DEFINE rec == [state |-> "INPROGRESS", data |-> Checkpoint(Latest)]
<1>4. rec \in Sound  BY <1>3, BenignSubset, InProgressSound
<1>5. SaveLatest(rec) /\ rec.state = "INPROGRESS"  BY <1>1
<1> HIDE DEF rec
<1>6. /\ execs' \in Seq(Sound)
      /\ Len(execs') = Len(execs)
      /\ execs'[Len(execs)] = rec
  BY <1>1, <1>4, <1>5, SaveLatestType DEF RecordInv
<1> QED  BY <1>1, <1>3, <1>5, <1>6, FlowFixed DEF RecordInv, Latest

LEMMA FailKeeps ==
  ASSUME RecordInv, TypeOK', status # "NONE", NEW n \in flow.nodes,
         NEW s \in {"ERROR", "TERMINATED"}, FailWith(n, s)
  PROVE  RecordInv'
<1>1. execs # << >> /\ data \in Seq(Benign)  BY DEF RecordInv, TypeOK
<1> QED  BY <1>1, FailureSound, SettlesRecord DEF FailWith, EndRequest

LEMMA FinishKeeps ==
  ASSUME RecordInv, TypeOK', Finish
  PROVE  RecordInv'
<1>1. execs # << >> /\ data \in Seq(Benign)  BY DEF Finish, RecordInv, TypeOK
<1> QED  BY <1>1, FinalSound, SettlesRecord DEF Finish, EndRequest

LEMMA PauseKeeps ==
  ASSUME RecordInv, TypeOK', NEW n \in flow.nodes, Pause(n)
  PROVE  RecordInv'
<1>1. data \in Seq(Benign)  BY DEF Pause, Turn, RecordInv
<1>2. Executed(n) \in Seq(Benign)  BY <1>1, BenignSubset, ExecutedType
<1>3. Entry(n, "STOPPED") \in Benign  BY DEF Entry, Benign, Entries, EntryStatus
<1>4. data' \in Seq(Benign)  BY <1>2, <1>3 DEF Pause
<1>5. UNCHANGED <<flow, execs>> /\ status # "NONE"  BY DEF Pause, Turn
<1> QED  BY <1>4, <1>5, KeepsRecords

LEMMA CompleteKeeps ==
  ASSUME RecordInv, TypeOK', NEW n \in flow.nodes, Complete(n)
  PROVE  RecordInv'
<1>1. PICK sub \in SubRuns(n) :
        /\ data' = Append(Executed(n) \o sub, Entry(n, "FINISHED"))
        /\ IF sub = << >> THEN UNCHANGED execs
           ELSE SaveLatest([Latest EXCEPT !.data = Executed(n) \o sub])
  BY DEF Complete
<1>2. /\ UNCHANGED flow /\ status # "NONE" /\ status' = status
      /\ data \in Seq(Benign) /\ Latest.state = "INPROGRESS"
      /\ execs \in Seq(Sound) /\ execs # << >>
  BY DEF Complete, Turn, RecordInv, TypeOK
<1>3. Executed(n) \in Seq(Benign) /\ sub \in Seq(Benign)
  BY <1>2, BenignSubset, ExecutedType, SubRunsType
<1>4. Entry(n, "FINISHED") \in Benign  BY DEF Entry, Benign, Entries, EntryStatus
<1>5. Executed(n) \o sub \in Seq(Benign) /\ data' \in Seq(Benign)
  BY <1>1, <1>3, <1>4
<1>6. CASE sub = << >>
  BY <1>1, <1>2, <1>5, <1>6, KeepsRecords
<1>7. CASE sub # << >>
  <2> DEFINE rec == [Latest EXCEPT !.data = Executed(n) \o sub]
  <2>1. Latest \in Record
    <3>1. Latest \in Sound  BY <1>2, LatestType
    <3> QED  BY <3>1 DEF Sound
  <2>2. Executed(n) \o sub \in Seq(Entries)  BY <1>5, BenignSubset
  <2>3. rec \in Record /\ rec.state = "INPROGRESS"
    BY <1>2, <2>1, <2>2 DEF Record
  <2>4. rec \in Sound
    <3> HIDE DEF rec
    <3> QED  BY <2>3 DEF Sound
  <2>5. SaveLatest(rec)  BY <1>1, <1>7
  <2> HIDE DEF rec
  <2>6. /\ execs' \in Seq(Sound)
        /\ Len(execs') = Len(execs)
        /\ execs'[Len(execs)] = rec
    BY <1>2, <2>4, <2>5, SaveLatestType
  <2> QED  BY <1>2, <1>5, <2>3, <2>6, FlowFixed DEF RecordInv, Latest
<1> QED  BY <1>6, <1>7

LEMMA RecordStep ==
  ASSUME RecordInv, [Next]_vars
  PROVE  RecordInv'
<1>0. TypeOK'  BY StepType DEF RecordInv
<1>1. CASE StartExecution  BY <1>0, <1>1, StartKeeps
<1>2. ASSUME NEW decision \in Decisions, NEW named \in flow.nodes \cup {NoNode},
             ResumeExecution(decision, named)
      PROVE  RecordInv'
  BY <1>0, <1>2, ResumeKeeps
<1>3. CASE Abort
  BY <1>0, <1>3, KeepsRecords DEF Abort, RecordInv
<1>4. CASE Finish  BY <1>0, <1>4, FinishKeeps
<1>5. ASSUME NEW n \in flow.nodes, ExceedBudget(n) PROVE RecordInv'
  BY <1>0, <1>5, KeepsRecords DEF ExceedBudget, EndRequest
<1>6. ASSUME NEW n \in flow.nodes, Terminate(n) PROVE RecordInv'
  BY <1>0, <1>6, FailKeeps DEF Terminate, Turn
<1>7. ASSUME NEW n \in flow.nodes, Fail(n) PROVE RecordInv'
  BY <1>0, <1>7, FailKeeps DEF Fail, Turn
<1>8. ASSUME NEW n \in flow.nodes, Pause(n) PROVE RecordInv'
  BY <1>0, <1>8, PauseKeeps
<1>9. ASSUME NEW n \in flow.nodes, Complete(n) PROVE RecordInv'
  BY <1>0, <1>9, CompleteKeeps
<1>10. CASE Crash
  BY <1>0, <1>10, KeepsRecords DEF Crash, EndRequest
<1>11. CASE UNCHANGED vars
  BY <1>0, <1>11, KeepsRecords DEF vars, RecordInv
<1> QED
  BY <1>1, <1>2, <1>3, <1>4, <1>5, <1>6, <1>7, <1>8, <1>9, <1>10, <1>11
     DEF Next, Step, ExecuteNode

LEMMA RecordInit ==
  ASSUME Init
  PROVE  RecordInv
<1>1. TypeOK  BY InitType
<1>2. execs \in Seq(Sound)  BY ShortSeq DEF Init
<1> QED  BY <1>1, <1>2 DEF Init, RecordInv

---------------------------------------------------------------------------
(* The saved state tells how the saved data ended: a finished record holds *)
(* no stop and no failure, a stopped one a stop and no failure, and a      *)
(* failed one ends in its failure (executeAgentFlow, final status and      *)
(* catch block), whatever resumptions, crashes and aborts came before.     *)
THEOREM RecordsTellTheEnd == Spec => []StateMatchesData
<1>1. RecordInv => StateMatchesData
  <2> SUFFICES ASSUME RecordInv, NEW i \in DOMAIN execs
               PROVE  LET rec == execs[i]
                      IN  /\ rec.state = "FINISHED" =>
                               \A s \in {"STOPPED", "ERROR", "TERMINATED"} :
                                 ~ WithStatus(rec.data, s)
                          /\ rec.state = "STOPPED" =>
                               /\ WithStatus(rec.data, "STOPPED")
                               /\ ~ WithStatus(rec.data, "ERROR")
                          /\ rec.state \in {"ERROR", "TERMINATED"} =>
                               Last(rec.data).status = rec.state
    BY DEF StateMatchesData
  <2> DEFINE rec == execs[i]
  <2>1. rec \in Sound  BY DEF RecordInv
  <2> HIDE DEF rec
  <2>2. rec.state = "FINISHED" =>
          \A s \in {"STOPPED", "ERROR", "TERMINATED"} : ~ WithStatus(rec.data, s)
    BY <2>1, BenignStatus DEF Sound
  <2>3. rec.state = "STOPPED" =>
          WithStatus(rec.data, "STOPPED") /\ ~ WithStatus(rec.data, "ERROR")
    BY <2>1, BenignStatus DEF Sound
  <2>4. rec.state \in {"ERROR", "TERMINATED"} => Last(rec.data).status = rec.state
    <3> SUFFICES ASSUME rec.state \in {"ERROR", "TERMINATED"}
                 PROVE  Last(rec.data).status = rec.state
      OBVIOUS
    <3>1. PICK d \in Seq(Benign), e \in Entries :
            rec.data = Append(d, e) /\ e.status = rec.state
      BY <2>1 DEF Sound
    <3>2. rec.data[Len(rec.data)] = e  BY <3>1
    <3> QED  BY <3>1, <3>2 DEF Last
  <2> QED  BY <2>2, <2>3, <2>4 DEF rec
<1> QED  BY <1>1, RecordInit, RecordStep, PTL DEF Spec

(* When the node a human answered fails, the execution can be resumed at   *)
(* that node once more: the failure is saved behind the stopped entry.     *)
THEOREM AnswerCanBeRetried == Spec => FailedAnswerCanBeRetried
<1> DEFINE Retry ==
      \A n \in flow.nodes :
        /\ execs # << >> /\ status # "NONE" /\ status' = "NONE"
        /\ execs'[Len(execs')].state = "ERROR"
        /\ humanInput.node = n /\ data # << >> /\ Last(data) = Entry(n, "STOPPED")
        => CanResume(execs'[Len(execs')])
<1>1. ASSUME RecordInv, [Next]_vars PROVE [Retry]_vars
  <2> SUFFICES ASSUME NEW n \in flow.nodes,
                      execs # << >>, status # "NONE", status' = "NONE",
                      execs'[Len(execs')].state = "ERROR",
                      data # << >>, Last(data) = Entry(n, "STOPPED")
               PROVE  CanResume(execs'[Len(execs')])
    OBVIOUS
  <2>1. /\ execs \in Seq(Sound) /\ data \in Seq(Benign) /\ Latest.state = "INPROGRESS"
    BY <1>1 DEF RecordInv
  <2>2. execs' # execs  BY <2>1 DEF Latest
  <2>3. CASE Finish
    <3> DEFINE rec == [state |-> FinalStatus(data), data |-> data]
    <3>1. rec \in Sound /\ rec.state # "ERROR"  BY <2>1, FinalSound
    <3>2. SaveLatest(rec)  BY <2>3 DEF Finish
    <3> HIDE DEF rec
    <3>3. execs'[Len(execs')] = rec  BY <2>1, <3>1, <3>2, SaveLatestType
    <3> QED  BY <3>1, <3>3
  <2>4. ASSUME NEW m \in flow.nodes, NEW s \in {"ERROR", "TERMINATED"}, FailWith(m, s)
        PROVE  CanResume(execs'[Len(execs')])
    <3> DEFINE rec == [state |-> s, data |-> Append(data, Entry(m, s))]
    <3>1. rec \in Sound  BY <2>1, FailureSound
    <3>2. SaveLatest(rec)  BY <2>4 DEF FailWith
    <3>3. /\ rec.state = s /\ rec.data = Append(data, Entry(m, s))
          /\ Entry(m, s).status = s /\ Entry(n, "STOPPED").status = "STOPPED"
      BY DEF Entry
    <3> HIDE DEF rec
    <3>4. execs'[Len(execs')] = rec  BY <2>1, <3>1, <3>2, SaveLatestType
    <3>5. s = "ERROR"  BY <3>3, <3>4
    <3>6. /\ Len(rec.data) = Len(data) + 1 /\ Len(data) >= 1
          /\ rec.data[Len(rec.data)] = Entry(m, s)
          /\ rec.data[Len(rec.data) - 1] = data[Len(data)]
      BY <2>1, <3>3
    <3> QED  BY <3>3, <3>4, <3>5, <3>6 DEF CanResume, ErrorAfterStop, Last
  <2>5. ASSUME NEW m \in flow.nodes, Terminate(m) PROVE CanResume(execs'[Len(execs')])
    BY <2>4, <2>5 DEF Terminate
  <2>6. ASSUME NEW m \in flow.nodes, Fail(m) PROVE CanResume(execs'[Len(execs')])
    BY <2>4, <2>6 DEF Fail
  <2>7. ~ StartExecution /\ ~ Abort /\ ~ Crash /\ ~ UNCHANGED vars
    BY <2>2 DEF StartExecution, Abort, Crash, vars
  <2>8. \A decision \in Decisions, named \in flow.nodes \cup {NoNode} :
          ~ ResumeExecution(decision, named)
    BY DEF ResumeExecution
  <2>9. \A m \in flow.nodes : ~ ExceedBudget(m) /\ ~ Pause(m) /\ ~ Complete(m)
    BY <2>2 DEF ExceedBudget, Pause, Complete, Turn
  <2> QED
    BY <1>1, <2>3, <2>5, <2>6, <2>7, <2>8, <2>9 DEF Next, Step, ExecuteNode
<1>2. Spec => []RecordInv
  BY RecordInit, RecordStep, PTL DEF Spec
<1> QED  BY <1>1, <1>2, PTL DEF Spec, FailedAnswerCanBeRetried

---------------------------------------------------------------------------
(***************************************************************************)
(* The lifecycle of the Execution table, which the engine implements, and  *)
(* its step budget.                                                        *)
(***************************************************************************)
(* The refinement mapping: the states of the records. *)
States == [i \in DOMAIN execs |-> execs[i].state]

StatesOK ==
  /\ States \in Seq(ExecutionState)
  /\ Len(States) = Len(execs)
  /\ \A i \in 1..Len(execs) : States[i] = execs[i].state

LEMMA StatesType == RecordInv => StatesOK
<1> SUFFICES ASSUME RecordInv PROVE StatesOK  OBVIOUS
<1>1. execs \in Seq(Record)  BY DEF RecordInv, TypeOK, Record
<1>2. \A i \in 1..Len(execs) : execs[i].state \in ExecutionState
  <2>1. \A i \in 1..Len(execs) : execs[i] \in Record  BY <1>1
  <2> QED  BY <2>1 DEF Record
<1>3. DOMAIN execs = 1..Len(execs) /\ Len(execs) \in Nat  BY <1>1
<1>4. States = [i \in 1..Len(execs) |-> execs[i].state]  BY <1>3 DEF States
<1> QED  BY <1>2, <1>3, <1>4 DEF StatesOK

(* Two sequences with the same elements are the same. *)
LEMMA SameSeq ==
  ASSUME NEW S, NEW s \in Seq(S), NEW t \in Seq(S), Len(s) = Len(t),
         \A i \in 1..Len(s) : s[i] = t[i]
  PROVE  s = t
OBVIOUS

(* Saving the latest record changes at most the last state. *)
LEMMA SaveChangesLast ==
  ASSUME RecordInv, RecordInv', execs # << >>, NEW rec \in Record, SaveLatest(rec)
  PROVE  States' = [States EXCEPT ![Len(States)] = rec.state]
<1>1. execs \in Seq(Record)  BY DEF RecordInv, TypeOK, Record
<1>2. /\ Len(execs') = Len(execs)
      /\ execs'[Len(execs)] = rec
      /\ \A i \in 1..Len(execs) : i # Len(execs) => execs'[i] = execs[i]
  BY <1>1, SaveLatestType
<1>3. /\ States \in Seq(ExecutionState) /\ Len(States) = Len(execs)
      /\ \A i \in 1..Len(execs) : States[i] = execs[i].state
  BY StatesType DEF StatesOK
<1>4. /\ States' \in Seq(ExecutionState) /\ Len(States') = Len(execs')
      /\ \A i \in 1..Len(execs') : States'[i] = execs'[i].state
  <2>1. ExecutionState' = ExecutionState  BY DEF ExecutionState, EntryStatus
  <2>2. StatesOK'  BY StatesType, PTL
  <2> QED  BY <2>1, <2>2 DEF StatesOK
<1> DEFINE t == [States EXCEPT ![Len(States)] = rec.state]
<1>5. /\ t \in Seq(ExecutionState) /\ Len(t) = Len(States)
      /\ \A i \in 1..Len(t) : t[i] = IF i = Len(States) THEN rec.state ELSE States[i]
  <2>1. rec.state \in ExecutionState  BY DEF Record
  <2> QED  BY <1>3, <2>1
<1> HIDE DEF t, States
<1>6. \A i \in 1..Len(t) : States'[i] = t[i]
  BY <1>2, <1>3, <1>4, <1>5
<1>7. States' = t  BY <1>2, <1>3, <1>4, <1>5, <1>6, SameSeq
<1> QED  BY <1>7 DEF t

---------------------------------------------------------------------------
(* Every step of the engine is a step of the lifecycle, or changes no      *)
(* state of an execution.                                                  *)
LEMMA StepImplements ==
  ASSUME RecordInv, RecordInv', [Next]_vars
  PROVE  [Lifecycle!Next]_(States)
<1>1. /\ States \in Seq(ExecutionState) /\ Len(States) = Len(execs)
      /\ \A i \in 1..Len(execs) : States[i] = execs[i].state
      /\ execs \in Seq(Sound)
  BY StatesType DEF StatesOK, RecordInv
<1>2. execs # << >> => States # << >> /\ States[Len(States)] = Latest.state
  BY <1>1 DEF Latest
<1>3. UNCHANGED execs => UNCHANGED States
  BY DEF States
<1>4. ASSUME execs # << >>, NEW rec \in Record, SaveLatest(rec)
      PROVE  States' = [States EXCEPT ![Len(States)] = rec.state]
  BY <1>4, SaveChangesLast
<1>5. Sound \subseteq Record  BY DEF Sound
<1>6. CASE StartExecution
  <2> DEFINE rec == [state |-> "INPROGRESS", data |-> << >>]
  <2>1. execs' = Append(execs, rec)  BY <1>6 DEF StartExecution
  <2>2. rec.state = "INPROGRESS"  OBVIOUS
  <2> HIDE DEF rec
  <2>3. /\ States' \in Seq(ExecutionState') /\ Len(States') = Len(execs')
        /\ \A i \in 1..Len(execs') : States'[i] = execs'[i].state
    <3>1. StatesOK'  BY StatesType, PTL
    <3> QED  BY <3>1 DEF StatesOK
  <2>4. ExecutionState' = ExecutionState /\ "INPROGRESS" \in ExecutionState
    BY DEF ExecutionState, EntryStatus
  <2>5. /\ Len(execs') = Len(execs) + 1 /\ Len(execs) \in Nat
        /\ \A i \in 1..Len(execs') :
             execs'[i] = IF i = Len(execs) + 1 THEN rec ELSE execs[i]
    BY <1>1, <2>1
  <2> DEFINE t == Append(States, "INPROGRESS")
  <2>6. /\ t \in Seq(ExecutionState) /\ Len(t) = Len(States) + 1
        /\ \A i \in 1..Len(t) :
             t[i] = IF i = Len(States) + 1 THEN "INPROGRESS" ELSE States[i]
    BY <1>1, <2>4
  <2> HIDE DEF t
  <2>7. States' = t
    <3>1. \A i \in 1..Len(t) : States'[i] = t[i]
      BY <1>1, <2>2, <2>3, <2>5, <2>6
    <3> QED  BY <1>1, <2>3, <2>4, <2>5, <2>6, <3>1, SameSeq
  <2> QED  BY <2>7 DEF t, Lifecycle!Next, Lifecycle!Create, States
<1>7. ASSUME NEW decision \in Decisions, NEW named, ResumeExecution(decision, named)
      PROVE  [Lifecycle!Next]_(States)
  <2>1. /\ execs # << >> /\ CanResume(Latest)
        /\ SaveLatest([state |-> "INPROGRESS", data |-> Checkpoint(Latest)])
    BY <1>7 DEF ResumeExecution
  <2>2. Latest \in Sound  BY <1>1, <2>1, LatestType
  <2>3. Latest.state \in {"STOPPED", "ERROR"}
    BY <2>1 DEF CanResume, ErrorAfterStop
  <2>4. Checkpoint(Latest) \in Seq(Entries)
    BY <2>1, <2>2, CheckpointBenign, BenignSubset
  <2> DEFINE rec == [state |-> "INPROGRESS", data |-> Checkpoint(Latest)]
  <2>5. rec \in Record /\ rec.state = "INPROGRESS"
    BY <2>4, InProgressSound, <1>5
  <2>6. States' = [States EXCEPT ![Len(States)] = "INPROGRESS"]
    BY <1>4, <2>1, <2>5
  <2> QED  BY <1>2, <2>1, <2>3, <2>6 DEF Lifecycle!Next, Lifecycle!Reopen, States
<1>8. ASSUME status # "NONE", NEW rec \in Sound, SaveLatest(rec),
             rec.state \in {"FINISHED", "STOPPED", "ERROR", "TERMINATED"}
      PROVE  [Lifecycle!Next]_(States)
  <2>1. execs # << >> /\ Latest.state = "INPROGRESS"
    BY <1>8 DEF RecordInv, TypeOK
  <2>2. States' = [States EXCEPT ![Len(States)] = rec.state]
    BY <1>4, <1>5, <1>8, <2>1
  <2> QED  BY <1>2, <1>8, <2>1, <2>2 DEF Lifecycle!Next, Lifecycle!Settle, States
<1>9. CASE Finish
  <2>1. status # "NONE" /\ data \in Seq(Benign)  BY <1>9 DEF Finish, RecordInv
  <2>2. SaveLatest([state |-> FinalStatus(data), data |-> data])
    BY <1>9 DEF Finish
  <2> QED  BY <1>8, <2>1, <2>2, FinalSound
<1>10. ASSUME NEW n \in flow.nodes, NEW s \in {"ERROR", "TERMINATED"},
              status # "NONE", FailWith(n, s)
       PROVE  [Lifecycle!Next]_(States)
  <2>1. data \in Seq(Benign)  BY <1>10 DEF RecordInv
  <2> QED  BY <1>8, <1>10, <2>1, FailureSound DEF FailWith
<1>11. ASSUME NEW n \in flow.nodes, Terminate(n) PROVE [Lifecycle!Next]_(States)
  BY <1>10, <1>11 DEF Terminate, Turn
<1>12. ASSUME NEW n \in flow.nodes, Fail(n) PROVE [Lifecycle!Next]_(States)
  BY <1>10, <1>12 DEF Fail, Turn
<1>13. ASSUME NEW n \in flow.nodes, Complete(n) PROVE UNCHANGED States
  <2>1. PICK sub \in SubRuns(n) :
          IF sub = << >> THEN UNCHANGED execs
          ELSE SaveLatest([Latest EXCEPT !.data = Executed(n) \o sub])
    BY <1>13 DEF Complete
  <2>2. execs # << >> /\ data \in Seq(Benign)
    BY <1>13 DEF Complete, Turn, RecordInv, TypeOK
  <2>3. CASE sub = << >>  BY <1>3, <2>1, <2>3
  <2>4. CASE sub # << >>
    <3> DEFINE rec == [Latest EXCEPT !.data = Executed(n) \o sub]
    <3>1. Latest \in Record
      <4>1. Latest \in Sound  BY <1>1, <2>2, LatestType
      <4> QED  BY <4>1, <1>5
    <3>2. Executed(n) \o sub \in Seq(Entries)
      <4>1. Executed(n) \in Seq(Benign) /\ sub \in Seq(Benign)
        BY <2>2, BenignSubset, ExecutedType, SubRunsType
      <4>2. Executed(n) \o sub \in Seq(Benign)  BY <4>1
      <4> QED  BY <4>2, BenignSubset
    <3>3. rec \in Record /\ rec.state = Latest.state
      BY <3>1, <3>2 DEF Record
    <3>4. SaveLatest(rec)  BY <2>1, <2>4
    <3> HIDE DEF rec
    <3>5. States' = [States EXCEPT ![Len(States)] = States[Len(States)]]
      BY <1>2, <1>4, <2>2, <3>3, <3>4
    <3> QED  BY <1>1, <3>5
  <2> QED  BY <2>3, <2>4
<1>14. (Abort \/ Crash \/ UNCHANGED vars \/ \E n \in flow.nodes : ExceedBudget(n) \/ Pause(n))
         => UNCHANGED States
  BY <1>3 DEF Abort, Crash, vars, ExceedBudget, Pause
<1> QED
  BY <1>6, <1>7, <1>9, <1>11, <1>12, <1>13, <1>14 DEF Next, Step, ExecuteNode

(* The engine implements the abstract specification of the Execution       *)
(* table: executions are created one after the other, only the latest ever *)
(* changes state, a stopped or failed one may go on, and a finished or     *)
(* terminated one never changes again.                                     *)
THEOREM ImplementsLifecycle == Spec => LifecycleSpec
<1>1. Init => Lifecycle!Init
  <2> SUFFICES ASSUME Init PROVE States = << >>
    BY DEF Lifecycle!Init, States
  <2>1. StatesOK /\ execs = << >>  BY RecordInit, StatesType DEF Init
  <2> QED  BY <2>1 DEF StatesOK
<1>2. RecordInv /\ RecordInv' /\ [Next]_vars
        => [Lifecycle!Next]_([i \in DOMAIN execs |-> execs[i].state])
  BY StepImplements DEF States
<1>3. Spec => []RecordInv
  BY RecordInit, RecordStep, PTL DEF Spec
<1> QED
  BY <1>1, <1>2, <1>3, PTL DEF Spec, LifecycleSpec, Lifecycle!Spec

---------------------------------------------------------------------------
(* No request takes more turns of the main loop than MAX_ITERATIONS and    *)
(* the step budget of the loop guardrail allow; the code's comparison lets *)
(* one turn more than MAX_ITERATIONS happen.                               *)
THEOREM WithinBudget == Spec => []StepBudget
<1> DEFINE Inv == TypeOK /\ StepBudget
<1>1. Init => Inv
  <2> SUFFICES ASSUME Init PROVE Inv  OBVIOUS
  <2>1. MaxIterations \in Nat /\ MaxSteps \in Nat  BY EngineAssumption
  <2>2. StepBudget  BY <2>1 DEF Init, StepBudget
  <2> QED  BY <2>2, InitType
<1>2. Inv /\ [Next]_vars => Inv'
  <2> SUFFICES ASSUME TypeOK, StepBudget, [Next]_vars PROVE StepBudget'
    BY StepType
  <2>1. iterations \in Nat /\ MaxIterations \in Nat /\ MaxSteps \in Nat
    BY EngineAssumption DEF TypeOK
  <2>2. CASE iterations' = 0 \/ iterations' = iterations
    BY <2>1, <2>2 DEF StepBudget
  <2>3. CASE ~ OverBudget /\ iterations' = iterations + 1
    BY <2>1, <2>3 DEF StepBudget, OverBudget
  <2>4. \/ iterations' = 0 \/ iterations' = iterations
        \/ ~ OverBudget /\ iterations' = iterations + 1
    BY DEF Next, Step, ExecuteNode, StartExecution, ResumeExecution, BeginRequest, Abort,
       Finish, ExceedBudget, Terminate, Fail, FailWith, Pause, Complete, Crash,
       EndRequest, vars
  <2> QED  BY <2>2, <2>3, <2>4
<1> QED  BY <1>1, <1>2, PTL DEF Spec

(* No turn would go past one of the two limits. They throw outside of the  *)
(* block that settles the record (hazard of RequestSettles).               *)
WithinLimits == [][\A n \in flow.nodes : ~ ExceedBudget(n)]_vars

(* What is saved is what the table then says of the request. *)
LEMMA SavedOver ==
  ASSUME TypeOK, status # "NONE", NEW rec, SaveLatest(rec)
  PROVE  Latest' = rec
<1>1. Len(execs) \in DOMAIN execs /\ execs \in Seq(Record)  BY DEF TypeOK, Record
<1>2. Len(execs') = Len(execs) /\ execs'[Len(execs)] = rec  BY <1>1 DEF SaveLatest
<1> QED  BY <1>2 DEF Latest

(* A request that ends, however it ends, settles its record: the step that *)
(* ends it saves a state other than INPROGRESS, as long as no turn goes    *)
(* past a limit.                                                           *)
THEOREM RequestsSettle == Spec /\ WithinLimits => RequestSettles
<1>1. TypeOK /\ [\A n \in flow.nodes : ~ ExceedBudget(n)]_vars /\ [Next]_vars
        => [Step /\ status' = "NONE" => Latest'.state # "INPROGRESS"]_vars
  <2> SUFFICES ASSUME TypeOK, \A n \in flow.nodes : ~ ExceedBudget(n), Step, status' = "NONE"
               PROVE  Latest'.state # "INPROGRESS"
    OBVIOUS
  <2>1. CASE Finish
    <3>1. Latest' = [state |-> FinalStatus(data), data |-> data]
      BY <2>1, SavedOver DEF Finish
    <3>2. FinalStatus(data) # "INPROGRESS"  BY DEF FinalStatus
    <3> QED  BY <3>1, <3>2
  <2>2. ASSUME NEW n \in flow.nodes, NEW s \in {"ERROR", "TERMINATED"}, Turn(n), FailWith(n, s)
        PROVE  Latest'.state # "INPROGRESS"
    <3>1. Latest' = [state |-> s, data |-> Append(data, Entry(n, s))]
      BY <2>2, SavedOver DEF Turn, FailWith
    <3> QED  BY <3>1
  <2>3. ASSUME NEW n \in flow.nodes PROVE ~ (Pause(n) \/ Complete(n))
    BY DEF Pause, Complete, Turn
  <2>4. CASE \E n \in flow.nodes : Terminate(n) \/ Fail(n)
    BY <2>2, <2>4 DEF Terminate, Fail
  <2> QED  BY <2>1, <2>3, <2>4 DEF Step, ExecuteNode
<1> QED  BY <1>1, TypeCorrect, PTL DEF Spec, WithinLimits, RequestSettles

---------------------------------------------------------------------------
(***************************************************************************)
(* No join starves (NoStarvedJoin): TrunkInv says which nodes of the trunk *)
(* of a flow have run, were ruled out, are queued or wait for what.        *)
(***************************************************************************)
Listed(q, c) == \E i \in DOMAIN q : q[i] = c
ListedOnce(q, c) == \A i, j \in DOMAIN q : q[i] = c /\ q[j] = c => i = j

(* The node is behind a decision, and the nodes that are behind one. *)
Behind(f, c) == \E d \in Parents(f, c) : f.kind[d] = "condition"
Targets(f, d) == {c \in f.nodes : d \in Parents(f, c)}

(* A node on the trunk is behind one condition only, or its required       *)
(* inputs are sure to come, and the groups of which it needs one are what  *)
(* is behind conditions of the trunk.                                      *)
WellJoined(f, A, c) ==
  \/ /\ f.kind[c] # "condition" /\ \E d \in A : f.kind[d] = "condition" /\ Parents(f, c) = {d}
     /\ HasReceivedRequiredInputs(f, c, Parents(f, c))
  \/ /\ ~ Behind(f, c)
     /\ \A p \in ExpectedInputs(f, c) : ~ Behind(f, p)
     /\ \A g \in ConditionalGroups(f, c) :
          \E d \in A : f.kind[d] = "condition" /\ g = Targets(f, d)

(* Each output of a condition has one edge. *)
OneEdgeEach(f, d) ==
  /\ f.outs[d] > 0
  /\ \A k \in 1..f.outs[d] : \E i \in DOMAIN f.edges : f.edges[i].src = d /\ f.edges[i].out = k
  /\ \A i \in DOMAIN f.edges : f.edges[i].src = d => f.edges[i].out \in 1..f.outs[d]
  /\ \A i, j \in DOMAIN f.edges :
       f.edges[i].src = d /\ f.edges[j].src = d /\ f.edges[i].out = f.edges[j].out => i = j

(* The trunk of a flow, the part with the joins that wait: its nodes never *)
(* stop for a human, no loop goes back into it, two of its nodes are       *)
(* connected by one edge at most and it has no cycle. A node off the trunk *)
(* runs with the result of any one of its parents.                         *)
IsTrunk(f, A) ==
  /\ A \subseteq f.nodes \ Inside(f)
  /\ \A c \in f.nodes \ A : \A p \in Parents(f, c) : HasReceivedRequiredInputs(f, c, {p})
  /\ \A c \in A : /\ f.kind[c] \in {"start", "plain", "iteration", "condition"}
                  /\ Parents(f, c) \subseteq A /\ WellJoined(f, A, c)
  /\ \A d \in A : f.kind[d] = "condition" => Targets(f, d) \subseteq A /\ OneEdgeEach(f, d)
  /\ \A n \in f.nodes : f.kind[n] = "loop" => f.loopTo[n] \notin A
  /\ \A i, j \in DOMAIN f.edges :
       f.edges[i].dst \in A /\ f.edges[i].dst = f.edges[j].dst /\ f.edges[i].src = f.edges[j].src
       => i = j
  /\ \E depth \in [A -> Nat] : \A c \in A : \A p \in Parents(f, c) : depth[p] < depth[c]

(* The nodes R of the trunk have run and the nodes X were ruled out by a   *)
(* condition: what is queued has all the inputs that come, what is not has *)
(* those of its parents that have run and they are not enough.             *)
Standing(R, X, c) ==
  /\ Listed(queue, c) => c \notin R \cup X /\ ListedOnce(queue, c)
  /\ Listed(queue, c) \/ c \in R \cup X =>
       Parents(flow, c) \subseteq R \cup X /\ waiting[c] = {}
  /\ ~ Listed(queue, c) /\ c \notin R \cup X =>
       /\ waiting[c] = Parents(flow, c) \cap R
       /\ ~ HasReceivedRequiredInputs(flow, c, waiting[c])

(* Whoever is ruled out is behind a condition, and a condition that has    *)
(* run rules out all that is behind it but one.                            *)
RuledOut(R, X) ==
  /\ R \cap X = {} /\ \A c \in X : Behind(flow, c)
  /\ \A d \in R : flow.kind[d] = "condition" =>
       \E c \in Targets(flow, d) : Targets(flow, d) \cap X = Targets(flow, d) \ {c}

TrunkRan(A, R, X) ==
  /\ \A c \in flow.nodes \ A : waiting[c] = {}
  /\ RuledOut(R, X)
  /\ \A c \in A : Standing(R, X, c)

TrunkInv(A) ==
  status = "INPROGRESS" => \E R \in SUBSET A, X \in SUBSET A : TrunkRan(A, R, X)

(* What is in a queue, and how often, when queues are put together. *)
LEMMA ListedBoth ==
  ASSUME NEW S, NEW s \in Seq(S), NEW t \in Seq(S), NEW u, u = s \o t, NEW c
  PROVE  /\ u \in Seq(S)
         /\ Listed(u, c) <=> Listed(s, c) \/ Listed(t, c)
         /\ ~ Listed(t, c) /\ ListedOnce(s, c) => ListedOnce(u, c)
         /\ ~ Listed(s, c) /\ ListedOnce(t, c) => ListedOnce(u, c)
<1>1. /\ Len(s) \in Nat /\ Len(t) \in Nat /\ u \in Seq(S) /\ Len(u) = Len(s) + Len(t)
      /\ DOMAIN s = 1..Len(s) /\ DOMAIN t = 1..Len(t) /\ DOMAIN u = 1..Len(u)
  OBVIOUS
<1>2. /\ \A i \in 1..Len(s) : i \in 1..Len(u) /\ u[i] = s[i]
      /\ \A i \in 1..Len(t) : i + Len(s) \in 1..Len(u) /\ u[i + Len(s)] = t[i]
  BY <1>1
<1>3. \A i \in 1..Len(u) : \/ i \in 1..Len(s) /\ u[i] = s[i]
                           \/ i - Len(s) \in 1..Len(t) /\ u[i] = t[i - Len(s)] /\ i \notin 1..Len(s)
  BY <1>1
<1>4. Listed(u, c) <=> Listed(s, c) \/ Listed(t, c)
  <2>1. Listed(s, c) \/ Listed(t, c) => Listed(u, c)  BY <1>1, <1>2 DEF Listed
  <2>2. Listed(u, c) => Listed(s, c) \/ Listed(t, c)  BY <1>1, <1>3 DEF Listed
  <2> QED  BY <2>1, <2>2
<1>5. ~ Listed(t, c) /\ ListedOnce(s, c) => ListedOnce(u, c)
  <2>1. SUFFICES ASSUME ~ Listed(t, c), ListedOnce(s, c), NEW i \in 1..Len(u), NEW j \in 1..Len(u),
                        u[i] = c, u[j] = c
                 PROVE  i = j
    BY <1>1 DEF ListedOnce
  <2>2. i \in 1..Len(s) /\ j \in 1..Len(s) /\ s[i] = c /\ s[j] = c
    BY <1>1, <1>3, <2>1 DEF Listed
  <2> QED  BY <1>1, <2>1, <2>2 DEF ListedOnce
<1>6. ~ Listed(s, c) /\ ListedOnce(t, c) => ListedOnce(u, c)
  <2>1. SUFFICES ASSUME ~ Listed(s, c), ListedOnce(t, c), NEW i \in 1..Len(u), NEW j \in 1..Len(u),
                        u[i] = c, u[j] = c
                 PROVE  i = j
    BY <1>1 DEF ListedOnce
  <2>2. /\ i - Len(s) \in 1..Len(t) /\ j - Len(s) \in 1..Len(t)
        /\ t[i - Len(s)] = c /\ t[j - Len(s)] = c
    BY <1>1, <1>3, <2>1 DEF Listed
  <2>3. i - Len(s) = j - Len(s)  BY <1>1, <2>1, <2>2 DEF ListedOnce
  <2> QED  BY <1>1, <2>3
<1> QED  BY <1>1, <1>4, <1>5, <1>6

(* What is left in a queue when its first element is taken. *)
LEMMA ListedTail ==
  ASSUME NEW S, NEW s \in Seq(S), s # << >>, NEW c, ListedOnce(s, c)
  PROVE  /\ Tail(s) \in Seq(S) /\ ListedOnce(Tail(s), c)
         /\ Listed(Tail(s), c) <=> Listed(s, c) /\ c # Head(s)
<1> DEFINE t == Tail(s)
<1>1. /\ t \in Seq(S) /\ Len(s) \in Nat /\ DOMAIN s = 1..Len(s) /\ DOMAIN t = 1..Len(t)
      /\ Len(s) >= 1 /\ Len(t) = Len(s) - 1 /\ Head(s) = s[1]
      /\ \A i \in 1..Len(t) : t[i] = s[i + 1]
  OBVIOUS
<1> HIDE DEF t
<1>2. \A i \in 1..Len(t) : i + 1 \in 1..Len(s) /\ i + 1 # 1
  BY <1>1
<1>3. \A i \in 1..Len(s) : i = 1 \/ (i - 1 \in 1..Len(t) /\ t[i - 1] = s[i])
  BY <1>1
<1>4. ListedOnce(t, c)
  <2>1. SUFFICES ASSUME NEW i \in 1..Len(t), NEW j \in 1..Len(t), t[i] = c, t[j] = c PROVE i = j
    BY <1>1 DEF ListedOnce
  <2>2. i + 1 = j + 1  BY <1>1, <1>2, <2>1 DEF ListedOnce
  <2> QED  BY <2>2
<1>5. Listed(t, c) => Listed(s, c) /\ c # Head(s)
  <2>1. SUFFICES ASSUME NEW i \in 1..Len(t), t[i] = c PROVE Listed(s, c) /\ c # Head(s)
    BY <1>1 DEF Listed
  <2>2. i + 1 \in 1..Len(s) /\ s[i + 1] = c /\ i + 1 # 1 /\ 1 \in 1..Len(s)
    BY <1>1, <1>2, <2>1
  <2> QED  BY <1>1, <2>2 DEF Listed, ListedOnce
<1>6. Listed(s, c) /\ c # Head(s) => Listed(t, c)
  BY <1>1, <1>3 DEF Listed
<1> QED  BY <1>1, <1>4, <1>5, <1>6 DEF t

(* The children of a node are those it is a parent of, and a child that is *)
(* reached by one edge is there once.                                      *)
LEMMA ChildrenAre ==
  ASSUME NEW f, IsFlow(f), NEW n \in f.nodes, NEW c \in f.nodes
  PROVE  /\ Listed(Children(f, n), c) <=> n \in Parents(f, c)
         /\ (\A i, j \in DOMAIN f.edges :
               /\ f.edges[i].src = n /\ f.edges[j].src = n
               /\ f.edges[i].dst = c /\ f.edges[j].dst = c
               => i = j)
            => ListedOnce(Children(f, n), c)
<1> DEFINE Edge == [src : f.nodes, dst : f.nodes, out : Nat]
           Leaving == {e \in EdgeSet(f) : e.src = n}
           edges == f.edges
           out == Keep(edges, Leaving)
           kids == Children(f, n)
<1>1. edges \in Seq(Edge)  BY DEF IsFlow
<1>2. kids = [i \in DOMAIN out |-> out[i].dst]  BY DEF Children
<1>3. /\ \A i \in DOMAIN edges : edges[i] \in Leaving <=> edges[i].src = n
      /\ \A e \in Leaving : e.src = n
  BY DEF EdgeSet
<1>4. n \in Parents(f, c) <=> \E i \in DOMAIN edges : edges[i].src = n /\ edges[i].dst = c
  BY DEF Parents, EdgeSet
<1> HIDE DEF Edge, Leaving, edges
<1>5. PICK h : KeptFrom(h, out, edges)  BY <1>1, KeepPlaces
<1>6. out \in Seq(Edge \cap Leaving)  BY <1>1, KeepType
<1>7. \A m \in DOMAIN edges : edges[m] \in Leaving => \E i \in DOMAIN out : out[i] = edges[m]
  BY <1>1, KeepComplete
<1> HIDE DEF out, kids
<1>8. \A i \in DOMAIN out : /\ out[i].src = n /\ h[i] \in DOMAIN edges /\ out[i] = edges[h[i]]
  <2>1. \A i \in DOMAIN out : out[i] \in Leaving  BY <1>6
  <2> QED  BY <1>3, <1>5, <2>1 DEF KeptFrom
<1>9. Listed(kids, c) <=> \E i \in DOMAIN out : out[i].dst = c
  BY <1>2 DEF Listed
<1>10. Listed(kids, c) <=> n \in Parents(f, c)
  <2>1. ASSUME NEW i \in DOMAIN out, out[i].dst = c PROVE n \in Parents(f, c)
    BY <1>4, <1>8, <2>1
  <2>2. ASSUME NEW m \in DOMAIN edges, edges[m].src = n, edges[m].dst = c
        PROVE  \E i \in DOMAIN out : out[i].dst = c
    <3>1. PICK i \in DOMAIN out : out[i] = edges[m]  BY <1>3, <1>7, <2>2
    <3> QED  BY <2>2, <3>1
  <2> QED  BY <1>4, <1>9, <2>1, <2>2
<1>11. ASSUME \A i, j \in DOMAIN edges :
                /\ edges[i].src = n /\ edges[j].src = n
                /\ edges[i].dst = c /\ edges[j].dst = c
                => i = j
       PROVE  ListedOnce(kids, c)
  <2>1. SUFFICES ASSUME NEW i \in DOMAIN out, NEW j \in DOMAIN out, out[i].dst = c, out[j].dst = c
                 PROVE  i = j
    BY <1>2 DEF ListedOnce
  <2>2. h[i] = h[j]  BY <1>8, <1>11, <2>1
  <2> QED  BY <1>5, <2>2 DEF KeptFrom
<1> QED  BY <1>10, <1>11 DEF edges, kids

(* What is kept of a queue. *)
LEMMA ListedKeep ==
  ASSUME NEW S, NEW s \in Seq(S), NEW T, NEW c
  PROVE  /\ Listed(Keep(s, T), c) <=> Listed(s, c) /\ c \in T
         /\ ListedOnce(s, c) => ListedOnce(Keep(s, T), c)
<1> DEFINE t == Keep(s, T)
<1>1. PICK h : KeptFrom(h, t, s)  BY KeepPlaces
<1>2. t \in Seq(S \cap T)  BY KeepType
<1>3. \A m \in DOMAIN s : s[m] \in T => \E i \in DOMAIN t : t[i] = s[m]
  BY KeepComplete
<1> HIDE DEF t
<1>4. \A i \in DOMAIN t : t[i] \in T /\ h[i] \in DOMAIN s /\ t[i] = s[h[i]]
  BY <1>1, <1>2 DEF KeptFrom
<1>5. Listed(t, c) <=> Listed(s, c) /\ c \in T
  <2>1. Listed(t, c) => Listed(s, c) /\ c \in T  BY <1>4 DEF Listed
  <2>2. Listed(s, c) /\ c \in T => Listed(t, c)  BY <1>3 DEF Listed
  <2> QED  BY <2>1, <2>2
<1>6. ListedOnce(s, c) => ListedOnce(t, c)
  <2>1. SUFFICES ASSUME ListedOnce(s, c), NEW i \in DOMAIN t, NEW j \in DOMAIN t, t[i] = c, t[j] = c
                 PROVE  i = j
    BY DEF ListedOnce
  <2>2. h[i] = h[j]  BY <1>4, <2>1 DEF ListedOnce
  <2> QED  BY <1>1, <2>2 DEF KeptFrom
<1> QED  BY <1>5, <1>6 DEF t

(* Every input of a node is required or in one of its groups. *)
LEMMA InputsAre ==
  ASSUME NEW f, NEW c, NEW p \in Parents(f, c), p \notin ExpectedInputs(f, c)
  PROVE  \E g \in ConditionalGroups(f, c) : p \in g
<1> DEFINE conditional == Parents(f, c) \ ExpectedInputs(f, c)
<1>1. p \in conditional  OBVIOUS
<1>2. p \in {m \in conditional : FindConditionParent(f, m) = FindConditionParent(f, p)}
  BY <1>1
<1>3. {m \in conditional : FindConditionParent(f, m) = FindConditionParent(f, p)}
        \in ConditionalGroups(f, c)
  BY <1>1 DEF ConditionalGroups
<1> QED  BY <1>2, <1>3

(* The edges of a flow join its nodes. *)
LEMMA EdgeIs ==
  ASSUME NEW f, IsFlow(f), NEW j \in DOMAIN f.edges
  PROVE  j \in Nat /\ f.edges[j].dst \in f.nodes
<1> DEFINE Edge == [src : f.nodes, dst : f.nodes, out : Nat]
           edges == f.edges
<1>1. edges \in Seq(Edge)  BY DEF IsFlow
<1>2. \A e \in Edge : e.dst \in f.nodes  OBVIOUS
<1>3. j \in DOMAIN edges  OBVIOUS
<1> HIDE DEF Edge, edges
<1>4. j \in Nat /\ edges[j] \in Edge  BY <1>1, <1>3
<1> QED  BY <1>2, <1>4 DEF edges

Answers(m, k) == [i \in 1..m |-> i = k]

(* One output of a condition is taken: the fulfilled one or the last. *)
LEMMA OneFulfilled ==
  ASSUME NEW m \in Nat, m > 0, NEW k \in 0..m, NEW fulfilled, fulfilled = Answers(m, k)
  PROVE  /\ DOMAIN fulfilled = 1..m
         /\ \E w \in 1..m : WithFallback(fulfilled) = Answers(m, w)
<1>1. DOMAIN fulfilled = 1..m /\ \A i \in 1..m : fulfilled[i] = (i = k)  BY Zenon DEF Answers
<1>2. CASE k = 0
  <2>1. \A i \in 1..m : i # k  BY <1>2
  <2>2. \A i \in DOMAIN fulfilled : ~ fulfilled[i]  BY <1>1, <2>1, Zenon
  <2>3. fulfilled \in Seq(BOOLEAN)  BY DEF Answers
  <2>4. Len(fulfilled) = m  BY <1>1, <2>3
  <2>5. WithFallback(fulfilled) = [i \in 1..m |-> i = m]
    BY <1>1, <2>2, <2>4 DEF WithFallback
  <2>6. m \in 1..m  OBVIOUS
  <2> QED  BY <1>1, <2>5, <2>6, Zenon DEF Answers
<1>3. CASE k # 0
  <2>1. k \in 1..m  BY <1>3
  <2>2. k \in DOMAIN fulfilled /\ fulfilled[k]  BY <1>1, <2>1, Zenon
  <2>3. WithFallback(fulfilled) = [i \in 1..m |-> i = k]  BY <2>2 DEF WithFallback, Answers
  <2> QED  BY <1>1, <2>1, <2>3 DEF Answers
<1> QED  BY <1>2, <1>3

(* A condition of the trunk ignores all that is behind it but one node, and *)
(* no other node of the trunk ignores anything.                            *)
LEMMA IgnoredIs ==
  ASSUME IsFlow(flow), NEW A, IsTrunk(flow, A), NEW n \in A, NEW fulfilled \in Verdicts(n),
         NEW ignored, ignored = DetermineNodesToIgnore(flow, n, fulfilled)
  PROVE  /\ flow.kind[n] # "condition" => ignored = {}
         /\ flow.kind[n] = "condition" =>
              \E c \in Targets(flow, n) : Targets(flow, n) \cap ignored = Targets(flow, n) \ {c}
<1>1. CASE flow.kind[n] # "condition"
  <2>1. flow.kind[n] \notin DecisionKinds  BY <1>1 DEF IsTrunk, DecisionKinds
  <2> QED  BY <1>1, <2>1 DEF DetermineNodesToIgnore
<1>2. CASE flow.kind[n] = "condition"
  <2> DEFINE outs == flow.outs[n]
             edges == flow.edges
             edgesOf(i) == {j \in DOMAIN edges : edges[j].src = n /\ edges[j].out = i}
  <2>1. n \in flow.nodes /\ outs \in Nat /\ OneEdgeEach(flow, n) /\ Targets(flow, n) \subseteq A
    <3>1. n \in flow.nodes  BY DEF IsTrunk
    <3>2. outs \in Nat  BY <3>1 DEF IsFlow
    <3> QED  BY <1>2, <3>1, <3>2 DEF IsTrunk
  <2>2. PICK k \in 0..outs : fulfilled = [i \in 1..outs |-> i = k]
    BY <1>2 DEF Verdicts
  <2>3. outs > 0  BY <2>1 DEF OneEdgeEach
  <2> HIDE DEF outs
  <2>4. /\ DOMAIN fulfilled = 1..outs
        /\ \E w \in 1..outs : WithFallback(fulfilled) = [i \in 1..outs |-> i = w]
    <3>1. PICK m : m = outs  OBVIOUS
    <3>2. m \in Nat /\ m > 0 /\ k \in 0..m /\ fulfilled = Answers(m, k)
      BY <2>1, <2>2, <2>3, <3>1 DEF Answers
    <3>3. DOMAIN fulfilled = 1..m /\ \E w \in 1..m : WithFallback(fulfilled) = Answers(m, w)
      BY <3>2, OneFulfilled
    <3> QED  BY <3>1, <3>3 DEF Answers
  <2>5. PICK t \in 1..outs : WithFallback(fulfilled) = [i \in 1..outs |-> i = t]
    BY <2>4
  <2>6. PICK unfulfilled : unfulfilled = {i \in DOMAIN fulfilled : ~ WithFallback(fulfilled)[i]}
    OBVIOUS
  <2>7. \A i : i \in unfulfilled <=> i \in 1..outs /\ i # t
    BY <2>4, <2>5, <2>6
  <2>8. ignored = {edges[FirstOf(edgesOf(i))].dst : i \in {u \in unfulfilled : edgesOf(u) # {}}}
    BY <1>2, <2>6 DEF DetermineNodesToIgnore, DecisionKinds
  <2>9. ASSUME NEW j \in DOMAIN edges, edges[j].src = n
        PROVE  edges[j].out \in 1..outs /\ FirstOf(edgesOf(edges[j].out)) = j
    <3>1. edgesOf(edges[j].out) = {j}  BY <2>1, <2>9 DEF OneEdgeEach
    <3>2. j \in Nat  BY EdgeIs
    <3>3. FirstOf({j}) = j  BY <3>2 DEF FirstOf
    <3> QED  BY <2>1, <2>9, <3>1, <3>3 DEF OneEdgeEach, outs
  <2>10. ASSUME NEW i \in 1..outs PROVE \E j \in edgesOf(i) : edges[j].src = n /\ edges[j].out = i
    BY <2>1 DEF OneEdgeEach, outs
  <2>11. \A x : x \in ignored <=> \E j \in DOMAIN edges :
                                    edges[j].src = n /\ edges[j].out # t /\ edges[j].dst = x
    <3>1. ASSUME NEW x \in ignored
          PROVE  \E j \in DOMAIN edges : edges[j].src = n /\ edges[j].out # t /\ edges[j].dst = x
      <4>1. PICK i \in unfulfilled : x = edges[FirstOf(edgesOf(i))].dst  BY <2>8, <3>1
      <4>2. PICK j \in edgesOf(i) : edges[j].src = n /\ edges[j].out = i  BY <2>7, <2>10
      <4> QED  BY <2>7, <2>9, <4>1, <4>2
    <3>2. ASSUME NEW j \in DOMAIN edges, edges[j].src = n, edges[j].out # t
          PROVE  edges[j].dst \in ignored
      <4>1. edges[j].out \in unfulfilled /\ j \in edgesOf(edges[j].out)
        BY <2>7, <2>9, <3>2
      <4>2. edgesOf(edges[j].out) # {}  BY <4>1
      <4>3. edges[FirstOf(edgesOf(edges[j].out))].dst \in ignored  BY <2>8, <4>1, <4>2
      <4> QED  BY <2>9, <3>2, <4>3
    <3> QED  BY <3>1, <3>2
  <2>12. PICK m \in DOMAIN edges : edges[m].src = n /\ edges[m].out = t
    BY <2>10
  <2>13. \A x \in flow.nodes : x \in Targets(flow, n) <=>
           \E j \in DOMAIN edges : edges[j].src = n /\ edges[j].dst = x
    BY DEF Targets, Parents, EdgeSet
  <2>14. edges[m].dst \in flow.nodes /\ edges[m].dst \in Targets(flow, n)
    <3>1. edges[m].dst \in flow.nodes  BY EdgeIs
    <3> QED  BY <2>12, <2>13, <3>1
  <2>15. edges[m].dst \notin ignored
    <3> SUFFICES ASSUME NEW j \in DOMAIN edges, edges[j].src = n, edges[j].out # t,
                        edges[j].dst = edges[m].dst
                 PROVE  FALSE
      BY <2>11
    <3>1. edges[j].dst \in A  BY <2>1, <2>14
    <3>2. j = m  BY <2>12, <3>1 DEF IsTrunk
    <3> QED  BY <2>12, <3>2
  <2>16. ASSUME NEW x \in Targets(flow, n), x # edges[m].dst PROVE x \in ignored
    <3>1. PICK j \in DOMAIN edges : edges[j].src = n /\ edges[j].dst = x
      BY <2>13, <2>16 DEF Targets
    <3>2. edges[j].out # t
      BY <2>1, <2>12, <2>16, <3>1 DEF OneEdgeEach
    <3> QED  BY <2>11, <3>1, <3>2
  <2> QED  BY <1>2, <2>14, <2>15, <2>16
<1> QED  BY <1>1, <1>2

(* What the outputs of a turn do to a node off the trunk, to a node of it   *)
(* that they do not reach, and to one that they do.                        *)
Delivers(A, n, ignored, c) ==
  /\ c \notin A /\ waiting[c] = {} => waiting'[c] = {}
  /\ c \in A /\ (n \notin Parents(flow, c) \/ c \in ignored) =>
       /\ waiting'[c] = waiting[c] /\ ListedOnce(queue', c)
       /\ Listed(queue', c) <=> Listed(queue, c) /\ c # n
  /\ c \in A /\ n \in Parents(flow, c) /\ c \notin ignored /\ ~ Listed(queue, c) =>
       IF HasReceivedRequiredInputs(flow, c, waiting[c] \cup {n})
       THEN waiting'[c] = {} /\ Listed(queue', c) /\ ListedOnce(queue', c)
       ELSE waiting'[c] = waiting[c] \cup {n} /\ ~ Listed(queue', c)

(* Every turn that completes does that. *)
LEMMA TurnIs ==
  ASSUME TypeOK, NEW A, IsTrunk(flow, A), NEW n \in flow.nodes, Turn(n),
         NEW fulfilled, ProcessNodeOutputs(n, fulfilled),
         NEW ignored, ignored = DetermineNodesToIgnore(flow, n, fulfilled),
         NEW c \in flow.nodes, c \in A => ListedOnce(queue, c)
  PROVE  Delivers(A, n, ignored, c)
<1> DEFINE kids == Children(flow, n)
           rest == Tail(queue)
           back == IF LoopsBack(n) THEN <<flow.loopTo[n]>> ELSE << >>
           N == flow.nodes
<1> DEFINE live == {kids[i] : i \in DOMAIN kids} \ ignored
           ready == {d \in live : HasReceivedRequiredInputs(flow, d, waiting[d] \cup {n})}
           kept == Keep(kids, ready)
           some == rest \o kept
<1>2. waiting' = [d \in N |-> IF d \in ready THEN {}
                              ELSE IF d \in live THEN waiting[d] \cup {n} ELSE waiting[d]]
  BY DEF ProcessNodeOutputs
<1>3. queue' = some \o back
  BY DEF ProcessNodeOutputs
<1>4. IsFlow(flow) /\ queue \in Seq(N) /\ queue # << >> /\ n = Head(queue)
  BY FlowType DEF TypeOK, Turn
<1>5. kids \in Seq(N)  BY <1>4, ChildrenType
<1>6. back \in Seq(N) /\ \A d \in A : ~ Listed(back, d)
  <2>1. CASE LoopsBack(n)
    <3>1. back = <<flow.loopTo[n]>> /\ flow.loopTo[n] \in N  BY <2>1, <1>4 DEF IsFlow
    <3>2. flow.loopTo[n] \notin A  BY <2>1 DEF LoopsBack, IsTrunk
    <3> HIDE DEF back, N
    <3>3. back \in Seq(N) /\ \A i \in DOMAIN back : back[i] = flow.loopTo[n]  BY <3>1
    <3> QED  BY <3>2, <3>3 DEF Listed
  <2>2. CASE ~ LoopsBack(n)
    <3>1. back = << >>  BY <2>2
    <3> HIDE DEF back, N
    <3>2. back \in Seq(N) /\ DOMAIN back = {}  BY <3>1
    <3> QED  BY <3>2 DEF Listed
  <2> QED  BY <2>1, <2>2
<1>7. Listed(kids, c) <=> n \in Parents(flow, c)
  BY <1>4, ChildrenAre
<1>8. c \in live <=> Listed(kids, c) /\ c \notin ignored
  BY DEF Listed
<1>9. c \in ready <=> c \in live /\ HasReceivedRequiredInputs(flow, c, waiting[c] \cup {n})
  OBVIOUS
<1> HIDE DEF kids, rest, back, N, live, ready
<1>10. kept \in Seq(N)
  <2>1. kept \in Seq(N \cap ready)  BY <1>5, KeepType
  <2> HIDE DEF kept
  <2> QED  BY <2>1
<1>11. /\ Listed(kept, c) <=> Listed(kids, c) /\ c \in ready
       /\ ListedOnce(kids, c) => ListedOnce(kept, c)
  BY <1>5, ListedKeep
<1> HIDE DEF kept
<1>12. rest \in Seq(N)  BY <1>4 DEF rest
<1>13. /\ some \in Seq(N)
       /\ Listed(some, c) <=> Listed(rest, c) \/ Listed(kept, c)
       /\ ~ Listed(kept, c) /\ ListedOnce(rest, c) => ListedOnce(some, c)
       /\ ~ Listed(rest, c) /\ ListedOnce(kept, c) => ListedOnce(some, c)
  <2>1. PICK u : u = some  OBVIOUS
  <2>2. /\ u \in Seq(N)
        /\ Listed(u, c) <=> Listed(rest, c) \/ Listed(kept, c)
        /\ ~ Listed(kept, c) /\ ListedOnce(rest, c) => ListedOnce(u, c)
        /\ ~ Listed(rest, c) /\ ListedOnce(kept, c) => ListedOnce(u, c)
    BY <1>10, <1>12, <2>1, ListedBoth
  <2> QED  BY <2>1, <2>2
<1> HIDE DEF some
<1>14. /\ Listed(queue', c) <=> Listed(some, c) \/ Listed(back, c)
       /\ ~ Listed(back, c) /\ ListedOnce(some, c) => ListedOnce(queue', c)
  <2>1. PICK u : u = queue'  OBVIOUS
  <2>2. /\ Listed(u, c) <=> Listed(some, c) \/ Listed(back, c)
        /\ ~ Listed(back, c) /\ ListedOnce(some, c) => ListedOnce(u, c)
    BY <1>3, <1>6, <1>13, <2>1, ListedBoth
  <2> QED  BY <2>1, <2>2
<1>15. ASSUME c \in A PROVE (Listed(rest, c) <=> Listed(queue, c) /\ c # n) /\ ListedOnce(rest, c)
  BY <1>4, <1>15, ListedTail DEF rest
<1>16. ASSUME c \notin A, waiting[c] = {} PROVE waiting'[c] = {}
  <2>1. CASE c \in live
    <3>1. HasReceivedRequiredInputs(flow, c, {n})
      BY <1>7, <1>8, <1>16, <2>1 DEF IsTrunk
    <3>2. waiting[c] \cup {n} = {n}  BY <1>16
    <3> QED  BY <1>2, <1>9, <2>1, <3>1, <3>2 DEF N
  <2>2. CASE c \notin live
    BY <1>2, <1>9, <1>16, <2>2 DEF N
  <2> QED  BY <2>1, <2>2
<1>17. ASSUME c \in A, n \notin Parents(flow, c) \/ c \in ignored
       PROVE  /\ waiting'[c] = waiting[c] /\ ListedOnce(queue', c)
              /\ Listed(queue', c) <=> Listed(queue, c) /\ c # n
  <2>1. c \notin live /\ c \notin ready /\ ~ Listed(kept, c) /\ ~ Listed(back, c)
    BY <1>6, <1>7, <1>8, <1>9, <1>11, <1>17
  <2> QED  BY <1>2, <1>13, <1>14, <1>15, <1>17, <2>1 DEF N
<1>18. ASSUME c \in A, n \in Parents(flow, c), c \notin ignored, ~ Listed(queue, c)
       PROVE  IF HasReceivedRequiredInputs(flow, c, waiting[c] \cup {n})
              THEN waiting'[c] = {} /\ Listed(queue', c) /\ ListedOnce(queue', c)
              ELSE waiting'[c] = waiting[c] \cup {n} /\ ~ Listed(queue', c)
  <2>1. c \in live /\ Listed(kids, c)  BY <1>7, <1>8, <1>18
  <2>2. c \in ready <=> HasReceivedRequiredInputs(flow, c, waiting[c] \cup {n})
    BY <1>9, <2>1
  <2>3. ListedOnce(kids, c)
    <3>1. \A i, j \in DOMAIN flow.edges :
            /\ flow.edges[i].src = n /\ flow.edges[j].src = n
            /\ flow.edges[i].dst = c /\ flow.edges[j].dst = c
            => i = j
      BY <1>18 DEF IsTrunk
    <3> QED  BY <1>4, <3>1, ChildrenAre DEF kids
  <2>4. ~ Listed(rest, c) /\ ~ Listed(back, c)  BY <1>6, <1>15, <1>18
  <2> QED  BY <1>2, <1>11, <1>13, <1>14, <2>1, <2>2, <2>3, <2>4 DEF N
<1> QED  BY <1>16, <1>17, <1>18 DEF Delivers

(* A join that has what it needs gets nothing more: of what is behind a    *)
(* condition one node runs and the others are ruled out.                   *)
LEMMA NothingMore ==
  ASSUME NEW A, IsTrunk(flow, A), NEW R \in SUBSET A, NEW X \in SUBSET A, TrunkRan(A, R, X),
         NEW n \in A, n \notin R \cup X, Parents(flow, n) \subseteq R \cup X,
         NEW c \in A, ~ Behind(flow, c),
         HasReceivedRequiredInputs(flow, c, Parents(flow, c) \cap (R \cup {n}))
  PROVE  Parents(flow, c) \subseteq R \cup {n} \cup X
<1> SUFFICES ASSUME NEW p \in Parents(flow, c), p \notin ExpectedInputs(flow, c)
             PROVE  p \in R \cup {n} \cup X
  BY DEF HasReceivedRequiredInputs
<1>1. PICK g \in ConditionalGroups(flow, c) : p \in g  BY InputsAre
<1>2. PICK x \in g : x \in R \cup {n}  BY DEF HasReceivedRequiredInputs
<1>3. PICK d \in A : flow.kind[d] = "condition" /\ g = Targets(flow, d)
  BY DEF IsTrunk, WellJoined, Behind
<1>4. ~ Behind(flow, d)
  BY <1>3 DEF IsTrunk, WellJoined
<1>5. d \in Parents(flow, x)  BY <1>2, <1>3 DEF Targets
<1>6. Parents(flow, x) \subseteq R \cup X
  <2>1. CASE x = n
    BY <2>1
  <2>2. CASE x # n
    BY <1>2, <2>2 DEF TrunkRan, Standing
  <2> QED  BY <2>1, <2>2
<1>7. d \in R  BY <1>4, <1>5, <1>6 DEF TrunkRan, RuledOut
<1>8. PICK y \in Targets(flow, d) : Targets(flow, d) \cap X = Targets(flow, d) \ {y}
  BY <1>3, <1>7 DEF TrunkRan, RuledOut
<1>9. x = y
  <2>1. x \notin X  BY <1>2 DEF TrunkRan, RuledOut
  <2> QED  BY <1>2, <1>3, <1>8, <2>1
<1> QED  BY <1>1, <1>2, <1>3, <1>8, <1>9

(* A turn of a node of the trunk that completes: the node has run, and a   *)
(* condition rules out all behind it but one.                              *)
LEMMA TrunkTurn ==
  ASSUME TypeOK, NEW A, IsTrunk(flow, A), NEW R \in SUBSET A, NEW X \in SUBSET A,
         TrunkRan(A, R, X), NEW n \in A, Complete(n)
  PROVE  \E S \in SUBSET A, Y \in SUBSET A : TrunkRan(A, S, Y)'
<1>1. flow' = flow /\ Turn(n) /\ A \subseteq flow.nodes
  BY DEF Complete, IsTrunk
<1>2. PICK fulfilled \in Verdicts(n) : ProcessNodeOutputs(n, fulfilled)
  BY DEF Complete
<1>3. PICK ignored : ignored = DetermineNodesToIgnore(flow, n, fulfilled)
  OBVIOUS
<1>4. PICK S \in SUBSET A, Y \in SUBSET A :
        S = R \cup {n} /\ Y = X \cup (ignored \cap Targets(flow, n) \cap A)
  OBVIOUS
<1>5. IsFlow(flow) /\ queue \in Seq(flow.nodes) /\ queue # << >> /\ n = Head(queue)
  BY <1>1, FlowType DEF TypeOK, Turn
<1>6. /\ flow.kind[n] # "condition" => ignored = {}
      /\ flow.kind[n] = "condition" =>
           \E c \in Targets(flow, n) : Targets(flow, n) \cap ignored = Targets(flow, n) \ {c}
  BY <1>2, <1>3, <1>5, IgnoredIs
<1>7. /\ Listed(queue, n) /\ Standing(R, X, n)
      /\ n \notin R \cup X /\ Parents(flow, n) \subseteq R \cup X /\ waiting[n] = {}
  <2>1. 1 \in DOMAIN queue /\ queue[1] = n  BY <1>5
  <2>2. Listed(queue, n) /\ Standing(R, X, n)  BY <2>1 DEF Listed, TrunkRan
  <2> QED  BY <2>2 DEF Standing
<1>8. \A c \in A : Standing(R, X, c) /\ ListedOnce(queue, c)
  BY DEF TrunkRan, Standing, Listed, ListedOnce
<1>3a. \A c \in flow.nodes : (c \in A => ListedOnce(queue, c)) => Delivers(A, n, ignored, c)
  BY <1>1, <1>2, <1>3, TurnIs
<1>9. \A c \in flow.nodes \ A : waiting'[c] = {}
  BY <1>3a DEF TrunkRan, Delivers
<1>10. \A c \in A : n \in Parents(flow, c) =>
         /\ ~ Listed(queue, c) /\ c \notin R \cup X /\ c # n
         /\ waiting[c] = Parents(flow, c) \cap R
         /\ ~ HasReceivedRequiredInputs(flow, c, waiting[c])
  BY <1>7, <1>8 DEF Standing
<1>11. \A c \in A : c \in Y <=> c \in X \/ (c \in ignored /\ n \in Parents(flow, c))
  BY <1>1, <1>4 DEF Targets
<1>12. RuledOut(S, Y)
  <2>1. S \cap Y = {}
    <3>1. R \cap X = {}  BY DEF TrunkRan, RuledOut
    <3> QED  BY <1>4, <1>7, <1>10, <1>11, <3>1
  <2>2. \A c \in X : Behind(flow, c)  BY DEF TrunkRan, RuledOut
  <2>3. ASSUME NEW c \in A, c \in ignored, n \in Parents(flow, c) PROVE Behind(flow, c)
    BY <1>6, <2>3 DEF Behind
  <2>4. ASSUME NEW d \in S, flow.kind[d] = "condition"
        PROVE  \E c \in Targets(flow, d) : Targets(flow, d) \cap Y = Targets(flow, d) \ {c}
    <3>1. Targets(flow, d) \subseteq A  BY <2>4 DEF IsTrunk
    <3>2. CASE d = n
      <4>1. \A c \in Targets(flow, d) : c \notin X /\ n \in Parents(flow, c)
        BY <1>10, <3>1, <3>2 DEF Targets
      <4>2. Targets(flow, d) \cap Y = Targets(flow, d) \cap ignored
        BY <1>11, <3>1, <4>1
      <4> QED  BY <1>6, <2>4, <3>2, <4>2
    <3>3. CASE d # n
      <4>1. \A c \in Targets(flow, d) : c \in ignored /\ n \in Parents(flow, c) => FALSE
        <5> SUFFICES ASSUME NEW c \in Targets(flow, d), c \in ignored, n \in Parents(flow, c)
                     PROVE  FALSE
          OBVIOUS
        <5>1. c \in A /\ d \in Parents(flow, c) /\ Behind(flow, c)
          BY <2>4, <3>1 DEF Targets, Behind
        <5> QED  BY <3>3, <5>1 DEF IsTrunk, WellJoined
      <4>2. Targets(flow, d) \cap Y = Targets(flow, d) \cap X
        BY <1>11, <3>1, <4>1
      <4>3. d \in R  BY <1>4, <2>4, <3>3
      <4> QED  BY <2>4, <4>2, <4>3 DEF TrunkRan, RuledOut
    <3> QED  BY <3>2, <3>3
  <2> QED  BY <1>11, <2>1, <2>2, <2>3, <2>4 DEF RuledOut
<1>13. ASSUME NEW c \in A PROVE Standing(S, Y, c)'
  <2>1. c \in flow.nodes /\ ListedOnce(queue, c) /\ Standing(R, X, c)  BY <1>1, <1>8
  <2>2. SUFFICES
          /\ Listed(queue', c) => c \notin S \cup Y /\ ListedOnce(queue', c)
          /\ Listed(queue', c) \/ c \in S \cup Y =>
               Parents(flow, c) \subseteq S \cup Y /\ waiting'[c] = {}
          /\ ~ Listed(queue', c) /\ c \notin S \cup Y =>
               /\ waiting'[c] = Parents(flow, c) \cap S
               /\ ~ HasReceivedRequiredInputs(flow, c, waiting'[c])
    BY <1>1 DEF Standing
  <2>3. R \cup X \subseteq S \cup Y  BY <1>4
  <2>4. CASE n \notin Parents(flow, c)
    <3>1. /\ waiting'[c] = waiting[c] /\ ListedOnce(queue', c)
          /\ Listed(queue', c) <=> Listed(queue, c) /\ c # n
      BY <1>3a, <2>1, <2>4 DEF Delivers
    <3>2. c \in Y <=> c \in X  BY <1>11, <2>4
    <3>3. CASE c = n
      BY <1>4, <1>7, <2>3, <3>1, <3>3
    <3>4. CASE c # n
      <4>1. c \in S <=> c \in R  BY <1>4, <3>4
      <4>2. Parents(flow, c) \cap S = Parents(flow, c) \cap R  BY <1>4, <2>4
      <4> QED  BY <2>1, <2>3, <3>1, <3>2, <3>4, <4>1, <4>2 DEF Standing
    <3> QED  BY <3>3, <3>4
  <2>5. CASE n \in Parents(flow, c) /\ c \in ignored
    <3>1. /\ waiting'[c] = waiting[c] /\ ~ Listed(queue', c) /\ c \in Y
      BY <1>3a, <1>10, <1>11, <2>1, <2>5 DEF Delivers
    <3>2. flow.kind[n] = "condition"  BY <1>6, <2>5
    <3>3. Parents(flow, c) = {n}
      BY <2>5, <3>2 DEF IsTrunk, WellJoined, Behind
    <3>4. waiting[c] = {}  BY <1>7, <1>10, <2>5, <3>3
    <3> QED  BY <1>4, <3>1, <3>3, <3>4
  <2>6. CASE n \in Parents(flow, c) /\ c \notin ignored
    <3>1. waiting[c] \cup {n} = Parents(flow, c) \cap S
      BY <1>4, <1>10, <2>6
    <3>2. IF HasReceivedRequiredInputs(flow, c, Parents(flow, c) \cap S)
          THEN waiting'[c] = {} /\ Listed(queue', c) /\ ListedOnce(queue', c)
          ELSE waiting'[c] = Parents(flow, c) \cap S /\ ~ Listed(queue', c)
      BY <1>3a, <1>10, <2>1, <2>6, <3>1 DEF Delivers
    <3>3. c \notin S \cup Y  BY <1>4, <1>10, <1>11, <2>6
    <3>4. CASE ~ HasReceivedRequiredInputs(flow, c, Parents(flow, c) \cap S)
      BY <3>2, <3>3, <3>4
    <3>5. CASE HasReceivedRequiredInputs(flow, c, Parents(flow, c) \cap S)
      <4>1. Parents(flow, c) \subseteq S \cup Y
        <5>1. CASE Behind(flow, c)
          <6>1. \E d \in A : Parents(flow, c) = {d}
            BY <5>1 DEF IsTrunk, WellJoined
          <6> QED  BY <1>4, <2>6, <6>1
        <5>2. CASE ~ Behind(flow, c)
          BY <1>4, <1>7, <3>5, <5>2, NothingMore
        <5> QED  BY <5>1, <5>2
      <4> QED  BY <3>2, <3>3, <3>5, <4>1
    <3> QED  BY <3>4, <3>5
  <2> QED  BY <2>4, <2>5, <2>6
<1>14. TrunkRan(A, S, Y)'
  <2>1. RuledOut(S, Y)'  BY <1>1, <1>12 DEF RuledOut, Behind, Targets
  <2> QED  BY <1>1, <1>9, <1>13, <2>1 DEF TrunkRan
<1> QED  BY <1>14

(* A turn of a node off the trunk leaves the trunk as it is. *)
LEMMA OtherTurn ==
  ASSUME TypeOK, NEW A, IsTrunk(flow, A), NEW R \in SUBSET A, NEW X \in SUBSET A,
         TrunkRan(A, R, X), NEW n \in flow.nodes \ A, Complete(n)
  PROVE  TrunkRan(A, R, X)'
<1>1. flow' = flow /\ Turn(n) /\ A \subseteq flow.nodes
  BY DEF Complete, IsTrunk
<1>2. PICK fulfilled \in Verdicts(n) : ProcessNodeOutputs(n, fulfilled)
  BY DEF Complete
<1>3a. PICK ignored :
        \A c \in flow.nodes : (c \in A => ListedOnce(queue, c)) => Delivers(A, n, ignored, c)
  BY <1>1, <1>2, TurnIs
<1>3. \A c \in flow.nodes \ A : waiting'[c] = {}
  BY <1>3a DEF TrunkRan, Delivers
<1>4. ASSUME NEW c \in A PROVE Standing(R, X, c)'
  <2>1. c \in flow.nodes /\ ListedOnce(queue, c) /\ Standing(R, X, c)
    BY <1>1 DEF TrunkRan, Standing, Listed, ListedOnce
  <2>2. n \notin Parents(flow, c) /\ c # n  BY DEF IsTrunk
  <2>3. /\ waiting'[c] = waiting[c] /\ ListedOnce(queue', c)
        /\ Listed(queue', c) <=> Listed(queue, c)
    BY <1>3a, <2>1, <2>2 DEF Delivers
  <2> QED  BY <1>1, <2>1, <2>3 DEF Standing
<1>5. RuledOut(R, X)'  BY <1>1 DEF TrunkRan, RuledOut, Behind, Targets
<1> QED  BY <1>1, <1>3, <1>4, <1>5 DEF TrunkRan

(* A request begins at the one start node: nothing of the trunk has run.   *)
LEMMA TrunkStart ==
  ASSUME TypeOK, NEW A, IsTrunk(flow, A), StartExecution
  PROVE  TrunkRan(A, {}, {})'
<1>1. PICK n \in StartNodes(flow) :
        /\ StartNodes(flow) = {n} /\ queue' = <<n>> /\ flow' = flow
        /\ waiting' = [c \in flow.nodes |-> {}]
  BY DEF StartExecution, BeginRequest
<1>2. A \subseteq flow.nodes \ Inside(flow)  BY DEF IsTrunk
<1>3. \A c : (Listed(queue', c) <=> c = n) /\ ListedOnce(queue', c)
  BY <1>1 DEF Listed, ListedOnce
<1>4. \A c \in A : Parents(flow, c) = {} <=> c = n
  BY <1>1, <1>2 DEF StartNodes
<1>5. ASSUME NEW c \in A, c # n PROVE ~ HasReceivedRequiredInputs(flow, c, {})
  <2>1. PICK p \in Parents(flow, c) : TRUE  BY <1>4, <1>5
  <2>2. CASE p \in ExpectedInputs(flow, c)
    BY <2>2 DEF HasReceivedRequiredInputs
  <2>3. CASE p \notin ExpectedInputs(flow, c)
    <3>1. PICK g \in ConditionalGroups(flow, c) : p \in g  BY <2>3, InputsAre
    <3> QED  BY <3>1 DEF HasReceivedRequiredInputs
  <2> QED  BY <2>2, <2>3
<1>6. ASSUME NEW c \in A PROVE Standing({}, {}, c)'
  <2>1. SUFFICES /\ Listed(queue', c) => ListedOnce(queue', c)
                 /\ Listed(queue', c) => Parents(flow, c) = {} /\ waiting'[c] = {}
                 /\ ~ Listed(queue', c) =>
                      waiting'[c] = {} /\ ~ HasReceivedRequiredInputs(flow, c, waiting'[c])
    BY <1>1 DEF Standing
  <2>2. waiting'[c] = {}  BY <1>1, <1>2
  <2> QED  BY <1>3, <1>4, <1>5, <2>2
<1> QED  BY <1>1, <1>6 DEF TrunkRan, RuledOut

(* A request resumes off the trunk: it is as if all of the trunk had run   *)
(* or been ruled out, whatever of it had.                                  *)
LEMMA TrunkResume ==
  ASSUME TypeOK, NEW A, IsTrunk(flow, A), NEW decision, NEW named,
         ResumeExecution(decision, named), humanInput'.node \notin A
  PROVE  \E R \in SUBSET A, X \in SUBSET A : TrunkRan(A, R, X)'
<1>1. PICK n \in flow.nodes :
        BeginRequest(IF n \in Inside(flow) THEN << >> ELSE <<n>>, Checkpoint(Latest),
                     [node |-> n, decision |-> decision])
  BY DEF ResumeExecution
<1>2. n \notin A  BY <1>1 DEF BeginRequest
<1>3. flow' = flow /\ waiting' = [c \in flow.nodes |-> {}]
  BY <1>1 DEF ResumeExecution, BeginRequest
<1>4. ASSUME NEW c \in A PROVE ~ Listed(queue', c)
  <2>1. queue' = << >> \/ queue' = <<n>>  BY <1>1 DEF BeginRequest
  <2>2. \A i \in DOMAIN queue' : queue'[i] = n  BY <2>1
  <2> QED  BY <1>2, <2>2 DEF Listed
<1>5. A \subseteq flow.nodes /\ \A c \in A : Parents(flow, c) \subseteq A  BY DEF IsTrunk
<1> DEFINE chosen(d) == CHOOSE c \in Targets(flow, d) : TRUE
<1>6. ASSUME NEW d \in A, flow.kind[d] = "condition"
      PROVE  /\ Targets(flow, d) \subseteq A /\ chosen(d) \in Targets(flow, d)
             /\ \A c \in Targets(flow, d) : Parents(flow, c) = {d}
  <2>1. Targets(flow, d) \subseteq A /\ OneEdgeEach(flow, d)  BY <1>6 DEF IsTrunk
  <2>2. IsFlow(flow) /\ flow.outs[d] \in Nat  BY <1>5, FlowType DEF TypeOK, IsFlow
  <2>3. 1 \in 1..flow.outs[d]  BY <2>1, <2>2 DEF OneEdgeEach
  <2>4. PICK i \in DOMAIN flow.edges : flow.edges[i].src = d
    BY <2>1, <2>3 DEF OneEdgeEach
  <2>5. flow.edges[i].dst \in flow.nodes  BY <2>2, EdgeIs
  <2>6. flow.edges[i].dst \in Targets(flow, d)
    BY <2>4, <2>5 DEF Targets, Parents, EdgeSet
  <2>7. \A c \in Targets(flow, d) : Parents(flow, c) = {d}
    BY <1>6, <2>1 DEF IsTrunk, WellJoined, Behind, Targets
  <2> QED  BY <2>1, <2>6, <2>7
<1> HIDE DEF chosen
<1>7. PICK X \in SUBSET A :
        X = {c \in A : \E d \in A :
               flow.kind[d] = "condition" /\ c \in Targets(flow, d) /\ c # chosen(d)}
  OBVIOUS
<1>8. PICK R \in SUBSET A : R = A \ X  OBVIOUS
<1>9. RuledOut(R, X)
  <2>1. R \cap X = {}  BY <1>8
  <2>2. \A c \in X : Behind(flow, c)  BY <1>7 DEF Behind, Targets
  <2>3. ASSUME NEW d \in R, flow.kind[d] = "condition"
        PROVE  Targets(flow, d) \cap X = Targets(flow, d) \ {chosen(d)}
    <3>1. ASSUME NEW c \in Targets(flow, d) PROVE c \in X <=> c # chosen(d)
      <4>1. c \in A /\ Parents(flow, c) = {d}  BY <1>6, <2>3, <3>1
      <4>2. \A b \in A : c \in Targets(flow, b) => b = d  BY <4>1 DEF Targets
      <4> QED  BY <1>7, <2>3, <3>1, <4>1, <4>2
    <3> QED  BY <3>1
  <2> QED  BY <1>6, <2>1, <2>2, <2>3 DEF RuledOut
<1>10. ASSUME NEW c \in A PROVE Standing(R, X, c)'
  <2>1. c \in R \cup X /\ R \cup X = A  BY <1>7, <1>8
  <2>2. waiting'[c] = {}  BY <1>3, <1>5
  <2>3. ~ Listed(queue', c) /\ Parents(flow, c) \subseteq R \cup X  BY <1>4, <1>5, <2>1
  <2> QED  BY <1>3, <2>1, <2>2, <2>3 DEF Standing
<1>11. RuledOut(R, X)'  BY <1>3, <1>9 DEF RuledOut, Behind, Targets
<1>12. TrunkRan(A, R, X)'  BY <1>3, <1>5, <1>10, <1>11 DEF TrunkRan
<1> QED  BY <1>12

(* TrunkInv is inductive as long as no request resumes on the trunk. *)
LEMMA TrunkNext ==
  ASSUME TypeOK, NEW A, IsTrunk(flow, A), TrunkInv(A), humanInput'.node \notin A, [Next]_vars
  PROVE  TrunkInv(A)'
<1> SUFFICES ASSUME status' = "INPROGRESS"
             PROVE  \E R \in SUBSET A, X \in SUBSET A : TrunkRan(A, R, X)'
  BY DEF TrunkInv
<1>1. CASE StartExecution
  <2>1. {} \in SUBSET A /\ TrunkRan(A, {}, {})'  BY <1>1, TrunkStart
  <2> QED  BY <2>1
<1>2. CASE \E decision \in Decisions, named \in flow.nodes \cup {NoNode} :
             ResumeExecution(decision, named)
  BY <1>2, TrunkResume
<1>3. CASE \E n \in flow.nodes : Complete(n)
  <2>1. PICK n \in flow.nodes : Complete(n)  BY <1>3
  <2>2. status = "INPROGRESS"  BY <2>1 DEF Complete, Turn
  <2>3. PICK R \in SUBSET A, X \in SUBSET A : TrunkRan(A, R, X)  BY <2>2 DEF TrunkInv
  <2>4. CASE n \in A
    BY <2>1, <2>3, <2>4, TrunkTurn
  <2>5. CASE n \notin A
    <3>1. TrunkRan(A, R, X)'  BY <2>1, <2>3, <2>5, OtherTurn
    <3> QED  BY <3>1
  <2> QED  BY <2>4, <2>5
<1>4. CASE UNCHANGED <<flow, status, queue, waiting>>
  <2>1. PICK R \in SUBSET A, X \in SUBSET A : TrunkRan(A, R, X)  BY <1>4 DEF TrunkInv
  <2>2. RuledOut(R, X)'  BY <1>4, <2>1 DEF TrunkRan, RuledOut, Behind, Targets
  <2>3. TrunkRan(A, R, X)'  BY <1>4, <2>1, <2>2 DEF TrunkRan, Standing
  <2> QED  BY <2>3
<1>5. \/ StartExecution
      \/ \E decision \in Decisions, named \in flow.nodes \cup {NoNode} :
           ResumeExecution(decision, named)
      \/ \E n \in flow.nodes : Complete(n)
      \/ UNCHANGED <<flow, status, queue, waiting>>
  BY DEF Next, Step, ExecuteNode, Abort, Finish, ExceedBudget, Terminate, Fail, FailWith,
     Pause, Crash, EndRequest, vars
<1> QED  BY <1>1, <1>2, <1>3, <1>4, <1>5

(* When the queue runs dry all of the trunk has run or was ruled out: a    *)
(* first node of it that neither has would have what it needs.             *)
LEMMA TrunkDone ==
  ASSUME TypeOK, NEW A, IsTrunk(flow, A), TrunkInv(A)
  PROVE  NoStarvedJoin
<1> SUFFICES ASSUME status = "INPROGRESS", queue = << >>, NEW n \in flow.nodes
             PROVE  waiting[n] = {}
  BY DEF NoStarvedJoin
<1>1. PICK R \in SUBSET A, X \in SUBSET A : TrunkRan(A, R, X)  BY DEF TrunkInv
<1>2. \A c : ~ Listed(queue, c)  BY DEF Listed
<1>3. PICK depth \in [A -> Nat] :
        \A c \in A : \A p \in Parents(flow, c) : depth[p] < depth[c]
  BY DEF IsTrunk
<1> DEFINE Rest == A \ (R \cup X)
<1>4. Rest = {}
  <2> SUFFICES ASSUME Rest # {} PROVE FALSE
    OBVIOUS
  <2> DEFINE Depths == {depth[c] : c \in Rest}
  <2>1. PICK m \in Depths : \A k \in Depths : m <= k
    <3>1. Depths \in SUBSET Nat /\ Depths # {}  OBVIOUS
    <3> HIDE DEF Depths
    <3> QED  BY <3>1, LeastNatural
  <2>2. PICK c \in Rest : depth[c] = m  OBVIOUS
  <2>3. ~ HasReceivedRequiredInputs(flow, c, Parents(flow, c) \cap R)
    <3>1. Standing(R, X, c) /\ c \notin R \cup X /\ ~ Listed(queue, c)
      BY <1>1, <1>2, <2>2 DEF TrunkRan
    <3>2. waiting[c] = Parents(flow, c) \cap R  BY <3>1 DEF Standing
    <3> QED  BY <3>1, <3>2 DEF Standing
  <2>4. ASSUME NEW p \in Parents(flow, c) PROVE p \in R \cup X
    <3>1. p \in A /\ depth[p] < depth[c]  BY <1>3, <2>2 DEF IsTrunk
    <3>2. p \in Rest => depth[c] <= depth[p]  BY <2>1, <2>2
    <3>3. depth[p] \in Nat /\ depth[c] \in Nat  BY <1>3, <2>2, <3>1
    <3> QED  BY <3>1, <3>2, <3>3
  <2>5. CASE Behind(flow, c)
    <3>1. PICK d \in A : flow.kind[d] = "condition" /\ Parents(flow, c) = {d}
      BY <2>2, <2>5 DEF IsTrunk, WellJoined
    <3>2. ~ Behind(flow, d)  BY <3>1 DEF IsTrunk, WellJoined
    <3>3. d \in R  BY <1>1, <2>4, <3>1, <3>2 DEF TrunkRan, RuledOut
    <3>4. Parents(flow, c) \cap R = Parents(flow, c)  BY <3>1, <3>3
    <3> QED  BY <2>2, <2>3, <2>5, <3>4 DEF IsTrunk, WellJoined
  <2>6. CASE ~ Behind(flow, c)
    <3>1. \A x \in X : Behind(flow, x)  BY <1>1 DEF TrunkRan, RuledOut
    <3>2. /\ \A p \in ExpectedInputs(flow, c) : ~ Behind(flow, p)
          /\ \A g \in ConditionalGroups(flow, c) :
               \E d \in A : flow.kind[d] = "condition" /\ g = Targets(flow, d)
      BY <2>2, <2>6 DEF IsTrunk, WellJoined, Behind
    <3>3. ExpectedInputs(flow, c) \subseteq Parents(flow, c) \cap R
      BY <2>4, <3>1, <3>2 DEF ExpectedInputs
    <3>4. ASSUME NEW g \in ConditionalGroups(flow, c) PROVE g \cap (Parents(flow, c) \cap R) # {}
      <4>1. PICK d \in A : flow.kind[d] = "condition" /\ g = Targets(flow, d)  BY <3>2
      <4>2. g # {} /\ g \subseteq Parents(flow, c)  BY DEF ConditionalGroups
      <4>3. ~ Behind(flow, d)  BY <4>1 DEF IsTrunk, WellJoined
      <4>4. PICK x \in g : d \in Parents(flow, x) /\ x \in R \cup X
        BY <2>4, <4>1, <4>2 DEF Targets
      <4>5. Parents(flow, x) \subseteq R \cup X
        BY <1>1, <4>4 DEF TrunkRan, Standing
      <4>6. d \in R  BY <3>1, <4>3, <4>4, <4>5
      <4>7. PICK y \in Targets(flow, d) : Targets(flow, d) \cap X = Targets(flow, d) \ {y}
        BY <1>1, <4>1, <4>6 DEF TrunkRan, RuledOut
      <4>8. y \in g /\ y \in R  BY <2>4, <4>1, <4>2, <4>7
      <4> QED  BY <4>2, <4>8
    <3> QED  BY <2>3, <3>3, <3>4 DEF HasReceivedRequiredInputs
  <2> QED  BY <2>5, <2>6
<1> QED  BY <1>1, <1>4 DEF TrunkRan, Standing

(* No join is left half delivered when the queue runs dry                  *)
(* (processNodeOutputs, hasReceivedRequiredInputs), whatever the           *)
(* conditions on the way answer, in any flow that has a trunk, as long as  *)
(* no request resumes at a node of the trunk (startNodeId): the other      *)
(* parents of a join behind it would not run again.                        *)
THEOREM NoJoinStarves ==
  ASSUME NEW trunk, \A f \in Flows : IsTrunk(f, trunk[f])
  PROVE  Spec /\ [](humanInput.node \notin trunk[flow]) => []NoStarvedJoin
<1> DEFINE Inv == TrunkInv(trunk[flow])
           Off == humanInput.node \notin trunk[flow]
<1>1. Init => Inv
  BY DEF Init, TrunkInv
<1>2. TypeOK /\ Inv /\ Off' /\ [Next]_vars => Inv'
  <2> SUFFICES ASSUME TypeOK, Inv, Off', [Next]_vars PROVE Inv'
    OBVIOUS
  <2>1. flow' = flow /\ flow \in Flows
    BY DEF TypeOK, Next, Step, ExecuteNode, StartExecution, ResumeExecution, Abort, Finish,
       ExceedBudget, Terminate, Fail, FailWith, Pause, Complete, Crash, vars
  <2>2. PICK A : A = trunk[flow]  OBVIOUS
  <2>3. IsTrunk(flow, A) /\ TrunkInv(A) /\ humanInput'.node \notin A  BY <2>1, <2>2
  <2>4. TrunkInv(A)'  BY <2>3, TrunkNext
  <2> QED  BY <2>1, <2>2, <2>4
<1>3. TypeOK /\ Inv => NoStarvedJoin
  <2> SUFFICES ASSUME TypeOK, Inv PROVE NoStarvedJoin
    OBVIOUS
  <2>1. IsTrunk(flow, trunk[flow])  BY DEF TypeOK
  <2> QED  BY <2>1, TrunkDone
<1> QED  BY <1>1, <1>2, <1>3, TypeCorrect, PTL DEF Spec
==============================================================================
