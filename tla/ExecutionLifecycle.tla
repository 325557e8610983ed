-------------------------- MODULE ExecutionLifecycle --------------------------
(***************************************************************************)
(* What the Execution table promises a client that polls it: executions    *)
(* of a session are created in progress, one after the other; only the     *)
(* latest one ever changes state; a stopped one, and one that failed,      *)
(* may go on; a finished or terminated one never changes again.            *)
(***************************************************************************)
EXTENDS Naturals, Sequences

VARIABLE states      \* the states of the session's executions, oldest first

Open == {"INPROGRESS", "STOPPED", "ERROR"}

Init == states = << >>

Create == states' = Append(states, "INPROGRESS")

Settle ==
  /\ states # << >>
  /\ states[Len(states)] = "INPROGRESS"
  /\ \E s \in {"FINISHED", "STOPPED", "ERROR", "TERMINATED"} :
       states' = [states EXCEPT ![Len(states)] = s]

Reopen ==
  /\ states # << >>
  /\ states[Len(states)] \in {"STOPPED", "ERROR"}
  /\ states' = [states EXCEPT ![Len(states)] = "INPROGRESS"]

Next == Create \/ Settle \/ Reopen

Spec == Init /\ [][Next]_states
===========================================================================
