---------------------------- MODULE IndexingAudit ----------------------------
(***************************************************************************)
(* Indexing, watched from outside: what the two stores were when no call   *)
(* was in progress, and which calls were made since they agreed.  The      *)
(* contract of a call is stated on the former, so that a call is one step. *)
(***************************************************************************)
EXTENDS VectorIndexing

VARIABLES
  before,      \* the stores when no call was in progress the last time
  suspects     \* what the calls were to do that began since the stores agreed

auditVars == <<vars, before, suspects>>

Busy == \E p \in Calls : ~ At(p, "idle")

NoneYet == [mode |-> "none", docs |-> {}, completed |-> TRUE]

Recent == {c \in Known : rows[c].at = time}

(* The call in progress, as far as the contract is concerned. *)
Asked(completed) ==
  LET u == call[CHOOSE p \in Calls : ~ At(p, "idle")]
  IN  [mode |-> u.mode, completed |-> completed,
       docs |-> IF u.mode = "delete" THEN u.batch ELSE Elements(u.docs)]

Work(u) == <<u.mode, u.docs, IF u.mode = "delete" THEN u.batch ELSE {}>>

AuditInit ==
  /\ Init
  /\ before = [vectors |-> store, known |-> Known, recent |-> Recent, last |-> NoneYet]
  /\ suspects = {}

AuditNext ==
  /\ Next
  /\ before' =
       IF Busy' \/ ~ awaits THEN before
       ELSE [vectors |-> store', known |-> Known', recent |-> Recent',
             last |-> IF Busy THEN Asked(failures' = failures) ELSE before.last]
  /\ suspects' =
       IF ~ awaits \/ (~ Busy' /\ store' = Known') THEN {}
       ELSE suspects \cup {Work(call[p]) : p \in {q \in Calls : ~ At(q, "idle")}}

AuditSpec ==
  /\ AuditInit
  /\ [][AuditNext]_auditVars
  /\ \A p \in Calls : WF_auditVars(Step(p) /\ AuditNext)

---------------------------------------------------------------------------
Contract == INSTANCE IndexContract
  WITH vectors <- before.vectors, known <- before.known, recent <- before.recent,
       last <- before.last

(* Seen from outside, a call that is alone does what IndexContract says    *)
(* when deletions are awaited, also when it fails half-way: an added chunk *)
(* gets its vector before its row, an obsolete one loses its vector before *)
(* its row.                                                                *)
KeepsContract == Contract!IndexSpec

(* Repeating a call that failed repairs what it left, wherever it failed   *)
(* and however often: when it is made again, with no other call since the  *)
(* stores last agreed, and completes, the table lists what has a vector.   *)
RetryHeals ==
  \A p \in Calls :
    awaits /\ At(p, "done") /\ suspects \subseteq {Work(call[p])} => store = Known
===========================================================================
