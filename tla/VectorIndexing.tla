---------------------------- MODULE VectorIndexing ----------------------------
(***************************************************************************)
(* Indexing documents into a vector store with a record manager.           *)
(*                                                                         *)
(*   packages/components/src/indexing.ts          index()                  *)
(*   nodes/recordmanager/*RecordManager           the table of records     *)
(*   nodes/vectorstores/Postgres                  upsert, delete           *)
(*                                                                         *)
(* Two stores are written one after the other: the vectors, and a table    *)
(* with a row for each chunk, stamped with the time it was last given to   *)
(* index().  A call is cut at every await; it may fail at each of them,    *)
(* and nothing is undone.                                                  *)
(***************************************************************************)
EXTENDS Naturals, Sequences, FiniteSets

CONSTANTS
  Chunks,            \* chunks, told apart by the hash of content and metadata
  Source,            \* chunk -> the value of its sourceIdKey
  Loads,             \* what a loader may return: sequences of chunks
  Targets,           \* sets of chunks a deletion may be asked for
  Calls,             \* calls that may be in progress at once
  Modes,             \* cleanup modes in use
  NoRow,             \* no row in the table
  BatchSize,         \* chunks indexed at a time
  CleanupBatchSize,  \* rows cleaned up at a time by a full clean-up
  Drivers,           \* vector stores: whether their delete is awaited
  MaxTime,           \* bound: ticks of the record manager's clock
  MaxCalls,          \* bound: calls
  MaxFailures        \* bound: calls that fail

ASSUME IndexingAssumption ==
  /\ Source \in [Chunks -> Chunks]
  /\ Loads \subseteq Seq(Chunks)
  /\ Targets \subseteq SUBSET Chunks
  /\ Modes \subseteq {"none", "incremental", "full"}
  /\ NoRow \notin [at : Nat, grouped : BOOLEAN]
  /\ BatchSize \in Nat \ {0} /\ CleanupBatchSize \in Nat \ {0}
  /\ Drivers \subseteq BOOLEAN
  /\ MaxTime \in Nat /\ MaxCalls \in Nat /\ MaxFailures \in Nat

VARIABLES
  awaits,      \* the vector store in use awaits its deletions
  store,       \* the chunks that have a vector
  rows,        \* chunk -> its row: time of the last update, group id set or null
  pending,     \* deletions sent to the vector store and not awaited
  time,        \* the clock of the record manager
  call,        \* the call in progress, if any
  calls,       \* calls begun
  failures     \* calls and deletions that failed

vars == <<awaits, store, rows, pending, time, call, calls, failures>>

Row == [at : Nat, grouped : BOOLEAN]

Known == {c \in Chunks : rows[c] # NoRow}

Elements(s) == {s[i] : i \in DOMAIN s}

(* batch, existing, keys: hashedDocs, docsToUpdate, uidsToDelete.  seen is *)
(* a history: the chunks of the batches that have been recorded.           *)
NoCall ==
  [pc |-> "idle", mode |-> "none", start |-> 0, docs |-> << >>, todo |-> << >>,
   batch |-> {}, existing |-> {}, keys |-> {}, seen |-> {}]

Init ==
  /\ awaits \in Drivers
  /\ store = {}
  /\ rows = [c \in Chunks |-> NoRow]
  /\ pending = {}
  /\ time = 1
  /\ call = [p \in Calls |-> NoCall]
  /\ calls = 0
  /\ failures = 0

At(p, pc) == call[p].pc = pc

Become(p, u) == call' = [call EXCEPT ![p] = u]

(* Taking the next batch off what is left, without doubles; after the last *)
(* one a full clean-up follows.                                            *)
NextBatch(u) ==
  LET size == IF Len(u.todo) < BatchSize THEN Len(u.todo) ELSE BatchSize
  IN  IF u.todo # << >>
      THEN [u EXCEPT !.pc = "exists", !.batch = {u.todo[i] : i \in 1..size},
                     !.todo = SubSeq(u.todo, size + 1, Len(u.todo))]
      ELSE [u EXCEPT !.pc = IF u.mode = "full" THEN "list" ELSE "done", !.batch = {}]

(* index(): note the time, cut the documents into batches. *)
Begin(p, mode, docs) ==
  /\ At(p, "idle")
  /\ calls < MaxCalls
  /\ calls' = calls + 1
  /\ Become(p, NextBatch([NoCall EXCEPT !.mode = mode, !.start = time,
                                        !.docs = docs, !.todo = docs]))
  /\ UNCHANGED <<awaits, store, rows, pending, time, failures>>

(* The vector store's delete: what the table lists of the target. *)
BeginDelete(p, target) ==
  /\ At(p, "idle")
  /\ calls < MaxCalls
  /\ calls' = calls + 1
  /\ Become(p, [NoCall EXCEPT !.pc = "list", !.mode = "delete", !.batch = target])
  /\ UNCHANGED <<awaits, store, rows, pending, time, failures>>

(* recordManager.exists *)
Exists(p) ==
  LET existing == call[p].batch \cap Known
  IN  /\ At(p, "exists")
      /\ Become(p, [call[p] EXCEPT !.existing = existing,
                                   !.pc = IF existing # {} THEN "touch" ELSE "add"])
      /\ UNCHANGED <<awaits, store, rows, pending, time, calls, failures>>

(* Mutant: only a row that exists has a group id. *)
MutStamped(keys, grouped) ==
  [c \in Chunks |->
     IF c \notin keys THEN rows[c]
     ELSE [at |-> time, grouped |-> IF c \in Known THEN rows[c].grouped ELSE NoRow]]

(* recordManager.update of keys: a row that exists keeps its group id. *)
Stamped(keys, grouped) ==
  [c \in Chunks |->
     IF c \notin keys THEN rows[c]
     ELSE [at |-> time, grouped |-> IF c \in Known THEN rows[c].grouped ELSE grouped]]

(* Mutant: a batch with existing chunks has nothing to add. *)
MutTouch(p) ==
  LET u == call[p]
  IN  /\ At(p, "touch")
      /\ rows' = Stamped(u.existing, FALSE)
      /\ Become(p, [u EXCEPT !.pc = "record"])
      /\ UNCHANGED <<awaits, store, pending, time, calls, failures>>

(* The existing chunks are stamped first, without group ids. *)
Touch(p) ==
  LET u == call[p]
  IN  /\ At(p, "touch")
      /\ rows' = Stamped(u.existing, FALSE)
      /\ Become(p, [u EXCEPT !.pc = IF u.existing = u.batch THEN "record" ELSE "add"])
      /\ UNCHANGED <<awaits, store, pending, time, calls, failures>>

(* vectorStore.addDocuments with the ids of the new chunks. *)
AddDocuments(p) ==
  LET u == call[p]
  IN  /\ At(p, "add")
      /\ store' = store \cup (u.batch \ u.existing)
      /\ Become(p, [u EXCEPT !.pc = "record"])
      /\ UNCHANGED <<awaits, rows, pending, time, calls, failures>>

(* Mutant: a batch with existing chunks has been stamped already. *)
MutRecord(p) ==
  LET u == [call[p] EXCEPT !.seen = call[p].seen \cup call[p].batch]
  IN  /\ At(p, "record")
      /\ rows' = IF u.existing # {} THEN rows ELSE Stamped(u.batch, TRUE)
      /\ Become(p, IF u.mode = "incremental" THEN [u EXCEPT !.pc = "list"] ELSE NextBatch(u))
      /\ UNCHANGED <<awaits, store, pending, time, calls, failures>>

(* The whole batch is stamped, with group ids. *)
Record(p) ==
  LET u == [call[p] EXCEPT !.seen = call[p].seen \cup call[p].batch]
  IN  /\ At(p, "record")
      /\ rows' = Stamped(u.batch, TRUE)
      /\ Become(p, IF u.mode = "incremental" THEN [u EXCEPT !.pc = "list"] ELSE NextBatch(u))
      /\ UNCHANGED <<awaits, store, pending, time, calls, failures>>

(* Mutant: rows as old as the call are stale. *)
MutStaleNow(u) ==
  {c \in Known :
     CASE u.mode = "delete" -> c \in u.batch
       [] u.mode = "full" -> rows[c].at <= u.start
       [] OTHER -> /\ rows[c].at <= u.start
                   /\ rows[c].grouped
                   /\ \E d \in u.batch : Source[c] = Source[d]}

(* Mutant: an incremental clean-up is about all sources. *)
MutStaleAll(u) ==
  {c \in Known : IF u.mode = "delete" THEN c \in u.batch ELSE rows[c].at < u.start}

(* The rows a clean-up is about: those older than the call, of the sources *)
(* of the batch when it is incremental.                                    *)
Stale(u) ==
  {c \in Known :
     CASE u.mode = "delete" -> c \in u.batch
       [] u.mode = "full" -> rows[c].at < u.start
       [] OTHER -> /\ rows[c].at < u.start
                   /\ rows[c].grouped
                   /\ \E d \in u.batch : Source[c] = Source[d]}

(* recordManager.listKeys; a full clean-up goes on until it lists none. *)
ListKeys(p) ==
  LET u == call[p]
  IN  /\ At(p, "list")
      /\ \E keys \in SUBSET Stale(u) :
           /\ IF u.mode = "full" /\ Cardinality(Stale(u)) > CleanupBatchSize
              THEN Cardinality(keys) = CleanupBatchSize
              ELSE keys = Stale(u)
           /\ Become(p, [u EXCEPT !.keys = keys,
                                  !.pc = IF u.mode = "full" /\ keys = {} THEN "done" ELSE "vectors"])
      /\ UNCHANGED <<awaits, store, rows, pending, time, calls, failures>>

(* vectorStore.delete; the Postgres driver does not wait for it. *)
DeleteVectors(p) ==
  LET u == call[p]
  IN  /\ At(p, "vectors")
      /\ IF awaits
         THEN store' = store \ u.keys /\ UNCHANGED pending
         ELSE pending' = pending \cup u.keys /\ UNCHANGED store
      /\ Become(p, [u EXCEPT !.pc = "keys"])
      /\ UNCHANGED <<awaits, rows, time, calls, failures>>

(* Mutant: a full clean-up ends after its first batch. *)
MutDeleteOnce(p) ==
  LET u == [call[p] EXCEPT !.keys = {}]
  IN  /\ At(p, "keys")
      /\ rows' = [c \in Chunks |-> IF c \in call[p].keys THEN NoRow ELSE rows[c]]
      /\ Become(p, IF u.mode \in {"full", "delete"} THEN [u EXCEPT !.pc = "done"] ELSE NextBatch(u))
      /\ UNCHANGED <<awaits, store, pending, time, calls, failures>>

(* Mutant: the keys stay in the table. *)
MutKeepKeys(p) ==
  LET u == [call[p] EXCEPT !.keys = {}]
  IN  /\ At(p, "keys")
      /\ rows' = rows
      /\ Become(p, CASE u.mode = "full" -> [u EXCEPT !.pc = "list"]
                     [] u.mode = "delete" -> [u EXCEPT !.pc = "done"]
                     [] OTHER -> NextBatch(u))
      /\ UNCHANGED <<awaits, store, pending, time, calls, failures>>

(* recordManager.deleteKeys *)
DeleteKeys(p) ==
  LET u == [call[p] EXCEPT !.keys = {}]
  IN  /\ At(p, "keys")
      /\ rows' = [c \in Chunks |-> IF c \in call[p].keys THEN NoRow ELSE rows[c]]
      /\ Become(p, CASE u.mode = "full" -> [u EXCEPT !.pc = "list"]
                     [] u.mode = "delete" -> [u EXCEPT !.pc = "done"]
                     [] OTHER -> NextBatch(u))
      /\ UNCHANGED <<awaits, store, pending, time, calls, failures>>

(* The keys are counted and the result is returned. *)
Return(p) ==
  /\ At(p, "done")
  /\ Become(p, NoCall)
  /\ UNCHANGED <<awaits, store, rows, pending, time, calls, failures>>

Step(p) ==
  \/ Exists(p) \/ Touch(p) \/ AddDocuments(p) \/ Record(p)
  \/ ListKeys(p) \/ DeleteVectors(p) \/ DeleteKeys(p) \/ Return(p)

(* An await throws, or the process dies.  Rows are written one by one and  *)
(* vectors in parts, so an update or an insertion that throws may have     *)
(* written some of them.                                                   *)
Fail(p) ==
  LET u == call[p]
  IN  /\ ~ At(p, "idle")
      /\ failures < MaxFailures
      /\ failures' = failures + 1
      /\ \E some \in SUBSET (CASE u.pc = "touch" -> u.existing
                               [] u.pc = "record" -> u.batch
                               [] OTHER -> {}) :
           rows' = Stamped(some, u.pc = "record")
      /\ \E some \in SUBSET (IF u.pc = "add" THEN u.batch \ u.existing ELSE {}) :
           store' = store \cup some
      /\ Become(p, NoCall)
      /\ UNCHANGED <<awaits, pending, time, calls>>

(* A deletion nobody waited for is carried out, or fails unnoticed. *)
LandDelete(c) ==
  /\ c \in pending
  /\ store' = store \ {c}
  /\ pending' = pending \ {c}
  /\ UNCHANGED <<awaits, rows, time, call, calls, failures>>

LoseDelete(c) ==
  /\ c \in pending
  /\ failures < MaxFailures
  /\ failures' = failures + 1
  /\ pending' = pending \ {c}
  /\ UNCHANGED <<awaits, store, rows, time, call, calls>>

Tick ==
  /\ time < MaxTime
  /\ time' = time + 1
  /\ UNCHANGED <<awaits, store, rows, pending, call, calls, failures>>

Next ==
  \/ \E p \in Calls :
       \/ \E mode \in Modes, docs \in Loads : Begin(p, mode, docs)
       \/ \E target \in Targets : BeginDelete(p, target)
       \/ Step(p)
       \/ Fail(p)
  \/ \E c \in Chunks : LandDelete(c) \/ LoseDelete(c)
  \/ Tick

Spec == Init /\ [][Next]_vars

(* The steps of a call are awaits, which are answered or throw. *)
FairSpec ==
  /\ Spec
  /\ \A p \in Calls : WF_vars(Step(p))
  /\ \A c \in Chunks : WF_vars(LandDelete(c))

---------------------------------------------------------------------------
(***************************************************************************)
(* Properties.                                                             *)
(***************************************************************************)
TypeOK ==
  /\ awaits \in BOOLEAN
  /\ store \subseteq Chunks
  /\ rows \in [Chunks -> Row \cup {NoRow}]
  /\ pending \subseteq Chunks
  /\ time \in Nat /\ calls \in Nat /\ failures \in Nat
  /\ call \in [Calls ->
       [pc : {"idle", "exists", "touch", "add", "record", "list", "vectors", "keys", "done"},
        mode : Modes \cup {"none", "delete"}, start : Nat,
        docs : Seq(Chunks), todo : Seq(Chunks),
        batch : SUBSET Chunks, existing : SUBSET Chunks, keys : SUBSET Chunks,
        seen : SUBSET Chunks]]

Resting == pending = {} /\ \A p \in Calls : At(p, "idle")

(* "Indexing functionality uses a manager to keep track of which documents *)
(* are in the vector store" (indexing.ts): as long as no call failed, the  *)
(* table lists exactly the chunks that have a vector whenever no call is   *)
(* in progress.  A chunk that is listed and has none is never embedded     *)
(* again.                                                                  *)
TableTellsVectors == Resting /\ failures = 0 => store = Known

(* The same for vector stores that await their deletions. *)
RecordedIsStored == awaits => TableTellsVectors

(* "Full: Delete all documents that haven to been returned by the loader": *)
(* when a call with full clean-up completes, none failed before and the    *)
(* deletions are awaited, the vector store holds the chunks it was given   *)
(* and no other, except those stamped in the very tick in which it began.  *)
FullIsExact ==
  \A p \in Calls :
    At(p, "done") /\ call[p].mode = "full" /\ awaits /\ failures = 0 =>
      /\ Elements(call[p].docs) \subseteq store
      /\ \A c \in store \ Elements(call[p].docs) : rows[c].at = call[p].start

(* A call never cleans up what it has indexed itself, whatever other calls *)
(* and failures there are: the chunks it went through carry a stamp that   *)
(* is no older than its start.                                             *)
OwnWorkStays ==
  \A p \in Calls : call[p].mode # "delete" => call[p].keys \cap call[p].seen = {}

(* Every call ends: the loop of the full clean-up comes to an end. *)
CallEnds == \A p \in Calls : ~ At(p, "idle") ~> At(p, "idle")
===========================================================================
