------------------------- MODULE IndexingAuditProofs -------------------------
(***************************************************************************)
(* KeepsContract and RetryHeals, for all chunks, sources, batch sizes,     *)
(* clocks and bounds: a call that is alone, seen from outside, is one step *)
(* of IndexContract, and making it again repairs what it left when it      *)
(* failed.                                                                 *)
(***************************************************************************)
EXTENDS IndexingAudit, VectorIndexingProofs

(***************************************************************************)
(* The inductive invariant compares the two stores, half-way through a     *)
(* call, with what they were when it began.                                *)
(***************************************************************************)

(* What the call may have cleaned up so far. *)
CleanUp(u) ==
  CASE u.mode = "delete" -> u.batch
    [] u.mode = "full" -> Chunks \ Elements(u.docs)
    [] u.mode = "incremental" -> {c \in Chunks : \E d \in u.seen : Source[c] = Source[d]}
    [] OTHER -> {}

(* The chunks the call has stamped already. *)
StampedBy(u) == u.seen \cup (IF u.pc \in {"add", "record"} THEN u.existing ELSE {})

(* A row that has not been stamped is as old as it was. *)
AsOld(c, u) ==
  IF u.mode = "delete" THEN rows[c].at = time => c \in before.recent
  ELSE c \in before.recent <=> rows[c].at >= u.start

(* What a chunk may be half-way through a call: as it was, cleaned up,     *)
(* indexed, with a vector but no row yet, or with a row but its vector     *)
(* deleted.                                                                *)
Untouched(c, u) ==
  /\ c \in Known <=> c \in before.known
  /\ c \in store <=> c \in before.vectors
  /\ c \in Known => AsOld(c, u)

Dropped(c, u) ==
  /\ c \in before.known /\ c \notin Known /\ c \notin store /\ c \in CleanUp(u)
  /\ u.mode # "delete" => c \notin before.recent

Indexed(c, u) ==
  /\ c \in Known /\ rows[c].at >= u.start
  /\ (c \in before.vectors \/ c \notin before.known) => c \in store
  /\ c \in store /\ c \in before.known => c \in before.vectors \/ u.mode = "incremental"

Added(c, u) == c \notin Known /\ c \in store /\ (c \in before.known => u.mode = "incremental")

Gone(c, u) == c \in Known /\ c \in before.known /\ c \notin store /\ AsOld(c, u)

Stage(c, u) ==
  /\ c \in StampedBy(u) => Indexed(c, u)
  /\ u.pc = "record" /\ c \in u.batch \ u.existing => Added(c, u)
  /\ c \in u.keys =>
       /\ c \in Known /\ c \notin u.seen /\ c \in CleanUp(u)
       /\ u.mode # "delete" => rows[c].at < u.start
  /\ u.pc = "keys" /\ c \in u.keys => Gone(c, u)
  /\ \/ c \in StampedBy(u)
     \/ u.pc = "record" /\ c \in u.batch
     \/ u.pc = "keys" /\ c \in u.keys
     \/ Untouched(c, u) \/ Dropped(c, u)

(* What is left is not for the call to clean up.  Incremental clean-up has *)
(* been through the sources of the batches recorded, except the last while *)
(* it is being listed.                                                     *)
Through(u) == u.seen \ (IF u.pc = "list" THEN u.batch ELSE {})

Clean(u) ==
  /\ u.mode = "incremental" =>
       \A c \in Known \ (u.seen \cup u.keys) :
          (\E d \in Through(u) : Source[c] = Source[d]) => c \in before.recent
  /\ u.mode = "full" /\ u.pc = "done" => Known \ u.seen \subseteq before.recent
  /\ u.mode = "delete" /\ u.pc \in {"vectors", "keys", "done"} => Known \cap u.batch \subseteq u.keys

(* How far the call is with its documents. *)
Cleaning == {"list", "vectors", "keys"}

Progress(u) ==
  /\ u.mode # "delete" =>
      /\ Elements(u.docs) = u.seen \cup u.batch \cup Elements(u.todo)
      /\ u.pc \in Cleaning \cup {"done"} => u.batch \subseteq u.seen
      /\ u.pc = "done" => Elements(u.todo) = {}
      /\ u.mode = "full" /\ u.pc \in Cleaning => u.todo = << >>
  /\ u.mode = "delete" => u.seen = {} /\ u.pc \in Cleaning \cup {"done"}
  /\ u.pc \in Cleaning => u.mode # "none"
  /\ u.pc \in {"touch", "add", "record"} => u.existing = u.batch \cap Known

(* Every row that is there when no update is under way has a group id. *)
Grouped == \A c \in Known : rows[c].grouped

BeforeType ==
  before.vectors \subseteq Chunks /\ before.known \subseteq Chunks /\ before.recent \subseteq before.known

Watched(p) ==
  awaits =>
    /\ BeforeType /\ pending = {}
    /\ At(p, "idle") => before.vectors = store /\ before.known = Known /\ before.recent = Recent
    /\ ~ At(p, "idle") => (\A c \in Chunks : Stage(c, call[p])) /\ Clean(call[p])

Base(p) == Own /\ RowsPast /\ Grouped /\ Progress(call[p])

(* What the call is for does not change while it is in progress. *)
Same(u, v) == u.mode = v.mode /\ u.start = v.start /\ u.docs = v.docs

(* It goes on with what it holds, but for its place and what is existing. *)
Holds(u, v) ==
  Same(u, v) /\ u.seen = v.seen /\ u.batch = v.batch /\ u.todo = v.todo /\ u.keys = v.keys

(* It takes the next batch, or has been through them. *)
Takes(u, v) ==
  /\ u.pc \in {"exists", "list", "done"}
  /\ u.pc = "list" => v.mode = "full"
  /\ u.pc = "done" => v.mode # "full"
  /\ u.pc # "exists" => u.batch = {} /\ u.todo = << >>
  /\ Elements(v.todo) = u.batch \cup Elements(u.todo)

(* The batch is what comes first of a sequence s, the rest is left. *)
BatchLen(s) == IF Len(s) < BatchSize THEN Len(s) ELSE BatchSize

Cuts(u, s) ==
  /\ u.batch = {s[i] : i \in 1..BatchLen(s)}
  /\ u.todo = SubSeq(s, BatchLen(s) + 1, Len(s))

LEMMA BatchTaken ==
  ASSUME NEW u \in CallType
  PROVE  LET n == NextBatch(u)
         IN  Takes(n, u) /\ Cuts(n, u.todo) /\ Same(n, u) /\ n.seen = u.seen /\ n.keys = u.keys
<1>1. NextBatch(u).pc # "exists" => NextBatch(u).batch = {} /\ NextBatch(u).todo = << >>
  BY NextBatchType, NoBatchLeft
<1>2. Cuts(NextBatch(u), u.todo)
  <2>1. CASE u.todo # << >>
    <3> DEFINE batch == {u.todo[i] : i \in 1..BatchLen(u.todo)}
               rest == SubSeq(u.todo, BatchLen(u.todo) + 1, Len(u.todo))
    <3>1. NextBatch(u) = [u EXCEPT !.pc = "exists", !.batch = batch, !.todo = rest]
      BY <2>1 DEF NextBatch, BatchLen
    <3> HIDE DEF batch, rest
    <3>2. NextBatch(u).batch = batch /\ NextBatch(u).todo = rest  BY <3>1 DEF CallType
    <3> QED  BY <3>2 DEF Cuts, batch, rest
  <2>2. CASE u.todo = << >>
    <3>1. NextBatch(u).batch = {} /\ NextBatch(u).todo = << >>  BY <2>2, NoBatchLeft
    <3>2. Len(u.todo) = 0 /\ BatchLen(u.todo) = 0  BY <2>2, IndexingAssumption DEF BatchLen
    <3>3. {u.todo[i] : i \in 1..0} = {}  OBVIOUS
    <3>4. SubSeq(u.todo, 1, 0) = << >>  BY <2>2
    <3> QED  BY <3>1, <3>2, <3>3, <3>4 DEF Cuts
  <2> QED  BY <2>1, <2>2
<1> QED  BY <1>1, <1>2, NextBatchType DEF Takes, Same

(***************************************************************************)
(* Each step of the call, field by field.                                  *)
(***************************************************************************)
LEMMA BecomeIs ==
  ASSUME TypeOK, NEW p \in Calls, NEW u, Become(p, u)
  PROVE  call'[p] = u /\ call[p] \in CallType
BY DEF TypeOK, CallType, Become

LEMMA ExistsFields ==
  ASSUME TypeOK, NEW p \in Calls, Exists(p)
  PROVE  /\ Holds(call'[p], call[p]) /\ call'[p].existing = call[p].batch \cap Known
         /\ call'[p].pc = IF call[p].batch \cap Known # {} THEN "touch" ELSE "add"
<1> DEFINE v == call[p]
<1>1. /\ call'[p] = [v EXCEPT !.existing = v.batch \cap Known,
                              !.pc = IF v.batch \cap Known # {} THEN "touch" ELSE "add"]
      /\ v \in CallType
  BY BecomeIs DEF Exists
<1> HIDE DEF v
<1>2. /\ Holds(call'[p], v) /\ call'[p].existing = v.batch \cap Known
      /\ call'[p].pc = IF v.batch \cap Known # {} THEN "touch" ELSE "add"
  BY <1>1 DEF CallType, Holds, Same
<1> QED  BY <1>2 DEF v

LEMMA TouchFields ==
  ASSUME TypeOK, NEW p \in Calls, Touch(p)
  PROVE  /\ Holds(call'[p], call[p]) /\ call'[p].existing = call[p].existing
         /\ call'[p].pc = IF call[p].existing = call[p].batch THEN "record" ELSE "add"
<1> DEFINE v == call[p]
<1>1. /\ call'[p] = [v EXCEPT !.pc = IF v.existing = v.batch THEN "record" ELSE "add"]
      /\ v \in CallType
  BY BecomeIs DEF Touch
<1> HIDE DEF v
<1>2. /\ Holds(call'[p], v) /\ call'[p].existing = v.existing
      /\ call'[p].pc = IF v.existing = v.batch THEN "record" ELSE "add"
  BY <1>1 DEF CallType, Holds, Same
<1> QED  BY <1>2 DEF v

LEMMA AddFields ==
  ASSUME TypeOK, NEW p \in Calls, AddDocuments(p)
  PROVE  /\ Holds(call'[p], call[p]) /\ call'[p].existing = call[p].existing
         /\ call'[p].pc = "record"
<1> DEFINE v == call[p]
<1>1. call'[p] = [v EXCEPT !.pc = "record"] /\ v \in CallType
  BY BecomeIs DEF AddDocuments
<1> HIDE DEF v
<1>2. Holds(call'[p], v) /\ call'[p].existing = v.existing /\ call'[p].pc = "record"
  BY <1>1 DEF CallType, Holds, Same
<1> QED  BY <1>2 DEF v

LEMMA RecordFields ==
  ASSUME TypeOK, NEW p \in Calls, Record(p)
  PROVE  /\ Same(call'[p], call[p]) /\ call'[p].seen = call[p].seen \cup call[p].batch
         /\ call'[p].keys = call[p].keys
         /\ IF call[p].mode = "incremental"
            THEN call'[p].pc = "list" /\ call'[p].batch = call[p].batch /\ call'[p].todo = call[p].todo
            ELSE Takes(call'[p], call[p]) /\ Cuts(call'[p], call[p].todo)
<1> DEFINE v == call[p]
           u == [v EXCEPT !.seen = v.seen \cup v.batch]
<1>1. /\ call'[p] = IF u.mode = "incremental" THEN [u EXCEPT !.pc = "list"] ELSE NextBatch(u)
      /\ v \in CallType
  BY BecomeIs DEF Record
<1>2. /\ u \in CallType /\ Same(u, v) /\ u.seen = v.seen \cup v.batch
      /\ u.keys = v.keys /\ u.batch = v.batch /\ u.todo = v.todo
  <2> HIDE DEF v
  <2> QED  BY <1>1 DEF CallType, Same
<1> HIDE DEF u, v
<1>3. CASE v.mode = "incremental"
  <2>1. call'[p] = [u EXCEPT !.pc = "list"]  BY <1>1, <1>2, <1>3 DEF Same
  <2>2. /\ Same(call'[p], u) /\ call'[p].seen = u.seen /\ call'[p].keys = u.keys
        /\ call'[p].pc = "list" /\ call'[p].batch = u.batch /\ call'[p].todo = u.todo
    BY <1>2, <2>1 DEF CallType, Same
  <2> QED  BY <1>2, <1>3, <2>2 DEF v, Same
<1>4. CASE v.mode # "incremental"
  <2>1. call'[p] = NextBatch(u)  BY <1>1, <1>2, <1>4 DEF Same
  <2>2. /\ Takes(call'[p], u) /\ Same(call'[p], u) /\ Cuts(call'[p], v.todo)
        /\ call'[p].seen = u.seen /\ call'[p].keys = u.keys
    BY <1>2, <2>1, BatchTaken
  <2>3. Takes(call'[p], v) /\ Same(call'[p], v)
    BY <1>2, <2>2 DEF Takes, Same
  <2> QED  BY <1>2, <1>4, <2>2, <2>3 DEF v
<1> QED  BY <1>3, <1>4

LEMMA ListFields ==
  ASSUME TypeOK, NEW p \in Calls, ListKeys(p)
  PROVE  /\ Same(call'[p], call[p]) /\ call'[p].seen = call[p].seen
         /\ call'[p].batch = call[p].batch /\ call'[p].todo = call[p].todo
         /\ call'[p].keys \subseteq Stale(call[p])
         /\ call[p].mode # "full" \/ call'[p].keys = {} => call'[p].keys = Stale(call[p])
         /\ call'[p].pc = IF call[p].mode = "full" /\ call'[p].keys = {} THEN "done" ELSE "vectors"
<1> DEFINE v == call[p]
<1>1. PICK keys \in SUBSET Stale(v) :
        /\ IF v.mode = "full" /\ Cardinality(Stale(v)) > CleanupBatchSize
           THEN Cardinality(keys) = CleanupBatchSize
           ELSE keys = Stale(v)
        /\ Become(p, [v EXCEPT !.keys = keys,
                               !.pc = IF v.mode = "full" /\ keys = {} THEN "done" ELSE "vectors"])
  BY DEF ListKeys
<1>2. /\ call'[p] = [v EXCEPT !.keys = keys,
                              !.pc = IF v.mode = "full" /\ keys = {} THEN "done" ELSE "vectors"]
      /\ v \in CallType
  BY <1>1, BecomeIs
<1>3. keys = {} => Cardinality(keys) # CleanupBatchSize  BY FS_EmptySet, IndexingAssumption
<1> HIDE DEF v
<1>4. v.mode # "full" \/ keys = {} => keys = Stale(v)  BY <1>1, <1>3
<1>5. /\ Same(call'[p], v) /\ call'[p].seen = v.seen /\ call'[p].keys = keys
      /\ call'[p].batch = v.batch /\ call'[p].todo = v.todo
      /\ call'[p].pc = IF v.mode = "full" /\ keys = {} THEN "done" ELSE "vectors"
  BY <1>2 DEF CallType, Same
<1> QED  BY <1>4, <1>5 DEF v

LEMMA DeleteVectorsFields ==
  ASSUME TypeOK, NEW p \in Calls, DeleteVectors(p)
  PROVE  Holds(call'[p], call[p]) /\ call'[p].pc = "keys"
<1> DEFINE v == call[p]
<1>1. call'[p] = [v EXCEPT !.pc = "keys"] /\ v \in CallType
  BY BecomeIs DEF DeleteVectors
<1> HIDE DEF v
<1>2. Holds(call'[p], v) /\ call'[p].pc = "keys"
  BY <1>1 DEF CallType, Holds, Same
<1> QED  BY <1>2 DEF v

LEMMA DeleteKeysFields ==
  ASSUME TypeOK, NEW p \in Calls, DeleteKeys(p)
  PROVE  /\ Same(call'[p], call[p]) /\ call'[p].seen = call[p].seen /\ call'[p].keys = {}
         /\ CASE call[p].mode = "full" ->
                   call'[p].pc = "list" /\ call'[p].batch = call[p].batch /\ call'[p].todo = call[p].todo
              [] call[p].mode = "delete" ->
                   call'[p].pc = "done" /\ call'[p].batch = call[p].batch /\ call'[p].todo = call[p].todo
              [] OTHER -> /\ Takes(call'[p], call[p]) /\ call'[p].pc # "list"
                          /\ Cuts(call'[p], call[p].todo)
<1> DEFINE v == call[p]
           u == [v EXCEPT !.keys = {}]
<1>1. /\ call'[p] = CASE u.mode = "full" -> [u EXCEPT !.pc = "list"]
                      [] u.mode = "delete" -> [u EXCEPT !.pc = "done"]
                      [] OTHER -> NextBatch(u)
      /\ v \in CallType
  BY BecomeIs DEF DeleteKeys
<1>2. /\ u \in CallType /\ Same(u, v) /\ u.seen = v.seen
      /\ u.keys = {} /\ u.batch = v.batch /\ u.todo = v.todo
  <2> HIDE DEF v
  <2> QED  BY <1>1 DEF CallType, Same
<1> HIDE DEF u, v
<1>3. CASE v.mode = "full"
  <2>1. call'[p] = [u EXCEPT !.pc = "list"]  BY <1>1, <1>2, <1>3 DEF Same
  <2>2. /\ Same(call'[p], u) /\ call'[p].seen = u.seen /\ call'[p].keys = u.keys
        /\ call'[p].pc = "list" /\ call'[p].batch = u.batch /\ call'[p].todo = u.todo
    BY <1>2, <2>1 DEF CallType, Same
  <2> QED  BY <1>2, <1>3, <2>2 DEF v, Same
<1>4. CASE v.mode = "delete"
  <2>1. call'[p] = [u EXCEPT !.pc = "done"]  BY <1>1, <1>2, <1>4 DEF Same
  <2>2. /\ Same(call'[p], u) /\ call'[p].seen = u.seen /\ call'[p].keys = u.keys
        /\ call'[p].pc = "done" /\ call'[p].batch = u.batch /\ call'[p].todo = u.todo
    BY <1>2, <2>1 DEF CallType, Same
  <2> QED  BY <1>2, <1>4, <2>2 DEF v, Same
<1>5. CASE v.mode \notin {"full", "delete"}
  <2>1. call'[p] = NextBatch(u)  BY <1>1, <1>2, <1>5 DEF Same
  <2>2. /\ Takes(call'[p], u) /\ Same(call'[p], u) /\ Cuts(call'[p], v.todo)
        /\ call'[p].seen = u.seen /\ call'[p].keys = u.keys
    BY <1>2, <2>1, BatchTaken
  <2>3. Takes(call'[p], v) /\ Same(call'[p], v) /\ call'[p].pc # "list"
    BY <1>2, <1>5, <2>2 DEF Takes, Same
  <2> QED  BY <1>2, <1>5, <2>2, <2>3 DEF v
<1> QED  BY <1>3, <1>4, <1>5

---------------------------------------------------------------------------
(***************************************************************************)
(* The part of the invariant that is about the call alone.                 *)
(***************************************************************************)
LEMMA KnownSame == rows' = rows => Known' = Known
BY DEF Known

LEMMA StampedGrouped ==
  ASSUME Grouped, NEW keys, NEW grouped, rows' = Stamped(keys, grouped),
         keys \subseteq Known \/ grouped
  PROVE  Grouped'
<1> SUFFICES ASSUME NEW c \in Chunks, rows'[c] # NoRow PROVE rows'[c].grouped
  BY DEF Grouped, Known
<1>1. rows'[c] = IF c \notin keys THEN rows[c]
                 ELSE [at |-> time, grouped |-> IF c \in Known THEN rows[c].grouped ELSE grouped]
  BY DEF Stamped
<1>2. c \in Known => rows[c].grouped  BY DEF Grouped
<1>3. CASE c \notin keys
  <2>1. rows'[c] = rows[c] /\ c \in Known  BY <1>1, <1>3 DEF Known
  <2> QED  BY <2>1, <1>2
<1>4. CASE c \in keys /\ c \in Known
  <2>1. rows'[c].grouped = rows[c].grouped  BY <1>1, <1>4
  <2> QED  BY <2>1, <1>2, <1>4
<1>5. CASE c \in keys /\ c \notin Known
  <2>1. rows'[c].grouped = grouped /\ grouped  BY <1>1, <1>5
  <2> QED  BY <2>1
<1> QED  BY <1>3, <1>4, <1>5

LEMMA GroupedStep ==
  ASSUME TypeOK, NEW p \in Calls, Grouped, Progress(call[p]), Step(p)
  PROVE  Grouped'
<1>1. CASE UNCHANGED rows
  BY <1>1 DEF Grouped, Known
<1>2. CASE Touch(p)
  <2>1. call[p].existing \subseteq Known  BY <1>2 DEF Touch, At, Progress
  <2> QED  BY <1>2, <2>1, StampedGrouped DEF Touch
<1>3. CASE Record(p)
  BY <1>3, StampedGrouped DEF Record
<1>4. CASE DeleteKeys(p)
  <2>1. \A c \in Known' : c \in Known /\ rows'[c] = rows[c]  BY <1>4 DEF DeleteKeys, Known
  <2> QED  BY <2>1 DEF Grouped
<1> QED
  BY <1>1, <1>2, <1>3, <1>4 DEF Step, Exists, AddDocuments, ListKeys, DeleteVectors, Return

LEMMA ProgressHolds ==
  ASSUME NEW p, Progress(call[p]), Holds(call'[p], call[p]),
         \/ call'[p].pc \in {"touch", "add", "record"} /\ call[p].mode # "delete"
         \/ call'[p].pc \in Cleaning /\ call[p].pc \in Cleaning,
         call'[p].pc \in {"touch", "add", "record"} => call'[p].existing = call[p].batch \cap Known'
  PROVE  Progress(call[p])'
<1>1. /\ call'[p].mode = call[p].mode /\ call'[p].docs = call[p].docs /\ call'[p].todo = call[p].todo
      /\ call'[p].seen = call[p].seen /\ call'[p].batch = call[p].batch
  BY DEF Holds, Same
<1>2. /\ Elements(call[p].docs)' = Elements(call[p].docs)
      /\ Elements(call[p].todo)' = Elements(call[p].todo)
  BY <1>1 DEF Elements
<1> QED  BY <1>1, <1>2 DEF Progress, Cleaning

LEMMA ProgressStep ==
  ASSUME TypeOK, NEW p \in Calls, Listed(p), Progress(call[p]), Step(p)
  PROVE  Progress(call[p])'
<1> DEFINE v == call[p]
<1>0. v \in CallType  BY DEF TypeOK, CallType
<1>1. CASE Exists(p)
  <2>1. Holds(call'[p], v) /\ call'[p].existing = v.batch \cap Known /\ call'[p].pc \in {"touch", "add"}
    BY <1>1, ExistsFields
  <2>2. Known' = Known /\ v.mode # "delete"
    BY <1>1, KnownSame DEF Exists, At, Progress, Cleaning
  <2> QED  BY <2>1, <2>2, ProgressHolds DEF Cleaning
<1>2. CASE Touch(p)
  <2>1. Holds(call'[p], v) /\ call'[p].existing = v.existing /\ call'[p].pc \in {"record", "add"}
    BY <1>2, TouchFields
  <2>2. Known' = Known \cup v.existing  BY <1>0, <1>2, StampedKnown DEF Touch, CallType
  <2>3. v.existing = v.batch \cap Known /\ v.mode # "delete"
    BY <1>2 DEF Touch, At, Progress, Cleaning
  <2>4. call'[p].existing = v.batch \cap Known'  BY <2>1, <2>2, <2>3
  <2> QED  BY <2>1, <2>3, <2>4, ProgressHolds DEF Cleaning
<1>3. CASE AddDocuments(p)
  <2>1. Holds(call'[p], v) /\ call'[p].existing = v.existing /\ call'[p].pc = "record"
    BY <1>3, AddFields
  <2>2. /\ Known' = Known /\ v.mode # "delete" /\ v.existing = v.batch \cap Known
    BY <1>3, KnownSame DEF AddDocuments, At, Progress, Cleaning
  <2> QED  BY <2>1, <2>2, ProgressHolds DEF Cleaning
<1>4. CASE Record(p)
  <2>1. v.pc = "record" /\ v.mode # "delete"  BY <1>4 DEF Record, At, Progress, Cleaning
  <2>2. /\ Same(call'[p], v) /\ call'[p].seen = v.seen \cup v.batch
        /\ IF v.mode = "incremental"
           THEN call'[p].pc = "list" /\ call'[p].batch = v.batch /\ call'[p].todo = v.todo
           ELSE Takes(call'[p], v)
    BY <1>4, RecordFields
  <2>3. Elements(v.docs) = v.seen \cup v.batch \cup Elements(v.todo)  BY <2>1 DEF Progress
  <2>4. CASE v.mode = "incremental"
    BY <2>1, <2>2, <2>3, <2>4 DEF Progress, Same, Cleaning, Elements
  <2>5. CASE v.mode # "incremental"
    <3>1. /\ Takes(call'[p], v) /\ call'[p].mode = v.mode /\ call'[p].docs = v.docs
      BY <2>2, <2>5 DEF Same
    <3>2. Elements(call'[p].docs) = call'[p].seen \cup call'[p].batch \cup Elements(call'[p].todo)
      BY <2>2, <2>3, <3>1 DEF Takes
    <3>3. Elements(<< >>) = {}  BY DEF Elements
    <3>4. /\ call'[p].pc \in {"exists", "list", "done"}
          /\ call'[p].pc = "list" => v.mode = "full"
          /\ call'[p].pc # "exists" => call'[p].batch = {} /\ call'[p].todo = << >>
      BY <3>1 DEF Takes
    <3>5. Elements(call[p].todo)' = Elements(call'[p].todo)
          /\ Elements(call[p].docs)' = Elements(call'[p].docs)
      BY DEF Elements
    <3> QED  BY <2>1, <3>1, <3>2, <3>3, <3>4, <3>5 DEF Progress, Cleaning
  <2> QED  BY <2>4, <2>5
<1>5. CASE ListKeys(p)
  <2>1. /\ Same(call'[p], v) /\ call'[p].seen = v.seen
        /\ call'[p].batch = v.batch /\ call'[p].todo = v.todo
        /\ call'[p].pc = IF v.mode = "full" /\ call'[p].keys = {} THEN "done" ELSE "vectors"
    BY <1>5, ListFields
  <2>2. v.pc = "list" /\ Elements(<< >>) = {}  BY <1>5 DEF ListKeys, At, Elements
  <2>3. /\ Elements(call[p].docs)' = Elements(v.docs) /\ Elements(call[p].todo)' = Elements(v.todo)
        /\ call'[p].mode = v.mode
    BY <2>1 DEF Same, Elements
  <2> QED  BY <2>1, <2>2, <2>3 DEF Progress, Cleaning
<1>6. CASE DeleteVectors(p)
  <2>1. Holds(call'[p], v) /\ call'[p].pc = "keys" /\ v.pc = "vectors"
    BY <1>6, DeleteVectorsFields DEF DeleteVectors, At
  <2> QED  BY <2>1, ProgressHolds DEF Cleaning
<1>7. CASE DeleteKeys(p)
  <2>1. v.pc = "keys"  BY <1>7 DEF DeleteKeys, At
  <2>2. /\ Same(call'[p], v) /\ call'[p].seen = v.seen
        /\ CASE v.mode = "full" ->
                  call'[p].pc = "list" /\ call'[p].batch = v.batch /\ call'[p].todo = v.todo
             [] v.mode = "delete" -> call'[p].pc = "done" /\ call'[p].batch = v.batch
             [] OTHER -> Takes(call'[p], v) /\ call'[p].pc # "list"
    BY <1>7, DeleteKeysFields
  <2>3. CASE v.mode \in {"full", "delete"}
    BY <2>1, <2>2, <2>3 DEF Progress, Same, Cleaning, Elements
  <2>4. CASE v.mode \notin {"full", "delete"}
    <3>1. /\ Takes(call'[p], v) /\ call'[p].pc # "list"
          /\ call'[p].mode = v.mode /\ call'[p].docs = v.docs
      BY <2>2, <2>4 DEF Same
    <3>2. Elements(v.docs) = v.seen \cup v.batch \cup Elements(v.todo) /\ v.batch \subseteq v.seen
      BY <2>1, <2>4 DEF Progress, Cleaning
    <3>3. Elements(call'[p].docs) = call'[p].seen \cup call'[p].batch \cup Elements(call'[p].todo)
      BY <2>2, <3>1, <3>2 DEF Takes
    <3>4. Elements(<< >>) = {}  BY DEF Elements
    <3>5. /\ call'[p].pc \in {"exists", "done"}
          /\ call'[p].pc # "exists" => call'[p].batch = {} /\ call'[p].todo = << >>
      BY <3>1 DEF Takes
    <3>6. Elements(call[p].todo)' = Elements(call'[p].todo)
          /\ Elements(call[p].docs)' = Elements(call'[p].docs)
      BY DEF Elements
    <3> QED  BY <2>4, <3>1, <3>3, <3>4, <3>5, <3>6 DEF Progress, Cleaning
  <2> QED  BY <2>3, <2>4
<1>8. CASE Return(p)
  <2>1. call'[p] = NoCall  BY <1>8, BecomeIs DEF Return
  <2>2. Elements(<< >>) = {}  BY DEF Elements
  <2> QED  BY <2>1, <2>2 DEF Progress, NoCall, Cleaning, Elements
<1> QED  BY <1>1, <1>2, <1>3, <1>4, <1>5, <1>6, <1>7, <1>8 DEF Step

---------------------------------------------------------------------------
(***************************************************************************)
(* The stage of each chunk.                                                *)
(***************************************************************************)

(* A step that leaves a chunk alone leaves it at its stage. *)
LEMMA Carried ==
  ASSUME NEW p, NEW c \in Chunks, rows'[c] = rows[c], c \in store <=> c \in store',
         time' = time, before' = before, Same(call'[p], call[p]),
         call[p].seen \subseteq call'[p].seen,
         call[p].mode = "delete" => call'[p].batch = call[p].batch
  PROVE  /\ c \in Known <=> c \in Known'
         /\ c \in CleanUp(call[p]) => c \in CleanUp(call[p])'
         /\ AsOld(c, call[p]) => AsOld(c, call[p])'
         /\ Untouched(c, call[p]) => Untouched(c, call[p])'
         /\ Dropped(c, call[p]) => Dropped(c, call[p])'
         /\ Indexed(c, call[p]) => Indexed(c, call[p])'
         /\ Added(c, call[p]) => Added(c, call[p])'
         /\ Gone(c, call[p]) => Gone(c, call[p])'
<1>1. c \in Known <=> c \in Known'  BY DEF Known
<1>2. c \in CleanUp(call[p]) => c \in CleanUp(call[p])'
  <2>1. call'[p].mode = call[p].mode /\ call'[p].docs = call[p].docs  BY DEF Same
  <2>2. CASE call[p].mode \in {"delete", "full"}  BY <2>1, <2>2 DEF CleanUp, Elements
  <2>3. CASE call[p].mode \notin {"delete", "full"}  BY <2>1, <2>3 DEF CleanUp
  <2> QED  BY <2>2, <2>3
<1>3. AsOld(c, call[p]) => AsOld(c, call[p])'  BY DEF AsOld, Same
<1>4. Untouched(c, call[p]) => Untouched(c, call[p])'  BY <1>1, <1>3 DEF Untouched
<1>5. Dropped(c, call[p]) => Dropped(c, call[p])'  BY <1>1, <1>2 DEF Dropped, Same
<1>6. Indexed(c, call[p]) => Indexed(c, call[p])'  BY <1>1 DEF Indexed, Same
<1>7. Added(c, call[p]) => Added(c, call[p])'  BY <1>1 DEF Added, Same
<1>8. Gone(c, call[p]) => Gone(c, call[p])'  BY <1>1, <1>3 DEF Gone
<1> QED  BY <1>1, <1>2, <1>3, <1>4, <1>5, <1>6, <1>7, <1>8

LEMMA StageExists ==
  ASSUME TypeOK, NEW p \in Calls, Exists(p), before' = before, Listed(p),
         NEW c \in Chunks, Stage(c, call[p])
  PROVE  Stage(c, call[p])'
<1> DEFINE v == call[p]
<1>1. /\ Holds(call'[p], v) /\ call'[p].existing = v.batch \cap Known
      /\ call'[p].pc = IF v.batch \cap Known # {} THEN "touch" ELSE "add"
  BY ExistsFields
<1>2. v.pc = "exists" /\ v.keys = {} /\ call'[p].keys = {}
  BY <1>1 DEF Exists, At, Listed, Holds
<1>3. rows' = rows /\ store' = store /\ time' = time  BY DEF Exists
<1>4. StampedBy(v) = v.seen /\ StampedBy(call[p])' = v.seen
  BY <1>1, <1>2 DEF StampedBy, Holds
<1>5. /\ Untouched(c, v) => Untouched(c, call[p])'
      /\ Dropped(c, v) => Dropped(c, call[p])'
      /\ Indexed(c, v) => Indexed(c, call[p])'
  BY <1>1, <1>3, Carried DEF Holds
<1> QED  BY <1>1, <1>2, <1>4, <1>5 DEF Stage

LEMMA StageTouch ==
  ASSUME TypeOK, NEW p \in Calls, Touch(p), before' = before, Listed(p), OwnOf(p),
         Progress(call[p]), NEW c \in Chunks, Stage(c, call[p])
  PROVE  Stage(c, call[p])'
<1> DEFINE v == call[p]
<1>1. /\ Holds(call'[p], v) /\ call'[p].existing = v.existing
      /\ call'[p].pc = IF v.existing = v.batch THEN "record" ELSE "add"
  BY TouchFields
<1>2. /\ v.pc = "touch" /\ v.keys = {} /\ call'[p].keys = {} /\ v.mode # "delete"
      /\ v.existing = v.batch \cap Known
  BY <1>1 DEF Touch, At, Listed, Holds, Progress, Cleaning
<1>3. rows' = Stamped(v.existing, FALSE) /\ store' = store /\ time' = time  BY DEF Touch
<1>4. StampedBy(v) = v.seen /\ StampedBy(call[p])' = v.seen \cup v.existing
  BY <1>1, <1>2 DEF StampedBy, Holds
<1>5. CASE c \notin v.existing
  <2>1. rows'[c] = rows[c]  BY <1>3, <1>5 DEF Stamped
  <2>2. /\ Untouched(c, v) => Untouched(c, call[p])'
        /\ Dropped(c, v) => Dropped(c, call[p])'
        /\ Indexed(c, v) => Indexed(c, call[p])'
    BY <1>1, <1>3, <2>1, Carried DEF Holds
  <2>3. call'[p].pc = "record" => call'[p].batch \ call'[p].existing = {} /\ c \notin call'[p].batch
    BY <1>1, <1>5 DEF Holds
  <2> QED  BY <1>1, <1>2, <1>4, <1>5, <2>2, <2>3 DEF Stage
<1>6. CASE c \in v.existing
  <2>1. c \in Known /\ (Indexed(c, v) \/ Untouched(c, v))
    BY <1>2, <1>4, <1>6 DEF Stage, Dropped
  <2>2. rows'[c].at = time /\ Known' = Known \cup v.existing
    <3>1. v.existing \subseteq Chunks  BY DEF TypeOK
    <3> QED  BY <1>3, <1>6, <3>1, StampedKnown DEF Stamped
  <2>3. rows'[c].at >= call'[p].start  BY <1>1, <1>2, <2>2 DEF OwnOf, Holds, Same, TypeOK
  <2>4. Indexed(c, call[p])'
    BY <1>1, <1>3, <1>6, <2>1, <2>2, <2>3 DEF Indexed, Untouched, Holds, Same
  <2> QED  BY <1>1, <1>2, <1>4, <1>6, <2>4 DEF Stage, Holds
<1> QED  BY <1>5, <1>6

LEMMA StageAdd ==
  ASSUME TypeOK, NEW p \in Calls, AddDocuments(p), before' = before, Listed(p),
         Progress(call[p]), NEW c \in Chunks, Stage(c, call[p])
  PROVE  Stage(c, call[p])'
<1> DEFINE v == call[p]
<1>1. Holds(call'[p], v) /\ call'[p].existing = v.existing /\ call'[p].pc = "record"
  BY AddFields
<1>2. /\ v.pc = "add" /\ v.keys = {} /\ call'[p].keys = {} /\ v.mode # "delete"
      /\ v.existing = v.batch \cap Known /\ v.batch \subseteq Elements(v.docs)
  BY <1>1 DEF AddDocuments, At, Listed, Holds, Progress, Cleaning
<1>3. store' = store \cup (v.batch \ v.existing) /\ rows' = rows /\ time' = time
  BY DEF AddDocuments
<1>4. StampedBy(v) = v.seen \cup v.existing /\ StampedBy(call[p])' = v.seen \cup v.existing
  BY <1>1, <1>2 DEF StampedBy, Holds
<1>5. CASE c \notin v.batch \ v.existing
  <2>1. /\ Untouched(c, v) => Untouched(c, call[p])'
        /\ Dropped(c, v) => Dropped(c, call[p])'
        /\ Indexed(c, v) => Indexed(c, call[p])'
    BY <1>1, <1>3, <1>5, Carried DEF Holds
  <2> QED  BY <1>1, <1>2, <1>4, <1>5, <2>1 DEF Stage, Holds
<1>6. CASE c \in v.batch \ v.existing
  <2>1. c \notin Known /\ c \notin StampedBy(v)
    BY <1>2, <1>6 DEF Stage, Indexed
  <2>2. Untouched(c, v) \/ Dropped(c, v)  BY <1>2, <2>1 DEF Stage
  <2>3. Dropped(c, v) => v.mode = "incremental"
    BY <1>2, <1>6 DEF Dropped, CleanUp
  <2>4. c \in before.known => v.mode = "incremental"  BY <2>1, <2>2, <2>3 DEF Untouched
  <2>5. Known' = Known  BY <1>3 DEF Known
  <2>6. Added(c, call[p])'  BY <1>1, <1>3, <1>6, <2>1, <2>4, <2>5 DEF Added, Holds, Same
  <2> QED  BY <1>1, <1>2, <1>4, <1>6, <2>1, <2>6 DEF Stage, Holds
<1> QED  BY <1>5, <1>6

LEMMA StageRecord ==
  ASSUME TypeOK, NEW p \in Calls, Record(p), before' = before, Listed(p), OwnOf(p),
         Progress(call[p]), NEW c \in Chunks, Stage(c, call[p])
  PROVE  Stage(c, call[p])'
<1> DEFINE v == call[p]
<1>1. /\ Same(call'[p], v) /\ call'[p].seen = v.seen \cup v.batch /\ call'[p].keys = v.keys
      /\ call'[p].pc \in {"exists", "list", "done"}
  BY RecordFields DEF Takes
<1>2. /\ v.pc = "record" /\ v.keys = {} /\ v.mode # "delete" /\ v.existing = v.batch \cap Known
  BY DEF Record, At, Listed, Progress, Cleaning
<1>3. rows' = Stamped(v.batch, TRUE) /\ store' = store /\ time' = time  BY DEF Record
<1>4. StampedBy(v) = v.seen \cup v.existing /\ StampedBy(call[p])' = v.seen \cup v.batch
  BY <1>1, <1>2 DEF StampedBy
<1>5. CASE c \notin v.batch
  <2>1. rows'[c] = rows[c]  BY <1>3, <1>5 DEF Stamped
  <2>2. /\ Untouched(c, v) => Untouched(c, call[p])'
        /\ Dropped(c, v) => Dropped(c, call[p])'
        /\ Indexed(c, v) => Indexed(c, call[p])'
    BY <1>1, <1>2, <1>3, <2>1, Carried
  <2> QED  BY <1>1, <1>2, <1>4, <1>5, <2>2 DEF Stage
<1>6. CASE c \in v.batch
  <2>1. Indexed(c, v) \/ Added(c, v)  BY <1>2, <1>4, <1>6 DEF Stage
  <2>2. rows'[c].at = time /\ Known' = Known \cup v.batch
    <3>1. v.batch \subseteq Chunks  BY DEF TypeOK
    <3> QED  BY <1>3, <1>6, <3>1, StampedKnown DEF Stamped
  <2>3. rows'[c].at >= call'[p].start  BY <1>1, <1>2, <2>2 DEF OwnOf, Same, TypeOK
  <2>4. Indexed(c, call[p])'
    BY <1>1, <1>3, <1>6, <2>1, <2>2, <2>3 DEF Indexed, Added, Same
  <2> QED  BY <1>1, <1>2, <1>4, <1>6, <2>4 DEF Stage
<1> QED  BY <1>5, <1>6

LEMMA StageList ==
  ASSUME TypeOK, NEW p \in Calls, ListKeys(p), before' = before, Listed(p), OwnOf(p)',
         Progress(call[p]), NEW c \in Chunks, Stage(c, call[p])
  PROVE  Stage(c, call[p])'
<1> DEFINE v == call[p]
<1>1. /\ Same(call'[p], v) /\ call'[p].seen = v.seen /\ call'[p].batch = v.batch
      /\ call'[p].keys \subseteq Stale(v) /\ call'[p].pc \in {"done", "vectors"}
  BY ListFields
<1>2. v.pc = "list" /\ v.keys = {}  BY DEF ListKeys, At, Listed
<1>3. rows' = rows /\ store' = store /\ time' = time /\ Known' = Known
  BY KnownSame DEF ListKeys
<1>4. StampedBy(v) = v.seen /\ StampedBy(call[p])' = v.seen
  BY <1>1, <1>2 DEF StampedBy
<1>5. /\ Untouched(c, v) => Untouched(c, call[p])'
      /\ Dropped(c, v) => Dropped(c, call[p])'
      /\ Indexed(c, v) => Indexed(c, call[p])'
      /\ c \in CleanUp(v) => c \in CleanUp(call[p])'
  BY <1>1, <1>3, Carried
<1>6. ASSUME c \in call'[p].keys
      PROVE  /\ c \in Known' /\ c \notin call'[p].seen /\ c \in CleanUp(call[p])'
             /\ call'[p].mode # "delete" => rows'[c].at < call'[p].start
  <2>1. c \in Stale(v) /\ c \in Known  BY <1>1, <1>6 DEF Stale
  <2>2. call'[p].mode = v.mode /\ call'[p].start = v.start  BY <1>1 DEF Same
  <2>3. v.mode # "none"  BY <1>2 DEF Progress, Cleaning
  <2>4. v.mode \in {"delete", "full", "incremental"}
    <3>1. v.mode \in Modes \cup {"none", "delete"}  BY DEF TypeOK
    <3> QED  BY <2>3, <3>1, IndexingAssumption
  <2>5. CASE v.mode = "delete"
    <3>1. v.seen = {}  BY <2>5 DEF Progress
    <3>2. c \in v.batch  BY <2>1, <2>5 DEF Stale
    <3>3. c \in CleanUp(v)  BY <2>5, <3>2 DEF CleanUp
    <3> QED  BY <1>1, <1>3, <1>5, <2>1, <2>2, <2>5, <3>1, <3>3
  <2>6. CASE v.mode = "full"
    <3>1. rows[c].at < v.start  BY <2>1, <2>6 DEF Stale
    <3>2. c \notin v.seen  BY <1>1, <1>6, <2>2, <2>6 DEF OwnOf
    <3>3. Elements(v.docs) = v.seen
      <4>1. v.todo = << >> /\ v.batch \subseteq v.seen
            /\ Elements(v.docs) = v.seen \cup v.batch \cup Elements(v.todo)
        BY <1>2, <2>6 DEF Progress, Cleaning
      <4>2. Elements(v.todo) = {}  BY <4>1 DEF Elements
      <4> QED  BY <4>1, <4>2
    <3>4. c \in CleanUp(v)  BY <2>6, <3>2, <3>3 DEF CleanUp
    <3> QED  BY <1>1, <1>3, <1>5, <2>1, <2>2, <3>1, <3>2, <3>4
  <2>7. CASE v.mode = "incremental"
    <3>1. rows[c].at < v.start /\ \E d \in v.batch : Source[c] = Source[d]
      BY <2>1, <2>7 DEF Stale
    <3>2. c \notin v.seen  BY <1>1, <1>6, <2>2, <2>7 DEF OwnOf
    <3>3. v.batch \subseteq v.seen  BY <1>2, <2>7 DEF Progress, Cleaning
    <3>4. c \in CleanUp(v)  BY <2>7, <3>1, <3>3 DEF CleanUp
    <3> QED  BY <1>1, <1>3, <1>5, <2>1, <2>2, <3>1, <3>2, <3>4
  <2> QED  BY <2>4, <2>5, <2>6, <2>7
<1> QED  BY <1>1, <1>2, <1>4, <1>5, <1>6 DEF Stage

LEMMA StageDeleteVectors ==
  ASSUME TypeOK, NEW p \in Calls, DeleteVectors(p), awaits, before' = before,
         NEW c \in Chunks, Stage(c, call[p])
  PROVE  Stage(c, call[p])'
<1> DEFINE v == call[p]
<1>1. Holds(call'[p], v) /\ call'[p].pc = "keys"  BY DeleteVectorsFields
<1>2. v.pc = "vectors"  BY DEF DeleteVectors, At
<1>3. store' = store \ v.keys /\ rows' = rows /\ time' = time /\ Known' = Known
  BY KnownSame DEF DeleteVectors
<1>4. StampedBy(v) = v.seen /\ StampedBy(call[p])' = v.seen
  BY <1>1, <1>2 DEF StampedBy, Holds
<1>5. CASE c \notin v.keys
  <2>1. /\ Untouched(c, v) => Untouched(c, call[p])'
        /\ Dropped(c, v) => Dropped(c, call[p])'
        /\ Indexed(c, v) => Indexed(c, call[p])'
    BY <1>1, <1>3, <1>5, Carried DEF Holds
  <2> QED  BY <1>1, <1>2, <1>4, <1>5, <2>1 DEF Stage, Holds
<1>6. CASE c \in v.keys
  <2>1. /\ c \in Known /\ c \notin v.seen /\ c \in CleanUp(v)
        /\ v.mode # "delete" => rows[c].at < v.start
    BY <1>6 DEF Stage
  <2>2. Untouched(c, v)  BY <1>2, <1>4, <2>1 DEF Stage, Dropped
  <2>3. c \in CleanUp(call[p])'
    BY <1>1, <2>1 DEF CleanUp, Holds, Same, Elements
  <2>4. Gone(c, call[p])'
    BY <1>1, <1>3, <1>6, <2>1, <2>2 DEF Gone, Untouched, AsOld, Holds, Same
  <2> QED  BY <1>1, <1>3, <1>4, <1>6, <2>1, <2>3, <2>4 DEF Stage, Holds, Same
<1> QED  BY <1>5, <1>6

LEMMA StageDeleteKeys ==
  ASSUME TypeOK, NEW p \in Calls, DeleteKeys(p), before' = before,
         NEW c \in Chunks, Stage(c, call[p])
  PROVE  Stage(c, call[p])'
<1> DEFINE v == call[p]
<1>1. /\ Same(call'[p], v) /\ call'[p].seen = v.seen /\ call'[p].keys = {}
      /\ v.mode = "delete" => call'[p].batch = v.batch
      /\ call'[p].pc \in {"list", "exists", "done"}
  BY DeleteKeysFields DEF Takes
<1>2. v.pc = "keys"  BY DEF DeleteKeys, At
<1>3. store' = store /\ time' = time /\ rows'[c] = IF c \in v.keys THEN NoRow ELSE rows[c]
  BY DEF DeleteKeys
<1>4. StampedBy(v) = v.seen /\ StampedBy(call[p])' = v.seen
  BY <1>1, <1>2 DEF StampedBy
<1>5. CASE c \notin v.keys
  <2>1. /\ Untouched(c, v) => Untouched(c, call[p])'
        /\ Dropped(c, v) => Dropped(c, call[p])'
        /\ Indexed(c, v) => Indexed(c, call[p])'
    BY <1>1, <1>3, <1>5, Carried
  <2> QED  BY <1>1, <1>2, <1>4, <1>5, <2>1 DEF Stage
<1>6. CASE c \in v.keys
  <2>1. /\ c \in Known /\ c \notin v.seen /\ c \in CleanUp(v) /\ Gone(c, v)
        /\ v.mode # "delete" => rows[c].at < v.start
    BY <1>2, <1>6 DEF Stage
  <2>2. c \in CleanUp(call[p])'
    BY <1>1, <2>1 DEF CleanUp, Same, Elements
  <2>3. v.mode # "delete" => c \notin before.recent
    <3>1. rows[c].at \in Nat /\ v.start \in Nat  BY <2>1 DEF TypeOK, Known, Row
    <3> QED  BY <2>1, <3>1 DEF Gone, AsOld
  <2>4. Dropped(c, call[p])'
    BY <1>1, <1>3, <1>6, <2>1, <2>2, <2>3 DEF Dropped, Gone, Same, Known
  <2> QED  BY <1>1, <1>4, <2>1, <2>4 DEF Stage
<1> QED  BY <1>5, <1>6

---------------------------------------------------------------------------
(***************************************************************************)
(* What is left of what a clean-up is about.                               *)
(***************************************************************************)
LEMMA CleanKept ==
  ASSUME NEW p, Clean(call[p]), before' = before, Same(call'[p], call[p]),
         Known' \subseteq Known, call[p].seen \subseteq call'[p].seen,
         Known' \cap call[p].keys \subseteq call'[p].keys,
         call[p].mode = "incremental" => Through(call[p])' \subseteq Through(call[p]),
         call'[p].pc = "done" /\ call[p].mode = "full" => call[p].pc = "done",
         call[p].mode = "delete" =>
           call'[p].batch = call[p].batch /\ call[p].pc \in {"vectors", "keys", "done"}
  PROVE  Clean(call[p])'
<1>1. call'[p].mode = call[p].mode  BY DEF Same
<1>2. CASE call[p].mode = "incremental"
  BY <1>1, <1>2 DEF Clean
<1>3. CASE call[p].mode = "full"
  BY <1>1, <1>3 DEF Clean
<1>4. CASE call[p].mode = "delete"
  BY <1>1, <1>4 DEF Clean
<1> QED  BY <1>1, <1>2, <1>3, <1>4 DEF Clean

LEMMA CleanList ==
  ASSUME TypeOK, NEW p \in Calls, ListKeys(p), before' = before, Listed(p),
         Progress(call[p]), Grouped, Clean(call[p]), \A c \in Chunks : Stage(c, call[p])
  PROVE  Clean(call[p])'
<1> DEFINE v == call[p]
<1>1. /\ Same(call'[p], v) /\ call'[p].seen = v.seen /\ call'[p].batch = v.batch
      /\ v.mode # "full" \/ call'[p].keys = {} => call'[p].keys = Stale(v)
      /\ call'[p].pc = IF v.mode = "full" /\ call'[p].keys = {} THEN "done" ELSE "vectors"
  BY ListFields
<1>2. v.pc = "list" /\ v.keys = {} /\ rows' = rows /\ Known' = Known /\ call'[p].mode = v.mode
  BY <1>1, KnownSame DEF ListKeys, At, Listed, Same
<1>3. ASSUME NEW c \in Known \ v.seen, v.mode # "delete", ~ (rows[c].at < v.start)
      PROVE  c \in before.recent
  <2>1. c \in Chunks /\ c \notin StampedBy(v)  BY <1>2 DEF Known, StampedBy
  <2>2. Untouched(c, v)  BY <1>2, <2>1 DEF Stage, Dropped
  <2>3. rows[c].at \in Nat /\ v.start \in Nat  BY DEF TypeOK, Known, Row
  <2> QED  BY <1>3, <2>2, <2>3 DEF Untouched, AsOld
<1>4. CASE v.mode = "incremental"
  <2> SUFFICES ASSUME NEW c \in Known \ (v.seen \cup call'[p].keys),
                      NEW d \in v.seen, Source[c] = Source[d]
               PROVE  c \in before.recent
    <3>1. Through(call[p])' = v.seen  BY <1>1, <1>4 DEF Through
    <3> QED  BY <1>1, <1>2, <1>4, <3>1 DEF Clean
  <2>1. CASE d \in v.batch
    <3>1. c \notin Stale(v)  BY <1>1, <1>4
    <3>2. rows[c].grouped  BY DEF Grouped
    <3>3. ~ (rows[c].at < v.start)  BY <1>4, <2>1, <3>1, <3>2 DEF Stale
    <3> QED  BY <1>3, <1>4, <3>3
  <2>2. CASE d \notin v.batch
    <3>1. d \in Through(v)  BY <2>2 DEF Through
    <3> QED  BY <1>2, <1>4, <3>1 DEF Clean
  <2> QED  BY <2>1, <2>2
<1>5. CASE v.mode = "full"
  <2>1. ASSUME call'[p].keys = {} PROVE Known \ v.seen \subseteq before.recent
    <3>1. Stale(v) = {}  BY <1>1, <2>1
    <3>2. \A c \in Known : ~ (rows[c].at < v.start)  BY <1>5, <3>1 DEF Stale
    <3> QED  BY <1>3, <1>5, <3>2
  <2> QED  BY <1>1, <1>2, <1>5, <2>1 DEF Clean
<1>6. CASE v.mode = "delete"
  <2>1. call'[p].keys = Known \cap v.batch  BY <1>1, <1>6 DEF Stale
  <2> QED  BY <1>1, <1>2, <1>6, <2>1 DEF Clean
<1> QED  BY <1>1, <1>2, <1>4, <1>5, <1>6 DEF Clean

LEMMA CleanRecord ==
  ASSUME TypeOK, NEW p \in Calls, Record(p), before' = before, Listed(p),
         Progress(call[p]), Clean(call[p])
  PROVE  Clean(call[p])'
<1> DEFINE v == call[p]
<1>1. /\ Same(call'[p], v) /\ call'[p].seen = v.seen \cup v.batch
      /\ IF v.mode = "incremental"
         THEN call'[p].pc = "list" /\ call'[p].batch = v.batch /\ call'[p].todo = v.todo
         ELSE Takes(call'[p], v)
  BY RecordFields
<1>2. /\ v.pc = "record" /\ v.keys = {} /\ v.mode # "delete" /\ call'[p].mode = v.mode
      /\ v.batch \subseteq Chunks
  BY <1>1 DEF Record, At, Listed, Progress, Cleaning, Same, TypeOK
<1>3. Known' = Known \cup v.batch
  <2>1. rows' = Stamped(v.batch, TRUE)
    <3>1. v \in CallType  BY DEF TypeOK, CallType
    <3> QED  BY <3>1 DEF Record, CallType
  <2> QED  BY <1>2, <2>1, StampedKnown
<1>4. CASE v.mode = "incremental"
  <2>1. Through(v) = v.seen /\ Through(call[p])' = v.seen \ v.batch
    BY <1>1, <1>2, <1>4 DEF Through
  <2> QED  BY <1>1, <1>2, <1>3, <1>4, <2>1 DEF Clean
<1>5. CASE v.mode # "incremental"
  <2>1. call'[p].pc = "done" => v.mode # "full"  BY <1>1, <1>5 DEF Takes
  <2> QED  BY <1>2, <1>5, <2>1 DEF Clean
<1> QED  BY <1>4, <1>5

LEMMA CleanStep ==
  ASSUME TypeOK, NEW p \in Calls, Step(p), ~ Return(p), before' = before, Listed(p),
         Progress(call[p]), Grouped, Clean(call[p]), \A c \in Chunks : Stage(c, call[p])
  PROVE  Clean(call[p])'
<1> DEFINE v == call[p]
<1>1. CASE Exists(p)
  <2>1. Holds(call'[p], v) /\ call'[p].pc \in {"touch", "add"}  BY <1>1, ExistsFields
  <2>2. Known' = Known /\ v.pc = "exists" /\ v.mode # "delete"
    BY <1>1, KnownSame DEF Exists, At, Progress, Cleaning
  <2>3. Through(call[p])' = Through(v)  BY <2>1, <2>2 DEF Through, Holds
  <2> QED  BY <2>1, <2>2, <2>3, CleanKept DEF Holds
<1>2. CASE Touch(p)
  <2>1. Holds(call'[p], v) /\ call'[p].pc \in {"record", "add"}  BY <1>2, TouchFields
  <2>2. v.existing = v.batch \cap Known /\ v.pc = "touch" /\ v.mode # "delete"
    BY <1>2 DEF Touch, At, Progress, Cleaning
  <2>3. Known' = Known
    <3>1. v.existing \subseteq Chunks  BY DEF TypeOK
    <3> QED  BY <1>2, <2>2, <3>1, StampedKnown DEF Touch
  <2>4. Through(call[p])' = Through(v)  BY <2>1, <2>2 DEF Through, Holds
  <2> QED  BY <2>1, <2>2, <2>3, <2>4, CleanKept DEF Holds
<1>3. CASE AddDocuments(p)
  <2>1. Holds(call'[p], v) /\ call'[p].pc = "record"  BY <1>3, AddFields
  <2>2. Known' = Known /\ v.pc = "add" /\ v.mode # "delete"
    BY <1>3, KnownSame DEF AddDocuments, At, Progress, Cleaning
  <2>3. Through(call[p])' = Through(v)  BY <2>1, <2>2 DEF Through, Holds
  <2> QED  BY <2>1, <2>2, <2>3, CleanKept DEF Holds
<1>4. CASE DeleteVectors(p)
  <2>1. Holds(call'[p], v) /\ call'[p].pc = "keys"  BY <1>4, DeleteVectorsFields
  <2>2. Known' = Known /\ v.pc = "vectors"  BY <1>4, KnownSame DEF DeleteVectors, At
  <2>3. Through(call[p])' = Through(v)  BY <2>1, <2>2 DEF Through, Holds
  <2> QED  BY <2>1, <2>2, <2>3, CleanKept DEF Holds
<1>5. CASE DeleteKeys(p)
  <2>1. /\ Same(call'[p], v) /\ call'[p].seen = v.seen /\ v.pc = "keys"
        /\ v.mode = "delete" => call'[p].batch = v.batch
        /\ v.mode = "full" => call'[p].pc = "list"
        /\ v.mode = "incremental" => call'[p].pc # "list"
    BY <1>5, DeleteKeysFields DEF DeleteKeys, At, Takes
  <2>2. Known' \subseteq Known /\ Known' \cap v.keys = {}
    BY <1>5 DEF DeleteKeys, Known
  <2>3. v.mode = "incremental" => Through(call[p])' = Through(v)  BY <2>1 DEF Through
  <2> QED  BY <2>1, <2>2, <2>3, CleanKept
<1> QED
  BY <1>1, <1>2, <1>3, <1>4, <1>5, CleanList, CleanRecord DEF Step

---------------------------------------------------------------------------
(***************************************************************************)
(* The invariant.                                                          *)
(***************************************************************************)
LEMMA BusyIs ==
  ASSUME NEW p, Calls = {p}
  PROVE  (Busy <=> ~ At(p, "idle")) /\ (Busy' <=> ~ At(p, "idle")')
BY DEF Busy, At

LEMMA AwaitsStays ==
  ASSUME NEW p, Calls = {p}, [Next]_vars
  PROVE  awaits' = awaits
BY DEF Next, Begin, BeginDelete, Step, Exists, Touch, AddDocuments, Record, ListKeys, DeleteVectors,
       DeleteKeys, Return, Fail, LandDelete, LoseDelete, Tick, vars

(* Steps that are not the call's, in particular of the clock. *)
LEMMA StageAside ==
  ASSUME TypeOK, NEW p \in Calls, RowsPast, UNCHANGED <<rows, store, call, before>>,
         time' = time \/ time' = time + 1, NEW c \in Chunks, Stage(c, call[p])
  PROVE  Stage(c, call[p])'
<1> DEFINE v == call[p]
<1>1. Known' = Known /\ CleanUp(v)' = CleanUp(v) /\ StampedBy(v)' = StampedBy(v)
  BY KnownSame DEF CleanUp, StampedBy, Elements
<1>2. c \in Known /\ AsOld(c, v) => AsOld(c, v)'
  <2> SUFFICES ASSUME c \in Known, AsOld(c, v), v.mode = "delete", rows[c].at = time'
               PROVE  c \in before.recent
    BY DEF AsOld
  <2>1. rows[c].at \in Nat /\ time \in Nat /\ rows[c].at <= time
    BY DEF TypeOK, Known, Row, RowsPast
  <2>2. rows[c].at = time  BY <2>1
  <2> QED  BY <2>2 DEF AsOld
<1>3. Untouched(c, v) => Untouched(c, v)'  BY <1>1, <1>2 DEF Untouched
<1>4. Dropped(c, v) => Dropped(c, v)'  BY <1>1 DEF Dropped
<1>5. Indexed(c, v) => Indexed(c, v)'  BY <1>1 DEF Indexed
<1>6. Added(c, v) => Added(c, v)'  BY <1>1 DEF Added
<1>7. Gone(c, v) => Gone(c, v)'  BY <1>1, <1>2 DEF Gone
<1> QED  BY <1>1, <1>3, <1>4, <1>5, <1>6, <1>7 DEF Stage

(* A call begins with the stores as they were. *)
LEMMA StageBegun ==
  ASSUME TypeOK, NEW p \in Calls, RowsPast, UNCHANGED <<rows, store, time, before>>,
         before.vectors = store, before.known = Known, before.recent = Recent,
         call'[p].seen = {}, call'[p].keys = {}, call'[p].pc \in {"exists", "list", "done"},
         call'[p].mode = "delete" \/ call'[p].start = time,
         NEW c \in Chunks
  PROVE  Stage(c, call[p])'
<1>1. Known' = Known /\ StampedBy(call[p])' = {}  BY KnownSame DEF StampedBy
<1>2. c \in Known => AsOld(c, call[p])'
  <2> SUFFICES ASSUME c \in Known PROVE AsOld(c, call[p])'
    OBVIOUS
  <2>1. rows[c].at \in Nat /\ time \in Nat /\ rows[c].at <= time
    BY DEF TypeOK, Known, Row, RowsPast
  <2>2. c \in before.recent <=> rows[c].at = time  BY DEF Recent
  <2> QED  BY <2>1, <2>2 DEF AsOld
<1>3. Untouched(c, call[p])'  BY <1>1, <1>2 DEF Untouched
<1> QED  BY <1>1, <1>3 DEF Stage

LEMMA StageStep ==
  ASSUME Own, Own', awaits, NEW p \in Calls, Progress(call[p]), before' = before,
         Step(p), ~ Return(p), NEW c \in Chunks, Stage(c, call[p])
  PROVE  Stage(c, call[p])'
<1>1. TypeOK /\ Listed(p) /\ OwnOf(p) /\ OwnOf(p)'  BY DEF Own
<1> QED
  BY <1>1, StageExists, StageTouch, StageAdd, StageRecord, StageList, StageDeleteVectors,
     StageDeleteKeys DEF Step

(* Only returning ends a call. *)
LEMMA StillBusy ==
  ASSUME TypeOK, NEW p \in Calls, Step(p), ~ Return(p)
  PROVE  ~ At(p, "idle") /\ call'[p].pc # "idle"
<1>1. ~ At(p, "idle")
  BY DEF Step, Exists, Touch, AddDocuments, Record, ListKeys, DeleteVectors, DeleteKeys, At
<1>2. Exists(p) \/ Touch(p) \/ AddDocuments(p) \/ Record(p) \/ ListKeys(p) \/ DeleteVectors(p)
      \/ DeleteKeys(p)
  BY DEF Step
<1>3. call'[p].pc # "idle"
  <2>1. Exists(p) => call'[p].pc # "idle"  BY ExistsFields
  <2>2. Touch(p) => call'[p].pc # "idle"  BY TouchFields
  <2>3. AddDocuments(p) => call'[p].pc # "idle"  BY AddFields
  <2>4. Record(p) => call'[p].pc # "idle"  BY RecordFields DEF Takes
  <2>5. ListKeys(p) => call'[p].pc # "idle"  BY ListFields
  <2>6. DeleteVectors(p) => call'[p].pc # "idle"  BY DeleteVectorsFields
  <2>7. DeleteKeys(p) => call'[p].pc # "idle"  BY DeleteKeysFields DEF Takes
  <2> QED  BY <1>2, <2>1, <2>2, <2>3, <2>4, <2>5, <2>6, <2>7
<1> QED  BY <1>1, <1>3

(* The call that begins, field by field. *)
LEMMA BeginFields ==
  ASSUME TypeOK, NEW p \in Calls, NEW mode \in Modes, NEW docs \in Loads, Begin(p, mode, docs)
  PROVE  /\ call'[p].mode = mode /\ call'[p].start = time /\ call'[p].docs = docs
         /\ call'[p].seen = {} /\ call'[p].keys = {}
         /\ call'[p].pc \in {"exists", "list", "done"}
         /\ call'[p].pc = "list" => mode = "full"
         /\ call'[p].pc = "done" => mode # "full"
         /\ call'[p].pc # "exists" => call'[p].batch = {} /\ call'[p].todo = << >>
         /\ Elements(docs) = call'[p].batch \cup Elements(call'[p].todo)
         /\ Cuts(call'[p], docs)
<1> DEFINE u == [NoCall EXCEPT !.mode = mode, !.start = time, !.docs = docs, !.todo = docs]
<1>1. docs \in Seq(Chunks) /\ time \in Nat  BY IndexingAssumption DEF TypeOK
<1>2. /\ u \in CallType /\ u.mode = mode /\ u.docs = docs /\ u.todo = docs
      /\ u.seen = {} /\ u.start = time /\ u.keys = {}
  BY <1>1, NoCallType DEF NoCall, CallType
<1>3. call'[p] = NextBatch(u)  BY BecomeIs DEF Begin
<1> HIDE DEF u
<1>4. /\ Takes(call'[p], u) /\ Same(call'[p], u) /\ Cuts(call'[p], docs)
      /\ call'[p].seen = u.seen /\ call'[p].keys = u.keys
  BY <1>2, <1>3, BatchTaken
<1> QED  BY <1>2, <1>4 DEF Takes, Same

LEMMA BeginDeleteFields ==
  ASSUME TypeOK, NEW p \in Calls, NEW target \in Targets, BeginDelete(p, target)
  PROVE  /\ call'[p].mode = "delete" /\ call'[p].pc = "list" /\ call'[p].batch = target
         /\ call'[p].seen = {} /\ call'[p].keys = {}
<1>1. call'[p] = [NoCall EXCEPT !.pc = "list", !.mode = "delete", !.batch = target]
  BY BecomeIs DEF BeginDelete
<1> QED  BY <1>1 DEF NoCall

LEMMA EndFields ==
  ASSUME TypeOK, NEW p \in Calls, Return(p) \/ Fail(p)
  PROVE  call'[p] = NoCall /\ call'[p].pc = "idle"
<1>1. call'[p] = NoCall  BY BecomeIs DEF Return, Fail
<1> QED  BY <1>1 DEF NoCall

LEMMA RowsPastNext ==
  ASSUME NEW p, Calls = {p}, Own, Own', RowsPast, [Next]_vars
  PROVE  RowsPast'
<1>0. TypeOK /\ TypeOK' /\ p \in Calls /\ time \in Nat /\ Listed(p) /\ OwnOf(p)
  BY DEF Own, TypeOK
<1>1. CASE Step(p)
  BY <1>0, <1>1, OwnStep, RowsStayPast
<1>2. CASE Fail(p)
  BY <1>0, <1>2, StampedMovesOn, RowsStayPast DEF Fail
<1>3. CASE UNCHANGED rows /\ (time' = time \/ time' = time + 1)
  <2>1. \A c \in Known : rows[c].at \in Nat  BY <1>0 DEF TypeOK, Known, Row
  <2> QED  BY <1>0, <1>3, <2>1 DEF RowsPast, Known
<1> QED
  BY <1>1, <1>2, <1>3 DEF Next, Begin, BeginDelete, LandDelete, LoseDelete, Tick, vars

LEMMA BaseNext ==
  ASSUME NEW p, Calls = {p}, Base(p), [Next]_vars
  PROVE  Base(p)'
<1>0. /\ Own' /\ TypeOK /\ TypeOK' /\ p \in Calls /\ Listed(p) /\ RowsPast /\ Grouped
      /\ Progress(call[p])
  BY OwnNext DEF Base, Own
<1>1. RowsPast'  BY <1>0, RowsPastNext DEF Base
<1>2. Grouped' /\ Progress(call[p])'
  <2>1. ASSUME NEW mode \in Modes, NEW docs \in Loads, Begin(p, mode, docs)
        PROVE  Grouped' /\ Progress(call[p])'
    <3>1. /\ call'[p].mode = mode /\ mode # "delete" /\ call'[p].docs = docs
          /\ call'[p].seen = {}
          /\ call'[p].pc \in {"exists", "list", "done"}
          /\ call'[p].pc = "list" => mode = "full"
          /\ call'[p].pc # "exists" => call'[p].batch = {} /\ call'[p].todo = << >>
          /\ Elements(docs) = call'[p].batch \cup Elements(call'[p].todo)
      BY <1>0, <2>1, BeginFields, IndexingAssumption
    <3>2. /\ Elements(call[p].todo)' = Elements(call'[p].todo)
          /\ Elements(call[p].docs)' = Elements(call'[p].docs) /\ Elements(<< >>) = {}
      BY DEF Elements
    <3>3. Progress(call[p])'  BY <3>1, <3>2 DEF Progress, Cleaning
    <3> QED  BY <1>0, <2>1, <3>3 DEF Begin, Grouped, Known
  <2>2. ASSUME NEW target \in Targets, BeginDelete(p, target)
        PROVE  Grouped' /\ Progress(call[p])'
    <3>1. call'[p].mode = "delete" /\ call'[p].pc = "list" /\ call'[p].seen = {}
      BY <1>0, <2>2, BeginDeleteFields
    <3> QED  BY <1>0, <2>2, <3>1 DEF BeginDelete, Grouped, Known, Progress, Cleaning
  <2>3. CASE Step(p)
    BY <1>0, <2>3, GroupedStep, ProgressStep
  <2>4. CASE Fail(p)
    <3>1. call'[p] = NoCall  BY <1>0, <2>4, BecomeIs DEF Fail
    <3>2. Progress(call[p])'  BY <3>1 DEF Progress, NoCall, Cleaning, Elements
    <3>3. PICK some \in SUBSET (CASE call[p].pc = "touch" -> call[p].existing
                                  [] call[p].pc = "record" -> call[p].batch
                                  [] OTHER -> {}) :
            rows' = Stamped(some, call[p].pc = "record")
      BY <2>4 DEF Fail
    <3>4. some \subseteq Known \/ call[p].pc = "record"  BY <1>0, <3>3 DEF Progress
    <3> QED  BY <1>0, <3>2, <3>3, <3>4, StampedGrouped
  <2>5. CASE UNCHANGED <<rows, call>>
    <3>1. Known' = Known /\ rows' = rows /\ call' = call  BY <2>5, KnownSame
    <3>2. \A c \in Known' : c \in Known /\ rows'[c] = rows[c]  BY <3>1
    <3>3. Progress(call[p])'
      <4>1. /\ Elements(call[p].docs)' = Elements(call[p].docs)
            /\ Elements(call[p].todo)' = Elements(call[p].todo)
        BY <3>1 DEF Elements
      <4> QED  BY <1>0, <3>1, <4>1 DEF Progress
    <3>4. Grouped'  BY <1>0, <3>2 DEF Grouped
    <3> QED  BY <3>3, <3>4
  <2> QED
    BY <2>1, <2>2, <2>3, <2>4, <2>5 DEF Next, LandDelete, LoseDelete, Tick, vars
<1> QED  BY <1>0, <1>1, <1>2 DEF Base

LEMMA WatchedNext ==
  ASSUME NEW p, Calls = {p}, Base(p), Base(p)', Watched(p), [AuditNext]_auditVars
  PROVE  Watched(p)'
<1>0. /\ Own /\ Own' /\ TypeOK /\ TypeOK' /\ p \in Calls /\ Listed(p) /\ RowsPast /\ Grouped
      /\ Progress(call[p]) /\ OwnOf(p)
  BY DEF Base, Own
<1>1. [Next]_vars  BY DEF AuditNext, auditVars, vars
<1>2. awaits' = awaits  BY <1>1, AwaitsStays
<1> SUFFICES ASSUME awaits
             PROVE  /\ BeforeType' /\ pending' = {}
                    /\ At(p, "idle")' =>
                         before.vectors' = store' /\ before.known' = Known' /\ before.recent' = Recent'
                    /\ ~ At(p, "idle")' => (\A c \in Chunks : Stage(c, call[p])') /\ Clean(call[p])'
  BY <1>2 DEF Watched
<1>3. /\ BeforeType /\ pending = {}
      /\ At(p, "idle") => before.vectors = store /\ before.known = Known /\ before.recent = Recent
      /\ ~ At(p, "idle") => (\A c \in Chunks : Stage(c, call[p])) /\ Clean(call[p])
  BY DEF Watched
<1>4. pending' = {}
  BY <1>1, <1>3 DEF Next, Begin, BeginDelete, Step, Exists, Touch, AddDocuments, Record, ListKeys,
       DeleteVectors, DeleteKeys, Return, Fail, LandDelete, LoseDelete, Tick, vars
<1>5. ASSUME before' = before PROVE BeforeType'
  BY <1>3, <1>5 DEF BeforeType
<1>6. CASE UNCHANGED auditVars
  <2>1. UNCHANGED <<rows, store, call, before, time, pending>>  BY <1>6 DEF auditVars, vars
  <2>2. Known' = Known /\ Recent' = Recent  BY <2>1 DEF Known, Recent
  <2>3. ~ At(p, "idle") => \A c \in Chunks : Stage(c, call[p])'
    BY <1>0, <1>3, <2>1, StageAside
  <2>4. Clean(call[p]) => Clean(call[p])'
    BY <2>1, <2>2 DEF Clean, Through
  <2> QED  BY <1>3, <1>4, <1>5, <2>1, <2>2, <2>3, <2>4 DEF At
<1> SUFFICES ASSUME AuditNext
             PROVE  /\ BeforeType'
                    /\ At(p, "idle")' =>
                         before.vectors' = store' /\ before.known' = Known' /\ before.recent' = Recent'
                    /\ ~ At(p, "idle")' => (\A c \in Chunks : Stage(c, call[p])') /\ Clean(call[p])'
  BY <1>4, <1>6
<1>7. CASE At(p, "idle")'
  <2>1. before' = [vectors |-> store', known |-> Known', recent |-> Recent',
                   last |-> IF Busy THEN Asked(failures' = failures) ELSE before.last]
    BY <1>7, BusyIs DEF AuditNext
  <2>2. before'.vectors = store' /\ before'.known = Known' /\ before'.recent = Recent'
    BY <2>1
  <2>3. BeforeType'  BY <1>0, <2>2 DEF BeforeType, TypeOK, Known, Recent
  <2> QED  BY <1>7, <2>2, <2>3
<1>8. CASE ~ At(p, "idle")'
  <2>1. before' = before  BY <1>8, BusyIs DEF AuditNext
  <2> SUFFICES (\A c \in Chunks : Stage(c, call[p])') /\ Clean(call[p])'
    BY <1>5, <1>8, <2>1
  <2>2. ASSUME NEW mode \in Modes, NEW docs \in Loads, Begin(p, mode, docs)
        PROVE  (\A c \in Chunks : Stage(c, call[p])') /\ Clean(call[p])'
    <3>1. /\ call'[p].mode = mode /\ mode # "delete" /\ call'[p].start = time
          /\ call'[p].seen = {} /\ call'[p].keys = {}
          /\ call'[p].pc \in {"exists", "list", "done"}
          /\ call'[p].pc = "done" => mode # "full"
      BY <1>0, <2>2, BeginFields, IndexingAssumption
    <3>2. At(p, "idle") /\ UNCHANGED <<rows, store, time, before>>  BY <2>1, <2>2 DEF Begin
    <3>3. Through(call[p])' = {}  BY <3>1 DEF Through
    <3>4. Clean(call[p])'  BY <3>1, <3>3 DEF Clean
    <3> QED  BY <1>0, <1>3, <3>1, <3>2, <3>4, StageBegun
  <2>3. ASSUME NEW target \in Targets, BeginDelete(p, target)
        PROVE  (\A c \in Chunks : Stage(c, call[p])') /\ Clean(call[p])'
    <3>1. /\ call'[p].mode = "delete" /\ call'[p].pc = "list"
          /\ call'[p].seen = {} /\ call'[p].keys = {}
      BY <1>0, <2>3, BeginDeleteFields
    <3>2. At(p, "idle") /\ UNCHANGED <<rows, store, time, before>>  BY <2>1, <2>3 DEF BeginDelete
    <3>3. Clean(call[p])'  BY <3>1 DEF Clean
    <3> QED  BY <1>0, <1>3, <3>1, <3>2, <3>3, StageBegun
  <2>4. CASE Step(p)
    <3>1. ~ Return(p)  BY <1>0, <1>8, EndFields DEF At
    <3>2. ~ At(p, "idle")  BY <1>0, <2>4, <3>1, StillBusy
    <3> QED  BY <1>0, <1>3, <2>1, <2>4, <3>1, <3>2, StageStep, CleanStep
  <2>5. ~ Fail(p)  BY <1>0, <1>8, EndFields DEF At
  <2>6. CASE Tick
    <3>1. UNCHANGED <<rows, store, call, before>> /\ time' = time + 1  BY <2>1, <2>6 DEF Tick
    <3>2. Known' = Known /\ ~ At(p, "idle")  BY <1>8, <3>1, KnownSame DEF At
    <3>3. Clean(call[p])'  BY <1>3, <3>1, <3>2 DEF Clean, Through
    <3> QED  BY <1>0, <1>3, <3>1, <3>2, <3>3, StageAside
  <2>7. ~ \E c \in Chunks : LandDelete(c) \/ LoseDelete(c)
    BY <1>3 DEF LandDelete, LoseDelete
  <2> QED  BY <2>2, <2>3, <2>4, <2>5, <2>6, <2>7 DEF AuditNext, Next
<1> QED  BY <1>7, <1>8

---------------------------------------------------------------------------
(***************************************************************************)
(* The refinement: the end of a call is the step of the contract.          *)
(***************************************************************************)
LEMMA AskedIs ==
  ASSUME NEW p, Calls = {p}, ~ At(p, "idle"), NEW completed
  PROVE  Asked(completed) =
           [mode |-> call[p].mode, completed |-> completed,
            docs |-> IF call[p].mode = "delete" THEN call[p].batch ELSE Elements(call[p].docs)]
<1>1. (CHOOSE q \in Calls : ~ At(q, "idle")) = p  OBVIOUS
<1> QED  BY <1>1 DEF Asked

(* What a call that ends has indexed and what it has cleaned up. *)
LEMMA ReturnRefines ==
  ASSUME NEW p, Calls = {p}, Base(p), Return(p), BeforeType, Clean(call[p]),
         \A c \in Chunks : Stage(c, call[p]),
         before'.vectors = store', before'.known = Known', before'.recent = Recent',
         before'.last = Asked(TRUE)
  PROVE  Contract!IndexNext
<1> DEFINE v == call[p]
           kept == before.recent
<1>0. /\ TypeOK /\ p \in Calls /\ v \in CallType /\ v.pc = "done" /\ v.keys = {}
      /\ Progress(v) /\ OwnOf(p) /\ v.seen \subseteq Chunks /\ v.batch \subseteq Chunks
      /\ time \in Nat /\ v.start \in Nat
  BY DEF Base, Own, TypeOK, CallType, Return, At, Listed
<1>1. UNCHANGED <<store, rows, time>> /\ Known' = Known /\ Recent' = Recent
  BY DEF Return, Known, Recent
<1>2. before'.vectors = store /\ before'.known = Known /\ before'.recent = Recent
  BY <1>1
<1>3. before'.last = [mode |-> v.mode, completed |-> TRUE,
                      docs |-> IF v.mode = "delete" THEN v.batch ELSE Elements(v.docs)]
  BY <1>0, AskedIs DEF At
<1>4. Known \subseteq Chunks /\ store \subseteq Chunks /\ Recent \subseteq Known
  BY <1>0 DEF Known, Recent, TypeOK
<1>5. ASSUME NEW c \in Chunks PROVE IF c \in v.seen THEN Indexed(c, v)
                                   ELSE Untouched(c, v) \/ Dropped(c, v)
  <2>1. StampedBy(v) = v.seen  BY <1>0 DEF StampedBy
  <2> QED  BY <1>0, <1>5, <2>1 DEF Stage
<1>6. CASE v.mode = "delete"
  <2>1. v.seen = {} /\ Known \cap v.batch = {}  BY <1>0, <1>6 DEF Progress, Clean
  <2>2. ASSUME NEW c \in Chunks
        PROVE  /\ c \in Known <=> c \in before.known /\ c \notin v.batch
               /\ c \in store <=> c \in before.vectors /\ ~ (c \in before.known /\ c \in v.batch)
               /\ c \in Recent => c \in before.recent
    <3>1. Untouched(c, v) \/ Dropped(c, v)  BY <1>5, <2>1
    <3>2. CASE Untouched(c, v)
      BY <1>6, <2>1, <3>2 DEF Untouched, AsOld, Recent
    <3>3. CASE Dropped(c, v)
      <4>1. c \notin Known /\ c \notin store /\ c \in before.known /\ c \in v.batch
        BY <1>6, <3>3 DEF Dropped, CleanUp
      <4> QED  BY <4>1, <1>4
    <3> QED  BY <3>1, <3>2, <3>3
  <2>3. Known = before.known \ v.batch  BY <1>4, <2>2 DEF BeforeType
  <2>4. store = before.vectors \ (before.known \cap v.batch)  BY <1>4, <2>2 DEF BeforeType
  <2>5. Recent \subseteq before.recent  BY <1>4, <2>2
  <2>6. Contract!Deletes(v.batch)  BY <1>2, <2>3, <2>4, <2>5 DEF Contract!Deletes
  <2>7. Contract!Called("delete", v.batch, TRUE)  BY <1>3, <1>6 DEF Contract!Called
  <2> QED  BY <1>0, <2>6, <2>7 DEF Contract!IndexNext, Contract!Delete
<1>7. CASE v.mode # "delete"
  <2> DEFINE docs == Elements(v.docs)
             scope == Contract!Scope(docs, v.mode)
             obsolete == (before.known \cap scope) \ (docs \cup kept)
             settled == (before.vectors \ obsolete) \cup (docs \ before.known)
             again == IF v.mode = "incremental" THEN docs \cap store ELSE {}
  <2>1. docs = v.seen  BY <1>0, <1>7 DEF Progress
  <2>2. v.mode \in {"none", "incremental", "full"}
    BY <1>0, <1>7, IndexingAssumption DEF CallType
  <2>3. scope = CASE v.mode = "none" -> {}
                  [] v.mode = "incremental" -> {c \in Chunks : \E d \in docs : Source[c] = Source[d]}
                  [] v.mode = "full" -> Chunks
    BY DEF Contract!Scope
  <2>4. ASSUME NEW c \in Chunks, c \notin docs
        PROVE  c \in CleanUp(v) <=> c \in scope
    BY <2>1, <2>2, <2>3, <2>4 DEF CleanUp
  <2> HIDE DEF scope
  <2>5. ASSUME NEW c \in Chunks, c \notin docs, c \in Known, c \in scope
        PROVE  c \in before.recent
    <3>1. c \in CleanUp(v)  BY <2>4, <2>5
    <3>2. CASE v.mode = "incremental"
      <4>1. Through(v) = v.seen  BY <1>0 DEF Through
      <4>2. \E d \in v.seen : Source[c] = Source[d]  BY <3>1, <3>2 DEF CleanUp
      <4> QED  BY <1>0, <2>1, <2>5, <3>2, <4>1, <4>2 DEF Clean
    <3>3. CASE v.mode = "full"
      BY <1>0, <2>1, <2>5, <3>3 DEF Clean
    <3>4. CASE v.mode = "none"
      BY <3>1, <3>4 DEF CleanUp
    <3> QED  BY <2>2, <3>2, <3>3, <3>4
  <2> HIDE DEF docs
  <2>6. ASSUME NEW c \in Chunks
        PROVE  /\ c \in Known <=> c \in (before.known \ obsolete) \cup docs
               /\ c \in store <=> c \in settled \cup again
               /\ c \in Recent => c \in docs \cup kept
    <3>1. CASE c \in docs
      <4>1. Indexed(c, v)  BY <1>5, <2>1, <3>1
      <4> QED  BY <3>1, <4>1 DEF Indexed
    <3>2. CASE c \notin docs /\ Untouched(c, v)
      <4>1. c \in before.known => c \notin obsolete
        BY <2>5, <3>2 DEF Untouched
      <4>2. c \in Recent => c \in kept
        <5> SUFFICES ASSUME c \in Recent PROVE c \in kept
          OBVIOUS
        <5>1. rows[c].at = time /\ c \in Known  BY DEF Recent
        <5>2. rows[c].at >= v.start  BY <1>0, <1>7, <5>1 DEF OwnOf
        <5> QED  BY <1>7, <3>2, <5>1, <5>2 DEF Untouched, AsOld
      <4> QED  BY <3>2, <4>1, <4>2 DEF Untouched
    <3>3. CASE c \notin docs /\ Dropped(c, v)
      <4>1. /\ c \in before.known /\ c \notin Known /\ c \notin store /\ c \in scope
            /\ c \notin kept
        BY <1>7, <2>4, <3>3 DEF Dropped
      <4>2. c \in obsolete  BY <3>3, <4>1
      <4>3. c \notin again /\ c \notin settled /\ c \notin Recent  BY <1>4, <3>3, <4>1, <4>2
      <4> QED  BY <3>3, <4>1, <4>2, <4>3
    <3> QED  BY <1>5, <2>1, <3>1, <3>2, <3>3
  <2>7. docs \subseteq Chunks  BY <1>0, <2>1
  <2>8. Known = (before.known \ obsolete) \cup docs  BY <1>4, <2>6, <2>7 DEF BeforeType
  <2>9. store = settled \cup again  BY <1>4, <2>6, <2>7 DEF BeforeType
  <2>10. Recent \subseteq docs \cup kept  BY <1>4, <2>6
  <2>11. again \in SUBSET (IF v.mode = "incremental" THEN docs ELSE {})  OBVIOUS
  <2>12. Contract!Indexes(docs, v.mode)
    <3>1. kept \in SUBSET before.recent  OBVIOUS
    <3>2. store \in {settled \cup more : more \in SUBSET (IF v.mode = "incremental" THEN docs ELSE {})}
      <4> HIDE DEF settled, again
      <4> QED  BY <2>9, <2>11
    <3> QED  BY <1>2, <2>8, <2>10, <3>1, <3>2 DEF Contract!Indexes, scope
  <2>13. Contract!Called(v.mode, docs, TRUE)
    BY <1>3, <1>7 DEF Contract!Called, docs
  <2>14. Contract!Index(docs, v.mode)  BY <2>12, <2>13 DEF Contract!Index
  <2> QED  BY <2>2, <2>7, <2>14 DEF Contract!IndexNext, Contract!CleanupModes
<1> QED  BY <1>6, <1>7

LEMMA FailRefines ==
  ASSUME NEW p, Calls = {p}, Base(p), Base(p)', Fail(p), BeforeType,
         \A c \in Chunks : Stage(c, call[p]),
         before'.vectors = store', before'.known = Known', before'.recent = Recent',
         before'.last = Asked(FALSE)
  PROVE  Contract!IndexNext
<1> DEFINE v == call[p]
           docs == IF v.mode = "delete" THEN {} ELSE Elements(v.docs)
           replaces == IF v.mode = "incremental" THEN docs ELSE {}
           obsolete == CleanUp(v) \cup (IF v.mode = "incremental"
                         THEN {c \in Chunks : \E d \in docs : Source[c] = Source[d]} \ docs ELSE {})
<1>0. /\ TypeOK /\ TypeOK' /\ p \in Calls /\ v \in CallType /\ v.pc # "idle" /\ Listed(p)
      /\ Progress(v) /\ OwnOf(p) /\ v.seen \subseteq Chunks /\ v.batch \subseteq Chunks
      /\ v.existing \subseteq Chunks /\ time \in Nat /\ v.start \in Nat
  BY DEF Base, Own, TypeOK, CallType, Fail, At
<1>1. time' = time  BY DEF Fail
<1>2. PICK more \in SUBSET (IF v.pc = "add" THEN v.batch \ v.existing ELSE {}) :
         store' = store \cup more
  BY DEF Fail
<1>3. PICK some \in SUBSET (CASE v.pc = "touch" -> v.existing
                              [] v.pc = "record" -> v.batch
                              [] OTHER -> {}) :
        rows' = Stamped(some, v.pc = "record")
  BY DEF Fail
<1>4. /\ some \subseteq Chunks
      /\ v.pc \notin {"touch", "record"} => some = {}
      /\ v.pc = "touch" => some \subseteq v.existing
      /\ v.pc = "record" => some \subseteq v.batch
  BY <1>0, <1>3
<1>5. Known' = Known \cup some  BY <1>0, <1>3, <1>4, StampedKnown
<1>6. \A c \in Chunks \ some : rows'[c] = rows[c]  BY <1>3 DEF Stamped
<1>7. before'.last = [mode |-> v.mode, completed |-> FALSE,
                      docs |-> IF v.mode = "delete" THEN v.batch ELSE Elements(v.docs)]
  BY <1>0, AskedIs DEF At
<1>8. Known' \subseteq Chunks /\ store \subseteq Chunks /\ Recent' \subseteq Known'
  BY <1>0 DEF Known, Recent, TypeOK
<1>9. /\ v.mode # "delete" =>
            docs = v.seen \cup v.batch \cup Elements(v.todo) /\ v.seen \cup v.batch \subseteq docs
      /\ v.mode = "delete" => v.seen = {} /\ some = {} /\ docs = {}
                              /\ v.pc \notin {"add", "record"}
  BY <1>0, <1>4 DEF Progress, Cleaning
<1>10. some \subseteq docs /\ StampedBy(v) \subseteq docs
  <2>1. v.pc \in {"touch", "add", "record"} => v.existing \subseteq v.batch
    BY <1>0 DEF Progress
  <2> QED  BY <1>4, <1>9, <2>1 DEF StampedBy
<1>11. docs \subseteq Chunks
  <2>1. v.docs \in Seq(Chunks)  BY <1>0 DEF CallType
  <2>2. \A i \in DOMAIN v.docs : v.docs[i] \in Chunks  BY <2>1
  <2> HIDE DEF v
  <2> QED  BY <2>2 DEF Elements
<1>12. ASSUME NEW c \in more
       PROVE  c \in Chunks /\ c \in docs /\ c \notin Known' /\ (c \in before.known => c \in replaces)
  <2>1. /\ v.pc = "add" /\ c \in v.batch /\ c \notin v.existing /\ v.keys = {} /\ some = {}
        /\ v.mode # "delete" /\ v.existing = v.batch \cap Known
    BY <1>0, <1>4, <1>9 DEF Listed, Progress
  <2>2. c \in Chunks /\ c \in docs  BY <1>0, <1>9, <2>1
  <2>3. c \notin Known /\ c \notin StampedBy(v)
    BY <2>1, <2>2 DEF Stage, Indexed
  <2>4. Untouched(c, v) \/ Dropped(c, v)  BY <2>1, <2>2, <2>3 DEF Stage
  <2>5. Dropped(c, v) => v.mode = "incremental"
    BY <2>1, <2>2 DEF Dropped, CleanUp
  <2> QED  BY <1>5, <2>1, <2>2, <2>3, <2>4, <2>5 DEF Untouched
<1> HIDE DEF docs
<1>13. ASSUME NEW c \in Chunks
       PROVE  /\ c \in Known' => c \in before.known \cup docs
              /\ c \in store => c \in before.vectors \cup docs
              /\ c \in before.known \ Known' => c \in CleanUp(v) \cup replaces
              /\ c \in before.vectors \ store => c \in (before.known \cap CleanUp(v)) \cup replaces
              /\ c \in Known' \ before.known => c \in store
              /\ c \in (before.known \ Known') \cap store => c \in replaces
              /\ c \in Recent' => c \in before.recent \cup docs
  <2>1. CASE c \in StampedBy(v)
    <3>1. Indexed(c, v) /\ c \in docs  BY <1>10, <2>1 DEF Stage
    <3> QED  BY <1>5, <3>1 DEF Indexed
  <2>2. CASE v.pc = "record" /\ c \in v.batch /\ c \notin StampedBy(v)
    <3>1. c \notin v.existing  BY <2>2 DEF StampedBy
    <3>2. Added(c, v) /\ c \in docs  BY <1>9, <2>2, <3>1 DEF Stage
    <3>3. c \in before.known => c \in replaces  BY <3>2 DEF Added
    <3> QED  BY <1>5, <3>2, <3>3 DEF Added
  <2>3. c \in Recent' => c \in docs \/ (c \in Known /\ rows[c].at = time)
    <3>1. c \in Recent' => c \in Known' /\ rows'[c].at = time  BY <1>1 DEF Recent
    <3> QED  BY <1>5, <1>6, <1>10, <3>1
  <2>4. ASSUME AsOld(c, v), c \in Known, rows[c].at = time
        PROVE  c \in before.recent
    <3>1. v.mode # "delete" => time >= v.start  BY <1>0 DEF OwnOf
    <3> QED  BY <2>4, <3>1 DEF AsOld
  <2>5. CASE v.pc = "keys" /\ c \in v.keys
    <3>1. Gone(c, v) /\ c \in CleanUp(v)  BY <2>5 DEF Stage
    <3>2. c \notin some  BY <1>4, <2>5
    <3> QED  BY <1>5, <2>3, <2>4, <3>1, <3>2 DEF Gone
  <2>6. CASE Untouched(c, v) /\ c \notin StampedBy(v) /\ ~ (v.pc = "record" /\ c \in v.batch)
    <3>1. c \in some => c \in Known
      BY <1>0, <1>4, <2>6 DEF Progress
    <3> QED  BY <1>5, <2>3, <2>4, <2>6, <3>1 DEF Untouched
  <2>7. CASE Dropped(c, v) /\ c \notin StampedBy(v) /\ ~ (v.pc = "record" /\ c \in v.batch)
    <3>1. c \notin some  BY <1>0, <1>4, <2>7 DEF Progress, Dropped
    <3>2. c \notin Known' /\ c \notin store /\ c \in before.known /\ c \in CleanUp(v)
      BY <1>5, <2>7, <3>1 DEF Dropped
    <3> QED  BY <1>8, <3>2
  <2> QED  BY <2>1, <2>2, <2>5, <2>6, <2>7 DEF Stage
<1>14. ASSUME NEW scope, CleanUp(v) \subseteq scope \cup replaces
       PROVE  Contract!CutShort(docs, scope, replaces)
  <2> HIDE DEF replaces
  <2>1. before'.known = Known' /\ before'.vectors = store' /\ before'.recent = Recent'
    OBVIOUS
  <2>2. Known' \in SUBSET (before.known \cup docs)  BY <1>8, <1>13
  <2>3. store' \in SUBSET (before.vectors \cup docs)  BY <1>8, <1>13, <1>2, <1>12
  <2>4. before.known \ Known' \subseteq scope \cup replaces  BY <1>13, <1>14 DEF BeforeType
  <2>5. before.vectors \ store' \subseteq (before.known \cap scope) \cup replaces
    BY <1>13, <1>14, <1>2 DEF BeforeType
  <2>6. Known' \ before.known \subseteq store'  BY <1>8, <1>13, <1>2
  <2>7. (before.known \ Known') \cap store' \subseteq replaces  BY <1>8, <1>13, <1>2, <1>12
  <2>8. Recent' \subseteq before.recent \cup docs  BY <1>8, <1>13
  <2> QED
    BY <2>1, <2>2, <2>3, <2>4, <2>5, <2>6, <2>7, <2>8 DEF Contract!CutShort
<1>15. CASE v.mode = "delete"
  <2>1. docs = {} /\ replaces = {} /\ CleanUp(v) = v.batch
    BY <1>9, <1>15 DEF CleanUp
  <2>2. Contract!CutShort({}, v.batch, {})
    <3> HIDE DEF replaces
    <3>1. CleanUp(v) \subseteq v.batch \cup replaces  BY <2>1
    <3> QED  BY <1>14, <2>1, <3>1
  <2>3. Contract!Called("delete", v.batch, FALSE)  BY <1>7, <1>15 DEF Contract!Called
  <2> QED
    BY <1>0, <2>2, <2>3 DEF Contract!IndexNext, Contract!Delete, Contract!DeletesInPart
<1>16. CASE v.mode # "delete"
  <2>1. docs = Elements(v.docs) /\ v.seen \subseteq docs  BY <1>9, <1>16 DEF docs
  <2>2. v.mode \in {"none", "incremental", "full"}
    BY <1>0, <1>16, IndexingAssumption DEF CallType
  <2> DEFINE scope == Contract!Scope(docs, v.mode)
  <2>3. CleanUp(v) \subseteq (scope \ docs) \cup replaces
    <3>1. CASE v.mode = "none"  BY <3>1 DEF CleanUp
    <3>2. CASE v.mode = "incremental"
      <4>1. scope = {c \in Chunks : \E d \in docs : Source[c] = Source[d]}
        BY <3>2 DEF Contract!Scope
      <4>2. CleanUp(v) \subseteq scope  BY <2>1, <3>2, <4>1 DEF CleanUp
      <4>3. replaces = docs  BY <3>2
      <4> HIDE DEF scope, replaces
      <4> QED  BY <4>2, <4>3
    <3>3. CASE v.mode = "full"
      <4>1. scope = Chunks  BY <3>3 DEF Contract!Scope
      <4>2. CleanUp(v) = Chunks \ docs  BY <2>1, <3>3 DEF CleanUp
      <4> HIDE DEF scope, replaces
      <4> QED  BY <4>1, <4>2
    <3> QED  BY <2>2, <3>1, <3>2, <3>3
  <2>4. Contract!CutShort(docs, scope \ docs, replaces)
    <3> HIDE DEF scope, replaces
    <3> QED  BY <1>14, <2>3
  <2>5. Contract!IndexesInPart(docs, v.mode)  BY <2>4 DEF Contract!IndexesInPart
  <2>6. Contract!Called(v.mode, docs, FALSE)  BY <1>7, <1>16, <2>1 DEF Contract!Called
  <2>7. Contract!Index(docs, v.mode)  BY <2>5, <2>6 DEF Contract!Index
  <2> QED  BY <1>11, <2>2, <2>7 DEF Contract!IndexNext, Contract!CleanupModes
<1> QED  BY <1>15, <1>16

LEMMA ContractStep ==
  ASSUME NEW p, Calls = {p}, Base(p), Base(p)', Watched(p), [AuditNext]_auditVars
  PROVE  [Contract!IndexNext]_Contract!contract
<1>0. /\ TypeOK /\ TypeOK' /\ p \in Calls  BY DEF Base, Own
<1>1. CASE before' = before
  BY <1>1 DEF Contract!contract
<1> SUFFICES ASSUME before' # before, AuditNext PROVE Contract!IndexNext \/ UNCHANGED Contract!contract
  BY <1>1 DEF auditVars
<1>2. /\ awaits /\ call'[p].pc = "idle"
      /\ before' = [vectors |-> store', known |-> Known', recent |-> Recent',
                     last |-> IF Busy THEN Asked(failures' = failures) ELSE before.last]
  <2>1. awaits' = awaits  BY AwaitsStays DEF AuditNext
  <2> QED  BY <2>1, BusyIs DEF AuditNext, At
<1>3. /\ before'.vectors = store' /\ before'.known = Known' /\ before'.recent = Recent'
      /\ before'.last = IF Busy THEN Asked(failures' = failures) ELSE before.last
  BY <1>2
<1>4. /\ BeforeType /\ pending = {}
      /\ At(p, "idle") => before.vectors = store /\ before.known = Known /\ before.recent = Recent
      /\ ~ At(p, "idle") => (\A c \in Chunks : Stage(c, call[p])) /\ Clean(call[p])
  BY <1>2 DEF Watched
<1>5. CASE Return(p)
  <2>1. ~ At(p, "idle") /\ (failures' = failures) = TRUE  BY <1>5 DEF Return, At
  <2>2. before'.last = Asked(TRUE)  BY <1>3, <2>1, BusyIs
  <2> QED  BY <1>3, <1>4, <1>5, <2>1, <2>2, ReturnRefines
<1>6. CASE Fail(p)
  <2>1. ~ At(p, "idle") /\ (failures' = failures) = FALSE  BY <1>0, <1>6 DEF Fail, TypeOK
  <2>2. before'.last = Asked(FALSE)  BY <1>3, <2>1, BusyIs
  <2> QED  BY <1>3, <1>4, <1>6, <2>1, <2>2, FailRefines
<1>7. CASE Tick
  <2>1. /\ UNCHANGED <<store, rows, call>> /\ Known' = Known /\ time' = time + 1
    BY <1>7 DEF Tick, Known
  <2>2. At(p, "idle") /\ ~ Busy  BY <1>2, <2>1, BusyIs DEF At
  <2>3. Recent' = {}
    <3> SUFFICES ASSUME NEW c \in Known, rows[c].at = time + 1 PROVE FALSE
      BY <2>1 DEF Recent
    <3>1. rows[c].at \in Nat /\ time \in Nat /\ rows[c].at <= time
      BY <1>0 DEF TypeOK, Known, Row, Base, RowsPast
    <3> QED  BY <3>1
  <2>4. /\ before'.vectors = before.vectors /\ before'.known = before.known
        /\ before'.recent = {} /\ before'.last = before.last
    BY <1>3, <1>4, <2>1, <2>2, <2>3
  <2>5. Contract!TimePasses  BY <2>4 DEF Contract!TimePasses
  <2> QED  BY <2>5 DEF Contract!IndexNext
<1>8. ~ \E mode \in Modes, docs \in Loads : Begin(p, mode, docs)
  BY <1>0, <1>2, BeginFields DEF At
<1>9. ~ \E target \in Targets : BeginDelete(p, target)
  BY <1>0, <1>2, BeginDeleteFields DEF At
<1>10. Step(p) => Return(p)
  BY <1>0, <1>2, StillBusy DEF At
<1>11. ~ \E c \in Chunks : LandDelete(c) \/ LoseDelete(c)
  BY <1>4 DEF LandDelete, LoseDelete
<1> QED  BY <1>5, <1>6, <1>7, <1>8, <1>9, <1>10, <1>11 DEF AuditNext, Next

LEMMA InitBase ==
  ASSUME NEW p, Calls = {p}, AuditInit
  PROVE  Base(p) /\ Watched(p) /\ Contract!IndexInit
<1>1. Init /\ before = [vectors |-> store, known |-> Known, recent |-> Recent, last |-> NoneYet]
  BY DEF AuditInit
<1>2. \A q \in Calls : call[q] = NoCall  BY <1>1 DEF Init
<1>3. time = 1 /\ pending = {} /\ store = {} /\ Known = {}  BY <1>1 DEF Init, Known
<1>4. Recent = {}  BY <1>3 DEF Recent
<1>5. Own  BY <1>1, <1>2, <1>3, TypeInit DEF Own, OwnOf, Listed, NoCall
<1>6. Progress(call[p])  BY <1>2 DEF Progress, NoCall, Cleaning, Elements
<1>7. Base(p)  BY <1>3, <1>5, <1>6 DEF Base, RowsPast, Grouped
<1>8. /\ before.vectors = {} /\ before.known = {} /\ before.recent = {} /\ before.last = NoneYet
  BY <1>1, <1>3, <1>4
<1>9. Watched(p)
  <2>1. At(p, "idle")  BY <1>2 DEF At, NoCall
  <2> QED  BY <1>3, <1>4, <1>8, <2>1 DEF Watched, BeforeType
<1>10. Contract!IndexInit  BY <1>8 DEF Contract!IndexInit, NoneYet
<1> QED  BY <1>7, <1>9, <1>10

(* Seen from outside, a call that is alone does what IndexContract says of *)
(* a completed call or of one cut short, whatever the chunks, their        *)
(* sources, the batch sizes, the clean-up mode and the await it fails at.  *)
THEOREM CallsKeepContract ==
  ASSUME NEW CONSTANT p, Calls = {p}
  PROVE  AuditSpec => KeepsContract
<1>1. AuditInit => Base(p) /\ Watched(p) /\ Contract!IndexInit
  BY InitBase
<1>2. Base(p) /\ Watched(p) /\ [AuditNext]_auditVars => Base(p)' /\ Watched(p)'
  <2> SUFFICES ASSUME Base(p), Watched(p), [AuditNext]_auditVars PROVE Base(p)' /\ Watched(p)'
    OBVIOUS
  <2>1. [Next]_vars  BY DEF AuditNext, auditVars, vars
  <2>2. Base(p)'  BY <2>1, BaseNext
  <2> QED  BY <2>2, WatchedNext
<1>3. Base(p) /\ Base(p)' /\ Watched(p) /\ [AuditNext]_auditVars
        => [Contract!IndexNext]_Contract!contract
  BY ContractStep
<1> QED  BY <1>1, <1>2, <1>3, PTL DEF AuditSpec, KeepsContract, Contract!IndexSpec

---------------------------------------------------------------------------
(***************************************************************************)
(* RetryHeals.  A call that is repeated cuts its documents at the same     *)
(* places, and so it cleans up what it left half-deleted before it comes   *)
(* to the batch that holds it again.                                       *)
(***************************************************************************)

(* The first k documents, and where a call may stop between two batches. *)
Upto(docs, k) == {docs[i] : i \in 1..k}

IsCut(docs, k) ==
  k \in 0..Len(docs) /\ (k = Len(docs) \/ \E j \in Nat : k = j * BatchSize)

LEMMA NextMultiple ==
  ASSUME NEW i \in Nat, NEW j \in Nat, j * BatchSize > i * BatchSize
  PROVE  j * BatchSize >= i * BatchSize + BatchSize
<1> DEFINE B == BatchSize
<1>0. B \in Nat /\ i * B \in Nat /\ j * B \in Nat  BY IndexingAssumption
<1> HIDE DEF B
<1>1. CASE j <= i
  <2>1. i - j \in Nat /\ i = j + (i - j)  BY <1>1
  <2>2. (i - j) * B \in Nat  BY <1>0, <2>1
  <2>3. i * B = j * B + (i - j) * B
    <3>1. \A a, b, c \in Int : (a + b) * c = a * c + b * c  OBVIOUS
    <3> QED  BY <1>0, <2>1, <3>1
  <2> QED  BY <1>0, <2>2, <2>3 DEF B
<1>2. CASE j >= i + 1
  <2>1. j - (i + 1) \in Nat /\ j = (i + 1) + (j - (i + 1))  BY <1>2
  <2>2. (j - (i + 1)) * B \in Nat  BY <1>0, <2>1
  <2>3. j * B = (i + 1) * B + (j - (i + 1)) * B /\ (i + 1) * B = i * B + B
    <3>1. \A a, b, c \in Int : (a + b) * c = a * c + b * c  OBVIOUS
    <3> QED  BY <1>0, <2>1, <3>1
  <2> QED  BY <1>0, <2>2, <2>3 DEF B
<1> QED  BY <1>1, <1>2

(* What is left of a sequence after its first n elements. *)
IsRest(s, docs, n) ==
  /\ s \in Seq(Chunks) /\ Len(s) = Len(docs) - n
  /\ \A i \in 1 .. Len(docs) - n : s[i] = docs[n + i]

LEMMA RestIs ==
  ASSUME NEW docs \in Seq(Chunks), NEW n \in Nat, n <= Len(docs)
  PROVE  IsRest(SubSeq(docs, n + 1, Len(docs)), docs, n)
<1> DEFINE L == Len(docs)
           s == SubSeq(docs, n + 1, L)
<1>1. L \in Nat /\ n <= L /\ \A i \in 1..L : docs[i] \in Chunks  OBVIOUS
<1>2. n + 1 \in Int /\ L \in Int /\ \A i \in n + 1 .. L : docs[i] \in Chunks  BY <1>1
<1>3. /\ s \in Seq(Chunks)
      /\ Len(s) = IF n + 1 <= L THEN L - (n + 1) + 1 ELSE 0
      /\ \A i \in 1 .. L - (n + 1) + 1 : s[i] = docs[n + 1 + i - 1]
  BY <1>2, SubSeqProperties
<1> HIDE DEF s, L
<1>4. Len(s) = L - n
  <2>1. CASE n + 1 <= L
    <3>1. Len(s) = L - (n + 1) + 1  BY <2>1, <1>3
    <3> QED  BY <3>1, <1>1
  <2>2. CASE ~ (n + 1 <= L)
    <3>1. Len(s) = 0  BY <2>2, <1>3
    <3>2. n = L  BY <2>2, <1>1
    <3> QED  BY <3>1, <3>2, <1>1
  <2> QED  BY <2>1, <2>2
<1>5. ASSUME NEW i \in 1 .. L - n PROVE s[i] = docs[n + i]
  <2>1. i \in 1 .. L - (n + 1) + 1 /\ n + 1 + i - 1 = n + i  BY <1>1
  <2> QED  BY <2>1, <1>3
<1> QED  BY <1>3, <1>4, <1>5 DEF IsRest, s, L

LEMMA RestsEqual ==
  ASSUME NEW docs \in Seq(Chunks), NEW n \in Nat, NEW s, NEW t, IsRest(s, docs, n), IsRest(t, docs, n)
  PROVE  s = t
BY SeqEqual DEF IsRest

LEMMA RestOfRest ==
  ASSUME NEW docs \in Seq(Chunks), NEW n \in Nat, NEW b \in Nat, n + b <= Len(docs), n <= Len(docs),
         NEW s, IsRest(s, docs, n), NEW t, IsRest(t, s, b)
  PROVE  IsRest(t, docs, n + b)
<1> DEFINE L == Len(docs)
<1>1. L \in Nat /\ Len(s) = L - n /\ Len(t) = Len(s) - b /\ t \in Seq(Chunks)
  BY DEF IsRest
<1>2. Len(t) = L - (n + b)  BY <1>1
<1>3. ASSUME NEW i \in 1 .. L - (n + b) PROVE t[i] = docs[(n + b) + i]
  <2>1. i \in 1 .. Len(s) - b /\ b + i \in 1 .. L - n /\ n + (b + i) = (n + b) + i  BY <1>1
  <2>2. t[i] = s[b + i] /\ s[b + i] = docs[n + (b + i)]  BY <2>1 DEF IsRest
  <2> QED  BY <2>1, <2>2
<1> QED  BY <1>1, <1>2, <1>3 DEF IsRest

(* The next batch after a cut goes to the next cut. *)
LEMMA CutAfter ==
  ASSUME NEW docs \in Seq(Chunks), NEW n \in Nat, IsCut(docs, n), NEW s, IsRest(s, docs, n),
         NEW m, m = n + BatchLen(s)
  PROVE  /\ m \in Nat /\ n <= m /\ IsCut(docs, m) /\ m <= Len(docs)
         /\ IsRest(SubSeq(s, BatchLen(s) + 1, Len(s)), docs, m)
         /\ Upto(docs, m) = Upto(docs, n) \cup {s[i] : i \in 1..BatchLen(s)}
         /\ \A k : IsCut(docs, k) /\ k > n => k >= m
<1> DEFINE L == Len(docs)
           b == BatchLen(s)
<1>0. L \in Nat /\ n <= L /\ BatchSize \in Nat /\ BatchSize # 0 /\ m = n + b
  BY IndexingAssumption DEF IsCut
<1>1. s \in Seq(Chunks) /\ Len(s) = L - n /\ \A i \in 1..L - n : s[i] = docs[n + i]
  BY DEF IsRest
<1>2. b \in Nat /\ b <= L - n /\ m = n + b /\ b <= BatchSize /\ (b = L - n \/ b = BatchSize)
  <2>1. b = IF Len(s) < BatchSize THEN Len(s) ELSE BatchSize  BY DEF BatchLen
  <2>2. L - n \in Nat
    <3> HIDE DEF L
    <3> QED  BY <1>0
  <2>3. CASE Len(s) < BatchSize
    <3>1. b = L - n /\ L - n <= BatchSize  BY <1>0, <1>1, <2>1, <2>2, <2>3
    <3> HIDE DEF L, b
    <3> QED  BY <1>0, <2>2, <3>1
  <2>4. CASE ~ (Len(s) < BatchSize)
    <3>1. b = BatchSize /\ BatchSize <= L - n  BY <1>0, <1>1, <2>1, <2>2, <2>4
    <3> HIDE DEF L, b
    <3> QED  BY <1>0, <3>1
  <2> QED  BY <2>3, <2>4
<1>3. m \in Nat /\ n <= m /\ m <= L
  <2> HIDE DEF L, b
  <2> QED  BY <1>0, <1>2
<1>4. IsCut(docs, m)
  <2>1. CASE m = L
    <3>1. m \in 0..L  BY <1>0, <1>3
    <3> QED  BY <2>1, <3>1 DEF IsCut
  <2>2. CASE m # L
    <3>1. b = BatchSize /\ n # L
      <4> HIDE DEF L, b
      <4> QED  BY <1>0, <1>2, <1>3, <2>2
    <3>2. PICK j \in Nat : n = j * BatchSize  BY <3>1 DEF IsCut
    <3>3. j + 1 \in Nat /\ (j + 1) * BatchSize = j * BatchSize + BatchSize  BY <1>0
    <3>4. m = (j + 1) * BatchSize  BY <1>2, <3>1, <3>2, <3>3
    <3>5. m \in 0..L  BY <1>0, <1>3
    <3> QED  BY <3>3, <3>4, <3>5 DEF IsCut
  <2> QED  BY <2>1, <2>2
<1>5. ASSUME NEW k, IsCut(docs, k), k > n PROVE k >= m
  <2>1. k \in 0..L  BY <1>5 DEF IsCut
  <2>2. CASE k = L  BY <1>3, <2>2
  <2>3. CASE k # L
    <3>1. n # L
      <4> HIDE DEF L
      <4> QED  BY <1>0, <1>5, <2>1
    <3>2. PICK i \in Nat : n = i * BatchSize  BY <3>1 DEF IsCut
    <3>3. PICK j \in Nat : k = j * BatchSize  BY <1>5, <2>3 DEF IsCut
    <3>4. k >= n + BatchSize  BY <1>5, <3>2, <3>3, NextMultiple
    <3> HIDE DEF L, b
    <3> QED  BY <1>0, <1>2, <2>1, <3>4
  <2> QED  BY <2>2, <2>3
<1>6. Upto(docs, m) = Upto(docs, n) \cup {s[i] : i \in 1..b}
  <2> HIDE DEF b, L
  <2>1. ASSUME NEW i \in 1..m PROVE docs[i] \in Upto(docs, n) \cup {s[j] : j \in 1..b}
    <3>1. CASE i <= n
      <4>1. i \in 1..n  BY <3>1, <1>3
      <4> QED  BY <4>1 DEF Upto
    <3>2. CASE i > n
      <4>1. i - n \in 1..b /\ i - n \in 1..L - n /\ n + (i - n) = i  BY <1>0, <1>2, <3>2
      <4>2. s[i - n] = docs[i]  BY <1>1, <4>1
      <4> QED  BY <4>1, <4>2
    <3> QED  BY <3>1, <3>2, <1>0, <1>3
  <2>2. ASSUME NEW i \in 1..b PROVE s[i] \in Upto(docs, m)
    <3>1. i \in 1..L - n /\ n + i \in 1..m  BY <1>0, <1>2
    <3>2. s[i] = docs[n + i]  BY <1>1, <3>1
    <3> QED  BY <3>1, <3>2 DEF Upto
  <2>3. ASSUME NEW i \in 1..n PROVE docs[i] \in Upto(docs, m)
    <3>1. i \in 1..m  BY <1>0, <1>3
    <3> QED  BY <3>1 DEF Upto
  <2>4. \A x \in Upto(docs, m) : x \in Upto(docs, n) \cup {s[j] : j \in 1..b}
    BY <2>1 DEF Upto
  <2>5. \A x \in Upto(docs, n) : x \in Upto(docs, m)
    BY <2>3 DEF Upto
  <2>6. \A x \in {s[j] : j \in 1..b} : x \in Upto(docs, m)
    BY <2>2
  <2> QED  BY <2>4, <2>5, <2>6
<1>7. IsRest(SubSeq(s, b + 1, Len(s)), docs, m)
  <2>1. b <= Len(s) /\ n + b <= Len(docs)
    <3>1. \A x, y \in Nat : x <= y - n => n + x <= y  OBVIOUS
    <3> HIDE DEF b
    <3> QED  BY <1>0, <1>1, <1>2, <3>1
  <2> HIDE DEF b
  <2>2. IsRest(SubSeq(s, b + 1, Len(s)), s, b)  BY <1>1, <1>2, <2>1, RestIs
  <2> QED  BY <1>0, <1>2, <2>1, <2>2, RestOfRest
<1> QED  BY <1>3, <1>4, <1>5, <1>6, <1>7

(* The documents a call has taken are those before a cut. *)
Place(u, n) ==
  IsCut(u.docs, n) /\ IsRest(u.todo, u.docs, n) /\ u.seen \cup u.batch = Upto(u.docs, n)

Taken(u) == u.mode # "delete" => \E n \in Nat : Place(u, n)

LEMMA CutType ==
  ASSUME NEW docs \in Seq(Chunks), NEW n, IsCut(docs, n)
  PROVE  n \in Nat /\ n <= Len(docs) /\ Upto(docs, n) \subseteq Elements(docs)
<1>1. n \in Nat /\ n <= Len(docs) /\ Len(docs) \in Nat  BY DEF IsCut
<1>2. \A i \in 1..n : i \in DOMAIN docs  BY <1>1
<1> QED  BY <1>1, <1>2 DEF Upto, Elements

LEMMA PlaceNext ==
  ASSUME NEW docs \in Seq(Chunks), NEW n \in Nat, IsCut(docs, n), NEW s, IsRest(s, docs, n),
         NEW u, u.docs = docs, u.seen = Upto(docs, n), Cuts(u, s)
  PROVE  \E m \in Nat :
           /\ Place(u, m)
           /\ \A k : IsCut(docs, k) /\ k > n => Upto(docs, m) \subseteq Upto(docs, k)
<1> DEFINE m == n + BatchLen(s)
<1>1. /\ m \in Nat /\ n <= m /\ IsCut(docs, m) /\ m <= Len(docs)
      /\ IsRest(SubSeq(s, BatchLen(s) + 1, Len(s)), docs, m)
      /\ Upto(docs, m) = Upto(docs, n) \cup {s[i] : i \in 1..BatchLen(s)}
      /\ \A k : IsCut(docs, k) /\ k > n => k >= m
  BY CutAfter
<1> HIDE DEF m
<1>2. Place(u, m)  BY <1>1 DEF Place, Cuts
<1>3. ASSUME NEW k, IsCut(docs, k), k > n PROVE Upto(docs, m) \subseteq Upto(docs, k)
  <2>1. k \in Nat /\ k >= m  BY <1>1, <1>3, CutType
  <2>2. \A i \in 1..m : i \in 1..k  BY <1>1, <2>1
  <2> QED  BY <2>2 DEF Upto
<1> QED  BY <1>1, <1>2, <1>3

LEMMA PlaceOfNone ==
  ASSUME NEW docs \in Seq(Chunks)
  PROVE  IsCut(docs, 0) /\ IsRest(docs, docs, 0) /\ Upto(docs, 0) = {}
<1>1. Len(docs) \in Nat /\ 0 \in 0..Len(docs)  OBVIOUS
<1>2. 0 = 0 * BatchSize  BY IndexingAssumption
<1>3. \A i \in 1 .. Len(docs) - 0 : docs[i] = docs[0 + i]  BY <1>1
<1>4. Len(docs) = Len(docs) - 0  BY <1>1
<1>5. Upto(docs, 0) = {}  BY DEF Upto
<1> QED  BY <1>1, <1>2, <1>3, <1>4, <1>5 DEF IsCut, IsRest

LEMMA TakenHolds ==
  ASSUME NEW p, Taken(call[p]), Same(call'[p], call[p]), call'[p].todo = call[p].todo,
         call'[p].seen \cup call'[p].batch = call[p].seen \cup call[p].batch
  PROVE  Taken(call[p])'
<1> SUFFICES ASSUME call'[p].mode # "delete" PROVE \E n \in Nat : Place(call'[p], n)
  BY DEF Taken, Place, IsCut, IsRest, Upto
<1>1. PICK n \in Nat : Place(call[p], n)  BY DEF Taken, Same
<1>2. Place(call'[p], n)  BY <1>1 DEF Place, Same
<1> QED  BY <1>2

LEMMA TakenStep ==
  ASSUME TypeOK, NEW p \in Calls, Progress(call[p]), Taken(call[p]), Step(p)
  PROVE  Taken(call[p])'
<1> DEFINE v == call[p]
<1>0. v \in CallType /\ v.docs \in Seq(Chunks)  BY DEF TypeOK, CallType
<1>1. CASE Exists(p) \/ Touch(p) \/ AddDocuments(p) \/ DeleteVectors(p)
  <2>1. Holds(call'[p], v)
    BY <1>1, ExistsFields, TouchFields, AddFields, DeleteVectorsFields
  <2> QED  BY <2>1, TakenHolds DEF Holds
<1>2. ASSUME v.mode # "delete", Cuts(call'[p], v.todo), Same(call'[p], v),
             call'[p].seen = v.seen \cup v.batch
      PROVE  Taken(call[p])'
  <2>1. PICK n \in Nat : Place(v, n)  BY <1>2 DEF Taken
  <2>2. /\ IsCut(v.docs, n) /\ IsRest(v.todo, v.docs, n)
        /\ call'[p].docs = v.docs /\ call'[p].seen = Upto(v.docs, n)
    BY <1>2, <2>1 DEF Place, Same
  <2>3. \E m \in Nat : Place(call'[p], m)  BY <1>0, <1>2, <2>2, PlaceNext
  <2> QED  BY <2>3 DEF Taken, Place, IsCut, IsRest, Upto
<1>3. CASE Record(p)
  <2>1. v.mode # "delete"  BY <1>3 DEF Record, At, Progress, Cleaning
  <2>2. CASE v.mode = "incremental"
    <3>1. /\ Same(call'[p], v) /\ call'[p].seen = v.seen \cup v.batch
          /\ call'[p].batch = v.batch /\ call'[p].todo = v.todo
      BY <1>3, <2>2, RecordFields
    <3> QED  BY <3>1, TakenHolds
  <2>3. CASE v.mode # "incremental"
    BY <1>2, <1>3, <2>1, <2>3, RecordFields
  <2> QED  BY <2>2, <2>3
<1>4. CASE ListKeys(p)
  BY <1>4, ListFields, TakenHolds
<1>5. CASE DeleteKeys(p)
  <2>1. CASE v.mode \in {"full", "delete"}
    <3>1. /\ Same(call'[p], v) /\ call'[p].seen = v.seen
          /\ call'[p].batch = v.batch /\ call'[p].todo = v.todo
      BY <1>5, <2>1, DeleteKeysFields
    <3> QED  BY <3>1, TakenHolds
  <2>2. CASE v.mode \notin {"full", "delete"}
    <3>1. Same(call'[p], v) /\ call'[p].seen = v.seen /\ Cuts(call'[p], v.todo)
      BY <1>5, <2>2, DeleteKeysFields
    <3>2. v.batch \subseteq v.seen  BY <1>5, <2>2 DEF DeleteKeys, At, Progress, Cleaning
    <3>3. call'[p].seen = v.seen \cup v.batch  BY <3>1, <3>2
    <3> QED  BY <1>2, <2>2, <3>1, <3>3
  <2> QED  BY <2>1, <2>2
<1>6. CASE Return(p)
  <2>1. call'[p] = NoCall  BY <1>6, EndFields
  <2>2. << >> \in Seq(Chunks)  OBVIOUS
  <2>3. Place(NoCall, 0)  BY <2>2, PlaceOfNone DEF Place, NoCall
  <2>4. Place(call'[p], 0)  BY <2>1, <2>3
  <2> QED  BY <2>4 DEF Taken, Place, IsCut, IsRest, Upto
<1> QED  BY <1>1, <1>3, <1>4, <1>5, <1>6 DEF Step

LEMMA TakenNext ==
  ASSUME NEW p, Calls = {p}, Base(p), Taken(call[p]), [Next]_vars
  PROVE  Taken(call[p])'
<1>0. TypeOK /\ p \in Calls /\ Progress(call[p]) /\ Taken(call[p])  BY DEF Base, Own
<1>1. ASSUME NEW mode \in Modes, NEW docs \in Loads, Begin(p, mode, docs)
      PROVE  Taken(call[p])'
  <2>1. call'[p].docs = docs /\ call'[p].seen = {} /\ Cuts(call'[p], docs)
    BY <1>0, <1>1, BeginFields
  <2>2. docs \in Seq(Chunks)  BY IndexingAssumption
  <2>3. \E m \in Nat : Place(call'[p], m)  BY <2>1, <2>2, PlaceOfNone, PlaceNext
  <2> QED  BY <2>3 DEF Taken, Place, IsCut, IsRest, Upto
<1>2. ASSUME NEW target \in Targets, BeginDelete(p, target)
      PROVE  Taken(call[p])'
  BY <1>0, <1>2, BeginDeleteFields DEF Taken
<1>3. CASE Step(p)
  BY <1>0, <1>3, TakenStep
<1>4. CASE Fail(p)
  <2>1. call'[p] = NoCall  BY <1>0, <1>4, EndFields
  <2>2. << >> \in Seq(Chunks)  OBVIOUS
  <2>3. Place(NoCall, 0)  BY <2>2, PlaceOfNone DEF Place, NoCall
  <2>4. Place(call'[p], 0)  BY <2>1, <2>3
  <2> QED  BY <2>4 DEF Taken, Place, IsCut, IsRest, Upto
<1>5. CASE UNCHANGED call
  <2>1. /\ Same(call'[p], call[p]) /\ call'[p].todo = call[p].todo
        /\ call'[p].seen \cup call'[p].batch = call[p].seen \cup call[p].batch
    BY <1>5 DEF Same
  <2> QED  BY <1>0, <2>1, TakenHolds
<1> QED
  BY <1>1, <1>2, <1>3, <1>4, <1>5 DEF Next, LandDelete, LoseDelete, Tick, vars

(* A disagreement of the stores about a chunk that the work w repairs: a   *)
(* vector that is to be recorded, or a row that is to be cleaned up, by an *)
(* incremental clean-up before the chunk itself may come.                  *)
Before(c, docs, k) ==
  IsCut(docs, k) /\ c \notin Upto(docs, k) /\ \E d \in Upto(docs, k) : Source[c] = Source[d]

Mends(c, w) ==
  /\ c \in before.vectors \ before.known => w[1] # "delete" /\ c \in Elements(w[2])
  /\ c \in before.known \ before.vectors =>
       /\ w[1] # "delete" => c \notin before.recent
       /\ \/ w[1] = "delete" /\ c \in w[3]
          \/ w[1] = "full" /\ c \notin Elements(w[2])
          \/ w[1] = "incremental" /\ \E k : Before(c, w[2], k)

(* What an incremental call finds half-deleted is gone when its batch comes. *)
Mended(u) ==
  u.mode = "incremental" =>
    \A c \in (before.known \ before.vectors) \cap (u.seen \cup u.batch) : c \notin Known \/ c \in store

Healing(p) ==
  awaits =>
    /\ suspects = {} => before.vectors = before.known
    /\ \A w \in suspects : suspects = {w} => \A c \in Chunks : Mends(c, w)
    /\ ~ At(p, "idle") /\ suspects \subseteq {Work(call[p])} => Mended(call[p])

LEMMA WorkIs ==
  ASSUME NEW v
  PROVE  /\ Work(v)[1] = v.mode /\ Work(v)[2] = v.docs
         /\ Work(v)[3] = IF v.mode = "delete" THEN v.batch ELSE {}
BY DEF Work

(* What was left by the work of the call now in progress, or by none.      *)
LEMMA MendsNow ==
  ASSUME NEW p, Healing(p), awaits, NEW w, suspects \subseteq {w}, NEW c \in Chunks
  PROVE  Mends(c, w)
<1>1. CASE suspects = {}
  BY <1>1 DEF Healing, Mends
<1>2. CASE suspects # {}
  <2>1. suspects = {w} /\ w \in suspects  BY <1>2
  <2> QED  BY <2>1 DEF Healing
<1> QED  BY <1>1, <1>2

LEMMA MendedKept ==
  ASSUME NEW p, Mended(call[p]), before' = before, Same(call'[p], call[p]),
         call[p].mode = "incremental" =>
           /\ call'[p].seen \cup call'[p].batch \subseteq call[p].seen \cup call[p].batch
           /\ \A c \in call[p].seen \cup call[p].batch :
                c \in Known' /\ c \notin store' => c \in Known /\ c \notin store
  PROVE  Mended(call[p])'
<1>1. call'[p].mode = call[p].mode  BY DEF Same
<1> QED  BY <1>1 DEF Mended

(* A chunk that comes with the next batch has been cleaned up if it was    *)
(* half-deleted: the batch with a chunk of its source has been before.     *)
LEMMA MendedNextBatch ==
  ASSUME NEW p, before' = before, call'[p].mode = "incremental", call'[p].docs \in Seq(Chunks),
         NEW n \in Nat, IsCut(call'[p].docs, n), NEW s, IsRest(s, call'[p].docs, n),
         call'[p].seen = Upto(call'[p].docs, n), Cuts(call'[p], s),
         BeforeType, \A c \in Chunks : Mends(c, Work(call'[p])),
         \A c \in call'[p].seen : c \in before.known \ before.vectors => c \notin Known' \/ c \in store',
         \A c \in Known' \ call'[p].seen :
           (\E d \in call'[p].seen : Source[c] = Source[d]) => c \in before.recent
  PROVE  Mended(call[p])'
<1> DEFINE u == call'[p]
           docs == u.docs
<1>1. PICK m \in Nat :
        /\ Place(u, m)
        /\ \A k : IsCut(docs, k) /\ k > n => Upto(docs, m) \subseteq Upto(docs, k)
  BY PlaceNext
<1>2. ASSUME NEW c, c \in before.known \ before.vectors, c \in u.seen \cup u.batch, c \notin u.seen
      PROVE  c \notin Known'
  <2>1. c \in Chunks /\ Mends(c, Work(u))  BY <1>2 DEF BeforeType
  <2>2. c \notin before.recent /\ \E k : Before(c, docs, k)
    BY <1>2, <2>1, WorkIs DEF Mends
  <2>3. PICK k : Before(c, docs, k)  BY <2>2
  <2>4. k \in Nat /\ c \notin Upto(docs, k)  BY <2>3, CutType DEF Before
  <2>5. c \in Upto(docs, m)  BY <1>1, <1>2 DEF Place
  <2>6. k <= n  BY <1>1, <2>3, <2>4, <2>5 DEF Before
  <2>7. Upto(docs, k) \subseteq Upto(docs, n)
    <3>1. \A i \in 1..k : i \in 1..n  BY <2>4, <2>6
    <3> QED  BY <3>1 DEF Upto
  <2>8. \E d \in u.seen : Source[c] = Source[d]  BY <2>3, <2>7 DEF Before
  <2> QED  BY <1>2, <2>2, <2>8
<1>3. \A c \in (before.known \ before.vectors) \cap (u.seen \cup u.batch) : c \notin Known' \/ c \in store'
  BY <1>2
<1> QED  BY <1>3 DEF Mended

LEMMA MendedStep ==
  ASSUME Own, awaits, NEW p \in Calls, Step(p), ~ Return(p), before' = before, Progress(call[p]),
         Taken(call[p]), BeforeType, Clean(call[p])', Mended(call[p]),
         \A c \in Chunks : Mends(c, Work(call[p])), \A c \in Chunks : Stage(c, call[p])
  PROVE  Mended(call[p])'
<1> DEFINE v == call[p]
<1>0. /\ TypeOK /\ v \in CallType /\ v.batch \subseteq Chunks /\ v.existing \subseteq Chunks
      /\ v.seen \subseteq Chunks /\ v.docs \in Seq(Chunks)
  BY DEF Own, TypeOK, CallType
<1>1. CASE Exists(p)
  <2>1. Holds(call'[p], v) /\ Known' = Known /\ store' = store
    BY <1>0, <1>1, ExistsFields, KnownSame DEF Exists
  <2> QED  BY <2>1, MendedKept DEF Holds
<1>2. CASE Touch(p)
  <2>1. v.existing \subseteq Known /\ Holds(call'[p], v) /\ store' = store
    BY <1>0, <1>2, TouchFields DEF Touch, At, Progress
  <2>2. Known' = Known
    BY <1>0, <1>2, <2>1, StampedKnown DEF Touch
  <2> QED  BY <2>1, <2>2, MendedKept DEF Holds
<1>3. CASE AddDocuments(p)
  <2>1. Holds(call'[p], v) /\ Known' = Known /\ store \subseteq store'
    BY <1>0, <1>3, AddFields, KnownSame DEF AddDocuments
  <2> QED  BY <2>1, MendedKept DEF Holds
<1>4. CASE Record(p)
  <2>1. /\ Same(call'[p], v)
        /\ v.mode = "incremental" => call'[p].seen = v.seen \cup v.batch /\ call'[p].batch = v.batch
    BY <1>0, <1>4, RecordFields
  <2>2. v.pc = "record" /\ store' = store  BY <1>4 DEF Record, At
  <2>3. Known' = Known \cup v.batch
    <3>1. rows' = Stamped(v.batch, TRUE)  BY <1>0, <1>4 DEF Record, CallType
    <3> QED  BY <1>0, <3>1, StampedKnown
  <2>4. ASSUME NEW c \in v.batch, c \notin Known PROVE c \in store
    <3>1. v.existing \subseteq Known  BY <2>2 DEF Progress
    <3>2. Added(c, v)  BY <1>0, <2>2, <2>4, <3>1 DEF Stage
    <3> QED  BY <3>2 DEF Added
  <2> QED  BY <2>1, <2>2, <2>3, <2>4, MendedKept
<1>5. CASE ListKeys(p)
  <2>1. /\ Same(call'[p], v) /\ call'[p].seen = v.seen /\ call'[p].batch = v.batch
        /\ Known' = Known /\ store' = store
    BY <1>0, <1>5, ListFields, KnownSame DEF ListKeys
  <2> QED  BY <2>1, MendedKept
<1>6. CASE DeleteVectors(p)
  <2>1. Holds(call'[p], v) /\ Known' = Known /\ store' = store \ v.keys /\ v.pc = "vectors"
    BY <1>0, <1>6, DeleteVectorsFields, KnownSame DEF DeleteVectors, At
  <2>2. v.mode = "incremental" => v.batch \subseteq v.seen
    BY <2>1 DEF Progress, Cleaning
  <2>3. v.mode = "incremental" => v.keys \cap v.seen = {}  BY DEF Own, OwnOf
  <2> QED  BY <2>1, <2>2, <2>3, MendedKept DEF Holds
<1>7. CASE DeleteKeys(p)
  <2> SUFFICES ASSUME call'[p].mode = "incremental" PROVE Mended(call[p])'
    BY DEF Mended
  <2>1. /\ Same(call'[p], v) /\ call'[p].seen = v.seen /\ call'[p].keys = {} /\ v.pc = "keys"
    BY <1>0, <1>7, DeleteKeysFields DEF DeleteKeys, At
  <2>2. v.mode = "incremental" /\ call'[p].docs = v.docs  BY <2>1 DEF Same
  <2>3. Cuts(call'[p], v.todo) /\ call'[p].pc # "list"  BY <1>0, <1>7, <2>2, DeleteKeysFields
  <2>4. v.batch \subseteq v.seen  BY <2>1, <2>2 DEF Progress, Cleaning
  <2>5. PICK n \in Nat : Place(v, n)  BY <2>2 DEF Taken
  <2>6. call'[p].seen = Upto(call'[p].docs, n)  BY <2>1, <2>2, <2>4, <2>5 DEF Place
  <2>7. IsCut(call'[p].docs, n) /\ IsRest(v.todo, call'[p].docs, n)  BY <2>2, <2>5 DEF Place
  <2>8. Work(call'[p]) = Work(v)  BY <2>1, <2>2 DEF Work, Same
  <2>9. Known' \subseteq Known /\ store' = store  BY <1>7 DEF DeleteKeys, Known
  <2>10. \A c \in call'[p].seen : c \in before.known \ before.vectors => c \notin Known' \/ c \in store'
    BY <2>1, <2>2, <2>9 DEF Mended
  <2>11. \A c \in Known' \ call'[p].seen :
           (\E d \in call'[p].seen : Source[c] = Source[d]) => c \in before.recent
    BY <2>1, <2>3 DEF Clean, Through
  <2> QED
    BY <1>0, <2>2, <2>3, <2>6, <2>7, <2>8, <2>10, <2>11, MendedNextBatch
<1> QED  BY <1>1, <1>2, <1>3, <1>4, <1>5, <1>6, <1>7 DEF Step

LEMMA MendedBegun ==
  ASSUME TypeOK, NEW p \in Calls, NEW mode \in Modes, NEW docs \in Loads, Begin(p, mode, docs),
         BeforeType, before' = before, \A c \in Chunks : Mends(c, Work(call'[p]))
  PROVE  Mended(call[p])'
<1> SUFFICES ASSUME call'[p].mode = "incremental" PROVE Mended(call[p])'
  BY DEF Mended
<1>1. call'[p].docs = docs /\ call'[p].seen = {} /\ Cuts(call'[p], docs)
  BY BeginFields
<1>2. docs \in Seq(Chunks)  BY IndexingAssumption
<1>3. IsCut(docs, 0) /\ IsRest(docs, docs, 0) /\ Upto(docs, 0) = {} /\ 0 \in Nat
  BY <1>2, PlaceOfNone
<1> QED  BY <1>1, <1>2, <1>3, MendedNextBatch

(* Nothing but the stores before the call matters for what is to be mended. *)
LEMMA MendsSame ==
  ASSUME NEW c, NEW w, Mends(c, w), before'.vectors = before.vectors, before'.known = before.known,
         before'.recent \subseteq before.recent
  PROVE  Mends(c, w)'
BY DEF Mends, Before, IsCut, Upto, Elements

(* A call that repairs what is left, and comes to its end. *)
LEMMA Heals ==
  ASSUME Own, NEW p \in Calls, Progress(call[p]), At(p, "done"), BeforeType, Clean(call[p]),
         Mended(call[p]), \A c \in Chunks : Stage(c, call[p]),
         \A c \in Chunks : Mends(c, Work(call[p]))
  PROVE  store = Known
<1> DEFINE v == call[p]
<1>0. /\ TypeOK /\ v.pc = "done" /\ v.keys = {} /\ v \in CallType
      /\ store \subseteq Chunks /\ Known \subseteq Chunks
  BY DEF Own, Listed, At, TypeOK, Known, CallType
<1>1. /\ v.mode # "delete" => Elements(v.docs) = v.seen
      /\ v.mode = "delete" => v.seen = {}
  BY <1>0 DEF Progress, Cleaning
<1>2. ASSUME NEW c \in Chunks
      PROVE  /\ c \in v.seen => Indexed(c, v)
             /\ c \notin v.seen => Untouched(c, v) \/ Dropped(c, v)
  <2>1. StampedBy(v) = v.seen  BY <1>0 DEF StampedBy
  <2> QED  BY <1>0, <1>2, <2>1 DEF Stage
<1>3. ASSUME NEW c \in Chunks PROVE c \in store <=> c \in Known
  <2>1. /\ c \in before.vectors \ before.known => v.mode # "delete" /\ c \in v.seen
        /\ c \in before.known \ before.vectors =>
             /\ v.mode # "delete" => c \notin before.recent
             /\ \/ v.mode = "delete" /\ c \in v.batch
                \/ v.mode = "full" /\ c \notin v.seen
                \/ v.mode = "incremental" /\ \E k : Before(c, v.docs, k)
    BY <1>1, WorkIs DEF Mends
  <2>2. CASE c \in v.seen
    <3>1. Indexed(c, v)  BY <1>2, <2>2
    <3>2. ASSUME c \notin store PROVE FALSE
      <4>1. c \in Known /\ c \in before.known \ before.vectors  BY <3>1, <3>2 DEF Indexed
      <4>2. v.mode # "incremental"  BY <2>2, <3>2, <4>1 DEF Mended
      <4> QED  BY <1>1, <2>1, <2>2, <4>1, <4>2
    <3> QED  BY <3>1, <3>2 DEF Indexed
  <2>3. CASE c \notin v.seen /\ Dropped(c, v)
    BY <2>3 DEF Dropped
  <2>4. CASE c \notin v.seen /\ Untouched(c, v)
    <3>1. (c \in Known <=> c \in before.known) /\ (c \in store <=> c \in before.vectors)
      BY <2>4 DEF Untouched
    <3>2. ASSUME c \in Known, c \notin store PROVE FALSE
      <4>1. c \in before.known \ before.vectors  BY <3>1, <3>2
      <4>2. CASE v.mode = "delete"
        BY <1>0, <2>1, <3>2, <4>1, <4>2 DEF Clean
      <4>3. CASE v.mode = "full"
        BY <1>0, <2>1, <2>4, <3>2, <4>1, <4>3 DEF Clean
      <4>4. CASE v.mode = "incremental"
        <5>1. PICK k : Before(c, v.docs, k)  BY <2>1, <4>1, <4>4
        <5>2. Upto(v.docs, k) \subseteq v.seen
          BY <1>0, <1>1, <4>4, <5>1, CutType DEF Before, CallType
        <5>3. Through(v) = v.seen  BY <1>0 DEF Through
        <5>4. \E d \in Through(v) : Source[c] = Source[d]  BY <5>1, <5>2, <5>3 DEF Before
        <5> QED  BY <1>0, <2>1, <2>4, <3>2, <4>1, <4>4, <5>4 DEF Clean
      <4> QED  BY <2>1, <4>1, <4>2, <4>3, <4>4
    <3> QED  BY <2>1, <2>4, <3>1, <3>2
  <2> QED  BY <1>2, <2>2, <2>3, <2>4
<1> QED  BY <1>0, <1>3

(* A call that fails leaves nothing that it would not repair itself. *)
LEMMA FailMends ==
  ASSUME Own, NEW p \in Calls, Progress(call[p]), Fail(p), BeforeType, Taken(call[p]),
         Mended(call[p]), \A c \in Chunks : Stage(c, call[p]),
         NEW w, w = Work(call[p]), \A c \in Chunks : Mends(c, w),
         before'.vectors = store', before'.known = Known', before'.recent = Recent',
         NEW c \in Chunks
  PROVE  Mends(c, w)'
<1> DEFINE v == call[p]
<1>0. /\ TypeOK /\ v \in CallType /\ OwnOf(p) /\ v.docs \in Seq(Chunks)
      /\ v.batch \subseteq Chunks /\ v.existing \subseteq Chunks /\ time \in Nat /\ v.start \in Nat
  BY DEF Own, TypeOK, CallType
<1>1. time' = time  BY DEF Fail
<1>2. PICK more \in SUBSET (IF v.pc = "add" THEN v.batch \ v.existing ELSE {}) :
         store' = store \cup more
  BY DEF Fail
<1>3. PICK some \in SUBSET (CASE v.pc = "touch" -> v.existing
                              [] v.pc = "record" -> v.batch
                              [] OTHER -> {}) :
        rows' = Stamped(some, v.pc = "record")
  BY DEF Fail
<1>4. /\ some \subseteq Chunks
      /\ v.pc \notin {"touch", "record"} => some = {}
      /\ v.pc = "touch" => some \subseteq v.existing
      /\ v.pc = "record" => some \subseteq v.batch
  BY <1>0, <1>3
<1>5. Known' = Known \cup some  BY <1>0, <1>3, <1>4, StampedKnown
<1>6. c \notin some => rows'[c] = rows[c]  BY <1>3 DEF Stamped
<1>7. /\ w[1] = v.mode /\ w[2] = v.docs /\ w[3] = IF v.mode = "delete" THEN v.batch ELSE {}
  BY WorkIs
<1>8. /\ v.mode # "delete" => v.seen \cup v.batch \subseteq Elements(v.docs)
      /\ v.mode = "delete" => v.seen = {} /\ v.pc \notin {"touch", "add", "record"}
      /\ v.pc \in {"touch", "add", "record"} => v.existing = v.batch \cap Known
  BY DEF Progress, Cleaning
<1> DEFINE Of ==
      \/ v.mode = "delete" /\ c \in v.batch
      \/ v.mode = "full" /\ c \notin Elements(v.docs)
      \/ v.mode = "incremental" /\ \E k : Before(c, v.docs, k)
<1>9. /\ c \in before.vectors \ before.known => v.mode # "delete" /\ c \in Elements(v.docs)
      /\ c \in before.known \ before.vectors => (v.mode # "delete" => c \notin before.recent) /\ Of
  BY <1>7 DEF Mends
(* Where a chunk that the call has come to is half-deleted, it is not known. *)
<1>10. ASSUME c \in v.seen \cup v.batch, v.mode # "delete", c \in before.known \ before.vectors,
             c \in Known, c \notin store
      PROVE  FALSE
  <2>1. v.mode # "incremental"  BY <1>10 DEF Mended
  <2> QED  BY <1>8, <1>9, <1>10, <2>1
<1>11. ASSUME c \in store, c \notin Known' PROVE v.mode # "delete" /\ c \in Elements(v.docs)
  <2>1. c \notin Known  BY <1>5, <1>11
  <2>2. c \notin StampedBy(v)  BY <2>1 DEF Stage, Indexed
  <2>3. CASE v.pc = "record" /\ c \in v.batch
    BY <1>8, <2>3
  <2>4. ~ (v.pc = "keys" /\ c \in v.keys)  BY <2>1 DEF Stage
  <2>5. CASE Untouched(c, v)
    BY <1>9, <1>11, <2>1, <2>5 DEF Untouched
  <2>6. ~ Dropped(c, v)  BY <1>11 DEF Dropped
  <2> QED  BY <2>2, <2>3, <2>4, <2>5, <2>6 DEF Stage
<1>12. ASSUME c \in Known', c \notin store
       PROVE  (v.mode # "delete" => c \notin Recent') /\ Of
  <2>1. c \notin StampedBy(v)
    <3> SUFFICES ASSUME c \in StampedBy(v) PROVE FALSE
      OBVIOUS
    <3>1. c \in Known /\ c \in before.known \ before.vectors
      BY <1>12 DEF Stage, Indexed
    <3>2. c \in v.seen \cup v.batch /\ v.mode # "delete"  BY <1>8 DEF StampedBy
    <3> QED  BY <1>10, <1>12, <3>1, <3>2
  <2>2. ~ (v.pc = "record" /\ c \in v.batch)
    <3> SUFFICES ASSUME v.pc = "record", c \in v.batch PROVE FALSE
      OBVIOUS
    <3>1. c \notin v.existing  BY <2>1 DEF StampedBy
    <3>2. Added(c, v)  BY <3>1 DEF Stage
    <3> QED  BY <1>12, <3>2 DEF Added
  <2>3. ASSUME c \notin some, v.mode # "delete", rows[c].at < v.start PROVE c \notin Recent'
    <3>1. v.start <= time  BY <1>0, <2>3 DEF OwnOf
    <3>2. c \in Known  BY <1>5, <1>12, <2>3
    <3>3. rows[c].at \in Nat  BY <1>0, <3>2 DEF TypeOK, Known, Row
    <3>4. rows[c].at # time  BY <1>0, <2>3, <3>1, <3>3
    <3> QED  BY <1>1, <1>6, <2>3, <3>4 DEF Recent
  <2>4. CASE v.pc = "keys" /\ c \in v.keys
    <3>1. c \notin v.seen /\ c \in CleanUp(v) /\ (v.mode # "delete" => rows[c].at < v.start)
      BY <2>4 DEF Stage
    <3>2. c \notin some  BY <1>4, <2>4
    <3>3. Of
      <4>1. CASE v.mode = "delete"
        BY <3>1, <4>1 DEF CleanUp
      <4>2. CASE v.mode = "full"
        BY <3>1, <4>2 DEF CleanUp
      <4>3. CASE v.mode = "incremental"
        <5>1. PICK n \in Nat : Place(v, n)  BY <4>3 DEF Taken
        <5>2. v.batch \subseteq v.seen  BY <2>4, <4>3 DEF Progress, Cleaning
        <5>3. v.seen = Upto(v.docs, n) /\ IsCut(v.docs, n)  BY <5>1, <5>2 DEF Place
        <5>4. \E d \in v.seen : Source[c] = Source[d]  BY <3>1, <4>3 DEF CleanUp
        <5>5. Before(c, v.docs, n)  BY <3>1, <5>3, <5>4 DEF Before
        <5> QED  BY <4>3, <5>5
      <4>4. CASE v.mode \notin {"delete", "full", "incremental"}
        BY <3>1, <4>4 DEF CleanUp
      <4> QED  BY <4>1, <4>2, <4>3, <4>4
    <3> QED  BY <2>3, <3>1, <3>2, <3>3
  <2>5. CASE Untouched(c, v)
    <3>1. c \in Known
      BY <1>4, <1>5, <1>8, <1>12, <2>2
    <3>2. c \in before.known \ before.vectors /\ AsOld(c, v)  BY <1>12, <2>5, <3>1 DEF Untouched
    <3>3. c \notin some
      <4>1. c \in some => c \in v.batch /\ v.mode # "delete"  BY <1>4, <1>8, <2>2
      <4> QED  BY <1>10, <1>12, <3>1, <3>2, <4>1
    <3>4. v.mode # "delete" => rows[c].at < v.start
      <4>1. rows[c].at \in Nat  BY <1>0, <3>1 DEF TypeOK, Known, Row
      <4> QED  BY <1>0, <1>9, <3>2, <4>1 DEF AsOld
    <3> QED  BY <1>9, <2>3, <3>2, <3>3, <3>4
  <2>6. ~ Dropped(c, v)
    BY <1>4, <1>5, <1>8, <1>12, <2>2 DEF Dropped
  <2> QED  BY <2>1, <2>2, <2>4, <2>5, <2>6 DEF Stage
<1> HIDE DEF Of
<1>13. /\ c \in before'.vectors \ before'.known => w[1] # "delete" /\ c \in Elements(w[2])
       /\ c \in before'.known \ before'.vectors =>
            (w[1] # "delete" => c \notin before'.recent) /\ Of
  <2>1. c \in more => v.mode # "delete" /\ c \in Elements(v.docs)  BY <1>8
  <2> QED  BY <1>7, <1>11, <1>12, <1>2, <2>1
<1>14. Of <=> \/ w[1] = "delete" /\ c \in w[3]
              \/ w[1] = "full" /\ c \notin Elements(w[2])
              \/ w[1] = "incremental" /\ \E k : Before(c, w[2], k)
  BY <1>7 DEF Of
<1> QED  BY <1>13, <1>14 DEF Mends, Elements, Before, IsCut, Upto

LEMMA SuspectsIs ==
  ASSUME NEW p, Calls = {p}
  PROVE  {Work(call[q]) : q \in {r \in Calls : ~ At(r, "idle")}}
           = IF At(p, "idle") THEN {} ELSE {Work(call[p])}
<1>1. CASE At(p, "idle")
  <2>1. {r \in Calls : ~ At(r, "idle")} = {}  BY <1>1
  <2> QED  BY <1>1, <2>1
<1>2. CASE ~ At(p, "idle")
  <2>1. {r \in Calls : ~ At(r, "idle")} = {p}  BY <1>2
  <2> QED  BY <1>2, <2>1
<1> QED  BY <1>1, <1>2

LEMMA HealingNext ==
  ASSUME NEW p, Calls = {p}, Base(p), Base(p)', Watched(p), Watched(p)', Taken(call[p]), Healing(p),
         [AuditNext]_auditVars
  PROVE  Healing(p)'
<1> DEFINE v == call[p]
<1>0. Own /\ TypeOK /\ p \in Calls /\ Progress(v)  BY DEF Base, Own
<1>1. [Next]_vars  BY DEF AuditNext, auditVars, vars
<1>2. awaits' = awaits  BY <1>1, AwaitsStays
<1> SUFFICES ASSUME awaits, awaits' PROVE Healing(p)'
  BY <1>2 DEF Healing
<1>3. /\ BeforeType /\ pending = {}
      /\ At(p, "idle") => before.vectors = store /\ before.known = Known /\ before.recent = Recent
      /\ ~ At(p, "idle") => (\A c \in Chunks : Stage(c, v)) /\ Clean(v)
  BY DEF Watched
<1>4. /\ suspects = {} => before.vectors = before.known
      /\ \A w \in suspects : suspects = {w} => \A c \in Chunks : Mends(c, w)
      /\ ~ At(p, "idle") /\ suspects \subseteq {Work(v)} => Mended(v)
  BY DEF Healing
<1>5. /\ At(p, "idle")' => before'.vectors = store' /\ before'.known = Known' /\ before'.recent = Recent'
      /\ ~ At(p, "idle")' => Clean(call[p])'
  BY DEF Watched
<1>6. ASSUME suspects' = {} => before'.vectors = before'.known,
             \A w \in suspects' : suspects' = {w} => \A c \in Chunks : Mends(c, w)',
             ~ At(p, "idle")' /\ suspects' \subseteq {Work(call'[p])} => Mended(call[p])'
      PROVE  Healing(p)'
  BY <1>6 DEF Healing, Work
<1>7. ASSUME UNCHANGED <<store, rows, call>>, UNCHANGED before, NEW w, NEW c \in Chunks, Mends(c, w)
      PROVE  Mends(c, w)'
  BY <1>7, MendsSame
<1>8. CASE UNCHANGED auditVars
  <2>1. UNCHANGED <<store, rows, call, before, suspects>>  BY <1>8 DEF auditVars, vars
  <2>2. Known' = Known  BY <2>1, KnownSame
  <2>3. Mended(v) => Mended(call[p])'  BY <2>1, <2>2 DEF Mended
  <2> QED  BY <1>4, <1>6, <1>7, <2>1, <2>3 DEF At
<1>9. CASE AuditNext /\ At(p, "idle")'
  <2>1. suspects' = IF store' = Known' THEN {}
                    ELSE suspects \cup (IF At(p, "idle") THEN {} ELSE {Work(v)})
    <3>1. ~ Busy'  BY <1>9, BusyIs
    <3> QED  BY <1>9, <3>1, SuspectsIs DEF AuditNext
  <2>2. CASE store' = Known'
    BY <1>5, <1>6, <1>9, <2>1, <2>2
  <2>3. CASE store' # Known' /\ At(p, "idle")
    <3>1. suspects' = suspects  BY <2>1, <2>3
    <3>2. UNCHANGED <<store, rows, call>> /\ time' = time + 1
      <4>1. ~ \E mode \in Modes, docs \in Loads : Begin(p, mode, docs)
        BY <1>0, <1>9, BeginFields DEF At
      <4>2. ~ \E target \in Targets : BeginDelete(p, target)
        BY <1>0, <1>9, BeginDeleteFields DEF At
      <4>3. ~ Step(p) /\ ~ Fail(p)
        BY <2>3 DEF Step, Exists, Touch, AddDocuments, Record, ListKeys, DeleteVectors, DeleteKeys,
             Return, Fail, At
      <4>4. ~ \E c \in Chunks : LandDelete(c) \/ LoseDelete(c)
        BY <1>3 DEF LandDelete, LoseDelete
      <4> QED  BY <1>9, <4>1, <4>2, <4>3, <4>4 DEF AuditNext, Next, Tick
    <3>3. Known' = Known  BY <3>2, KnownSame
    <3>4. Recent' = {}
      <4> SUFFICES ASSUME NEW c \in Known, rows[c].at = time + 1 PROVE FALSE
        BY <3>2, <3>3 DEF Recent
      <4>1. rows[c].at \in Nat /\ time \in Nat /\ rows[c].at <= time
        BY <1>0 DEF TypeOK, Known, Row, Base, RowsPast
      <4> QED  BY <4>1
    <3>5. before'.vectors = before.vectors /\ before'.known = before.known
          /\ before'.recent \subseteq before.recent
      BY <1>3, <1>5, <1>9, <2>3, <3>2, <3>3, <3>4
    <3>6. ASSUME NEW w \in suspects', suspects' = {w}, NEW c \in Chunks PROVE Mends(c, w)'
      BY <1>4, <3>1, <3>5, <3>6, MendsSame
    <3>7. suspects' = {} => before'.vectors = before'.known
      BY <1>4, <3>1, <3>5
    <3> QED  BY <1>6, <1>9, <3>6, <3>7
  <2>4. CASE store' # Known' /\ ~ At(p, "idle")
    <3>1. suspects' = suspects \cup {Work(v)}  BY <2>1, <2>4
    <3>2. ASSUME NEW w \in suspects', suspects' = {w}, NEW c \in Chunks PROVE Mends(c, w)'
      <4>1. w = Work(v) /\ suspects \subseteq {w}  BY <3>1, <3>2
      <4>2. Mended(v)  BY <1>4, <2>4, <4>1
      <4>3. \A d \in Chunks : Mends(d, w)  BY <4>1, MendsNow
      <4>4. CASE Return(p)
        <5>1. At(p, "done") /\ UNCHANGED <<store, rows>>  BY <4>4 DEF Return
        <5>2. store = Known  BY <1>0, <1>3, <2>4, <4>1, <4>2, <4>3, <5>1, Heals
        <5> QED  BY <2>4, <5>1, <5>2, KnownSame
      <4>5. CASE Fail(p)
        BY <1>0, <1>3, <1>5, <1>9, <2>4, <4>1, <4>2, <4>3, <4>5, FailMends
      <4>6. Return(p) \/ Fail(p)
        <5>1. ~ Step(p) \/ Return(p)  BY <1>0, <1>9, StillBusy DEF At
        <5>2. ~ UNCHANGED call  BY <1>9, <2>4 DEF At
        <5>3. ~ \E mode \in Modes, docs \in Loads : Begin(p, mode, docs)
          BY <2>4 DEF Begin
        <5>4. ~ \E target \in Targets : BeginDelete(p, target)
          BY <2>4 DEF BeginDelete
        <5> QED
          BY <1>9, <5>1, <5>2, <5>3, <5>4 DEF AuditNext, Next, Tick, LandDelete, LoseDelete
      <4> QED  BY <4>4, <4>5, <4>6
    <3>3. suspects' # {}  BY <3>1
    <3> QED  BY <1>6, <1>9, <3>2, <3>3
  <2> QED  BY <2>2, <2>3, <2>4
<1>10. CASE AuditNext /\ ~ At(p, "idle")'
  <2>1. /\ before' = before
        /\ suspects' = suspects \cup (IF At(p, "idle") THEN {} ELSE {Work(v)})
    <3>1. Busy'  BY <1>10, BusyIs
    <3> QED  BY <1>10, <3>1, SuspectsIs DEF AuditNext
  <2>2. suspects' = {} => before'.vectors = before'.known  BY <1>4, <2>1
  <2>3. ASSUME NEW w \in suspects', suspects' = {w}, NEW c \in Chunks PROVE Mends(c, w)'
    <3>1. suspects \subseteq {w}  BY <2>1, <2>3
    <3>2. Mends(c, w)  BY <3>1, MendsNow
    <3> QED  BY <2>1, <3>2, MendsSame
  <2>4. ASSUME suspects' \subseteq {Work(call'[p])} PROVE Mended(call[p])'
    <3>1. ASSUME NEW w, suspects \subseteq {w} PROVE \A c \in Chunks : Mends(c, w)
      BY <3>1, MendsNow
    <3>2. suspects \subseteq {Work(call'[p])}  BY <2>1, <2>4
    <3>3. ASSUME NEW mode \in Modes, NEW docs \in Loads, Begin(p, mode, docs) PROVE Mended(call[p])'
      <4>1. \A c \in Chunks : Mends(c, Work(call'[p]))  BY <3>1, <3>2
      <4> QED  BY <1>0, <1>3, <2>1, <3>3, <4>1, MendedBegun
    <3>4. ASSUME NEW target \in Targets, BeginDelete(p, target) PROVE Mended(call[p])'
      BY <1>0, <3>4, BeginDeleteFields DEF Mended
    <3>5. ASSUME ~ At(p, "idle") PROVE Mended(v) /\ \A c \in Chunks : Mends(c, Work(v))
      <4>1. suspects \subseteq {Work(v)}  BY <2>1, <2>4, <3>5
      <4> QED  BY <1>4, <3>1, <3>5, <4>1
    <3>6. CASE Step(p)
      <4>1. ~ Return(p)  BY <1>0, <1>10, EndFields DEF At
      <4>2. ~ At(p, "idle")  BY <1>0, <3>6, <4>1, StillBusy
      <4> QED  BY <1>0, <1>3, <1>5, <1>10, <2>1, <3>5, <3>6, <4>1, <4>2, MendedStep
    <3>7. ~ Fail(p)  BY <1>0, <1>10, EndFields DEF At
    <3>8. CASE Tick
      <4>1. UNCHANGED <<store, rows, call>>  BY <3>8 DEF Tick
      <4>2. Known' = Known /\ ~ At(p, "idle")  BY <1>10, <4>1, KnownSame DEF At
      <4> QED  BY <2>1, <3>5, <4>1, <4>2 DEF Mended
    <3>9. ~ \E c \in Chunks : LandDelete(c) \/ LoseDelete(c)
      BY <1>3 DEF LandDelete, LoseDelete
    <3> QED  BY <1>10, <3>3, <3>4, <3>6, <3>7, <3>8, <3>9 DEF AuditNext, Next
  <2> QED  BY <1>6, <2>2, <2>3, <2>4
<1> QED  BY <1>8, <1>9, <1>10

(* Making a call again that failed, wherever and however often, repairs    *)
(* what it left, whatever the documents, the batches and the mode: when it *)
(* completes, the table lists the chunks that have a vector.               *)
THEOREM RetriesHeal ==
  ASSUME NEW CONSTANT p, Calls = {p}
  PROVE  AuditSpec => []RetryHeals
<1>1. AuditInit => Base(p) /\ Watched(p) /\ Taken(call[p]) /\ Healing(p)
  <2> SUFFICES ASSUME AuditInit PROVE Taken(call[p]) /\ Healing(p)
    BY InitBase
  <2>1. /\ Init /\ suspects = {}
        /\ before = [vectors |-> store, known |-> Known, recent |-> Recent, last |-> NoneYet]
    BY DEF AuditInit
  <2>2. call[p] = NoCall /\ store = {} /\ Known = {}  BY <2>1 DEF Init, Known
  <2>3. << >> \in Seq(Chunks)  OBVIOUS
  <2>4. Place(NoCall, 0)  BY <2>3, PlaceOfNone DEF Place, NoCall
  <2>5. Taken(call[p])  BY <2>2, <2>4 DEF Taken
  <2>6. Healing(p)  BY <2>1, <2>2 DEF Healing, At, NoCall
  <2> QED  BY <2>5, <2>6
<1>2. Base(p) /\ Watched(p) /\ Taken(call[p]) /\ Healing(p) /\ [AuditNext]_auditVars
        => Base(p)' /\ Watched(p)' /\ Taken(call[p])' /\ Healing(p)'
  <2> SUFFICES ASSUME Base(p), Watched(p), Taken(call[p]), Healing(p), [AuditNext]_auditVars
               PROVE  Base(p)' /\ Watched(p)' /\ Taken(call[p])' /\ Healing(p)'
    OBVIOUS
  <2>1. [Next]_vars  BY DEF AuditNext, auditVars, vars
  <2>2. Base(p)'  BY <2>1, BaseNext
  <2>3. Watched(p)'  BY <2>2, WatchedNext
  <2>4. Taken(call[p])'  BY <2>1, TakenNext
  <2> QED  BY <2>2, <2>3, <2>4, HealingNext
<1>3. Base(p) /\ Watched(p) /\ Healing(p) => RetryHeals
  <2> SUFFICES ASSUME Base(p), Watched(p), Healing(p), awaits, At(p, "done"),
                      suspects \subseteq {Work(call[p])}
               PROVE  store = Known
    BY DEF RetryHeals
  <2>1. Own /\ p \in Calls /\ Progress(call[p]) /\ ~ At(p, "idle")  BY DEF Base, At
  <2>2. BeforeType /\ Clean(call[p]) /\ \A c \in Chunks : Stage(c, call[p])
    BY <2>1 DEF Watched
  <2>3. Mended(call[p])  BY <2>1 DEF Healing
  <2>4. \A c \in Chunks : Mends(c, Work(call[p]))  BY MendsNow
  <2> QED  BY <2>1, <2>2, <2>3, <2>4, Heals
<1> QED  BY <1>1, <1>2, <1>3, PTL DEF AuditSpec
===========================================================================
