------------------------- MODULE VectorIndexingProofs -------------------------
(***************************************************************************)
(* Theorems about indexing for all chunks, batch sizes, clocks and bounds. *)
(***************************************************************************)
EXTENDS VectorIndexing, SequenceTheorems, FiniteSetTheorems, TLAPS

(* What TypeOK says of a call. *)
CallType ==
  [pc : {"idle", "exists", "touch", "add", "record", "list", "vectors", "keys", "done"},
   mode : Modes \cup {"none", "delete"}, start : Nat,
   docs : Seq(Chunks), todo : Seq(Chunks),
   batch : SUBSET Chunks, existing : SUBSET Chunks, keys : SUBSET Chunks,
   seen : SUBSET Chunks]

LEMMA NoCallType == NoCall \in CallType
BY DEF NoCall, CallType

(* Taking a batch divides what is left: the chunks of the batch and of the *)
(* rest are those there were.                                              *)
LEMMA TakeType ==
  ASSUME NEW s \in Seq(Chunks), s # << >>, NEW size \in Nat, size <= Len(s)
  PROVE  /\ {s[i] : i \in 1..size} \subseteq Chunks
         /\ SubSeq(s, size + 1, Len(s)) \in Seq(Chunks)
         /\ Elements(s) = {s[i] : i \in 1..size} \cup Elements(SubSeq(s, size + 1, Len(s)))
<1> DEFINE rest == SubSeq(s, size + 1, Len(s))
<1>1. Len(s) \in Nat /\ DOMAIN s = 1..Len(s) /\ \A i \in 1..Len(s) : s[i] \in Chunks
  OBVIOUS
<1>2. \A i \in size + 1 .. Len(s) : s[i] \in Chunks  BY <1>1
<1>3. /\ rest \in Seq(Chunks)
      /\ Len(rest) = IF size + 1 <= Len(s) THEN Len(s) - (size + 1) + 1 ELSE 0
      /\ \A i \in 1 .. Len(s) - (size + 1) + 1 : rest[i] = s[size + 1 + i - 1]
  <2>1. size + 1 \in Int /\ Len(s) \in Int  BY <1>1
  <2> QED  BY <1>2, <2>1, SubSeqProperties
<1> HIDE DEF rest
<1>4. Len(rest) = Len(s) - size
  <2>1. CASE size + 1 <= Len(s)
    <3>1. Len(rest) = Len(s) - (size + 1) + 1  BY <2>1, <1>3
    <3> QED  BY <3>1, <1>1
  <2>2. CASE ~ (size + 1 <= Len(s))
    <3>1. Len(rest) = 0  BY <2>2, <1>3
    <3>2. Len(s) \in Nat /\ size \in Nat /\ size <= Len(s)  BY <1>1
    <3>3. size = Len(s)  BY <2>2, <3>2
    <3> QED  BY <3>1, <3>2, <3>3
  <2> QED  BY <2>1, <2>2
<1>5. DOMAIN rest = 1 .. Len(s) - size  BY <1>3, <1>4
<1>6. \A i \in 1 .. Len(s) - size : rest[i] = s[size + i]
  <2> TAKE i \in 1 .. Len(s) - size
  <2>1. i \in 1 .. Len(s) - (size + 1) + 1 /\ size + 1 + i - 1 = size + i  BY <1>1
  <2> QED  BY <2>1, <1>3
<1>7. Elements(s) = {s[i] : i \in 1..size} \cup Elements(rest)
  <2>1. ASSUME NEW j \in 1..Len(s)
        PROVE  s[j] \in {s[i] : i \in 1..size} \cup Elements(rest)
    <3>1. CASE j <= size  BY <3>1, <1>1
    <3>2. CASE j > size
      <4>1. j - size \in 1 .. Len(s) - size  BY <3>2, <1>1
      <4>2. rest[j - size] = s[j]  BY <4>1, <1>6, <1>1
      <4> QED  BY <4>1, <4>2, <1>5 DEF Elements
    <3> QED  BY <3>1, <3>2, <1>1
  <2>2. ASSUME NEW j \in 1 .. Len(s) - size
        PROVE  rest[j] \in Elements(s)
    <3>1. size + j \in 1..Len(s)  BY <1>1
    <3> QED  BY <3>1, <1>6, <1>1 DEF Elements
  <2>3. \A j \in 1..size : s[j] \in Elements(s)  BY <1>1 DEF Elements
  <2> QED  BY <2>1, <2>2, <2>3, <1>1, <1>5 DEF Elements
<1> QED  BY <1>1, <1>3, <1>7 DEF rest

(* NextBatch sets where a call goes on, its batch and the rest. *)
LEMMA NextBatchType ==
  ASSUME NEW u \in CallType
  PROVE  /\ NextBatch(u) \in CallType
         /\ NextBatch(u).pc \in {"exists", "list", "done"}
         /\ NextBatch(u).pc = "exists" <=> u.todo # << >>
         /\ NextBatch(u).pc = "list" => u.mode = "full"
         /\ NextBatch(u).pc = "done" => u.mode # "full"
         /\ Elements(u.todo) = NextBatch(u).batch \cup Elements(NextBatch(u).todo)
         /\ NextBatch(u).docs = u.docs /\ NextBatch(u).mode = u.mode
         /\ NextBatch(u).start = u.start /\ NextBatch(u).seen = u.seen
         /\ NextBatch(u).keys = u.keys
<1> DEFINE size == IF Len(u.todo) < BatchSize THEN Len(u.todo) ELSE BatchSize
           batch == {u.todo[i] : i \in 1..size}
           rest == SubSeq(u.todo, size + 1, Len(u.todo))
<1>1. u.todo \in Seq(Chunks) /\ Len(u.todo) \in Nat  BY DEF CallType
<1>2. size \in Nat /\ size <= Len(u.todo)  BY <1>1, IndexingAssumption
<1>3. CASE u.todo # << >>
  <2>1. /\ batch \subseteq Chunks /\ rest \in Seq(Chunks)
        /\ Elements(u.todo) = batch \cup Elements(rest)
    <3> HIDE DEF size
    <3> QED  BY <1>1, <1>2, <1>3, TakeType
  <2>2. NextBatch(u) = [u EXCEPT !.pc = "exists", !.batch = batch, !.todo = rest]
    BY <1>3 DEF NextBatch
  <2> HIDE DEF batch, rest
  <2> QED  BY <1>3, <2>1, <2>2 DEF CallType
<1>4. CASE u.todo = << >>
  <2>1. NextBatch(u) = [u EXCEPT !.pc = IF u.mode = "full" THEN "list" ELSE "done", !.batch = {}]
    BY <1>4 DEF NextBatch
  <2>2. Elements(u.todo) = {}  BY <1>4 DEF Elements
  <2> QED  BY <1>4, <2>1, <2>2 DEF CallType
<1> QED  BY <1>3, <1>4

(* Stamping gives rows. *)
LEMMA StampedType ==
  ASSUME TypeOK, NEW keys \in SUBSET Chunks, NEW grouped \in BOOLEAN
  PROVE  Stamped(keys, grouped) \in [Chunks -> Row \cup {NoRow}]
<1>1. ASSUME NEW c \in Chunks, c \in Known PROVE rows[c] \in Row
  BY <1>1 DEF TypeOK, Known
<1>2. ASSUME NEW c \in Chunks
      PROVE  [at |-> time, grouped |-> IF c \in Known THEN rows[c].grouped ELSE grouped] \in Row
  BY <1>1 DEF TypeOK, Row
<1> QED  BY <1>2 DEF Stamped, TypeOK

---------------------------------------------------------------------------
(***************************************************************************)
(* Type correctness.                                                       *)
(***************************************************************************)
LEMMA TypeInit == Init => TypeOK
<1> SUFFICES ASSUME Init PROVE TypeOK
  OBVIOUS
<1>1. call \in [Calls -> CallType]  BY NoCallType DEF Init
<1>2. awaits \in BOOLEAN  BY IndexingAssumption DEF Init
<1> QED  BY <1>1, <1>2 DEF Init, TypeOK, CallType

(* A step that leaves every variable in its type but call, and gives one   *)
(* call a value of its type.                                               *)
LEMMA BecomeType ==
  ASSUME TypeOK, NEW p \in Calls, NEW u \in CallType, Become(p, u)
  PROVE  call' \in [Calls -> CallType]
BY DEF TypeOK, CallType, Become

(* A call begins. *)
LEMMA TypeBegun ==
  ASSUME TypeOK, call' \in [Calls -> CallType], calls' = calls + 1,
         UNCHANGED <<awaits, store, rows, pending, time, failures>>
  PROVE  TypeOK'
BY DEF TypeOK, CallType

LEMMA TypeBegin ==
  ASSUME TypeOK, NEW p \in Calls
  PROVE  /\ (\E mode \in Modes, docs \in Loads : Begin(p, mode, docs)) => TypeOK'
         /\ (\E target \in Targets : BeginDelete(p, target)) => TypeOK'
<1>1. ASSUME NEW mode \in Modes, NEW docs \in Loads, Begin(p, mode, docs)
      PROVE  TypeOK'
  <2> DEFINE u == [NoCall EXCEPT !.mode = mode, !.start = time, !.docs = docs, !.todo = docs]
  <2>1. docs \in Seq(Chunks) /\ time \in Nat  BY IndexingAssumption DEF TypeOK
  <2>2. u \in CallType  BY <2>1 DEF NoCall, CallType
  <2> HIDE DEF u
  <2>3. NextBatch(u) \in CallType  BY <2>2, NextBatchType
  <2>4. call' \in [Calls -> CallType]  BY <1>1, <2>3, BecomeType DEF Begin, u
  <2> QED  BY <1>1, <2>4, TypeBegun DEF Begin
<1>2. ASSUME NEW target \in Targets, BeginDelete(p, target)
      PROVE  TypeOK'
  <2>1. target \subseteq Chunks  BY IndexingAssumption
  <2> DEFINE u == [NoCall EXCEPT !.pc = "list", !.mode = "delete", !.batch = target]
  <2>2. u \in CallType  BY <2>1, NoCallType DEF CallType
  <2>3. call' \in [Calls -> CallType]
    <3>1. Become(p, u)  BY <1>2 DEF BeginDelete
    <3> HIDE DEF u
    <3> QED  BY <2>2, <3>1, BecomeType
  <2> QED  BY <1>2, <2>3, TypeBegun DEF BeginDelete
<1> QED  BY <1>1, <1>2

LEMMA TypeStep ==
  ASSUME TypeOK, NEW p \in Calls, Step(p)
  PROVE  TypeOK'
<1> DEFINE v == call[p]
<1>0. v \in CallType  BY DEF TypeOK, CallType
<1>1. CASE Exists(p)
  <2>1. [v EXCEPT !.existing = v.batch \cap Known,
                  !.pc = IF v.batch \cap Known # {} THEN "touch" ELSE "add"] \in CallType
    BY <1>0 DEF CallType
  <2>2. call' \in [Calls -> CallType]  BY <1>1, <2>1, BecomeType DEF Exists
  <2> QED  BY <1>1, <2>2 DEF Exists, TypeOK, CallType
<1>2. CASE Touch(p)
  <2>1. [v EXCEPT !.pc = IF v.existing = v.batch THEN "record" ELSE "add"] \in CallType
    BY <1>0 DEF CallType
  <2>2. call' \in [Calls -> CallType]  BY <1>2, <2>1, BecomeType DEF Touch
  <2>3. rows' \in [Chunks -> Row \cup {NoRow}]  BY <1>0, <1>2, StampedType DEF Touch, CallType
  <2> QED  BY <1>2, <2>2, <2>3 DEF Touch, TypeOK, CallType
<1>3. CASE AddDocuments(p)
  <2>1. [v EXCEPT !.pc = "record"] \in CallType  BY <1>0 DEF CallType
  <2>2. call' \in [Calls -> CallType]  BY <1>3, <2>1, BecomeType DEF AddDocuments
  <2>3. store' \subseteq Chunks  BY <1>0, <1>3 DEF AddDocuments, TypeOK, CallType
  <2> QED  BY <1>3, <2>2, <2>3 DEF AddDocuments, TypeOK, CallType
<1>4. CASE Record(p)
  <2> DEFINE u == [v EXCEPT !.seen = v.seen \cup v.batch]
  <2>1. u \in CallType  BY <1>0 DEF CallType
  <2>2. [u EXCEPT !.pc = "list"] \in CallType  BY <2>1 DEF CallType
  <2>3. NextBatch(u) \in CallType
    <3> HIDE DEF u
    <3> QED  BY <2>1, NextBatchType
  <2>4. call' \in [Calls -> CallType]  BY <1>4, <2>2, <2>3, BecomeType DEF Record
  <2>5. rows' \in [Chunks -> Row \cup {NoRow}]  BY <1>0, <1>4, StampedType DEF Record, CallType
  <2> QED  BY <1>4, <2>4, <2>5 DEF Record, TypeOK, CallType
<1>5. CASE ListKeys(p)
  <2>1. PICK keys \in SUBSET Stale(v) :
          Become(p, [v EXCEPT !.keys = keys,
                              !.pc = IF v.mode = "full" /\ keys = {} THEN "done" ELSE "vectors"])
    BY <1>5 DEF ListKeys
  <2>2. keys \subseteq Chunks  BY DEF Stale, Known
  <2>3. [v EXCEPT !.keys = keys,
                  !.pc = IF v.mode = "full" /\ keys = {} THEN "done" ELSE "vectors"] \in CallType
    BY <1>0, <2>2 DEF CallType
  <2>4. call' \in [Calls -> CallType]  BY <2>1, <2>3, BecomeType
  <2> QED  BY <1>5, <2>4 DEF ListKeys, TypeOK, CallType
<1>6. CASE DeleteVectors(p)
  <2>1. [v EXCEPT !.pc = "keys"] \in CallType  BY <1>0 DEF CallType
  <2>2. call' \in [Calls -> CallType]  BY <1>6, <2>1, BecomeType DEF DeleteVectors
  <2>3. store' \subseteq Chunks /\ pending' \subseteq Chunks
    BY <1>0, <1>6 DEF DeleteVectors, TypeOK, CallType
  <2> QED  BY <1>6, <2>2, <2>3 DEF DeleteVectors, TypeOK, CallType
<1>7. CASE DeleteKeys(p)
  <2> DEFINE u == [v EXCEPT !.keys = {}]
             after == CASE u.mode = "full" -> [u EXCEPT !.pc = "list"]
                        [] u.mode = "delete" -> [u EXCEPT !.pc = "done"]
                        [] OTHER -> NextBatch(u)
  <2>1. u \in CallType  BY <1>0 DEF CallType
  <2>2. [u EXCEPT !.pc = "list"] \in CallType /\ [u EXCEPT !.pc = "done"] \in CallType
    BY <2>1 DEF CallType
  <2>3. NextBatch(u) \in CallType
    <3> HIDE DEF u
    <3> QED  BY <2>1, NextBatchType
  <2>4. Become(p, after)  BY <1>7 DEF DeleteKeys
  <2>5. after \in CallType
    <3> HIDE DEF u
    <3> QED  BY <2>2, <2>3
  <2>6. call' \in [Calls -> CallType]
    <3> HIDE DEF after
    <3> QED  BY <2>4, <2>5, BecomeType
  <2>7. rows' \in [Chunks -> Row \cup {NoRow}]  BY <1>7 DEF DeleteKeys, TypeOK
  <2> QED  BY <1>7, <2>6, <2>7 DEF DeleteKeys, TypeOK, CallType
<1>8. CASE Return(p)
  <2>1. call' \in [Calls -> CallType]  BY <1>8, NoCallType, BecomeType DEF Return
  <2> QED  BY <1>8, <2>1 DEF Return, TypeOK, CallType
<1> QED  BY <1>1, <1>2, <1>3, <1>4, <1>5, <1>6, <1>7, <1>8 DEF Step

LEMMA TypeFail ==
  ASSUME TypeOK, NEW p \in Calls, Fail(p)
  PROVE  TypeOK'
<1> DEFINE v == call[p]
           written == CASE v.pc = "touch" -> v.existing
                        [] v.pc = "record" -> v.batch
                        [] OTHER -> {}
<1>1. v \in CallType  BY DEF TypeOK, CallType
<1>2. written \subseteq Chunks  BY <1>1 DEF CallType
<1>3. PICK some \in SUBSET written : rows' = Stamped(some, v.pc = "record")
  BY DEF Fail
<1> HIDE DEF written
<1>4. rows' \in [Chunks -> Row \cup {NoRow}]
  <2>1. some \in SUBSET Chunks  BY <1>2
  <2>2. (v.pc = "record") \in BOOLEAN  OBVIOUS
  <2> QED  BY <1>3, <2>1, <2>2, StampedType
<1>5. call' \in [Calls -> CallType]  BY NoCallType, BecomeType DEF Fail
<1>6. failures' \in Nat  BY DEF Fail, TypeOK
<1>7. store' \subseteq Chunks
  <2>1. PICK more \in SUBSET (IF v.pc = "add" THEN v.batch \ v.existing ELSE {}) :
          store' = store \cup more
    BY DEF Fail
  <2>2. v.batch \subseteq Chunks /\ store \subseteq Chunks  BY <1>1 DEF CallType, TypeOK
  <2> QED  BY <2>1, <2>2
<1> QED  BY <1>4, <1>5, <1>6, <1>7 DEF Fail, TypeOK, CallType

LEMMA TypeNext ==
  ASSUME TypeOK, [Next]_vars
  PROVE  TypeOK'
<1>1. CASE \E c \in Chunks : LandDelete(c) \/ LoseDelete(c)
  BY <1>1 DEF LandDelete, LoseDelete, TypeOK
<1>2. CASE Tick
  BY <1>2 DEF Tick, TypeOK
<1>3. CASE UNCHANGED vars
  BY <1>3 DEF vars, TypeOK
<1> QED  BY <1>1, <1>2, <1>3, TypeBegin, TypeStep, TypeFail DEF Next

(* The variables keep their types, in particular every row a group id.     *)
THEOREM TypeCorrect == Spec => []TypeOK
<1>1. Init => TypeOK  BY TypeInit
<1>2. TypeOK /\ [Next]_vars => TypeOK'  BY TypeNext
<1> QED  BY <1>1, <1>2, PTL DEF Spec

---------------------------------------------------------------------------
(***************************************************************************)
(* OwnWorkStays: the chunks a call has recorded carry a stamp that is no   *)
(* older than its start, because every stamp is the current time and the   *)
(* clock does not go back; what it lists as stale is older.                *)
(***************************************************************************)
OwnOf(p) ==
  call[p].mode # "delete" =>
    /\ call[p].start <= time
    /\ \A c \in call[p].seen : rows[c] = NoRow \/ rows[c].at >= call[p].start
    /\ call[p].keys \cap call[p].seen = {}

(* Keys are only held from being listed to being deleted. *)
Listed(p) == call[p].pc \notin {"vectors", "keys"} => call[p].keys = {}

Own == TypeOK /\ \A p \in Calls : Listed(p) /\ OwnOf(p)

(* A row is left alone, deleted or stamped with the time. *)
RowsMoveOn == \A c \in Chunks : rows'[c] = rows[c] \/ rows'[c] = NoRow \/ rows'[c].at = time

LEMMA StampedMovesOn ==
  ASSUME TypeOK, NEW keys, NEW grouped, rows' = Stamped(keys, grouped)
  PROVE  RowsMoveOn /\ \A c \in keys \cap Chunks : rows'[c].at = time
BY DEF TypeOK, Stamped, RowsMoveOn

(* What a step has to respect for a call to keep its work. *)
LEMMA OwnKept ==
  ASSUME TypeOK, TypeOK', NEW p \in Calls, OwnOf(p), RowsMoveOn, time' >= time,
         call'[p].mode = call[p].mode, call'[p].start = call[p].start,
         \A c \in call'[p].seen : c \in call[p].seen \/ rows'[c].at = time,
         call'[p].keys \cap call'[p].seen = {}
  PROVE  OwnOf(p)'
<1> SUFFICES ASSUME call[p].mode # "delete"
             PROVE  /\ call[p].start <= time'
                    /\ \A c \in call'[p].seen : rows'[c] = NoRow \/ rows'[c].at >= call[p].start
  BY DEF OwnOf
<1>1. call[p].start \in Nat /\ time \in Nat /\ time' \in Nat  BY DEF TypeOK
<1>2. call[p].start <= time  BY DEF OwnOf
<1>3. ASSUME NEW c \in call'[p].seen
      PROVE  rows'[c] = NoRow \/ rows'[c].at >= call[p].start
  <2>1. c \in Chunks  BY DEF TypeOK
  <2>2. CASE rows'[c].at = time  BY <2>2, <1>1, <1>2
  <2>3. CASE c \in call[p].seen /\ rows'[c] = rows[c]  BY <2>3 DEF OwnOf
  <2> QED  BY <2>1, <2>2, <2>3 DEF RowsMoveOn
<1> QED  BY <1>1, <1>2, <1>3

(* A call that is not making the step. *)
LEMMA OwnOfOthers ==
  ASSUME TypeOK, TypeOK', NEW p \in Calls, OwnOf(p), RowsMoveOn, time' >= time,
         call'[p] = call[p]
  PROVE  OwnOf(p)'
<1>1. call[p].keys \cap call[p].seen = {} \/ call[p].mode = "delete"  BY DEF OwnOf
<1>2. CASE call[p].mode = "delete"  BY <1>2 DEF OwnOf
<1>3. CASE call[p].keys \cap call[p].seen = {}  BY <1>3, OwnKept
<1> QED  BY <1>1, <1>2, <1>3

(* A call that begins or ends has nothing to lose. *)
LEMMA OwnOfNew ==
  ASSUME TypeOK, NEW p \in Calls, call'[p].seen = {}, call'[p].start <= time'
  PROVE  OwnOf(p)'
BY DEF OwnOf

LEMMA OwnStep ==
  ASSUME TypeOK, TypeOK', NEW p \in Calls, Listed(p), OwnOf(p), Step(p)
  PROVE  RowsMoveOn /\ time' = time /\ OwnOf(p)'
<1> DEFINE v == call[p]
<1>0. /\ v \in CallType /\ call \in [Calls -> CallType] /\ time \in Nat
  BY DEF TypeOK, CallType
<1>1. time' = time /\ time' >= time
  <2>1. time' = time
    BY DEF Step, Exists, Touch, AddDocuments, Record, ListKeys, DeleteVectors, DeleteKeys, Return
  <2> QED  BY <2>1, <1>0
<1>2. \A u : Become(p, u) => call'[p] = u  BY <1>0 DEF Become
<1>3. ASSUME v.mode = "delete", call'[p].mode = "delete" PROVE OwnOf(p)'
  BY <1>3 DEF OwnOf
<1>4. v.mode = "delete" \/ v.keys \cap v.seen = {}  BY DEF OwnOf
<1>5. ASSUME UNCHANGED rows \/ \E keys, grouped : rows' = Stamped(keys, grouped)
      PROVE  RowsMoveOn
  BY <1>5, StampedMovesOn DEF RowsMoveOn
<1>6. ASSUME RowsMoveOn, call'[p].mode = v.mode, call'[p].start = v.start,
             call'[p].seen = v.seen, call'[p].keys = v.keys
      PROVE  OwnOf(p)'
  BY <1>1, <1>3, <1>4, <1>6, OwnKept
<1>7. CASE Exists(p)
  <2>1. RowsMoveOn  BY <1>7, <1>5 DEF Exists
  <2>2. call'[p] = [v EXCEPT !.existing = v.batch \cap Known,
                             !.pc = IF v.batch \cap Known # {} THEN "touch" ELSE "add"]
    BY <1>7, <1>2 DEF Exists
  <2>3. OwnOf(p)'  BY <2>1, <2>2, <1>0, <1>6 DEF CallType
  <2> QED  BY <2>1, <2>3, <1>1
<1>8. CASE Touch(p)
  <2>1. RowsMoveOn  BY <1>8, <1>5 DEF Touch
  <2>2. call'[p] = [v EXCEPT !.pc = IF v.existing = v.batch THEN "record" ELSE "add"]
    BY <1>8, <1>2 DEF Touch
  <2>3. OwnOf(p)'  BY <2>1, <2>2, <1>0, <1>6 DEF CallType
  <2> QED  BY <2>1, <2>3, <1>1
<1>9. CASE AddDocuments(p)
  <2>1. RowsMoveOn  BY <1>9, <1>5 DEF AddDocuments
  <2>2. call'[p] = [v EXCEPT !.pc = "record"]  BY <1>9, <1>2 DEF AddDocuments
  <2>3. OwnOf(p)'  BY <2>1, <2>2, <1>0, <1>6 DEF CallType
  <2> QED  BY <2>1, <2>3, <1>1
<1>10. CASE Record(p)
  <2> DEFINE u == [v EXCEPT !.seen = v.seen \cup v.batch]
  <2>1. RowsMoveOn /\ \A c \in v.batch : rows'[c].at = time
    BY <1>0, <1>10, StampedMovesOn DEF Record, CallType
  <2>2. u \in CallType /\ u.mode = v.mode /\ u.start = v.start /\ u.keys = v.keys
        /\ u.seen = v.seen \cup v.batch
    BY <1>0 DEF CallType
  <2>3. call'[p] \in {[u EXCEPT !.pc = "list"], NextBatch(u)}
    BY <1>10, <1>2 DEF Record
  <2>4. /\ call'[p].mode = v.mode /\ call'[p].start = v.start
        /\ call'[p].keys = v.keys /\ call'[p].seen = v.seen \cup v.batch
    <3> HIDE DEF u
    <3> QED  BY <2>2, <2>3, NextBatchType DEF CallType
  <2>5. v.keys = {}  BY <1>10 DEF Record, At, Listed
  <2>6. OwnOf(p)'  BY <2>1, <2>4, <2>5, <1>1, OwnKept
  <2> QED  BY <2>1, <2>6, <1>1
<1>11. CASE ListKeys(p)
  <2>1. RowsMoveOn  BY <1>11, <1>5 DEF ListKeys
  <2>2. PICK keys \in SUBSET Stale(v) :
          call'[p] = [v EXCEPT !.keys = keys,
                               !.pc = IF v.mode = "full" /\ keys = {} THEN "done" ELSE "vectors"]
    BY <1>11, <1>2 DEF ListKeys
  <2>3. /\ call'[p].mode = v.mode /\ call'[p].start = v.start
        /\ call'[p].keys = keys /\ call'[p].seen = v.seen
    BY <2>2, <1>0 DEF CallType
  <2>4. v.mode # "delete" => keys \cap v.seen = {}
    <3> SUFFICES ASSUME v.mode # "delete", NEW c \in keys, c \in v.seen PROVE FALSE
      OBVIOUS
    <3>1. rows[c] # NoRow /\ rows[c].at < v.start /\ c \in Chunks  BY DEF Stale, Known
    <3>2. rows[c].at >= v.start  BY <3>1 DEF OwnOf
    <3>3. rows[c].at \in Nat /\ v.start \in Nat  BY <3>1, <1>0 DEF TypeOK, Row, CallType
    <3> QED  BY <3>1, <3>2, <3>3
  <2>5. OwnOf(p)'  BY <2>1, <2>3, <2>4, <1>1, <1>3, OwnKept
  <2> QED  BY <2>1, <2>5, <1>1
<1>12. CASE DeleteVectors(p)
  <2>1. RowsMoveOn  BY <1>12, <1>5 DEF DeleteVectors
  <2>2. call'[p] = [v EXCEPT !.pc = "keys"]  BY <1>12, <1>2 DEF DeleteVectors
  <2>3. OwnOf(p)'  BY <2>1, <2>2, <1>0, <1>6 DEF CallType
  <2> QED  BY <2>1, <2>3, <1>1
<1>13. CASE DeleteKeys(p)
  <2> DEFINE u == [v EXCEPT !.keys = {}]
  <2>1. RowsMoveOn  BY <1>13 DEF DeleteKeys, RowsMoveOn
  <2>2. u \in CallType /\ u.mode = v.mode /\ u.start = v.start /\ u.keys = {} /\ u.seen = v.seen
    BY <1>0 DEF CallType
  <2>3. call'[p] \in {[u EXCEPT !.pc = "list"], [u EXCEPT !.pc = "done"], NextBatch(u)}
    BY <1>13, <1>2 DEF DeleteKeys
  <2>4. /\ call'[p].mode = v.mode /\ call'[p].start = v.start
        /\ call'[p].keys = {} /\ call'[p].seen = v.seen
    <3> HIDE DEF u
    <3> QED  BY <2>2, <2>3, NextBatchType DEF CallType
  <2>5. OwnOf(p)'  BY <2>1, <2>4, <1>1, OwnKept
  <2> QED  BY <2>1, <2>5, <1>1
<1>14. CASE Return(p)
  <2>1. RowsMoveOn  BY <1>14, <1>5 DEF Return
  <2>2. call'[p] = NoCall  BY <1>14, <1>2 DEF Return
  <2>3. OwnOf(p)'  BY <2>2, <1>0, <1>1, OwnOfNew DEF NoCall
  <2> QED  BY <2>1, <2>3, <1>1
<1> QED  BY <1>7, <1>8, <1>9, <1>10, <1>11, <1>12, <1>13, <1>14 DEF Step

LEMMA ListedStep ==
  ASSUME TypeOK, NEW p \in Calls, Listed(p), Step(p)
  PROVE  Listed(p)'
<1> DEFINE v == call[p]
<1>0. v \in CallType /\ call \in [Calls -> CallType]  BY DEF TypeOK, CallType
<1>1. \A u : Become(p, u) => call'[p] = u  BY <1>0 DEF Become
<1>2. CASE Exists(p) \/ Touch(p) \/ AddDocuments(p) \/ DeleteVectors(p)
  <2>1. call'[p].keys = v.keys
    BY <1>0, <1>1, <1>2 DEF Exists, Touch, AddDocuments, DeleteVectors, CallType
  <2>2. CASE DeleteVectors(p)
    <3>1. call'[p] = [v EXCEPT !.pc = "keys"]  BY <1>1, <2>2 DEF DeleteVectors
    <3>2. call'[p].pc = "keys"  BY <3>1, <1>0 DEF CallType
    <3> QED  BY <3>2 DEF Listed
  <2>3. CASE Exists(p) \/ Touch(p) \/ AddDocuments(p)
    <3>1. v.keys = {}  BY <2>3 DEF Exists, Touch, AddDocuments, At, Listed
    <3> QED  BY <2>1, <3>1 DEF Listed
  <2> QED  BY <1>2, <2>2, <2>3
<1>3. CASE Record(p)
  <2> DEFINE u == [v EXCEPT !.seen = v.seen \cup v.batch]
  <2>1. v.keys = {}  BY <1>3 DEF Record, At, Listed
  <2>2. u \in CallType /\ u.keys = {}  BY <1>0, <2>1 DEF CallType
  <2>3. call'[p] \in {[u EXCEPT !.pc = "list"], NextBatch(u)}  BY <1>1, <1>3 DEF Record
  <2>4. call'[p].keys = {}
    <3> HIDE DEF u
    <3> QED  BY <2>2, <2>3, NextBatchType DEF CallType
  <2> QED  BY <2>4 DEF Listed
<1>4. CASE ListKeys(p)
  <2>1. PICK keys \in SUBSET Stale(v) :
          call'[p] = [v EXCEPT !.keys = keys,
                               !.pc = IF v.mode = "full" /\ keys = {} THEN "done" ELSE "vectors"]
    BY <1>1, <1>4 DEF ListKeys
  <2>2. call'[p].keys = keys
        /\ call'[p].pc = IF v.mode = "full" /\ keys = {} THEN "done" ELSE "vectors"
    BY <2>1, <1>0 DEF CallType
  <2> QED  BY <2>2 DEF Listed
<1>5. CASE DeleteKeys(p)
  <2> DEFINE u == [v EXCEPT !.keys = {}]
  <2>1. u \in CallType /\ u.keys = {}  BY <1>0 DEF CallType
  <2>2. call'[p] \in {[u EXCEPT !.pc = "list"], [u EXCEPT !.pc = "done"], NextBatch(u)}
    BY <1>1, <1>5 DEF DeleteKeys
  <2>3. call'[p].keys = {}
    <3> HIDE DEF u
    <3> QED  BY <2>1, <2>2, NextBatchType DEF CallType
  <2> QED  BY <2>3 DEF Listed
<1>6. CASE Return(p)
  BY <1>1, <1>6 DEF Return, NoCall, Listed
<1> QED  BY <1>2, <1>3, <1>4, <1>5, <1>6 DEF Step

LEMMA OwnNext ==
  ASSUME Own, [Next]_vars
  PROVE  Own'
<1>0. TypeOK /\ TypeOK' /\ time \in Nat /\ call \in [Calls -> CallType]
  BY TypeNext DEF Own, TypeOK, CallType
<1>1. ASSUME RowsMoveOn, time' >= time,
             NEW p \in Calls, Listed(p)', OwnOf(p)',
             \A q \in Calls \ {p} : call'[q] = call[q]
      PROVE  Own'
  <2>1. ASSUME NEW q \in Calls, q # p PROVE Listed(q)' /\ OwnOf(q)'
    <3>1. call'[q] = call[q]  BY <1>1, <2>1
    <3> QED  BY <1>0, <1>1, <3>1, OwnOfOthers DEF Own, Listed
  <2> QED  BY <1>0, <1>1, <2>1 DEF Own
<1>2. ASSUME RowsMoveOn, time' >= time, call' = call
      PROVE  Own'
  BY <1>0, <1>2, OwnOfOthers DEF Own, Listed
<1>3. ASSUME NEW p \in Calls, NEW mode \in Modes, NEW docs \in Loads, Begin(p, mode, docs)
      PROVE  Own'
  <2> DEFINE u == [NoCall EXCEPT !.mode = mode, !.start = time, !.docs = docs, !.todo = docs]
  <2>1. docs \in Seq(Chunks)  BY IndexingAssumption
  <2>2. u \in CallType /\ u.seen = {} /\ u.keys = {} /\ u.start = time
    BY <2>1, <1>0, NoCallType DEF NoCall, CallType
  <2>3. call' = [call EXCEPT ![p] = NextBatch(u)]  BY <1>3 DEF Begin, Become
  <2>4. call'[p].seen = {} /\ call'[p].keys = {} /\ call'[p].start = time
    <3> HIDE DEF u
    <3> QED  BY <2>2, <2>3, <1>0, NextBatchType
  <2>5. RowsMoveOn /\ time' = time  BY <1>3 DEF Begin, RowsMoveOn
  <2>6. OwnOf(p)'  BY <1>0, <2>4, <2>5, OwnOfNew
  <2>7. Listed(p)'  BY <2>4 DEF Listed
  <2>8. \A q \in Calls \ {p} : call'[q] = call[q]
    <3> HIDE DEF u
    <3> QED  BY <2>3, <1>0
  <2> QED  BY <1>0, <1>1, <2>5, <2>6, <2>7, <2>8
<1>4. ASSUME NEW p \in Calls, NEW target \in Targets, BeginDelete(p, target)
      PROVE  Own'
  <2> DEFINE u == [NoCall EXCEPT !.pc = "list", !.mode = "delete", !.batch = target]
  <2>1. u.seen = {} /\ u.keys = {} /\ u.mode = "delete"  BY DEF NoCall
  <2>2. call' = [call EXCEPT ![p] = u]  BY <1>4 DEF BeginDelete, Become
  <2>3. call'[p] = u /\ \A q \in Calls \ {p} : call'[q] = call[q]
    <3> HIDE DEF u
    <3> QED  BY <2>2, <1>0
  <2>4. RowsMoveOn /\ time' = time  BY <1>4 DEF BeginDelete, RowsMoveOn
  <2>5. OwnOf(p)' /\ Listed(p)'
    <3> HIDE DEF u
    <3> QED  BY <2>1, <2>3 DEF OwnOf, Listed
  <2> QED  BY <1>0, <1>1, <2>3, <2>4, <2>5
<1>5. ASSUME NEW p \in Calls, Step(p)
      PROVE  Own'
  <2>1. RowsMoveOn /\ time' = time /\ OwnOf(p)' /\ Listed(p)'
    BY <1>0, <1>5, OwnStep, ListedStep DEF Own
  <2>2. \A q \in Calls \ {p} : call'[q] = call[q]
    BY <1>0, <1>5 DEF Step, Exists, Touch, AddDocuments, Record, ListKeys, DeleteVectors,
                      DeleteKeys, Return, Become
  <2> QED  BY <1>0, <1>1, <2>1, <2>2
<1>6. ASSUME NEW p \in Calls, Fail(p)
      PROVE  Own'
  <2>1. call' = [call EXCEPT ![p] = NoCall] /\ time' = time  BY <1>6 DEF Fail, Become
  <2>2. RowsMoveOn  BY <1>0, <1>6, StampedMovesOn DEF Fail
  <2>3. call'[p] = NoCall /\ \A q \in Calls \ {p} : call'[q] = call[q]  BY <2>1, <1>0
  <2>4. OwnOf(p)' /\ Listed(p)'  BY <2>1, <2>3, <1>0, OwnOfNew DEF NoCall, Listed
  <2> QED  BY <1>0, <1>1, <2>1, <2>2, <2>3, <2>4
<1>7. CASE \E c \in Chunks : LandDelete(c) \/ LoseDelete(c)
  <2>1. RowsMoveOn /\ time' = time /\ call' = call
    BY <1>7 DEF LandDelete, LoseDelete, RowsMoveOn
  <2> QED  BY <1>0, <1>2, <2>1
<1>8. CASE Tick
  <2>1. RowsMoveOn /\ time' = time + 1 /\ call' = call  BY <1>8 DEF Tick, RowsMoveOn
  <2> QED  BY <1>0, <1>2, <2>1
<1>9. CASE UNCHANGED vars
  <2>1. RowsMoveOn /\ time' = time /\ call' = call  BY <1>9 DEF vars, RowsMoveOn
  <2> QED  BY <1>0, <1>2, <2>1
<1> QED  BY <1>3, <1>4, <1>5, <1>6, <1>7, <1>8, <1>9 DEF Next

(* However many calls index and clean up at once, wherever they fail and   *)
(* whether or not deletions are awaited, no call cleans up what it has     *)
(* indexed itself.                                                         *)
THEOREM OwnWorkAlwaysStays == Spec => []OwnWorkStays
<1>1. Init => Own
  <2> SUFFICES ASSUME Init PROVE Own
    OBVIOUS
  <2>1. \A p \in Calls : call[p] = NoCall  BY DEF Init
  <2>2. time = 1  BY DEF Init
  <2> QED  BY <2>1, <2>2, TypeInit DEF Own, OwnOf, Listed, NoCall
<1>2. Own /\ [Next]_vars => Own'  BY OwnNext
<1>3. Own => OwnWorkStays  BY DEF Own, OwnOf, OwnWorkStays
<1> QED  BY <1>1, <1>2, <1>3, PTL DEF Spec

---------------------------------------------------------------------------
(***************************************************************************)
(* RecordedIsStored: a call that is alone keeps the table and the vector   *)
(* store in step.  Between two steps they differ by the batch that has its *)
(* vectors and not yet its rows, or by the keys that have lost theirs.     *)
(***************************************************************************)
AgreeOf(v) ==
  /\ v.pc \in {"idle", "exists", "list", "done"} => store = Known
  /\ v.pc \in {"touch", "add"} => store = Known /\ v.existing = v.batch \cap Known
  /\ v.pc = "record" => store = Known \cup v.batch
  /\ v.pc = "vectors" => store = Known /\ v.keys \subseteq Known
  /\ v.pc = "keys" => v.keys \subseteq Known /\ store = Known \ v.keys

InStep(p) == awaits => pending = {} /\ (failures = 0 => AgreeOf(call[p]))

LEMMA StampedKnown ==
  ASSUME TypeOK, NEW keys \in SUBSET Chunks, NEW grouped \in BOOLEAN,
         rows' = Stamped(keys, grouped)
  PROVE  Known' = Known \cup keys
<1>1. ASSUME NEW c \in Chunks, c \in keys PROVE rows'[c] # NoRow
  <2>1. rows'[c] = [at |-> time, grouped |-> IF c \in Known THEN rows[c].grouped ELSE grouped]
    BY <1>1 DEF Stamped
  <2>2. c \in Known => rows[c] \in Row  BY <1>1 DEF TypeOK, Known
  <2>3. rows'[c] \in [at : Nat, grouped : BOOLEAN]  BY <2>1, <2>2 DEF TypeOK, Row
  <2> QED  BY <2>3, IndexingAssumption
<1>2. ASSUME NEW c \in Chunks, c \notin keys PROVE rows'[c] = rows[c]
  BY <1>2 DEF Stamped
<1> QED  BY <1>1, <1>2 DEF Known

LEMMA InStepStep ==
  ASSUME Own, NEW p \in Calls, InStep(p), Step(p)
  PROVE  InStep(p)'
<1> DEFINE v == call[p]
<1>0. v \in CallType /\ call \in [Calls -> CallType] /\ TypeOK
  BY DEF Own, TypeOK, CallType
<1>1. \A u : Become(p, u) => call'[p] = u  BY <1>0 DEF Become
<1>2. awaits' = awaits /\ failures' = failures
  BY DEF Step, Exists, Touch, AddDocuments, Record, ListKeys, DeleteVectors, DeleteKeys, Return
<1> SUFFICES ASSUME awaits PROVE pending' = {} /\ (failures = 0 => AgreeOf(call[p])')
  BY <1>2 DEF InStep
<1>3. pending' = {}
  <2>1. pending = {}  BY DEF InStep
  <2> QED  BY <2>1 DEF Step, Exists, Touch, AddDocuments, Record, ListKeys, DeleteVectors,
                       DeleteKeys, Return
<1> SUFFICES ASSUME failures = 0 PROVE AgreeOf(call[p])'
  BY <1>3
<1>4. AgreeOf(v)  BY DEF InStep
<1>5. ASSUME UNCHANGED <<store, rows>> PROVE store' = store /\ Known' = Known
  BY <1>5 DEF Known
<1>6. CASE Exists(p)
  <2>1. call'[p] = [v EXCEPT !.existing = v.batch \cap Known,
                             !.pc = IF v.batch \cap Known # {} THEN "touch" ELSE "add"]
    BY <1>6, <1>1 DEF Exists
  <2>2. /\ call'[p].pc \in {"touch", "add"} /\ call'[p].batch = v.batch
        /\ call'[p].existing = v.batch \cap Known
    BY <2>1, <1>0 DEF CallType
  <2>3. store = Known /\ store' = store /\ Known' = Known
    BY <1>4, <1>5, <1>6 DEF Exists, At, AgreeOf
  <2> QED  BY <2>2, <2>3 DEF AgreeOf
<1>7. CASE Touch(p)
  <2>1. call'[p] = [v EXCEPT !.pc = IF v.existing = v.batch THEN "record" ELSE "add"]
    BY <1>7, <1>1 DEF Touch
  <2>2. /\ call'[p].pc = IF v.existing = v.batch THEN "record" ELSE "add"
        /\ call'[p].batch = v.batch /\ call'[p].existing = v.existing
    BY <2>1, <1>0 DEF CallType
  <2>3. store = Known /\ v.existing = v.batch \cap Known  BY <1>4, <1>7 DEF Touch, At, AgreeOf
  <2>4. Known' = Known \cup v.existing
    BY <1>0, <1>7, StampedKnown DEF Touch, CallType
  <2>5. store' = store  BY <1>7 DEF Touch
  <2> QED  BY <2>2, <2>3, <2>4, <2>5 DEF AgreeOf
<1>8. CASE AddDocuments(p)
  <2>1. call'[p] = [v EXCEPT !.pc = "record"]  BY <1>8, <1>1 DEF AddDocuments
  <2>2. call'[p].pc = "record" /\ call'[p].batch = v.batch  BY <2>1, <1>0 DEF CallType
  <2>3. store = Known /\ v.existing = v.batch \cap Known
    BY <1>4, <1>8 DEF AddDocuments, At, AgreeOf
  <2>4. store' = store \cup (v.batch \ v.existing) /\ Known' = Known
    BY <1>8 DEF AddDocuments, Known
  <2>5. store' = Known' \cup v.batch  BY <2>3, <2>4
  <2> QED  BY <2>2, <2>5 DEF AgreeOf
<1>9. CASE Record(p)
  <2> DEFINE u == [v EXCEPT !.seen = v.seen \cup v.batch]
  <2>1. u \in CallType  BY <1>0 DEF CallType
  <2>2. call'[p] \in {[u EXCEPT !.pc = "list"], NextBatch(u)}  BY <1>9, <1>1 DEF Record
  <2>3. call'[p].pc \in {"list", "exists", "done"}
    <3> HIDE DEF u
    <3> QED  BY <2>1, <2>2, NextBatchType DEF CallType
  <2>4. store = Known \cup v.batch  BY <1>4, <1>9 DEF Record, At, AgreeOf
  <2>5. Known' = Known \cup v.batch /\ store' = store
    BY <1>0, <1>9, StampedKnown DEF Record, CallType
  <2> QED  BY <2>3, <2>4, <2>5 DEF AgreeOf
<1>10. CASE ListKeys(p)
  <2>1. PICK keys \in SUBSET Stale(v) :
          call'[p] = [v EXCEPT !.keys = keys,
                               !.pc = IF v.mode = "full" /\ keys = {} THEN "done" ELSE "vectors"]
    BY <1>10, <1>1 DEF ListKeys
  <2>2. call'[p].keys = keys /\ call'[p].pc \in {"done", "vectors"}
    BY <2>1, <1>0 DEF CallType
  <2>3. keys \subseteq Known  BY DEF Stale
  <2>4. store = Known /\ store' = store /\ Known' = Known
    BY <1>4, <1>5, <1>10 DEF ListKeys, At, AgreeOf
  <2> QED  BY <2>2, <2>3, <2>4 DEF AgreeOf
<1>11. CASE DeleteVectors(p)
  <2>1. call'[p] = [v EXCEPT !.pc = "keys"]  BY <1>11, <1>1 DEF DeleteVectors
  <2>2. call'[p].pc = "keys" /\ call'[p].keys = v.keys  BY <2>1, <1>0 DEF CallType
  <2>3. store = Known /\ v.keys \subseteq Known  BY <1>4, <1>11 DEF DeleteVectors, At, AgreeOf
  <2>4. store' = store \ v.keys /\ Known' = Known  BY <1>11 DEF DeleteVectors, Known
  <2> QED  BY <2>2, <2>3, <2>4 DEF AgreeOf
<1>12. CASE DeleteKeys(p)
  <2> DEFINE u == [v EXCEPT !.keys = {}]
  <2>1. u \in CallType  BY <1>0 DEF CallType
  <2>2. call'[p] \in {[u EXCEPT !.pc = "list"], [u EXCEPT !.pc = "done"], NextBatch(u)}
    BY <1>12, <1>1 DEF DeleteKeys
  <2>3. call'[p].pc \in {"list", "exists", "done"}
    <3> HIDE DEF u
    <3> QED  BY <2>1, <2>2, NextBatchType DEF CallType
  <2>4. v.keys \subseteq Known /\ store = Known \ v.keys
    BY <1>4, <1>12 DEF DeleteKeys, At, AgreeOf
  <2>5. Known' = Known \ v.keys /\ store' = store  BY <1>12 DEF DeleteKeys, Known
  <2> QED  BY <2>3, <2>4, <2>5 DEF AgreeOf
<1>13. CASE Return(p)
  <2>1. call'[p].pc = "idle"  BY <1>13, <1>1 DEF Return, NoCall
  <2>2. store = Known /\ store' = store /\ Known' = Known
    BY <1>4, <1>5, <1>13 DEF Return, At, AgreeOf
  <2> QED  BY <2>1, <2>2 DEF AgreeOf
<1> QED  BY <1>6, <1>7, <1>8, <1>9, <1>10, <1>11, <1>12, <1>13 DEF Step

LEMMA InStepNext ==
  ASSUME NEW p, Calls = {p}, Own, InStep(p), [Next]_vars
  PROVE  InStep(p)'
<1>0. TypeOK /\ p \in Calls /\ call \in [Calls -> CallType]  BY DEF Own, TypeOK, CallType
<1>1. ASSUME NEW mode \in Modes, NEW docs \in Loads, Begin(p, mode, docs)
      PROVE  InStep(p)'
  <2> DEFINE u == [NoCall EXCEPT !.mode = mode, !.start = time, !.docs = docs, !.todo = docs]
  <2>1. docs \in Seq(Chunks) /\ time \in Nat  BY <1>0, IndexingAssumption DEF TypeOK
  <2>2. u \in CallType  BY <2>1, NoCallType DEF NoCall, CallType
  <2>3. call' = [call EXCEPT ![p] = NextBatch(u)]  BY <1>1 DEF Begin, Become
  <2>4. call'[p].pc \in {"exists", "list", "done"}
    <3> HIDE DEF u
    <3> QED  BY <1>0, <2>2, <2>3, NextBatchType
  <2>5. UNCHANGED <<awaits, store, rows, pending, failures>> /\ call[p].pc = "idle"
    BY <1>1 DEF Begin, At
  <2> QED  BY <2>4, <2>5 DEF InStep, AgreeOf, Known
<1>2. ASSUME NEW target \in Targets, BeginDelete(p, target)
      PROVE  InStep(p)'
  <2>1. call'[p].pc = "list"
    <3> DEFINE u == [NoCall EXCEPT !.pc = "list", !.mode = "delete", !.batch = target]
    <3>1. call' = [call EXCEPT ![p] = u]  BY <1>2 DEF BeginDelete, Become
    <3>2. u.pc = "list"  BY DEF NoCall
    <3> HIDE DEF u
    <3> QED  BY <1>0, <3>1, <3>2
  <2>2. UNCHANGED <<awaits, store, rows, pending, failures>> /\ call[p].pc = "idle"
    BY <1>2 DEF BeginDelete, At
  <2> QED  BY <2>1, <2>2 DEF InStep, AgreeOf, Known
<1>3. CASE Fail(p)
  <2>1. failures' # 0 /\ awaits' = awaits /\ pending' = pending
    BY <1>0, <1>3 DEF Fail, TypeOK
  <2> QED  BY <2>1 DEF InStep
<1>4. CASE \E c \in Chunks : LandDelete(c) \/ LoseDelete(c)
  <2>1. pending # {} /\ awaits' = awaits  BY <1>4 DEF LandDelete, LoseDelete
  <2> QED  BY <2>1 DEF InStep
<1>5. CASE Tick \/ UNCHANGED vars
  BY <1>5 DEF Tick, vars, InStep, AgreeOf, Known
<1>6. CASE Step(p)
  BY <1>0, <1>6, InStepStep
<1> QED  BY <1>1, <1>2, <1>3, <1>4, <1>5, <1>6 DEF Next

(* As long as one call at a time is made, none fails and deletions are     *)
(* awaited, the table lists exactly the chunks that have a vector whenever *)
(* no call is in progress.                                                 *)
THEOREM AloneTellsVectors ==
  ASSUME NEW CONSTANT p, Calls = {p}
  PROVE  Spec => []RecordedIsStored
<1>1. Init => Own /\ InStep(p)
  <2> SUFFICES ASSUME Init PROVE Own /\ InStep(p)
    OBVIOUS
  <2>1. \A q \in Calls : call[q] = NoCall  BY DEF Init
  <2>2. time = 1 /\ pending = {} /\ store = {} /\ Known = {}  BY DEF Init, Known
  <2> QED  BY <2>1, <2>2, TypeInit DEF Own, OwnOf, Listed, InStep, AgreeOf, NoCall
<1>2. Own /\ InStep(p) /\ [Next]_vars => (Own /\ InStep(p))'  BY OwnNext, InStepNext
<1>3. Own /\ InStep(p) => RecordedIsStored
  BY DEF InStep, AgreeOf, RecordedIsStored, TableTellsVectors, Resting, At
<1> QED  BY <1>1, <1>2, <1>3, PTL DEF Spec
---------------------------------------------------------------------------
(***************************************************************************)
(* FullIsExact: a full clean-up ends when no row is older than the call.   *)
(* Chunks that were given are recorded and have new stamps, the others     *)
(* have none newer than the start of the call, since nobody else stamps.   *)
(***************************************************************************)
RowsPast == \A c \in Known : rows[c].at <= time

ExactOf(v) ==
  v.mode = "full" =>
    /\ v.start <= time
    /\ v.seen \subseteq Known
    /\ Elements(v.docs) = v.seen \cup v.batch \cup Elements(v.todo)
    /\ \A c \in Known \ Elements(v.docs) : rows[c].at <= v.start
    /\ v.pc = "touch" => v.existing \subseteq v.batch
    /\ v.pc \in {"list", "vectors", "keys", "done"} => v.batch = {} /\ v.todo = << >>
    /\ v.pc = "done" => \A c \in Known : rows[c].at >= v.start

LEMMA RowsStayPast ==
  ASSUME TypeOK, TypeOK', RowsPast, RowsMoveOn, time' >= time
  PROVE  RowsPast'
<1> SUFFICES ASSUME NEW c \in Chunks, rows'[c] # NoRow PROVE rows'[c].at <= time'
  BY DEF RowsPast, Known
<1>1. time \in Nat /\ time' \in Nat  BY DEF TypeOK
<1>2. CASE rows'[c].at = time  BY <1>1, <1>2
<1>3. CASE rows'[c] = rows[c]
  <2>1. rows[c].at \in Nat  BY <1>3 DEF TypeOK, Row
  <2>2. rows[c].at <= time  BY <1>3 DEF RowsPast, Known
  <2> QED  BY <1>1, <1>3, <2>1, <2>2
<1> QED  BY <1>2, <1>3 DEF RowsMoveOn

LEMMA NoBatchLeft ==
  ASSUME NEW u \in CallType, u.todo = << >>
  PROVE  NextBatch(u).batch = {} /\ NextBatch(u).todo = << >>
BY DEF NextBatch, CallType

(* ExactOf of the next state, part by part. *)
LEMMA ExactPrimed ==
  ASSUME NEW p, call'[p].mode = "full",
         call'[p].start <= time', call'[p].seen \subseteq Known',
         Elements(call'[p].docs) = call'[p].seen \cup call'[p].batch \cup Elements(call'[p].todo),
         \A c \in Known' \ Elements(call'[p].docs) : rows'[c].at <= call'[p].start,
         call'[p].pc = "touch" => call'[p].existing \subseteq call'[p].batch,
         call'[p].pc \in {"list", "vectors", "keys", "done"}
           => call'[p].batch = {} /\ call'[p].todo = << >>,
         call'[p].pc = "done" => \A c \in Known' : rows'[c].at >= call'[p].start
  PROVE  ExactOf(call[p])'
BY DEF ExactOf, Elements

LEMMA ExactStep ==
  ASSUME Own, Own', NEW p \in Calls, ExactOf(call[p]), Step(p)
  PROVE  ExactOf(call[p])'
<1> DEFINE v == call[p]
<1>0. /\ v \in CallType /\ call \in [Calls -> CallType] /\ TypeOK /\ TypeOK'
      /\ time \in Nat /\ OwnOf(p) /\ Listed(p)
  BY DEF Own, TypeOK, CallType
<1>1. \A u : Become(p, u) => call'[p] = u  BY <1>0 DEF Become
<1>2. time' = time  BY <1>0, OwnStep
<1> SUFFICES ASSUME call'[p].mode = "full" PROVE ExactOf(call[p])'
  BY DEF ExactOf
<1>3. ASSUME rows' = rows, v.mode = "full",
             call'[p].mode = v.mode, call'[p].start = v.start, call'[p].docs = v.docs,
             call'[p].seen = v.seen, call'[p].batch = v.batch, call'[p].todo = v.todo,
             call'[p].pc = "touch" => call'[p].existing \subseteq v.batch,
             call'[p].pc \in {"list", "vectors", "keys", "done"}
               => v.pc \in {"list", "vectors", "keys", "done"},
             call'[p].pc = "done" => \A c \in Known : rows[c].at >= v.start
      PROVE  ExactOf(call[p])'
  <2>1. Known' = Known  BY <1>3 DEF Known
  <2>2. /\ v.start <= time /\ v.seen \subseteq Known
        /\ Elements(v.docs) = v.seen \cup v.batch \cup Elements(v.todo)
        /\ \A c \in Known \ Elements(v.docs) : rows[c].at <= v.start
        /\ v.pc \in {"list", "vectors", "keys", "done"} => v.batch = {} /\ v.todo = << >>
    BY <1>3 DEF ExactOf
  <2> HIDE DEF v
  <2> QED  BY <1>2, <1>3, <2>1, <2>2, ExactPrimed
<1>4. CASE Exists(p)
  <2>1. call'[p] = [v EXCEPT !.existing = v.batch \cap Known,
                             !.pc = IF v.batch \cap Known # {} THEN "touch" ELSE "add"]
    BY <1>4, <1>1 DEF Exists
  <2>2. /\ call'[p].pc \in {"touch", "add"} /\ call'[p].existing \subseteq v.batch
        /\ call'[p].mode = v.mode /\ call'[p].start = v.start /\ call'[p].docs = v.docs
        /\ call'[p].seen = v.seen /\ call'[p].batch = v.batch /\ call'[p].todo = v.todo
    BY <2>1, <1>0 DEF CallType
  <2>3. rows' = rows  BY <1>4 DEF Exists
  <2> QED  BY <2>2, <2>3, <1>3
<1>5. CASE Touch(p)
  <2>1. call'[p] = [v EXCEPT !.pc = IF v.existing = v.batch THEN "record" ELSE "add"]
    BY <1>5, <1>1 DEF Touch
  <2>2. /\ call'[p].pc \in {"record", "add"}
        /\ call'[p].mode = v.mode /\ call'[p].start = v.start /\ call'[p].docs = v.docs
        /\ call'[p].seen = v.seen /\ call'[p].batch = v.batch /\ call'[p].todo = v.todo
    BY <2>1, <1>0 DEF CallType
  <2>3. v.existing \subseteq v.batch /\ v.pc = "touch"
    BY <2>2, <1>5 DEF Touch, At, ExactOf
  <2>4. Known' = Known \cup v.existing
    BY <1>0, <1>5, StampedKnown DEF Touch, CallType
  <2>5. \A c \in Chunks \ v.existing : rows'[c] = rows[c]
    BY <1>5 DEF Touch, Stamped
  <2>6. Known \subseteq Chunks  BY DEF Known
  <2>7. v.existing \subseteq Elements(v.docs)  BY <2>2, <2>3 DEF ExactOf
  <2>8. \A c \in Known' \ Elements(v.docs) : c \in Known /\ rows'[c] = rows[c]
    BY <2>4, <2>5, <2>6, <2>7
  <2>9. /\ v.start <= time /\ v.seen \subseteq Known
        /\ Elements(v.docs) = v.seen \cup v.batch \cup Elements(v.todo)
        /\ \A c \in Known \ Elements(v.docs) : rows[c].at <= v.start
    BY <2>2 DEF ExactOf
  <2>10. v.seen \subseteq Known' /\ \A c \in Known' \ Elements(v.docs) : rows'[c].at <= v.start
    BY <2>4, <2>8, <2>9
  <2> HIDE DEF v
  <2> QED  BY <1>2, <2>2, <2>9, <2>10, ExactPrimed
<1>6. CASE AddDocuments(p)
  <2>1. call'[p] = [v EXCEPT !.pc = "record"]  BY <1>6, <1>1 DEF AddDocuments
  <2>2. /\ call'[p].pc = "record"
        /\ call'[p].mode = v.mode /\ call'[p].start = v.start /\ call'[p].docs = v.docs
        /\ call'[p].seen = v.seen /\ call'[p].batch = v.batch /\ call'[p].todo = v.todo
    BY <2>1, <1>0 DEF CallType
  <2>3. rows' = rows  BY <1>6 DEF AddDocuments
  <2> QED  BY <2>2, <2>3, <1>3
<1>7. CASE Record(p)
  <2> DEFINE u == [v EXCEPT !.seen = v.seen \cup v.batch]
  <2>1. /\ u \in CallType /\ u.mode = v.mode /\ u.start = v.start /\ u.docs = v.docs
        /\ u.seen = v.seen \cup v.batch /\ u.todo = v.todo
    BY <1>0 DEF CallType
  <2>2. call'[p] = IF u.mode = "incremental" THEN [u EXCEPT !.pc = "list"] ELSE NextBatch(u)
    BY <1>7, <1>1 DEF Record
  <2>3. v.mode = "full" /\ call'[p] = NextBatch(u)
    <3> HIDE DEF u
    <3> QED  BY <2>1, <2>2, NextBatchType DEF CallType
  <2>4. /\ call'[p].start = v.start /\ call'[p].docs = v.docs
        /\ call'[p].seen = v.seen \cup v.batch
        /\ Elements(v.todo) = call'[p].batch \cup Elements(call'[p].todo)
        /\ call'[p].pc \in {"exists", "list"}
        /\ call'[p].pc = "list" => call'[p].batch = {} /\ call'[p].todo = << >>
    <3> HIDE DEF u
    <3> QED  BY <2>1, <2>3, NextBatchType, NoBatchLeft
  <2>5. Known' = Known \cup v.batch  BY <1>0, <1>7, StampedKnown DEF Record, CallType
  <2>6. \A c \in Chunks \ v.batch : rows'[c] = rows[c]  BY <1>7 DEF Record, Stamped
  <2>7. Known \subseteq Chunks  BY DEF Known
  <2>8. v.batch \subseteq Elements(v.docs)  BY <2>3 DEF ExactOf
  <2>9. \A c \in Known' \ Elements(v.docs) : c \in Known /\ rows'[c] = rows[c]
    BY <2>5, <2>6, <2>7, <2>8
  <2>10. /\ v.start <= time /\ v.seen \subseteq Known
         /\ Elements(v.docs) = v.seen \cup v.batch \cup Elements(v.todo)
         /\ \A c \in Known \ Elements(v.docs) : rows[c].at <= v.start
    BY <2>3 DEF ExactOf
  <2>11. Elements(v.docs) = call'[p].seen \cup call'[p].batch \cup Elements(call'[p].todo)
    BY <2>4, <2>10
  <2>12. call'[p].seen \subseteq Known'  BY <2>4, <2>5, <2>10
  <2>13. \A c \in Known' \ Elements(v.docs) : rows'[c].at <= v.start  BY <2>9, <2>10
  <2> HIDE DEF u, v
  <2> QED  BY <1>2, <2>4, <2>10, <2>11, <2>12, <2>13, ExactPrimed
<1>8. CASE ListKeys(p)
  <2>1. PICK keys \in SUBSET Stale(v) :
          /\ IF v.mode = "full" /\ Cardinality(Stale(v)) > CleanupBatchSize
             THEN Cardinality(keys) = CleanupBatchSize
             ELSE keys = Stale(v)
          /\ call'[p] = [v EXCEPT !.keys = keys,
                                  !.pc = IF v.mode = "full" /\ keys = {} THEN "done" ELSE "vectors"]
    BY <1>8, <1>1 DEF ListKeys
  <2>2. /\ call'[p].pc = IF v.mode = "full" /\ keys = {} THEN "done" ELSE "vectors"
        /\ call'[p].mode = v.mode /\ call'[p].start = v.start /\ call'[p].docs = v.docs
        /\ call'[p].seen = v.seen /\ call'[p].batch = v.batch /\ call'[p].todo = v.todo
    BY <2>1, <1>0 DEF CallType
  <2>3. ASSUME keys = {}, NEW c \in Known PROVE rows[c].at >= v.start
    <3>1. Cardinality(keys) # CleanupBatchSize
      BY <2>3, FS_EmptySet, IndexingAssumption
    <3>2. Stale(v) = {}  BY <2>1, <2>3, <3>1
    <3>3. ~ rows[c].at < v.start  BY <2>2, <3>2 DEF Stale
    <3>4. rows[c].at \in Nat /\ v.start \in Nat  BY <1>0 DEF Known, TypeOK, Row, CallType
    <3> QED  BY <3>3, <3>4
  <2>4. rows' = rows /\ v.pc = "list"  BY <1>8 DEF ListKeys, At
  <2> QED  BY <2>2, <2>3, <2>4, <1>3
<1>9. CASE DeleteVectors(p)
  <2>1. call'[p] = [v EXCEPT !.pc = "keys"]  BY <1>9, <1>1 DEF DeleteVectors
  <2>2. /\ call'[p].pc = "keys"
        /\ call'[p].mode = v.mode /\ call'[p].start = v.start /\ call'[p].docs = v.docs
        /\ call'[p].seen = v.seen /\ call'[p].batch = v.batch /\ call'[p].todo = v.todo
    BY <2>1, <1>0 DEF CallType
  <2>3. rows' = rows /\ v.pc = "vectors"  BY <1>9 DEF DeleteVectors, At
  <2> QED  BY <2>2, <2>3, <1>3
<1>10. CASE DeleteKeys(p)
  <2> DEFINE u == [v EXCEPT !.keys = {}]
  <2>1. u \in CallType /\ u.mode = v.mode  BY <1>0 DEF CallType
  <2>2. call'[p] = CASE u.mode = "full" -> [u EXCEPT !.pc = "list"]
                     [] u.mode = "delete" -> [u EXCEPT !.pc = "done"]
                     [] OTHER -> NextBatch(u)
    BY <1>10, <1>1 DEF DeleteKeys
  <2>3. v.mode = "full"
    <3> HIDE DEF u
    <3> QED  BY <2>1, <2>2, NextBatchType DEF CallType
  <2>4. call'[p] = [v EXCEPT !.keys = {}, !.pc = "list"]  BY <2>1, <2>2, <2>3
  <2>5. /\ call'[p].pc = "list"
        /\ call'[p].mode = v.mode /\ call'[p].start = v.start /\ call'[p].docs = v.docs
        /\ call'[p].seen = v.seen /\ call'[p].batch = v.batch /\ call'[p].todo = v.todo
    BY <2>4, <1>0 DEF CallType
  <2>6. v.pc = "keys" /\ \A c \in Chunks : rows'[c] = IF c \in v.keys THEN NoRow ELSE rows[c]
    BY <1>10 DEF DeleteKeys, At
  <2>7. v.keys \cap v.seen = {}  BY <1>0, <2>3 DEF OwnOf
  <2>8. Known' = Known \ v.keys /\ \A c \in Known' : rows'[c] = rows[c]
    BY <2>6 DEF Known
  <2> QED  BY <1>2, <2>3, <2>5, <2>6, <2>7, <2>8 DEF ExactOf, Elements
<1>11. CASE Return(p)
  <2>1. call'[p] = NoCall  BY <1>11, <1>1 DEF Return
  <2> QED  BY <2>1 DEF NoCall
<1> QED  BY <1>4, <1>5, <1>6, <1>7, <1>8, <1>9, <1>10, <1>11 DEF Step

LEMMA ExactNext ==
  ASSUME NEW p, Calls = {p}, Own, RowsPast, ExactOf(call[p]), [Next]_vars
  PROVE  RowsPast' /\ ExactOf(call[p])'
<1>0. /\ Own' /\ TypeOK /\ TypeOK' /\ p \in Calls /\ call \in [Calls -> CallType]
      /\ time \in Nat /\ \A c \in Known : rows[c].at \in Nat
  BY OwnNext DEF Own, TypeOK, CallType, Known, Row
<1>1. ASSUME NEW mode \in Modes, NEW docs \in Loads, Begin(p, mode, docs)
      PROVE  RowsPast' /\ ExactOf(call[p])'
  <2> DEFINE u == [NoCall EXCEPT !.mode = mode, !.start = time, !.docs = docs, !.todo = docs]
  <2>1. docs \in Seq(Chunks)  BY IndexingAssumption
  <2>2. u \in CallType /\ u.docs = docs /\ u.todo = docs /\ u.seen = {} /\ u.start = time
    BY <1>0, <2>1, NoCallType DEF NoCall, CallType
  <2>3. call' = [call EXCEPT ![p] = NextBatch(u)] /\ UNCHANGED <<rows, time>>
    BY <1>1 DEF Begin, Become
  <2>4. Known' = Known  BY <2>3 DEF Known
  <2>5. /\ call'[p].seen = {} /\ call'[p].docs = docs /\ call'[p].start = time
        /\ Elements(docs) = call'[p].batch \cup Elements(call'[p].todo)
        /\ call'[p].pc \in {"exists", "list", "done"}
        /\ call'[p].pc = "done" => call'[p].mode # "full"
        /\ call'[p].pc # "exists" => call'[p].batch = {} /\ call'[p].todo = << >>
    <3> HIDE DEF u
    <3>1. call'[p] = NextBatch(u)  BY <1>0, <2>3
    <3> QED  BY <2>2, <3>1, NextBatchType, NoBatchLeft
  <2>6. Elements(docs) = call'[p].seen \cup call'[p].batch \cup Elements(call'[p].todo)
    BY <2>5
  <2>7. time <= time /\ \A c \in Known : rows[c].at <= time  BY <1>0 DEF RowsPast
  <2> QED  BY <2>3, <2>4, <2>5, <2>6, <2>7 DEF RowsPast, ExactOf, Elements
<1>2. ASSUME NEW target \in Targets, BeginDelete(p, target)
      PROVE  RowsPast' /\ ExactOf(call[p])'
  <2> DEFINE u == [NoCall EXCEPT !.pc = "list", !.mode = "delete", !.batch = target]
  <2>1. call' = [call EXCEPT ![p] = u] /\ UNCHANGED <<rows, time>>
    BY <1>2 DEF BeginDelete, Become
  <2>2. u.mode = "delete"  BY DEF NoCall
  <2>3. call'[p].mode = "delete"
    <3> HIDE DEF u
    <3> QED  BY <1>0, <2>1, <2>2
  <2> QED  BY <2>1, <2>3 DEF RowsPast, ExactOf, Known
<1>3. CASE Step(p)
  <2>1. RowsMoveOn /\ time' >= time  BY <1>0, <1>3, OwnStep DEF Own
  <2> QED  BY <1>0, <1>3, <2>1, RowsStayPast, ExactStep
<1>4. CASE Fail(p)
  <2>1. call' = [call EXCEPT ![p] = NoCall] /\ time' >= time
    BY <1>0, <1>4 DEF Fail, Become
  <2>2. RowsMoveOn  BY <1>0, <1>4, StampedMovesOn DEF Fail
  <2>3. call'[p] = NoCall  BY <1>0, <2>1
  <2> QED  BY <1>0, <2>1, <2>2, <2>3, RowsStayPast DEF ExactOf, NoCall
<1>5. ASSUME UNCHANGED <<rows, call>>, time' >= time, time' \in Nat
      PROVE  RowsPast' /\ ExactOf(call[p])'
  <2>1. Known' = Known  BY <1>5 DEF Known
  <2>2. RowsPast'  BY <1>0, <1>5, <2>1 DEF RowsPast
  <2>3. call[p].mode = "full" => call[p].start <= time'
    <3>1. call[p].start \in Nat  BY <1>0 DEF CallType
    <3> QED  BY <1>0, <1>5, <3>1 DEF ExactOf
  <2> QED  BY <1>5, <2>1, <2>2, <2>3 DEF ExactOf
<1>6. CASE \E c \in Chunks : LandDelete(c) \/ LoseDelete(c)
  BY <1>0, <1>5, <1>6 DEF LandDelete, LoseDelete
<1>7. CASE Tick
  <2>1. UNCHANGED <<rows, call>> /\ time' = time + 1  BY <1>7 DEF Tick
  <2> QED  BY <1>0, <1>5, <2>1
<1>8. CASE UNCHANGED vars
  BY <1>0, <1>5, <1>8 DEF vars
<1> QED  BY <1>1, <1>2, <1>3, <1>4, <1>6, <1>7, <1>8 DEF Next

(* When one call at a time is made, none fails and deletions are awaited,  *)
(* the vector store holds after a full clean-up what the call was given    *)
(* and nothing else, except what was stamped in the tick it began in.      *)
THEOREM FullCleanUpIsExact ==
  ASSUME NEW CONSTANT p, Calls = {p}
  PROVE  Spec => []FullIsExact
<1> DEFINE Exact == Own /\ InStep(p) /\ RowsPast /\ ExactOf(call[p])
<1>1. Init => Exact
  <2> SUFFICES ASSUME Init PROVE Exact
    OBVIOUS
  <2>1. \A q \in Calls : call[q] = NoCall  BY DEF Init
  <2>2. time = 1 /\ pending = {} /\ store = {} /\ Known = {}  BY DEF Init, Known
  <2> QED
    BY <2>1, <2>2, TypeInit DEF Own, OwnOf, Listed, InStep, AgreeOf, RowsPast, ExactOf, NoCall
<1>2. Exact /\ [Next]_vars => Exact'  BY OwnNext, InStepNext, ExactNext
<1>3. Exact => FullIsExact
  <2> SUFFICES ASSUME Exact, At(p, "done"), call[p].mode = "full", awaits, failures = 0
               PROVE  /\ Elements(call[p].docs) \subseteq store
                      /\ \A c \in store \ Elements(call[p].docs) : rows[c].at = call[p].start
    BY DEF FullIsExact
  <2>1. store = Known  BY DEF InStep, AgreeOf, At
  <2>2. Elements(<< >>) = {}  BY DEF Elements
  <2>3. Elements(call[p].docs) \subseteq Known  BY <2>2 DEF ExactOf, At
  <2>4. ASSUME NEW c \in Known \ Elements(call[p].docs) PROVE rows[c].at = call[p].start
    <3>1. rows[c].at \in Nat /\ call[p].start \in Nat
      BY DEF Own, TypeOK, Known, Row
    <3>2. rows[c].at <= call[p].start /\ rows[c].at >= call[p].start
      BY <2>4 DEF ExactOf, At
    <3> QED  BY <3>1, <3>2
  <2> QED  BY <2>1, <2>3, <2>4
<1> HIDE DEF Exact
<1> QED  BY <1>1, <1>2, <1>3, PTL DEF Spec
===========================================================================
