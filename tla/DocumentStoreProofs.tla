------------------------- MODULE DocumentStoreProofs -------------------------
(***************************************************************************)
(* Theorems about the document store: its types for any number of          *)
(* clients, and for requests made one after the other, wherever they fail, *)
(* that chunks belong to a listed loader, that a loader shown as SYNC is   *)
(* whole, and that an upsert and a refresh cover the store.                *)
(***************************************************************************)
EXTENDS DocumentStore, TLAPS

(* What an action leaves alone is read through this tuple.                 *)
USE DEF Rows

(* The full type of a request, and what it has where it needs it: a loader *)
(* to process or edit, a row to save.                                      *)
Pcs ==
  {"idle", "find", "announce", "reread", "split", "clear", "insert", "synced",
   "config", "configure", "mark", "load", "collect", "index", "finish", "next",
   "drop", "unlist", "edited"}

Ops ==
  {"none", "process", "insert", "refresh", "replace", "add", "deleteLoader", "deleteStore", "edit"}

ReqType ==
  [op : Ops, pc : Pcs, doc : Loaders \cup {All}, todo : SUBSET Loaders,
   snap : StoreType \cup {NoStore}, docs : SUBSET Chunks]

OfLoader == {"find", "announce", "reread", "split", "clear", "insert", "synced", "edited"}

WithRow ==
  {"announce", "reread", "split", "clear", "insert", "synced", "configure", "mark",
   "load", "collect", "index", "finish", "edited"}

Deleting == {"drop", "unlist"}

ReqOK(r) ==
  /\ r \in ReqType
  /\ r.pc \in OfLoader => r.doc \in Loaders
  /\ r.pc \in WithRow => r.snap \in StoreType
  /\ r.pc \in Deleting /\ r.doc # All => r.snap \in StoreType

TypeInv == TypeOK /\ req \in [Clients -> ReqType] /\ \A c \in Clients : ReqOK(req[c])

(* The parts of TypeOK an action may disturb.                              *)
TablesOK ==
  /\ store \in StoreType \cup {NoStore}
  /\ chunks \in [Loaders -> SUBSET Chunks]
  /\ given \in [Loaders -> SUBSET Chunks]
  /\ strays \in [Loaders -> SUBSET Chunks]
  /\ late \subseteq Loaders \X Chunks

IndexOK == vectors \subseteq Chunks /\ known \subseteq Chunks

BoundsOK == mode \in {"none", "incremental", "full"} /\ requests \in Nat /\ failures \in Nat

LEMMA TypeParts ==
  TypeInv <=> /\ TablesOK /\ IndexOK /\ BoundsOK
              /\ req \in [Clients -> ReqType] /\ \A c \in Clients : ReqOK(req[c])
<1>1. ASSUME NEW c \in Clients, ReqOK(req[c])
      PROVE  /\ req[c].doc \in Loaders \cup {All}
             /\ req[c].todo \subseteq Loaders /\ req[c].docs \subseteq Chunks
             /\ req[c].snap \in StoreType \cup {NoStore}
  BY <1>1 DEF ReqOK, ReqType
<1> QED  BY <1>1 DEF TypeInv, TypeOK, TablesOK, IndexOK, BoundsOK

LEMMA IdleOK == ReqOK(Idle)
BY DEF ReqOK, ReqType, Idle, OfLoader, WithRow, Deleting, Ops, Pcs

(* A step of c that leaves it with a request of its type.                  *)
LEMMA GotoType ==
  ASSUME TypeInv, NEW c \in Clients, NEW r, ReqOK(r), Goto(c, r)
  PROVE  /\ req' \in [Clients -> ReqType] /\ \A d \in Clients : ReqOK(req'[d])
         /\ req'[c] = r
<1>1. req' = [req EXCEPT ![c] = r] /\ req \in [Clients -> ReqType] /\ \A d \in Clients : ReqOK(req[d])
  BY DEF TypeInv, Goto
<1>2. r \in ReqType  BY DEF ReqOK
<1>3. \A d \in Clients : req'[d] = IF d = c THEN r ELSE req[d]  BY <1>1
<1>4. req' \in [Clients -> ReqType]  BY <1>1, <1>2
<1> QED  BY <1>1, <1>3, <1>4

LEMMA StepType ==
  ASSUME TypeInv, NEW c \in Clients, NEW r, ReqOK(r), Goto(c, r),
         TablesOK' \/ UNCHANGED Tables,
         IndexOK' \/ UNCHANGED Index,
         BoundsOK' \/ UNCHANGED Bounds
  PROVE  TypeInv'
<1>1. TablesOK /\ IndexOK /\ BoundsOK  BY TypeParts
<1>2. TablesOK'  BY <1>1 DEF TablesOK, Tables
<1>3. IndexOK'  BY <1>1 DEF IndexOK, Index
<1>4. BoundsOK'  BY <1>1 DEF BoundsOK, Bounds
<1>5. req' \in [Clients -> ReqType] /\ \A d \in Clients : ReqOK(req'[d])
  BY GotoType
<1>6. \A d \in Clients : ReqOK(req[d])'
  BY <1>5 DEF ReqOK
<1>7. TypeOK'
  <2>1. ASSUME NEW d \in Clients
        PROVE  /\ req'[d].doc \in Loaders \cup {All}
               /\ req'[d].todo \subseteq Loaders /\ req'[d].docs \subseteq Chunks
               /\ req'[d].snap \in StoreType \cup {NoStore}
    BY <1>5 DEF ReqType
  <2> QED  BY <1>2, <1>3, <1>4, <2>1 DEF TypeOK, TablesOK, IndexOK, BoundsOK
<1> QED  BY <1>5, <1>6, <1>7 DEF TypeInv

---------------------------------------------------------------------------
(* What indexing does to the two stores.                                   *)
LEMMA IndexingTypes ==
  ASSUME IndexOK, NEW docs \in SUBSET Chunks
  PROVE  /\ Indexing!Indexes(docs, mode) => IndexOK'
         /\ Indexing!IndexesInPart(docs, mode) => IndexOK'
         /\ \A target : Indexing!Deletes(target) => IndexOK'
<1>1. Indexing!Indexes(docs, mode) => IndexOK'
  BY DEF Indexing!Indexes, IndexOK
<1>2. Indexing!IndexesInPart(docs, mode) => IndexOK'
  BY DEF Indexing!IndexesInPart, Indexing!CutShort, IndexOK
<1>3. \A target : Indexing!Deletes(target) => IndexOK'
  BY DEF Indexing!Deletes, IndexOK
<1> QED  BY <1>1, <1>2, <1>3

LEMMA OfDocType ==
  ASSUME TablesOK, NEW doc \in Loaders \cup {All}
  PROVE  OfDoc(doc) \subseteq Chunks
BY DEF OfDoc, TablesOK

(***************************************************************************)
(* Type correctness.                                                       *)
(***************************************************************************)
LEMMA TypeInit == Init => TypeInv
<1> SUFFICES ASSUME Init PROVE TypeInv
  OBVIOUS
<1>1. TablesOK
  <2>1. [status |-> "EMPTY", loaders |-> [l \in Loaders |-> "none"]] \in StoreType
    BY DEF StoreType, StoreStatus
  <2> QED  BY <2>1 DEF Init, TablesOK
<1>2. IndexOK /\ BoundsOK  BY StoreAssumption DEF Init, IndexOK, BoundsOK
<1>3. \A c \in Clients : req[c] = Idle  BY DEF Init
<1>4. Idle \in ReqType  BY IdleOK DEF ReqOK
<1>5. req \in [Clients -> ReqType]  BY <1>4 DEF Init
<1> QED  BY <1>1, <1>2, <1>3, <1>5, IdleOK, TypeParts

(* What the steps have in common. *)
LEMMA BeginType ==
  ASSUME TypeInv, NEW c \in Clients, NEW r, ReqOK(r), Begin(c, r),
         TablesOK' \/ UNCHANGED Tables
  PROVE  TypeInv'
<1>1. Goto(c, r) /\ UNCHANGED Index /\ BoundsOK'
  BY DEF Begin, TypeInv, TypeOK, BoundsOK
<1> QED  BY <1>1, StepType

LEMMA MovesTo ==
  ASSUME TypeInv, NEW c \in Clients, NEW pc \in Pcs,
         pc \in OfLoader => req[c].doc \in Loaders,
         NEW snap \in StoreType \cup {NoStore},
         pc \in WithRow => snap \in StoreType,
         pc \notin Deleting,
         NEW docs \in SUBSET Chunks
  PROVE  /\ ReqOK([req[c] EXCEPT !.pc = pc, !.snap = snap])
         /\ ReqOK([req[c] EXCEPT !.pc = pc, !.docs = docs])
              \/ ~ (pc \in WithRow => req[c].snap \in StoreType)
         /\ ReqOK([req[c] EXCEPT !.pc = pc])
              \/ ~ (pc \in WithRow => req[c].snap \in StoreType)
<1>1. req[c] \in ReqType  BY DEF TypeInv
<1> QED  BY <1>1 DEF ReqOK, ReqType

LEMMA FindType ==
  ASSUME TypeInv, NEW c \in Clients, NEW next \in Pcs \ Deleting,
         next \in OfLoader => req[c].doc \in Loaders, Find(c, next)
  PROVE  TypeInv'
<1>1. UNCHANGED <<Bounds, Tables, Index>>  BY DEF Find
<1>2. CASE store = NoStore
  <2>1. Goto(c, Idle)  BY <1>2 DEF Find
  <2> QED  BY <1>1, <2>1, IdleOK, StepType
<1>3. CASE store # NoStore
  <2>1. store \in StoreType  BY <1>3 DEF TypeInv, TypeOK
  <2>2. ReqOK([req[c] EXCEPT !.pc = next, !.snap = store])  BY <2>1, MovesTo
  <2>3. Goto(c, [req[c] EXCEPT !.pc = next, !.snap = store])  BY <1>3 DEF Find
  <2> QED  BY <1>1, <2>2, <2>3, StepType
<1> QED  BY <1>2, <1>3

LEMMA SaveType ==
  ASSUME TypeInv, NEW c \in Clients, NEW next \in Pcs \ Deleting,
         next \in OfLoader => req[c].doc \in Loaders,
         NEW row \in StoreType, Save(c, row, next)
  PROVE  TypeInv'
<1>1. UNCHANGED <<Bounds, Index>> /\ Goto(c, [req[c] EXCEPT !.pc = next, !.snap = row])
  BY DEF Save
<1>2. TablesOK'  BY DEF Save, TypeInv, TypeOK, TablesOK
<1>3. ReqOK([req[c] EXCEPT !.pc = next, !.snap = row])  BY MovesTo
<1> QED  BY <1>1, <1>2, <1>3, StepType

(* A row that is saved with another status, or another status of a loader. *)
LEMMA RowTypes ==
  ASSUME NEW row \in StoreType
  PROVE  /\ \A s \in StoreStatus : [row EXCEPT !.status = s] \in StoreType
         /\ \A l \in Loaders, s \in {"none", "SYNCING", "SYNC"} :
              /\ [row EXCEPT !.loaders[l] = s] \in StoreType
              /\ [row.loaders EXCEPT ![l] = s] \in [Loaders -> {"none", "SYNCING", "SYNC"}]
         /\ row.status \in StoreStatus
BY DEF StoreType

(* Processing. *)
LEMMA TypeProcessing ==
  ASSUME TypeInv, NEW c \in Clients,
         \/ FindForProcessing(c) \/ Announce(c) \/ Reread(c) \/ Split(c)
         \/ ClearChunks(c) \/ SaveChunk(c) \/ InsertChunks(c) \/ Synced(c)
  PROVE  TypeInv'
<1> DEFINE r == req[c]
<1>0. ReqOK(r) /\ r \in ReqType  BY DEF TypeInv, ReqOK
<1>1. CASE FindForProcessing(c)
  <2>1. r.doc \in Loaders  BY <1>0, <1>1 DEF FindForProcessing, At, ReqOK, OfLoader
  <2>2. "announce" \in Pcs \ Deleting  BY DEF Pcs, Deleting
  <2> QED  BY <1>1, <2>1, <2>2, FindType DEF FindForProcessing
<1>2. CASE Announce(c)
  <2>1. r.doc \in Loaders /\ r.snap \in StoreType
    BY <1>0, <1>2 DEF Announce, At, ReqOK, OfLoader, WithRow
  <2>2. [r.snap EXCEPT !.loaders[r.doc] = "SYNCING"] \in StoreType  BY <2>1, RowTypes
  <2>3. "reread" \in Pcs \ Deleting  BY DEF Pcs, Deleting
  <2> QED  BY <1>2, <2>1, <2>2, <2>3, SaveType DEF Announce
<1>3. CASE Reread(c)
  <2>1. r.doc \in Loaders  BY <1>0, <1>3 DEF Reread, At, ReqOK, OfLoader
  <2>2. "split" \in Pcs \ Deleting  BY DEF Pcs, Deleting
  <2> QED  BY <1>3, <2>1, <2>2, FindType DEF Reread
<1>4. CASE Split(c)
  <2>1. r.doc \in Loaders /\ r.snap \in StoreType
    BY <1>0, <1>4 DEF Split, At, ReqOK, OfLoader, WithRow
  <2>2. PICK docs \in Splits[r.doc] : Goto(c, [r EXCEPT !.pc = "clear", !.docs = docs])
    BY <1>4 DEF Split
  <2>3. docs \subseteq Chunks  BY <2>1, <2>2, StoreAssumption
  <2>4. "clear" \in Pcs /\ "clear" \notin Deleting  BY DEF Pcs, Deleting
  <2>5. ReqOK([r EXCEPT !.pc = "clear", !.docs = docs])  BY <2>1, <2>3, <2>4, MovesTo
  <2> QED  BY <1>4, <2>2, <2>5, StepType DEF Split
<1>5. CASE ClearChunks(c)
  <2>1. r.doc \in Loaders /\ r.snap \in StoreType /\ r.docs \subseteq Chunks
    BY <1>0, <1>5 DEF ClearChunks, At, ReqOK, ReqType, OfLoader, WithRow
  <2>2. "insert" \in Pcs /\ "insert" \notin Deleting  BY DEF Pcs, Deleting
  <2>3. ReqOK([r EXCEPT !.pc = "insert"])  BY <2>1, <2>2, MovesTo
  <2>4. Goto(c, [r EXCEPT !.pc = "insert"]) /\ UNCHANGED <<Bounds, Index>>
    BY <1>5 DEF ClearChunks
  <2>5. TablesOK'  BY <1>5, <2>1 DEF ClearChunks, TypeInv, TypeOK, TablesOK
  <2> QED  BY <2>3, <2>4, <2>5, StepType
<1>6. CASE SaveChunk(c) \/ InsertChunks(c)
  <2>1. r.doc \in Loaders /\ r.snap \in StoreType /\ r.docs \subseteq Chunks
    BY <1>0, <1>6 DEF SaveChunk, InsertChunks, At, ReqOK, ReqType, OfLoader, WithRow
  <2>2. CASE SaveChunk(c)
    <3>1. PICK k \in r.docs : /\ chunks' = [chunks EXCEPT ![r.doc] = @ \cup {k}]
                              /\ Goto(c, [r EXCEPT !.docs = @ \ {k}])
      BY <2>2 DEF SaveChunk
    <3>2. TablesOK' /\ UNCHANGED <<Bounds, Index>>
      BY <2>1, <2>2, <3>1 DEF SaveChunk, TypeInv, TypeOK, TablesOK
    <3>3. ReqOK([r EXCEPT !.docs = @ \ {k}])  BY <1>0, <2>1 DEF ReqOK, ReqType
    <3> QED  BY <3>1, <3>2, <3>3, StepType
  <2>3. CASE InsertChunks(c)
    <3>1. "synced" \in Pcs /\ "synced" \notin Deleting  BY DEF Pcs, Deleting
    <3>2. ReqOK([r EXCEPT !.pc = "synced"])  BY <2>1, <3>1, MovesTo
    <3>3. /\ Goto(c, [r EXCEPT !.pc = "synced"]) \/ Goto(c, Idle)
          /\ UNCHANGED <<Bounds, Tables, Index>>
      BY <2>3 DEF InsertChunks
    <3> QED  BY <3>2, <3>3, IdleOK, StepType
  <2> QED  BY <1>6, <2>2, <2>3
<1>7. CASE Synced(c)
  <2> DEFINE loaders == [r.snap.loaders EXCEPT ![r.doc] = "SYNC"]
  <2>1. r.doc \in Loaders /\ r.snap \in StoreType
    BY <1>0, <1>7 DEF Synced, At, ReqOK, OfLoader, WithRow
  <2>2. loaders \in [Loaders -> {"none", "SYNCING", "SYNC"}]  BY <2>1, RowTypes
  <2>3. \A s \in StoreStatus : [status |-> s, loaders |-> loaders] \in StoreType
    BY <2>2 DEF StoreType
  <2>4. store' \in StoreType /\ UNCHANGED <<Bounds, Rows, Index>>
    BY <1>7, <2>3 DEF Synced, StoreStatus
  <2>5. TablesOK'  BY <2>4 DEF TypeInv, TypeOK, TablesOK
  <2>6. "config" \in Pcs /\ "config" \notin Deleting /\ "config" \notin OfLoader
    BY DEF Pcs, Deleting, OfLoader
  <2>7. ReqOK([r EXCEPT !.pc = "config"])  BY <2>1, <2>6, MovesTo
  <2>8. Goto(c, [r EXCEPT !.pc = "config"]) \/ Goto(c, Idle)  BY <1>7 DEF Synced
  <2> QED  BY <2>4, <2>5, <2>7, <2>8, IdleOK, StepType
<1> QED  BY <1>1, <1>2, <1>3, <1>4, <1>5, <1>6, <1>7

(* Upserting. *)
LEMMA TypeUpserting ==
  ASSUME TypeInv, NEW c \in Clients,
         \/ FindForConfig(c) \/ Configure(c) \/ MarkUpserting(c)
         \/ FindForUpsert(c) \/ Collect(c) \/ CallIndex(c) \/ Finish(c)
  PROVE  TypeInv'
<1> DEFINE r == req[c]
<1>0. ReqOK(r) /\ r \in ReqType  BY DEF TypeInv, ReqOK
<1>1. CASE FindForConfig(c)
  <2>1. "configure" \in Pcs \ Deleting /\ "configure" \notin OfLoader
    BY DEF Pcs, Deleting, OfLoader
  <2> QED  BY <1>1, <2>1, FindType DEF FindForConfig
<1>2. CASE Configure(c)
  <2> DEFINE status == IF r.snap.status = "UPSERTED" THEN r.snap.status ELSE "SYNC"
  <2>1. r.snap \in StoreType  BY <1>0, <1>2 DEF Configure, At, ReqOK, WithRow
  <2>2. status \in StoreStatus  BY <2>1, RowTypes DEF StoreStatus
  <2>3. [r.snap EXCEPT !.status = status] \in StoreType  BY <2>1, <2>2, RowTypes
  <2>4. "mark" \in Pcs \ Deleting /\ "mark" \notin OfLoader  BY DEF Pcs, Deleting, OfLoader
  <2>5. Save(c, [r.snap EXCEPT !.status = status], "mark")  BY <1>2 DEF Configure
  <2> QED  BY <2>3, <2>4, <2>5, SaveType
<1>3. CASE MarkUpserting(c)
  <2>1. r.snap \in StoreType  BY <1>0, <1>3 DEF MarkUpserting, At, ReqOK, WithRow
  <2>2. [r.snap EXCEPT !.status = "UPSERTING"] \in StoreType  BY <2>1, RowTypes DEF StoreStatus
  <2>3. "load" \in Pcs \ Deleting /\ "load" \notin OfLoader  BY DEF Pcs, Deleting, OfLoader
  <2> QED  BY <1>3, <2>2, <2>3, SaveType DEF MarkUpserting
<1>4. CASE FindForUpsert(c)
  <2>1. "collect" \in Pcs \ Deleting /\ "collect" \notin OfLoader
    BY DEF Pcs, Deleting, OfLoader
  <2> QED  BY <1>4, <2>1, FindType DEF FindForUpsert
<1>5. CASE Collect(c)
  <2>1. r.snap \in StoreType  BY <1>0, <1>5 DEF Collect, At, ReqOK, WithRow
  <2>2. OfDoc(r.doc) \subseteq Chunks
    BY <1>0, OfDocType, TypeParts DEF ReqType
  <2>3. "index" \in Pcs /\ "index" \notin Deleting /\ "index" \notin OfLoader
    BY DEF Pcs, Deleting, OfLoader
  <2>4. ReqOK([r EXCEPT !.pc = "index", !.docs = OfDoc(r.doc)])  BY <2>1, <2>2, <2>3, MovesTo
  <2> QED  BY <1>5, <2>4, StepType DEF Collect
<1>6. CASE CallIndex(c)
  <2>1. r.snap \in StoreType /\ r.docs \in SUBSET Chunks
    BY <1>0, <1>6 DEF CallIndex, At, ReqOK, ReqType, WithRow
  <2>2. IndexOK'  BY <1>6, <2>1, IndexingTypes, TypeParts DEF CallIndex
  <2>3. "finish" \in Pcs /\ "finish" \notin Deleting /\ "finish" \notin OfLoader
    BY DEF Pcs, Deleting, OfLoader
  <2>4. ReqOK([r EXCEPT !.pc = "finish"])  BY <2>1, <2>3, MovesTo
  <2> QED  BY <1>6, <2>2, <2>4, StepType DEF CallIndex
<1>7. CASE Finish(c)
  <2>1. r.snap \in StoreType  BY <1>0, <1>7 DEF Finish, At, ReqOK, WithRow
  <2>2. [r.snap EXCEPT !.status = "UPSERTED"] \in StoreType  BY <2>1, RowTypes DEF StoreStatus
  <2>3. TablesOK' /\ UNCHANGED <<Bounds, Index>>
    BY <1>7, <2>2 DEF Finish, TypeInv, TypeOK, TablesOK
  <2>4. ReqOK([Idle EXCEPT !.op = r.op, !.pc = "next", !.todo = r.todo])
    BY <1>0 DEF ReqOK, ReqType, Idle, OfLoader, WithRow, Deleting, Pcs
  <2>5. Goto(c, Idle) \/ Goto(c, [Idle EXCEPT !.op = r.op, !.pc = "next", !.todo = r.todo])
    BY <1>7 DEF Finish
  <2> QED  BY <2>3, <2>4, <2>5, IdleOK, StepType
<1> QED  BY <1>1, <1>2, <1>3, <1>4, <1>5, <1>6, <1>7

(* Refreshing, deleting and editing. *)
LEMMA TypeOther ==
  ASSUME TypeInv, NEW c \in Clients,
         NextLoader(c) \/ DropChunks(c) \/ Unlist(c) \/ SaveEdited(c)
  PROVE  TypeInv'
<1> DEFINE r == req[c]
<1>0. ReqOK(r) /\ r \in ReqType  BY DEF TypeInv, ReqOK
<1>1. CASE NextLoader(c)
  <2>1. PICK l \in r.todo :
          Goto(c, IF HasLoader(store, l)
                  THEN [r EXCEPT !.pc = "find", !.doc = l, !.todo = @ \ {l}] ELSE Idle)
    BY <1>1 DEF NextLoader
  <2>2. l \in Loaders /\ r.todo \ {l} \in SUBSET Loaders  BY <1>0, <2>1 DEF ReqType
  <2>3. ReqOK([r EXCEPT !.pc = "find", !.doc = l, !.todo = @ \ {l}])
    BY <1>0, <2>2 DEF ReqOK, ReqType, WithRow, Deleting, Pcs
  <2>4. Goto(c, Idle) \/ Goto(c, [r EXCEPT !.pc = "find", !.doc = l, !.todo = @ \ {l}])
    BY <2>1
  <2> QED  BY <1>1, <2>3, <2>4, IdleOK, StepType DEF NextLoader
<1>2. CASE DropChunks(c)
  <2>1. TablesOK' /\ UNCHANGED <<Bounds, Index>>
    BY <1>2 DEF DropChunks, TypeInv, TypeOK, TablesOK
  <2>2. ReqOK([r EXCEPT !.pc = "unlist"])
    BY <1>0, <1>2 DEF DropChunks, At, ReqOK, ReqType, OfLoader, WithRow, Deleting, Pcs
  <2> QED  BY <1>2, <2>1, <2>2, StepType DEF DropChunks
<1>3. CASE Unlist(c)
  <2>1. r.doc # All => r.doc \in Loaders /\ r.snap \in StoreType
    BY <1>0, <1>3 DEF Unlist, At, ReqOK, ReqType, Deleting
  <2>2. r.doc # All => [r.snap EXCEPT !.loaders[r.doc] = "none"] \in StoreType
    BY <2>1, RowTypes
  <2>3. TablesOK' /\ UNCHANGED <<Bounds, Index>>
    BY <1>3, <2>2 DEF Unlist, TypeInv, TypeOK, TablesOK
  <2> QED  BY <1>3, <2>3, IdleOK, StepType DEF Unlist
<1>4. CASE SaveEdited(c)
  <2>1. r.snap \in StoreType  BY <1>0, <1>4 DEF SaveEdited, At, ReqOK, WithRow
  <2>2. TablesOK' /\ UNCHANGED <<Bounds, Index>>
    BY <1>4, <2>1 DEF SaveEdited, TypeInv, TypeOK, TablesOK
  <2> QED  BY <1>4, <2>2, IdleOK, StepType DEF SaveEdited
<1> QED  BY <1>1, <1>2, <1>3, <1>4

LEMMA TypeStep == ASSUME TypeInv, NEW c \in Clients, Step(c) PROVE TypeInv'
BY TypeProcessing, TypeUpserting, TypeOther DEF Step

(* New requests. *)
LEMMA NewRequests ==
  /\ \A l \in Loaders, op \in Ops : ReqOK([Idle EXCEPT !.op = op, !.pc = "find", !.doc = l])
  /\ \A doc \in Loaders \cup {All}, op \in Ops :
       ReqOK([Idle EXCEPT !.op = op, !.pc = "config", !.doc = doc])
  /\ \A items \in SUBSET Loaders, op \in Ops :
       ReqOK([Idle EXCEPT !.op = op, !.pc = "next", !.todo = items])
  /\ \A op \in Ops : ReqOK([Idle EXCEPT !.op = op, !.pc = "drop"])
  /\ \A l \in Loaders, op \in Ops, row \in StoreType, pc \in {"drop", "edited"} :
       ReqOK([Idle EXCEPT !.op = op, !.pc = pc, !.doc = l, !.snap = row])
<1> USE DEF ReqOK, ReqType, Idle
<1>1. /\ {"find", "config", "next", "drop", "edited"} \subseteq Pcs
      /\ {"config", "next", "drop"} \cap OfLoader = {}
      /\ {"find", "config", "next", "drop"} \cap WithRow = {}
      /\ {"find", "config", "next", "edited"} \cap Deleting = {}
  BY DEF OfLoader, WithRow, Deleting, Pcs
<1>2. ASSUME NEW l \in Loaders, NEW op \in Ops
      PROVE  ReqOK([Idle EXCEPT !.op = op, !.pc = "find", !.doc = l])
  BY <1>1
<1>3. ASSUME NEW doc \in Loaders \cup {All}, NEW op \in Ops
      PROVE  ReqOK([Idle EXCEPT !.op = op, !.pc = "config", !.doc = doc])
  BY <1>1
<1>4. ASSUME NEW items \in SUBSET Loaders, NEW op \in Ops
      PROVE  ReqOK([Idle EXCEPT !.op = op, !.pc = "next", !.todo = items])
  BY <1>1
<1>5. ASSUME NEW op \in Ops PROVE ReqOK([Idle EXCEPT !.op = op, !.pc = "drop"])
  BY <1>1
<1>6. ASSUME NEW l \in Loaders, NEW op \in Ops, NEW row \in StoreType, NEW pc \in {"drop", "edited"}
      PROVE  ReqOK([Idle EXCEPT !.op = op, !.pc = pc, !.doc = l, !.snap = row])
  BY <1>1
<1> QED  BY <1>2, <1>3, <1>4, <1>5, <1>6

LEMMA TypeRequest == ASSUME TypeInv, NEW c \in Clients, Request(c) PROVE TypeInv'
<1>0. store # NoStore => store \in StoreType  BY DEF TypeInv, TypeOK
<1>1. ASSUME NEW l \in Loaders, Process(c, l) \/ UpsertLoader(c, l) PROVE TypeInv'
  <2>1. UNCHANGED Tables  BY <1>1 DEF Process, UpsertLoader
  <2>2. \E op \in Ops : Begin(c, [Idle EXCEPT !.op = op, !.pc = "find", !.doc = l])
    BY <1>1 DEF Process, UpsertLoader, Ops
  <2> QED  BY <2>1, <2>2, NewRequests, BeginType
<1>2. ASSUME NEW l \in Loaders, DeleteLoader(c, l) PROVE TypeInv'
  <2>1. store \in StoreType /\ UNCHANGED Tables  BY <1>0, <1>2 DEF DeleteLoader, HasLoader
  <2>2. Begin(c, [Idle EXCEPT !.op = "deleteLoader", !.pc = "drop", !.doc = l, !.snap = store])
    BY <1>2 DEF DeleteLoader
  <2>3. "deleteLoader" \in Ops  BY DEF Ops
  <2> QED  BY <2>1, <2>2, <2>3, NewRequests, BeginType
<1>3. ASSUME NEW l \in Loaders, EditChunk(c, l) PROVE TypeInv'
  <2>1. store \in StoreType /\ UNCHANGED store  BY <1>0, <1>3 DEF EditChunk, HasLoader
  <2>2. Begin(c, [Idle EXCEPT !.op = "edit", !.pc = "edited", !.doc = l, !.snap = store])
    BY <1>3 DEF EditChunk
  <2>3. PICK old \in chunks[l], new \in SUBSET UNION Splits[l] :
          /\ chunks' = [chunks EXCEPT ![l] = (@ \ {old}) \cup new]
          /\ given' = [given EXCEPT ![l] = (@ \ {old}) \cup new]
          /\ UNCHANGED <<late, strays>>
    BY <1>3 DEF EditChunk
  <2>4. new \subseteq Chunks  BY StoreAssumption
  <2>5. chunks' \in [Loaders -> SUBSET Chunks] /\ given' \in [Loaders -> SUBSET Chunks]
    BY <2>3, <2>4 DEF TypeInv, TypeOK
  <2>6. TablesOK'  BY <2>1, <2>3, <2>5 DEF TypeInv, TypeOK, TablesOK
  <2>7. "edit" \in Ops  BY DEF Ops
  <2> QED  BY <2>1, <2>2, <2>6, <2>7, NewRequests, BeginType
<1>4. ASSUME NEW doc \in Loaders \cup {All}, Upsert(c, doc) PROVE TypeInv'
  <2> DEFINE r == [Idle EXCEPT !.op = "insert", !.pc = "config", !.doc = doc]
  <2>1. ReqOK(r)  BY NewRequests DEF Ops
  <2>2. Begin(c, r) /\ UNCHANGED Tables  BY <1>4 DEF Upsert
  <2> QED  BY <2>1, <2>2, BeginType
<1>5. ASSUME NEW doc \in Loaders \cup {All}, DeleteVectors(c, doc) PROVE TypeInv'
  <2>1. IndexOK' /\ BoundsOK'
    <3>1. IndexOK /\ BoundsOK  BY TypeParts
    <3>2. /\ Indexing!Deletes(InStoreOf(doc)) /\ UNCHANGED <<mode, failures>>
          /\ requests' = requests + 1
      BY <1>5 DEF DeleteVectors
    <3>3. IndexOK'  BY <3>1, <3>2, IndexingTypes
    <3> QED  BY <3>1, <3>2, <3>3 DEF BoundsOK
  <2>2. UNCHANGED <<store, chunks, late, given, strays, req>>
    BY <1>5 DEF DeleteVectors, Tables
  <2>3. TablesOK'  BY <2>2 DEF TypeInv, TypeOK, TablesOK
  <2>4. TypeOK'  BY <2>1, <2>2, <2>3 DEF TypeInv, TypeOK, TablesOK, IndexOK, BoundsOK
  <2>5. \A d \in Clients : ReqOK(req[d])'  BY <2>2 DEF TypeInv, ReqOK
  <2> QED  BY <2>2, <2>4, <2>5 DEF TypeInv
<1>6. ASSUME NEW items \in SUBSET Loaders, Refresh(c, items) PROVE TypeInv'
  <2> DEFINE todo == {l \in Loaders : HasLoader(store, l)}
  <2>1. UNCHANGED Tables  BY <1>6 DEF Refresh
  <2>2. \/ Begin(c, [Idle EXCEPT !.op = "replace", !.pc = "next", !.todo = items])
        \/ Begin(c, [Idle EXCEPT !.op = "refresh", !.pc = "next", !.todo = todo])
        \/ Begin(c, Idle)
    BY <1>6 DEF Refresh
  <2>3. todo \in SUBSET Loaders /\ "replace" \in Ops /\ "refresh" \in Ops  BY DEF Ops
  <2> QED  BY <2>1, <2>2, <2>3, IdleOK, NewRequests, BeginType
<1>7. CASE DeleteStore(c)
  <2>1. "deleteStore" \in Ops  BY DEF Ops
  <2> QED  BY <1>7, <2>1, NewRequests, BeginType DEF DeleteStore
<1> QED  BY <1>1, <1>2, <1>3, <1>4, <1>5, <1>6, <1>7 DEF Request

(* A failure. *)
LEMMA TypeFail == ASSUME TypeInv, NEW c \in Clients, Fail(c) PROVE TypeInv'
<1> DEFINE r == req[c]
<1>0. ReqOK(r) /\ r \in ReqType  BY DEF TypeInv, ReqOK
<1>1. r.pc = "insert" => r.doc \in Loaders /\ r.docs \subseteq Chunks
  BY <1>0 DEF ReqOK, ReqType, OfLoader
<1>2. late' \subseteq Loaders \X Chunks  BY <1>1 DEF Fail, TypeInv, TypeOK
<1>3. TablesOK'  BY <1>2 DEF Fail, TypeInv, TypeOK, TablesOK
<1>4. IndexOK' \/ UNCHANGED Index
  <2>1. r.docs \in SUBSET Chunks  BY <1>0 DEF ReqType
  <2> QED  BY <2>1, IndexingTypes, TypeParts DEF Fail
<1>5. BoundsOK'  BY DEF Fail, TypeInv, TypeOK, BoundsOK
<1> QED  BY <1>3, <1>4, <1>5, IdleOK, StepType DEF Fail

(* A save that lands late or is refused. *)
LEMMA TypeLate ==
  ASSUME TypeInv, NEW l \in Loaders, NEW k \in Chunks, LandLate(l, k) \/ LoseLate(l, k)
  PROVE  TypeInv'
<1>1. TablesOK'  BY DEF LandLate, LoseLate, TypeInv, TypeOK, TablesOK
<1>2. UNCHANGED <<Bounds, Index, req>>  BY DEF LandLate, LoseLate
<1>3. TypeOK'  BY <1>1, <1>2 DEF TypeInv, TypeOK, TablesOK, Bounds, Index
<1>4. \A d \in Clients : ReqOK(req[d])'  BY <1>2 DEF TypeInv, ReqOK
<1> QED  BY <1>2, <1>3, <1>4 DEF TypeInv

LEMMA TypeNext == TypeInv /\ [Next]_vars => TypeInv'
<1> SUFFICES ASSUME TypeInv, [Next]_vars PROVE TypeInv'
  OBVIOUS
<1>1. CASE UNCHANGED vars
  <2>1. TypeOK'  BY <1>1 DEF TypeInv, TypeOK, vars
  <2>2. \A d \in Clients : ReqOK(req[d])'  BY <1>1 DEF TypeInv, ReqOK, vars
  <2> QED  BY <1>1, <2>1, <2>2 DEF TypeInv, vars
<1> QED  BY <1>1, TypeStep, TypeRequest, TypeFail, TypeLate DEF Next

(* Every variable of the document store keeps its type, whatever requests  *)
(* overlap and wherever they fail.                                         *)
THEOREM StoreTypes == Spec => []TypeOK
<1>1. TypeInv => TypeOK  BY DEF TypeInv
<1> QED  BY <1>1, TypeInit, TypeNext, PTL DEF Spec

---------------------------------------------------------------------------
(***************************************************************************)
(* Requests made one after the other: the row a request saves is the row   *)
(* as it is, and while a loader's chunks are incomplete it is SYNCING.     *)
(***************************************************************************)
SyncingAt == {"reread", "split", "clear", "insert", "synced"}

(* All of what a loader was given, and nothing else but late saves. *)
Complete(l) == given[l] \subseteq chunks[l] /\ chunks[l] \subseteq given[l] \cup strays[l]

CalmOf(r) ==
  /\ r.pc = "idle" => r = Idle
  /\ r.pc \in WithRow => r.snap = store
  /\ r.pc \in Deleting /\ r.doc # All => r.snap = store
  /\ r.pc \in SyncingAt => store.loaders[r.doc] = "SYNCING"
  /\ r.pc = "insert" =>
       /\ r.docs \subseteq given[r.doc] /\ given[r.doc] \subseteq chunks[r.doc] \cup r.docs
       /\ chunks[r.doc] \subseteq given[r.doc] \cup strays[r.doc]
  /\ r.pc = "synced" => Complete(r.doc)
  /\ r.pc = "unlist" => \A l \in Loaders : r.doc \in {All, l} => chunks[l] \subseteq strays[l]

Whole ==
  store # NoStore =>
    \A l \in Loaders : store.loaders[l] = "SYNC" => Complete(l)

Quiet(p) == CalmOf(req[p]) /\ Whole /\ NoOrphanChunks

LEMMA GotoIs ==
  ASSUME TypeInv, NEW p \in Clients, NEW r, Goto(p, r)
  PROVE  req'[p] = r
BY DEF TypeInv, Goto

(* A step that moves the request and leaves the tables alone. *)
LEMMA QuietMove ==
  ASSUME TypeInv, NEW p \in Clients, Quiet(p), UNCHANGED Tables, NEW r, Goto(p, r), CalmOf(r)
  PROVE  Quiet(p)'
<1>1. req'[p] = r  BY GotoIs
<1>2. CalmOf(req[p])'  BY <1>1 DEF CalmOf, Complete, Tables
<1>3. Whole' /\ NoOrphanChunks'
  BY DEF Quiet, Whole, Complete, NoOrphanChunks, HasLoader, Tables
<1> QED  BY <1>2, <1>3 DEF Quiet

(* A request that has nothing to keep in step with the tables. *)
LEMMA NothingKept ==
  ASSUME NEW r, r.pc \in {"find", "config", "next"} \/ r = Idle
  PROVE  CalmOf(r) /\ CalmOf(r)'
BY DEF CalmOf, WithRow, Deleting, SyncingAt, Idle

(* A row whose loaders are as listed before, save the one of the request.  *)
LEMMA QuietRow ==
  ASSUME TypeInv, NEW p \in Clients, Quiet(p), store' \in StoreType, store \in StoreType,
         UNCHANGED <<chunks, given, strays>>,
         NEW l \in Loaders,
         \A m \in Loaders \ {l} : store'.loaders[m] = store.loaders[m],
         chunks[l] \ strays[l] # {} => store'.loaders[l] # "none",
         store'.loaders[l] = "SYNC" => Complete(l)
  PROVE  Whole' /\ NoOrphanChunks'
<1>1. store # NoStore /\ store' # NoStore  BY StoreAssumption
<1>2. Whole'
  BY <1>1 DEF Quiet, Whole, Complete
<1>3. NoOrphanChunks'
  BY <1>1 DEF Quiet, NoOrphanChunks, HasLoader
<1> QED  BY <1>2, <1>3

(* A row with another status and the same loaders. *)
LEMMA QuietStatus ==
  ASSUME TypeInv, NEW p \in Clients, Quiet(p), store' \in StoreType, store \in StoreType,
         UNCHANGED <<chunks, given, strays>>, store'.loaders = store.loaders
  PROVE  Whole' /\ NoOrphanChunks'
<1>1. store # NoStore /\ store' # NoStore  BY StoreAssumption
<1>2. Whole'  BY <1>1 DEF Quiet, Whole, Complete
<1>3. NoOrphanChunks'  BY <1>1 DEF Quiet, NoOrphanChunks, HasLoader
<1> QED  BY <1>2, <1>3

(* Chunks of a loader that is listed and not yet SYNC. *)
LEMMA QuietChunks ==
  ASSUME TypeInv, NEW p \in Clients, Quiet(p), UNCHANGED store, store \in StoreType,
         NEW l \in Loaders, store.loaders[l] # "none",
         \A m \in Loaders \ {l} :
           chunks'[m] = chunks[m] /\ given'[m] = given[m] /\ strays'[m] = strays[m],
         store.loaders[l] = "SYNC" => Complete(l)'
  PROVE  Whole' /\ NoOrphanChunks'
<1>1. store # NoStore  BY StoreAssumption
<1>2. Whole'  BY <1>1 DEF Quiet, Whole, Complete
<1>3. NoOrphanChunks'  BY <1>1 DEF Quiet, NoOrphanChunks, HasLoader
<1> QED  BY <1>2, <1>3

LEMMA QuietFind ==
  ASSUME TypeInv, NEW p \in Clients, Quiet(p),
         NEW next \in {"announce", "split", "configure", "collect"}, Find(p, next),
         next = "split" => At(p, "reread")
  PROVE  Quiet(p)'
<1>1. UNCHANGED Tables  BY DEF Find
<1>2. CASE store = NoStore
  <2>1. Goto(p, Idle)  BY <1>2 DEF Find
  <2> QED  BY <1>1, <2>1, NothingKept, QuietMove
<1>3. CASE store # NoStore
  <2> DEFINE r == [req[p] EXCEPT !.pc = next, !.snap = store]
  <2>1. Goto(p, r)  BY <1>3 DEF Find
  <2>2. r.pc = next /\ r.snap = store /\ r.doc = req[p].doc
    BY DEF TypeInv, ReqType
  <2>3. next = "split" => store.loaders[req[p].doc] = "SYNCING"
    BY DEF At, Quiet, CalmOf, SyncingAt
  <2>4. CalmOf(r)  BY <2>2, <2>3 DEF CalmOf, SyncingAt, Deleting
  <2> QED  BY <1>1, <2>1, <2>4, QuietMove
<1> QED  BY <1>2, <1>3

LEMMA QuietProcessing ==
  ASSUME TypeInv, TypeInv', NEW p \in Clients, Quiet(p),
         \/ FindForProcessing(p) \/ Announce(p) \/ Reread(p) \/ Split(p)
         \/ ClearChunks(p) \/ SaveChunk(p) \/ InsertChunks(p) \/ Synced(p)
  PROVE  Quiet(p)'
<1> DEFINE r == req[p]
<1>0. ReqOK(r) /\ r \in ReqType /\ CalmOf(r)  BY DEF TypeInv, ReqOK, Quiet
<1>1. CASE FindForProcessing(p)  BY <1>1, QuietFind DEF FindForProcessing
<1>2. CASE Announce(p)
  <2>1. r.pc = "announce" /\ UNCHANGED <<chunks, given, strays>>  BY <1>2 DEF Announce, At, Save
  <2>2. r.doc \in Loaders /\ r.snap = store /\ store \in StoreType
    BY <1>0, <2>1 DEF ReqOK, CalmOf, OfLoader, WithRow
  <2>3. store' = [store EXCEPT !.loaders[r.doc] = "SYNCING"]
    BY <1>2, <2>2 DEF Announce, Save
  <2>4. /\ store' \in StoreType /\ store'.loaders[r.doc] = "SYNCING"
        /\ \A m \in Loaders \ {r.doc} : store'.loaders[m] = store.loaders[m]
    <3>1. store' \in StoreType  BY <2>2, <2>3, RowTypes
    <3>2. /\ store'.loaders = [store.loaders EXCEPT ![r.doc] = "SYNCING"]
          /\ store.loaders \in [Loaders -> {"none", "SYNCING", "SYNC"}]
      BY <2>2, <2>3 DEF StoreType
    <3> QED  BY <2>2, <3>1, <3>2
  <2>5. Whole' /\ NoOrphanChunks'  BY <2>1, <2>2, <2>4, QuietRow
  <2>6. req'[p] = [r EXCEPT !.pc = "reread", !.snap = store']
    BY <1>2, GotoIs DEF Announce, Save
  <2>7. req'[p].pc = "reread" /\ req'[p].snap = store' /\ req'[p].doc = r.doc
    BY <1>0, <2>6 DEF ReqType
  <2>8. CalmOf(req[p])'  BY <2>4, <2>7 DEF CalmOf, Deleting
  <2> QED  BY <2>5, <2>8 DEF Quiet
<1>3. CASE Reread(p)  BY <1>3, QuietFind DEF Reread
<1>4. CASE Split(p)
  <2>1. PICK docs \in Splits[r.doc] : Goto(p, [r EXCEPT !.pc = "clear", !.docs = docs])
    BY <1>4 DEF Split
  <2>2. r.pc = "split" /\ UNCHANGED Tables  BY <1>4 DEF Split, At
  <2>3. r.snap = store /\ store.loaders[r.doc] = "SYNCING"
    BY <1>0, <2>2 DEF CalmOf, WithRow, SyncingAt
  <2> DEFINE s == [r EXCEPT !.pc = "clear", !.docs = docs]
  <2>4. s.pc = "clear" /\ s.snap = r.snap /\ s.doc = r.doc  BY <1>0 DEF ReqType
  <2>5. CalmOf(s)  BY <2>3, <2>4 DEF CalmOf, Deleting
  <2> QED  BY <2>1, <2>2, <2>5, QuietMove
<1>5. CASE ClearChunks(p)
  <2>1. r.pc = "clear" /\ UNCHANGED store  BY <1>5 DEF ClearChunks, At
  <2>2. /\ r.doc \in Loaders /\ r.snap = store /\ store \in StoreType
        /\ store.loaders[r.doc] = "SYNCING"
    BY <1>0, <2>1 DEF ReqOK, CalmOf, OfLoader, WithRow, SyncingAt
  <2>3. /\ chunks' = [chunks EXCEPT ![r.doc] = {}] /\ given' = [given EXCEPT ![r.doc] = r.docs]
        /\ strays' = [strays EXCEPT ![r.doc] = {}]
    BY <1>5 DEF ClearChunks
  <2>4. /\ chunks'[r.doc] = {} /\ given'[r.doc] = r.docs
        /\ \A m \in Loaders \ {r.doc} :
             chunks'[m] = chunks[m] /\ given'[m] = given[m] /\ strays'[m] = strays[m]
    BY <2>2, <2>3 DEF TypeInv, TypeOK
  <2>5. Whole' /\ NoOrphanChunks'  BY <2>1, <2>2, <2>4, QuietChunks
  <2>6. req'[p] = [r EXCEPT !.pc = "insert"]  BY <1>5, GotoIs DEF ClearChunks
  <2>7. req'[p].pc = "insert" /\ req'[p].snap = r.snap /\ req'[p].doc = r.doc /\ req'[p].docs = r.docs
    BY <1>0, <2>6 DEF ReqType
  <2>8. CalmOf(req[p])'  BY <2>1, <2>2, <2>4, <2>7 DEF CalmOf, Deleting
  <2> QED  BY <2>5, <2>8 DEF Quiet
<1>6. CASE SaveChunk(p)
  <2>1. r.pc = "insert" /\ UNCHANGED <<store, given, strays>>  BY <1>6 DEF SaveChunk, At
  <2>2. /\ r.doc \in Loaders /\ r.snap = store /\ store \in StoreType
        /\ store.loaders[r.doc] = "SYNCING"
        /\ r.docs \subseteq given[r.doc] /\ given[r.doc] \subseteq chunks[r.doc] \cup r.docs
        /\ chunks[r.doc] \subseteq given[r.doc] \cup strays[r.doc]
    BY <1>0, <2>1 DEF ReqOK, CalmOf, OfLoader, WithRow, SyncingAt
  <2>3. PICK k \in r.docs : /\ chunks' = [chunks EXCEPT ![r.doc] = @ \cup {k}]
                            /\ req'[p] = [r EXCEPT !.docs = @ \ {k}]
    BY <1>6, GotoIs DEF SaveChunk
  <2>4. /\ chunks'[r.doc] = chunks[r.doc] \cup {k}
        /\ \A m \in Loaders \ {r.doc} : chunks'[m] = chunks[m]
    BY <2>2, <2>3 DEF TypeInv, TypeOK
  <2>5. Whole' /\ NoOrphanChunks'  BY <2>1, <2>2, <2>4, QuietChunks
  <2>6. /\ req'[p].pc = "insert" /\ req'[p].snap = r.snap /\ req'[p].doc = r.doc
        /\ req'[p].docs = r.docs \ {k}
    BY <1>0, <2>1, <2>3 DEF ReqType
  <2>7. CalmOf(req[p])'  BY <2>1, <2>2, <2>4, <2>6 DEF CalmOf, Deleting
  <2> QED  BY <2>5, <2>7 DEF Quiet
<1>7. CASE InsertChunks(p)
  <2> DEFINE s == [r EXCEPT !.pc = "synced"]
  <2>1. r.pc = "insert" /\ r.docs = {} /\ UNCHANGED Tables  BY <1>7 DEF InsertChunks, At
  <2>2. /\ r.doc \in Loaders /\ r.snap = store /\ store \in StoreType
        /\ store.loaders[r.doc] = "SYNCING" /\ Complete(r.doc)
    BY <1>0, <2>1 DEF ReqOK, CalmOf, OfLoader, WithRow, SyncingAt, Complete
  <2>3. HasLoader(r.snap, r.doc)  BY <2>2, StoreAssumption DEF HasLoader
  <2>4. Goto(p, s)  BY <1>7, <2>3 DEF InsertChunks
  <2>5. s.pc = "synced" /\ s.snap = r.snap /\ s.doc = r.doc  BY <1>0 DEF ReqType
  <2>6. CalmOf(s)  BY <2>2, <2>5 DEF CalmOf, Deleting
  <2> QED  BY <2>1, <2>4, <2>6, QuietMove
<1>8. CASE Synced(p)
  <2>1. r.pc = "synced" /\ UNCHANGED <<chunks, given, strays>>  BY <1>8 DEF Synced, At
  <2>2. /\ r.doc \in Loaders /\ r.snap = store /\ store \in StoreType
        /\ Complete(r.doc)
    BY <1>0, <2>1 DEF ReqOK, CalmOf, OfLoader, WithRow
  <2>3. /\ store'.loaders = [store.loaders EXCEPT ![r.doc] = "SYNC"]
        /\ store' # NoStore
    <3>1. \E s \in StoreStatus :
            store' = [status |-> s, loaders |-> [store.loaders EXCEPT ![r.doc] = "SYNC"]]
      BY <1>8, <2>2 DEF Synced, StoreStatus
    <3>2. \A s \in StoreStatus :
            [status |-> s, loaders |-> [store.loaders EXCEPT ![r.doc] = "SYNC"]] \in StoreType
      BY <2>2 DEF StoreType
    <3> QED  BY <3>1, <3>2, StoreAssumption
  <2>4. /\ store' \in StoreType /\ store'.loaders[r.doc] = "SYNC"
        /\ \A m \in Loaders \ {r.doc} : store'.loaders[m] = store.loaders[m]
    BY <2>2, <2>3 DEF StoreType, TypeInv, TypeOK
  <2>5. Whole' /\ NoOrphanChunks'  BY <2>1, <2>2, <2>4, QuietRow
  <2>6. req'[p] = Idle \/ req'[p] = [r EXCEPT !.pc = "config"]
    BY <1>8, GotoIs DEF Synced
  <2>7. req'[p] = Idle \/ req'[p].pc = "config"  BY <1>0, <2>6 DEF ReqType
  <2>8. CalmOf(req[p])'  BY <2>7, NothingKept DEF CalmOf, WithRow, Deleting, SyncingAt, Idle
  <2> QED  BY <2>5, <2>8 DEF Quiet
<1> QED  BY <1>1, <1>2, <1>3, <1>4, <1>5, <1>6, <1>7, <1>8

LEMMA QuietUpserting ==
  ASSUME TypeInv, TypeInv', NEW p \in Clients, Quiet(p),
         \/ FindForConfig(p) \/ Configure(p) \/ MarkUpserting(p)
         \/ FindForUpsert(p) \/ Collect(p) \/ CallIndex(p) \/ Finish(p)
  PROVE  Quiet(p)'
<1> DEFINE r == req[p]
<1>0. ReqOK(r) /\ r \in ReqType /\ CalmOf(r)  BY DEF TypeInv, ReqOK, Quiet
<1>1. CASE FindForConfig(p)  BY <1>1, QuietFind DEF FindForConfig
<1>2. CASE Configure(p) \/ MarkUpserting(p)
  <2>1. r.snap = store /\ store \in StoreType /\ UNCHANGED <<chunks, given, strays>>
    BY <1>0, <1>2 DEF ReqOK, CalmOf, WithRow, Configure, MarkUpserting, At, Save
  <2>2. PICK s \in StoreStatus, next \in {"mark", "load"} :
          Save(p, [store EXCEPT !.status = s], next)
    <3>1. CASE Configure(p)
      <4> DEFINE s == IF store.status = "UPSERTED" THEN store.status ELSE "SYNC"
      <4>1. s \in StoreStatus  BY <2>1, RowTypes DEF StoreStatus
      <4>2. Save(p, [store EXCEPT !.status = s], "mark")  BY <2>1, <3>1 DEF Configure
      <4> QED  BY <4>1, <4>2
    <3>2. CASE MarkUpserting(p)
      <4>1. "UPSERTING" \in StoreStatus  BY DEF StoreStatus
      <4>2. Save(p, [store EXCEPT !.status = "UPSERTING"], "load")
        BY <2>1, <3>2 DEF MarkUpserting
      <4> QED  BY <4>1, <4>2
    <3> QED  BY <1>2, <3>1, <3>2
  <2>3. store' = [store EXCEPT !.status = s]  BY <2>2 DEF Save
  <2>4. store'.loaders = store.loaders  BY <2>1, <2>3 DEF StoreType
  <2>5. store' \in StoreType  BY <2>1, <2>3, RowTypes
  <2>6. Whole' /\ NoOrphanChunks'  BY <2>1, <2>4, <2>5, QuietStatus
  <2>7. req'[p] = [r EXCEPT !.pc = next, !.snap = store']  BY <2>2, <2>3, GotoIs DEF Save
  <2>8. req'[p].pc = next /\ req'[p].snap = store'  BY <1>0, <2>7 DEF ReqType
  <2>9. CalmOf(req[p])'  BY <2>8 DEF CalmOf, Deleting, SyncingAt
  <2> QED  BY <2>6, <2>9 DEF Quiet
<1>3. CASE FindForUpsert(p)  BY <1>3, QuietFind DEF FindForUpsert
<1>4. CASE Collect(p)
  <2> DEFINE s == [r EXCEPT !.pc = "index", !.docs = OfDoc(r.doc)]
  <2>1. Goto(p, s) /\ UNCHANGED Tables /\ r.pc = "collect"  BY <1>4 DEF Collect, At
  <2>2. s.pc = "index" /\ s.snap = store
    BY <1>0, <2>1 DEF ReqType, CalmOf, WithRow
  <2>3. CalmOf(s)  BY <2>2 DEF CalmOf, Deleting, SyncingAt
  <2> QED  BY <2>1, <2>3, QuietMove
<1>5. CASE CallIndex(p)
  <2> DEFINE s == [r EXCEPT !.pc = "finish"]
  <2>1. Goto(p, s) /\ UNCHANGED Tables /\ r.pc = "index"  BY <1>5 DEF CallIndex, At
  <2>2. s.pc = "finish" /\ s.snap = store
    BY <1>0, <2>1 DEF ReqType, CalmOf, WithRow
  <2>3. CalmOf(s)  BY <2>2 DEF CalmOf, Deleting, SyncingAt
  <2> QED  BY <2>1, <2>3, QuietMove
<1>6. CASE Finish(p)
  <2>1. r.pc = "finish" /\ UNCHANGED <<chunks, given, strays>>  BY <1>6 DEF Finish, At
  <2>2. r.snap = store /\ store \in StoreType  BY <1>0, <2>1 DEF ReqOK, CalmOf, WithRow
  <2>3. store' = [store EXCEPT !.status = "UPSERTED"]  BY <1>6, <2>2 DEF Finish
  <2>4. store' \in StoreType /\ store'.loaders = store.loaders
    BY <2>2, <2>3 DEF StoreType, StoreStatus
  <2>5. Whole' /\ NoOrphanChunks'  BY <2>1, <2>2, <2>4, QuietStatus
  <2>6. req'[p] = Idle \/ req'[p] = [Idle EXCEPT !.op = r.op, !.pc = "next", !.todo = r.todo]
    BY <1>6, GotoIs DEF Finish
  <2>7. req'[p] = Idle \/ req'[p].pc = "next"  BY <2>6 DEF Idle
  <2>8. CalmOf(req[p])'  BY <2>7 DEF CalmOf, WithRow, Deleting, SyncingAt, Idle
  <2> QED  BY <2>5, <2>8 DEF Quiet
<1> QED  BY <1>1, <1>2, <1>3, <1>4, <1>5, <1>6

LEMMA QuietOther ==
  ASSUME TypeInv, TypeInv', NEW p \in Clients, Quiet(p),
         NextLoader(p) \/ DropChunks(p) \/ Unlist(p) \/ SaveEdited(p)
  PROVE  Quiet(p)'
<1> DEFINE r == req[p]
<1>0. ReqOK(r) /\ r \in ReqType /\ CalmOf(r)  BY DEF TypeInv, ReqOK, Quiet
<1>1. CASE NextLoader(p)
  <2>1. UNCHANGED Tables  BY <1>1 DEF NextLoader
  <2>2. PICK l \in r.todo :
          \/ Goto(p, Idle)
          \/ Goto(p, [r EXCEPT !.pc = "find", !.doc = l, !.todo = @ \ {l}])
    BY <1>1 DEF NextLoader
  <2>3. [r EXCEPT !.pc = "find", !.doc = l, !.todo = @ \ {l}].pc = "find"  BY <1>0 DEF ReqType
  <2> QED  BY <2>1, <2>2, <2>3, NothingKept, QuietMove
<1>2. CASE DropChunks(p)
  <2>1. r.pc = "drop" /\ UNCHANGED store  BY <1>2 DEF DropChunks, At
  <2>2. /\ chunks' = [l \in Loaders |-> IF r.doc \in {All, l} THEN {} ELSE chunks[l]]
        /\ given' = [l \in Loaders |-> IF r.doc \in {All, l} THEN {} ELSE given[l]]
        /\ strays' = [l \in Loaders |-> IF r.doc \in {All, l} THEN {} ELSE strays[l]]
    BY <1>2 DEF DropChunks
  <2>3. Whole' /\ NoOrphanChunks'
    BY <2>1, <2>2 DEF Quiet, Whole, Complete, NoOrphanChunks, HasLoader
  <2>4. req'[p] = [r EXCEPT !.pc = "unlist"]  BY <1>2, GotoIs DEF DropChunks
  <2>5. req'[p].pc = "unlist" /\ req'[p].doc = r.doc /\ req'[p].snap = r.snap
    BY <1>0, <2>4 DEF ReqType
  <2>6. r.doc # All => r.snap = store  BY <1>0, <2>1 DEF CalmOf, Deleting
  <2>7. CalmOf(req[p])'  BY <2>1, <2>2, <2>5, <2>6 DEF CalmOf, WithRow, SyncingAt
  <2> QED  BY <2>3, <2>7 DEF Quiet
<1>3. CASE Unlist(p)
  <2>1. r.pc = "unlist" /\ UNCHANGED <<chunks, given, strays>>  BY <1>3 DEF Unlist, At
  <2>2. \A l \in Loaders : r.doc \in {All, l} => chunks[l] \subseteq strays[l]
    BY <1>0, <2>1 DEF CalmOf
  <2>3. ASSUME r.doc = All PROVE Whole' /\ NoOrphanChunks'
    <3>1. store' = NoStore  BY <1>3, <2>3 DEF Unlist
    <3> QED  BY <2>1, <2>2, <2>3, <3>1 DEF Whole, NoOrphanChunks
  <2>4. ASSUME r.doc # All PROVE Whole' /\ NoOrphanChunks'
    <3>1. r.doc \in Loaders /\ r.snap = store /\ store \in StoreType
      BY <1>0, <2>1, <2>4 DEF ReqOK, ReqType, CalmOf, Deleting
    <3>2. store' = [store EXCEPT !.loaders[r.doc] = "none"]
      BY <1>3, <2>4, <3>1 DEF Unlist
    <3>3. store' \in StoreType  BY <3>1, <3>2, RowTypes
    <3>4. /\ store'.loaders = [store.loaders EXCEPT ![r.doc] = "none"]
          /\ store.loaders \in [Loaders -> {"none", "SYNCING", "SYNC"}]
      BY <3>1, <3>2 DEF StoreType
    <3>5. /\ store'.loaders[r.doc] = "none"
          /\ \A m \in Loaders \ {r.doc} : store'.loaders[m] = store.loaders[m]
      BY <3>1, <3>4
    <3> QED  BY <2>1, <2>2, <3>1, <3>3, <3>5, QuietRow
  <2>5. Whole' /\ NoOrphanChunks'  BY <2>3, <2>4
  <2>6. req'[p] = Idle  BY <1>3, GotoIs DEF Unlist
  <2>7. CalmOf(req[p])'  BY <2>6 DEF CalmOf, WithRow, Deleting, SyncingAt, Idle
  <2> QED  BY <2>5, <2>7 DEF Quiet
<1>4. CASE SaveEdited(p)
  <2>1. UNCHANGED Tables
    BY <1>0, <1>4 DEF SaveEdited, At, CalmOf, WithRow, Tables
  <2> QED  BY <1>4, <2>1, NothingKept, QuietMove DEF SaveEdited
<1> QED  BY <1>1, <1>2, <1>3, <1>4

LEMMA QuietRequest ==
  ASSUME TypeInv, TypeInv', NEW p \in Clients, Quiet(p), Request(p)
  PROVE  Quiet(p)'
<1>1. ASSUME NEW r, Begin(p, r), UNCHANGED Tables,
             r.pc \in {"find", "config", "next"} \/ r = Idle
      PROVE  Quiet(p)'
  BY <1>1, NothingKept, QuietMove DEF Begin
<1>2. ASSUME NEW l \in Loaders, Process(p, l) \/ UpsertLoader(p, l) PROVE Quiet(p)'
  <2>1. UNCHANGED Tables  BY <1>2 DEF Process, UpsertLoader
  <2>2. PICK op \in Ops : Begin(p, [Idle EXCEPT !.op = op, !.pc = "find", !.doc = l])
    BY <1>2 DEF Process, UpsertLoader, Ops
  <2> QED  BY <1>1, <2>1, <2>2 DEF Idle
<1>3. ASSUME NEW doc \in Loaders \cup {All}, Upsert(p, doc) PROVE Quiet(p)'
  BY <1>1, <1>3 DEF Upsert, Idle
<1>4. ASSUME NEW items \in SUBSET Loaders, Refresh(p, items) PROVE Quiet(p)'
  <2>1. UNCHANGED Tables  BY <1>4 DEF Refresh
  <2>2. \/ Begin(p, Idle)
        \/ \E op, todo : Begin(p, [Idle EXCEPT !.op = op, !.pc = "next", !.todo = todo])
    BY <1>4 DEF Refresh
  <2> QED  BY <1>1, <2>1, <2>2 DEF Idle
<1>5. ASSUME NEW l \in Loaders, DeleteLoader(p, l) PROVE Quiet(p)'
  <2> DEFINE r == [Idle EXCEPT !.op = "deleteLoader", !.pc = "drop", !.doc = l, !.snap = store]
  <2>1. Goto(p, r) /\ UNCHANGED Tables  BY <1>5 DEF DeleteLoader, Begin
  <2>2. r.pc = "drop" /\ r.snap = store  BY DEF Idle
  <2>3. CalmOf(r)  BY <2>2 DEF CalmOf, WithRow, SyncingAt
  <2> QED  BY <2>1, <2>3, QuietMove
<1>6. CASE DeleteStore(p)
  <2> DEFINE r == [Idle EXCEPT !.op = "deleteStore", !.pc = "drop"]
  <2>1. Goto(p, r) /\ UNCHANGED Tables  BY <1>6 DEF DeleteStore, Begin
  <2>2. r.pc = "drop" /\ r.doc = All  BY DEF Idle
  <2>3. CalmOf(r)  BY <2>2 DEF CalmOf, WithRow, SyncingAt
  <2> QED  BY <2>1, <2>3, QuietMove
<1>7. ASSUME NEW doc \in Loaders \cup {All}, DeleteVectors(p, doc) PROVE Quiet(p)'
  <2>1. UNCHANGED <<store, chunks, given, strays, req>>  BY <1>7 DEF DeleteVectors, Tables
  <2> QED  BY <2>1 DEF Quiet, CalmOf, Whole, Complete, NoOrphanChunks, HasLoader
<1>8. ASSUME NEW l \in Loaders, EditChunk(p, l) PROVE Quiet(p)'
  <2> DEFINE r == [Idle EXCEPT !.op = "edit", !.pc = "edited", !.doc = l, !.snap = store]
  <2>1. UNCHANGED store /\ HasLoader(store, l) /\ req'[p] = r
    BY <1>8, GotoIs DEF EditChunk, Begin
  <2>2. PICK old, new : /\ chunks' = [chunks EXCEPT ![l] = (@ \ {old}) \cup new]
                        /\ given' = [given EXCEPT ![l] = (@ \ {old}) \cup new]
                        /\ UNCHANGED strays
    BY <1>8 DEF EditChunk
  <2>3. store \in StoreType /\ store.loaders[l] # "none" /\ store # NoStore
    BY <2>1 DEF HasLoader, TypeInv, TypeOK
  <2>4. /\ \A m \in Loaders \ {l} :
             chunks'[m] = chunks[m] /\ given'[m] = given[m] /\ strays'[m] = strays[m]
        /\ store.loaders[l] = "SYNC" => Complete(l)'
    BY <2>2, <2>3 DEF TypeInv, TypeOK, Quiet, Whole, Complete
  <2>5. Whole' /\ NoOrphanChunks'  BY <2>1, <2>4, <2>3, QuietChunks
  <2>6. req'[p].pc = "edited" /\ req'[p].snap = store  BY <2>1 DEF Idle
  <2>7. CalmOf(req[p])'  BY <2>1, <2>6 DEF CalmOf, Deleting, SyncingAt
  <2> QED  BY <2>5, <2>7 DEF Quiet
<1> QED  BY <1>2, <1>3, <1>4, <1>5, <1>6, <1>7, <1>8 DEF Request

LEMMA QuietFail ==
  ASSUME TypeInv, TypeInv', NEW p \in Clients, Quiet(p), Fail(p)
  PROVE  Quiet(p)'
<1> DEFINE r == req[p]
<1>1. req'[p] = Idle /\ UNCHANGED <<store, chunks, given, strays>>  BY GotoIs DEF Fail
<1>2. CalmOf(req[p])'  BY <1>1 DEF CalmOf, WithRow, Deleting, SyncingAt, Idle
<1> QED  BY <1>1, <1>2 DEF Quiet, Whole, Complete, NoOrphanChunks, HasLoader

(* A late save adds its chunk to the strays as well. *)
LEMMA QuietLate ==
  ASSUME TypeInv, NEW p \in Clients, Quiet(p),
         NEW l \in Loaders, NEW k \in Chunks, LandLate(l, k) \/ LoseLate(l, k)
  PROVE  Quiet(p)'
<1>1. UNCHANGED <<store, given, req>>  BY DEF LandLate, LoseLate
<1>2. ASSUME NEW m \in Loaders
      PROVE  /\ chunks[m] \subseteq chunks'[m] /\ strays[m] \subseteq strays'[m]
             /\ chunks'[m] \subseteq chunks[m] \cup strays'[m]
  BY DEF LandLate, LoseLate, TypeInv, TypeOK
<1>3. ASSUME NEW m \in Loaders, Complete(m) PROVE Complete(m)'
  BY <1>1, <1>2, <1>3 DEF Complete
<1>4. Whole'  BY <1>1, <1>3 DEF Quiet, Whole
<1>5. NoOrphanChunks'
  <2>1. ASSUME NEW m \in Loaders, chunks'[m] \ strays'[m] # {}
        PROVE  HasLoader(store', m)
    <3>1. chunks[m] \ strays[m] # {}  BY <1>2, <2>1
    <3> QED  BY <1>1, <3>1 DEF Quiet, NoOrphanChunks
  <2> QED  BY <2>1 DEF NoOrphanChunks
<1>6. CalmOf(req[p])'
  <2>1. req[p].pc \in {"insert", "synced"} => req[p].doc \in Loaders
    BY DEF TypeInv, ReqOK, OfLoader
  <2>2. req[p].pc = "synced" => Complete(req[p].doc)'
    BY <1>1, <1>2, <2>1 DEF Quiet, CalmOf, Complete
  <2>3. req[p].pc = "insert" =>
          /\ given[req[p].doc] \subseteq chunks'[req[p].doc] \cup req[p].docs
          /\ chunks'[req[p].doc] \subseteq given[req[p].doc] \cup strays'[req[p].doc]
    BY <1>2, <2>1 DEF Quiet, CalmOf
  <2>4. req[p].pc = "unlist" =>
          \A m \in Loaders : req[p].doc \in {All, m} => chunks'[m] \subseteq strays'[m]
    BY <1>2 DEF Quiet, CalmOf
  <2> QED  BY <1>1, <2>2, <2>3, <2>4 DEF Quiet, CalmOf
<1> QED  BY <1>4, <1>5, <1>6 DEF Quiet

LEMMA QuietNext ==
  ASSUME NEW p, Clients = {p}, TypeInv, Quiet(p), [Next]_vars
  PROVE  TypeInv' /\ Quiet(p)'
<1>1. TypeInv' /\ p \in Clients  BY TypeNext
<1>2. CASE UNCHANGED vars
  BY <1>1, <1>2 DEF Quiet, CalmOf, Whole, Complete, NoOrphanChunks, HasLoader, vars
<1>3. CASE Request(p)  BY <1>1, <1>3, QuietRequest
<1>4. CASE Step(p)
  BY <1>1, <1>4, QuietProcessing, QuietUpserting, QuietOther DEF Step
<1>5. CASE Fail(p)  BY <1>1, <1>5, QuietFail
<1>6. ASSUME NEW l \in Loaders, NEW k \in Chunks, LandLate(l, k) \/ LoseLate(l, k)
      PROVE  Quiet(p)'
  BY <1>1, <1>6, QuietLate
<1> QED  BY <1>1, <1>2, <1>3, <1>4, <1>5, <1>6 DEF Next

LEMMA QuietInit ==
  ASSUME NEW p, Clients = {p}, Init
  PROVE  Quiet(p)
<1>1. req[p] = Idle /\ chunks = [l \in Loaders |-> {}] /\ given = chunks  BY DEF Init
<1>2. CalmOf(req[p])  BY <1>1, NothingKept
<1> QED  BY <1>1, <1>2 DEF Quiet, Whole, Complete, NoOrphanChunks

(* Requests made one after the other, wherever they fail, leave no chunks  *)
(* of a loader that the store does not list, except for saves that landed  *)
(* after their request had failed.                                         *)
THEOREM ChunksBelongToLoaders ==
  ASSUME NEW CONSTANT p, Clients = {p}
  PROVE  Spec => []NoOrphanChunks
<1>1. Init => TypeInv /\ Quiet(p)  BY TypeInit, QuietInit
<1>2. TypeInv /\ Quiet(p) /\ [Next]_vars => (TypeInv /\ Quiet(p))'  BY QuietNext
<1>3. Quiet(p) => NoOrphanChunks  BY DEF Quiet
<1> QED  BY <1>1, <1>2, <1>3, PTL DEF Spec

(* Of requests made one after the other, wherever they fail, a loader that *)
(* is shown as SYNC has the chunks of its last split and of the edits      *)
(* since, and no others except for such late saves.                        *)
THEOREM SyncedLoadersAreWhole ==
  ASSUME NEW CONSTANT p, Clients = {p}
  PROVE  Spec => []SyncedIsWhole
<1>1. Init => TypeInv /\ Quiet(p)  BY TypeInit, QuietInit
<1>2. TypeInv /\ Quiet(p) /\ [Next]_vars => (TypeInv /\ Quiet(p))'  BY QuietNext
<1>3. Quiet(p) => SyncedIsWhole  BY DEF Quiet, Whole, Complete, SyncedIsWhole
<1> QED  BY <1>1, <1>2, <1>3, PTL DEF Spec

---------------------------------------------------------------------------
(***************************************************************************)
(* As long as no request failed the vector store and the record manager    *)
(* agree, so what index() is given is what it leaves there, and no save    *)
(* lands late.                                                             *)
(***************************************************************************)
Agree ==
  failures = 0 => vectors = known /\ late = {} /\ \A l \in Loaders : strays[l] = {}

CoversOf(r) ==
  failures = 0 =>
    /\ r.pc \in {"index", "finish"} => r.docs = OfDoc(r.doc)
    /\ r.pc = "finish" =>
         /\ OfDoc(r.doc) \subseteq vectors
         /\ mode = "full" => vectors \subseteq OfDoc(r.doc)

Covering(p) == Agree /\ CoversOf(req[p])

(* A completed call on stores that agree. *)
LEMMA IndexOnAgreement ==
  ASSUME IndexOK, vectors = known, NEW docs \in SUBSET Chunks, Indexing!Indexes(docs, mode)
  PROVE  /\ vectors' = known'
         /\ docs \subseteq vectors'
         /\ mode = "full" => vectors' = docs
         /\ vectors \ Indexing!Scope(docs, mode) \subseteq vectors'
<1> DEFINE obsolete == (known \cap Indexing!Scope(docs, mode)) \ docs
           settled == (vectors \ obsolete) \cup (docs \ known)
<1>1. /\ known' = (known \ obsolete) \cup docs
      /\ vectors' \in {settled \cup again :
                         again \in SUBSET (IF mode = "incremental" THEN docs ELSE {})}
  BY DEF Indexing!Indexes
<1>2. PICK again \in SUBSET docs : vectors' = settled \cup again  BY <1>1
<1>3. settled = (known \ obsolete) \cup docs  OBVIOUS
<1>4. vectors' = known' /\ docs \subseteq vectors'  BY <1>1, <1>2, <1>3
<1>5. mode = "full" => vectors' = docs
  <2> SUFFICES ASSUME mode = "full" PROVE vectors' = docs
    OBVIOUS
  <2>1. Indexing!Scope(docs, mode) = Chunks  BY DEF Indexing!Scope
  <2> QED  BY <1>1, <1>4, <2>1 DEF IndexOK
<1>6. vectors \ Indexing!Scope(docs, mode) \subseteq vectors'  BY <1>1, <1>4
<1> QED  BY <1>4, <1>5, <1>6

LEMMA DeletesAgree ==
  ASSUME vectors = known, NEW target, Indexing!Deletes(target)
  PROVE  vectors' = known'
BY DEF Indexing!Deletes

LEMMA StepBounds ==
  ASSUME NEW p \in Clients, Step(p)
  PROVE  UNCHANGED <<Bounds, late>>
BY DEF Step, FindForProcessing, Announce, Reread, Split, ClearChunks, SaveChunk, InsertChunks,
       Synced, FindForConfig, Configure, MarkUpserting, FindForUpsert, Collect, CallIndex, Finish,
       NextLoader, DropChunks, Unlist, SaveEdited, Find, Save, Tables

LEMMA StepStrays ==
  ASSUME TypeInv, NEW p \in Clients, Step(p), NEW l \in Loaders, strays[l] = {}
  PROVE  strays'[l] = {}
<1>1. CASE ClearChunks(p) \/ DropChunks(p)
  BY <1>1 DEF ClearChunks, DropChunks, TypeInv, TypeOK
<1>2. CASE ~ ClearChunks(p) /\ ~ DropChunks(p)
  <2>1. UNCHANGED strays
    BY <1>2 DEF Step, FindForProcessing, Announce, Reread, Split, SaveChunk, InsertChunks,
       Synced, FindForConfig, Configure, MarkUpserting, FindForUpsert, Collect, CallIndex, Finish,
       NextLoader, Unlist, SaveEdited, Find, Save, Tables
  <2> QED  BY <2>1
<1> QED  BY <1>1, <1>2

LEMMA OnlyCallsIndex ==
  ASSUME NEW p \in Clients, Step(p), ~ CallIndex(p)
  PROVE  UNCHANGED <<vectors, known>>
BY DEF Step, FindForProcessing, Announce, Reread, Split, ClearChunks, SaveChunk, InsertChunks,
       Synced, FindForConfig, Configure, MarkUpserting, FindForUpsert, Collect, Finish,
       NextLoader, DropChunks, Unlist, SaveEdited, Find, Save, Index

(* A step ends the request or goes on with the same work. *)
SameWork(p, pc) ==
  /\ req'[p].pc = pc
  /\ req'[p].op = req[p].op /\ req'[p].doc = req[p].doc /\ req'[p].todo = req[p].todo

Moves(p) ==
  \/ req'[p] = Idle
  \/ /\ req[p].pc # "next"
     /\ \E pc \in Pcs \ {"idle", "next"} :
          /\ SameWork(p, pc)
          /\ pc = "index" => Collect(p)
          /\ pc = "finish" => CallIndex(p)
          /\ pc = "clear" => Split(p)
          /\ pc = "insert" => ClearChunks(p) \/ SaveChunk(p)

LEMMA MovesBy ==
  ASSUME NEW p \in Clients, req[p].pc # "next",
         NEW pc \in Pcs \ {"idle", "next"}, SameWork(p, pc),
         \/ pc \notin {"index", "finish", "clear", "insert"}
         \/ pc = "index" /\ Collect(p)
         \/ pc = "finish" /\ CallIndex(p)
         \/ pc = "clear" /\ Split(p)
         \/ pc = "insert" /\ (ClearChunks(p) \/ SaveChunk(p))
  PROVE  Moves(p)
BY DEF Moves

LEMMA StepMoves ==
  ASSUME TypeInv, NEW p \in Clients, Step(p), ~ Finish(p), ~ NextLoader(p)
  PROVE  Moves(p)
<1> DEFINE r == req[p]
<1>0. r \in ReqType  BY DEF TypeInv
<1>1. ASSUME r.pc # "next",
             \/ Find(p, "announce") \/ Find(p, "split")
             \/ Find(p, "configure") \/ Find(p, "collect")
      PROVE  Moves(p)
  <2>1. PICK next \in {"announce", "split", "configure", "collect"} : Find(p, next)
    BY <1>1
  <2>2. req'[p] = Idle \/ req'[p] = [r EXCEPT !.pc = next, !.snap = store]
    BY <2>1, GotoIs DEF Find
  <2>3. req'[p] = Idle \/ SameWork(p, next)  BY <1>0, <2>2 DEF ReqType, SameWork
  <2>4. CASE req'[p] = Idle  BY <2>4 DEF Moves
  <2>5. CASE SameWork(p, next)  BY <1>1, <2>5, MovesBy DEF Pcs
  <2> QED  BY <2>3, <2>4, <2>5
<1>2. ASSUME r.pc # "next", NEW next \in {"reread", "mark", "load"}, NEW row, Save(p, row, next)
      PROVE  Moves(p)
  <2>1. req'[p] = [r EXCEPT !.pc = next, !.snap = row]  BY <1>2, GotoIs DEF Save
  <2>2. SameWork(p, next)  BY <1>0, <2>1 DEF ReqType, SameWork
  <2> QED  BY <1>2, <2>2, MovesBy DEF Pcs
<1>3. CASE FindForProcessing(p) \/ Reread(p) \/ FindForConfig(p) \/ FindForUpsert(p)
  BY <1>1, <1>3 DEF FindForProcessing, Reread, FindForConfig, FindForUpsert, At
<1>4. CASE Announce(p) \/ Configure(p) \/ MarkUpserting(p)
  <2>1. CASE Announce(p)
    <3>1. Save(p, [r.snap EXCEPT !.loaders[r.doc] = "SYNCING"], "reread") /\ r.pc # "next"
      BY <2>1 DEF Announce, At
    <3> QED  BY <1>2, <3>1
  <2>2. CASE Configure(p)
    <3> DEFINE row == [r.snap EXCEPT !.status = IF @ = "UPSERTED" THEN @ ELSE "SYNC"]
    <3>1. Save(p, row, "mark") /\ r.pc # "next"  BY <2>2 DEF Configure, At
    <3> HIDE DEF row
    <3> QED  BY <1>2, <3>1
  <2>3. CASE MarkUpserting(p)
    <3>1. Save(p, [r.snap EXCEPT !.status = "UPSERTING"], "load") /\ r.pc # "next"
      BY <2>3 DEF MarkUpserting, At
    <3> QED  BY <1>2, <3>1
  <2> QED  BY <1>4, <2>1, <2>2, <2>3
<1>5. CASE Split(p)
  <2>1. PICK docs : Goto(p, [r EXCEPT !.pc = "clear", !.docs = docs])  BY <1>5 DEF Split
  <2>2. req'[p] = [r EXCEPT !.pc = "clear", !.docs = docs]  BY <2>1, GotoIs
  <2>3. SameWork(p, "clear") /\ r.pc = "split"  BY <1>0, <1>5, <2>2 DEF ReqType, SameWork, Split, At
  <2> QED  BY <1>5, <2>3, MovesBy DEF Pcs
<1>6. CASE ClearChunks(p)
  <2>1. req'[p] = [r EXCEPT !.pc = "insert"] /\ r.pc = "clear"
    BY <1>6, GotoIs DEF ClearChunks, At
  <2>2. SameWork(p, "insert")  BY <1>0, <2>1 DEF ReqType, SameWork
  <2> QED  BY <1>6, <2>1, <2>2, MovesBy DEF Pcs
<1>7. CASE InsertChunks(p)
  <2>1. req'[p] = Idle \/ req'[p] = [r EXCEPT !.pc = "synced"]
    BY <1>7, GotoIs DEF InsertChunks
  <2>2. req'[p] = Idle \/ SameWork(p, "synced")  BY <1>0, <2>1 DEF ReqType, SameWork
  <2>3. CASE req'[p] = Idle  BY <2>3 DEF Moves
  <2>4. CASE SameWork(p, "synced")
    <3>1. r.pc = "insert"  BY <1>7 DEF InsertChunks, At
    <3> QED  BY <2>4, <3>1, MovesBy DEF Pcs
  <2> QED  BY <2>2, <2>3, <2>4
<1>8. CASE Synced(p)
  <2>1. req'[p] = Idle \/ req'[p] = [r EXCEPT !.pc = "config"]  BY <1>8, GotoIs DEF Synced
  <2>2. req'[p] = Idle \/ SameWork(p, "config")  BY <1>0, <2>1 DEF ReqType, SameWork
  <2>3. CASE req'[p] = Idle  BY <2>3 DEF Moves
  <2>4. CASE SameWork(p, "config")
    <3>1. r.pc = "synced"  BY <1>8 DEF Synced, At
    <3> QED  BY <2>4, <3>1, MovesBy DEF Pcs
  <2> QED  BY <2>2, <2>3, <2>4
<1>9. CASE Collect(p)
  <2>1. req'[p] = [r EXCEPT !.pc = "index", !.docs = OfDoc(r.doc)] /\ r.pc = "collect"
    BY <1>9, GotoIs DEF Collect, At
  <2>2. SameWork(p, "index")  BY <1>0, <2>1 DEF ReqType, SameWork
  <2> QED  BY <1>9, <2>1, <2>2, MovesBy DEF Pcs
<1>10. CASE CallIndex(p)
  <2>1. req'[p] = [r EXCEPT !.pc = "finish"] /\ r.pc = "index"
    BY <1>10, GotoIs DEF CallIndex, At
  <2>2. SameWork(p, "finish")  BY <1>0, <2>1 DEF ReqType, SameWork
  <2> QED  BY <1>10, <2>1, <2>2, MovesBy DEF Pcs
<1>11. CASE DropChunks(p)
  <2>1. req'[p] = [r EXCEPT !.pc = "unlist"] /\ r.pc = "drop"
    BY <1>11, GotoIs DEF DropChunks, At
  <2>2. SameWork(p, "unlist")  BY <1>0, <2>1 DEF ReqType, SameWork
  <2> QED  BY <2>1, <2>2, MovesBy DEF Pcs
<1>12. CASE Unlist(p) \/ SaveEdited(p)
  <2>1. req'[p] = Idle  BY <1>12, GotoIs DEF Unlist, SaveEdited
  <2> QED  BY <2>1 DEF Moves
<1>13. CASE SaveChunk(p)
  <2>1. PICK k : Goto(p, [r EXCEPT !.docs = @ \ {k}])  BY <1>13 DEF SaveChunk
  <2>2. req'[p] = [r EXCEPT !.docs = @ \ {k}] /\ r.pc = "insert"
    BY <1>13, <2>1, GotoIs DEF SaveChunk, At
  <2>3. SameWork(p, "insert")  BY <1>0, <2>2 DEF ReqType, SameWork
  <2> QED  BY <1>13, <2>2, <2>3, MovesBy DEF Pcs
<1> QED
  BY <1>3, <1>4, <1>5, <1>6, <1>7, <1>8, <1>9, <1>10, <1>11, <1>12, <1>13 DEF Step

LEMMA ToNextLoader ==
  ASSUME TypeInv, NEW p \in Clients
  PROVE  /\ Finish(p) =>
              \/ req'[p] = Idle
              \/ req'[p] = [Idle EXCEPT !.op = req[p].op, !.pc = "next", !.todo = req[p].todo]
         /\ NextLoader(p) =>
              \/ req'[p] = Idle
              \/ /\ req[p].pc = "next"
                 /\ \E l \in req[p].todo :
                      req'[p] = [req[p] EXCEPT !.pc = "find", !.doc = l, !.todo = @ \ {l}]
<1>1. ASSUME Finish(p)
      PROVE  \/ req'[p] = Idle
             \/ req'[p] = [Idle EXCEPT !.op = req[p].op, !.pc = "next", !.todo = req[p].todo]
  BY <1>1, GotoIs DEF Finish
<1>2. ASSUME NextLoader(p)
      PROVE  \/ req'[p] = Idle
             \/ /\ req[p].pc = "next"
                /\ \E l \in req[p].todo :
                     req'[p] = [req[p] EXCEPT !.pc = "find", !.doc = l, !.todo = @ \ {l}]
  <2>1. PICK l \in req[p].todo :
          \/ Goto(p, Idle)
          \/ Goto(p, [req[p] EXCEPT !.pc = "find", !.doc = l, !.todo = @ \ {l}])
    BY <1>2 DEF NextLoader
  <2> QED  BY <1>2, <2>1, GotoIs DEF NextLoader, At
<1> QED  BY <1>1, <1>2

LEMMA StepLands ==
  ASSUME TypeInv, NEW p \in Clients, Step(p)
  PROVE  /\ req'[p].pc = "index" => Collect(p)
         /\ req'[p].pc = "finish" => CallIndex(p)
         /\ req'[p].pc = "clear" => Split(p)
         /\ req'[p].pc = "insert" => ClearChunks(p) \/ SaveChunk(p)
<1>1. CASE Finish(p)
  <2>1. [Idle EXCEPT !.op = req[p].op, !.pc = "next", !.todo = req[p].todo].pc = "next"
    BY DEF Idle
  <2>2. req'[p] = Idle \/ req'[p].pc = "next"  BY <1>1, <2>1, ToNextLoader
  <2> QED  BY <2>2 DEF Idle
<1>2. CASE NextLoader(p)
  <2>1. req[p] \in ReqType  BY DEF TypeInv
  <2>2. CASE req'[p] = Idle  BY <2>2 DEF Idle
  <2>3. CASE req'[p] # Idle
    <3>1. PICK l : req'[p] = [req[p] EXCEPT !.pc = "find", !.doc = l, !.todo = @ \ {l}]
      BY <1>2, <2>3, ToNextLoader
    <3>2. req'[p].pc = "find"  BY <2>1, <3>1 DEF ReqType
    <3> QED  BY <3>2
  <2> QED  BY <2>2, <2>3
<1>3. CASE Moves(p)
  <2>1. CASE req'[p] = Idle  BY <2>1 DEF Idle
  <2> QED  BY <1>3, <2>1 DEF Moves, SameWork
<1> QED  BY <1>1, <1>2, <1>3, StepMoves

LEMMA CoveringStep ==
  ASSUME TypeInv, TypeInv', NEW p \in Clients, Covering(p), Step(p)
  PROVE  Covering(p)'
<1> DEFINE r == req[p]
<1>0. ReqOK(r) /\ r \in ReqType  BY DEF TypeInv, ReqOK
<1>1. UNCHANGED <<mode, failures, late>>  BY StepBounds DEF Bounds
<1>2. failures = 0 => late' = {} /\ \A l \in Loaders : strays'[l] = {}
  BY <1>1, StepStrays DEF Covering, Agree
<1>3. CASE Collect(p)
  <2>1. req'[p] = [r EXCEPT !.pc = "index", !.docs = OfDoc(r.doc)]
    BY <1>3, GotoIs DEF Collect
  <2>2. req'[p].pc = "index" /\ req'[p].docs = OfDoc(r.doc) /\ req'[p].doc = r.doc
    BY <1>0, <2>1 DEF ReqType
  <2>3. UNCHANGED <<chunks, vectors, known>>  BY <1>3 DEF Collect, Tables, Index
  <2> QED  BY <1>1, <1>2, <2>2, <2>3 DEF Covering, Agree, CoversOf, OfDoc
<1>4. CASE CallIndex(p)
  <2>1. req'[p] = [r EXCEPT !.pc = "finish"]  BY <1>4, GotoIs DEF CallIndex
  <2>2. req'[p].pc = "finish" /\ req'[p].docs = r.docs /\ req'[p].doc = r.doc
    BY <1>0, <2>1 DEF ReqType
  <2>3. r.pc = "index" /\ UNCHANGED chunks /\ Indexing!Indexes(r.docs, mode)
    BY <1>4 DEF CallIndex, At, Tables
  <2>4. r.docs \in SUBSET Chunks /\ IndexOK  BY <1>0, TypeParts DEF ReqType
  <2>5. ASSUME failures = 0
        PROVE  /\ vectors' = known' /\ r.docs = OfDoc(r.doc) /\ r.docs \subseteq vectors'
               /\ mode = "full" => vectors' = r.docs
    BY <2>3, <2>4, <2>5, IndexOnAgreement DEF Covering, Agree, CoversOf
  <2> QED  BY <1>1, <1>2, <2>2, <2>3, <2>5 DEF Covering, Agree, CoversOf, OfDoc
<1>5. CASE ~ Collect(p) /\ ~ CallIndex(p)
  <2>1. UNCHANGED <<vectors, known>> /\ req'[p].pc \notin {"index", "finish"}
    BY <1>5, StepLands, OnlyCallsIndex
  <2> QED  BY <1>1, <1>2, <2>1 DEF Covering, Agree, CoversOf
<1> QED  BY <1>3, <1>4, <1>5

LEMMA CoveringRequest ==
  ASSUME TypeInv, NEW p \in Clients, Covering(p), Request(p)
  PROVE  Covering(p)'
<1>1. ASSUME NEW r, Begin(p, r), r.pc \notin {"index", "finish"}, UNCHANGED <<late, strays>>
      PROVE  Covering(p)'
  <2>1. req'[p] = r /\ UNCHANGED <<mode, failures, vectors, known>>
    BY <1>1, GotoIs DEF Begin, Index
  <2> QED  BY <1>1, <2>1 DEF Covering, Agree, CoversOf
<1>2. ASSUME NEW l \in Loaders, Process(p, l) \/ UpsertLoader(p, l) PROVE Covering(p)'
  BY <1>1, <1>2 DEF Process, UpsertLoader, Tables, Idle
<1>3. ASSUME NEW l \in Loaders, DeleteLoader(p, l) \/ EditChunk(p, l) PROVE Covering(p)'
  BY <1>1, <1>3 DEF DeleteLoader, EditChunk, Tables, Idle
<1>4. ASSUME NEW doc \in Loaders \cup {All}, Upsert(p, doc) PROVE Covering(p)'
  BY <1>1, <1>4 DEF Upsert, Tables, Idle
<1>5. ASSUME NEW items \in SUBSET Loaders, Refresh(p, items) PROVE Covering(p)'
  BY <1>1, <1>5 DEF Refresh, Tables, Idle
<1>6. CASE DeleteStore(p)  BY <1>1, <1>6 DEF DeleteStore, Tables, Idle
<1>7. ASSUME NEW doc \in Loaders \cup {All}, DeleteVectors(p, doc) PROVE Covering(p)'
  <2>1. /\ UNCHANGED <<mode, failures, req, late, strays>> /\ req[p].pc = "idle"
        /\ Indexing!Deletes(InStoreOf(doc))
    BY <1>7 DEF DeleteVectors, At, Tables
  <2>2. Agree'  BY <2>1, DeletesAgree DEF Covering, Agree
  <2> QED  BY <2>1, <2>2 DEF Covering, CoversOf
<1> QED  BY <1>2, <1>3, <1>4, <1>5, <1>6, <1>7 DEF Request

(* Only a request that failed leaves saves behind. *)
LEMMA LateFailed ==
  ASSUME NEW p, Covering(p), NEW l, NEW k, LandLate(l, k) \/ LoseLate(l, k)
  PROVE  failures' # 0
BY DEF LandLate, LoseLate, Covering, Agree, Bounds

LEMMA CoveringNext ==
  ASSUME NEW p, Clients = {p}, TypeInv, Covering(p), [Next]_vars
  PROVE  Covering(p)'
<1>1. TypeInv' /\ p \in Clients  BY TypeNext
<1>2. CASE UNCHANGED vars  BY <1>2 DEF Covering, Agree, CoversOf, OfDoc, vars
<1>3. CASE Request(p)  BY <1>1, <1>3, CoveringRequest
<1>4. CASE Step(p)  BY <1>1, <1>4, CoveringStep
<1>5. CASE Fail(p)
  <2>1. failures' # 0  BY <1>5 DEF Fail, TypeInv, TypeOK
  <2> QED  BY <2>1 DEF Covering, Agree, CoversOf
<1>6. ASSUME NEW l \in Loaders, NEW k \in Chunks, LandLate(l, k) \/ LoseLate(l, k)
      PROVE  Covering(p)'
  BY <1>6, LateFailed DEF Covering, Agree, CoversOf
<1> QED  BY <1>1, <1>2, <1>3, <1>4, <1>5, <1>6 DEF Next

LEMMA CoveringInit ==
  ASSUME NEW p, Clients = {p}, Init
  PROVE  Covering(p)
BY DEF Init, Covering, Agree, CoversOf, Idle

(* Of requests made one after the other, none of which failed, an upsert   *)
(* of the store leaves all of its chunks in the vector store, and with     *)
(* full clean-up nothing else.                                             *)
THEOREM UpsertsCoverStore ==
  ASSUME NEW CONSTANT p, Clients = {p}
  PROVE  Spec => []UpsertCoversStore
<1>1. Init => TypeInv /\ Covering(p)  BY TypeInit, CoveringInit
<1>2. TypeInv /\ Covering(p) /\ [Next]_vars => (TypeInv /\ Covering(p))'
  BY TypeNext, CoveringNext
<1>3. Covering(p) => UpsertCoversStore
  BY DEF Covering, CoversOf, UpsertCoversStore, At
<1> QED  BY <1>1, <1>2, <1>3, PTL DEF Spec

---------------------------------------------------------------------------
(***************************************************************************)
(* The chunks of a loader come from its own documents.  One that shares    *)
(* its sources with no other keeps its vectors while incremental clean-up  *)
(* is done for the others, and a refresh covers it.                        *)
(***************************************************************************)
OwnChunks ==
  \A l \in Loaders :
    /\ chunks[l] \subseteq UNION Splits[l]
    /\ \A k \in Chunks : <<l, k>> \in late => k \in UNION Splits[l]

SplitOf(r) == r.pc \in {"clear", "insert"} => r.docs \subseteq UNION Splits[r.doc]

Origins(p) == mode \in Modes /\ OwnChunks /\ SplitOf(req[p])

LEMMA OriginsStep ==
  ASSUME TypeInv, NEW p \in Clients, Origins(p), Step(p)
  PROVE  Origins(p)'
<1> DEFINE r == req[p]
<1>0. r \in ReqType /\ ReqOK(r) /\ mode' = mode /\ late' = late
  BY StepBounds DEF TypeInv, ReqOK, Bounds
<1>1. CASE Split(p)
  <2>1. PICK docs \in Splits[r.doc] : Goto(p, [r EXCEPT !.pc = "clear", !.docs = docs])
    BY <1>1 DEF Split
  <2>2. req'[p] = [r EXCEPT !.pc = "clear", !.docs = docs]  BY <2>1, GotoIs
  <2>3. req'[p].doc = r.doc /\ req'[p].docs = docs  BY <1>0, <2>2 DEF ReqType
  <2>4. UNCHANGED chunks  BY <1>1 DEF Split, Tables
  <2> QED  BY <1>0, <2>3, <2>4 DEF Origins, OwnChunks, SplitOf
<1>2. CASE ClearChunks(p)
  <2>1. req'[p] = [r EXCEPT !.pc = "insert"] /\ r.pc = "clear"
    BY <1>2, GotoIs DEF ClearChunks, At
  <2>2. req'[p].doc = r.doc /\ req'[p].docs = r.docs  BY <1>0, <2>1 DEF ReqType
  <2>3. \A l \in Loaders : chunks'[l] \subseteq chunks[l]
    BY <1>2 DEF ClearChunks, TypeInv, TypeOK
  <2> QED  BY <1>0, <2>1, <2>2, <2>3 DEF Origins, OwnChunks, SplitOf
<1>3. CASE SaveChunk(p)
  <2>1. r.pc = "insert" /\ r.docs \subseteq UNION Splits[r.doc]
    BY <1>3 DEF SaveChunk, At, Origins, SplitOf
  <2>2. PICK k \in r.docs : /\ chunks' = [chunks EXCEPT ![r.doc] = @ \cup {k}]
                            /\ req'[p] = [r EXCEPT !.docs = @ \ {k}]
    BY <1>3, GotoIs DEF SaveChunk
  <2>3. OwnChunks'
    <3>1. k \in UNION Splits[r.doc]  BY <2>1, <2>2
    <3>2. \A l \in Loaders : chunks'[l] \subseteq chunks[l] \cup (IF l = r.doc THEN {k} ELSE {})
      BY <2>2 DEF TypeInv, TypeOK
    <3>3. \A l \in Loaders : chunks'[l] \subseteq UNION Splits[l]
      BY <3>1, <3>2 DEF Origins, OwnChunks
    <3> QED  BY <1>0, <3>3 DEF Origins, OwnChunks
  <2>4. req'[p].doc = r.doc /\ req'[p].docs = r.docs \ {k}  BY <1>0, <2>2 DEF ReqType
  <2> QED  BY <1>0, <2>1, <2>3, <2>4 DEF Origins, SplitOf
<1>4. CASE ~ Split(p) /\ ~ ClearChunks(p) /\ ~ SaveChunk(p)
  <2>1. req'[p].pc \notin {"clear", "insert"}  BY <1>4, StepLands
  <2>2. CASE DropChunks(p)
    <3>1. \A l \in Loaders : chunks'[l] \subseteq chunks[l]  BY <2>2 DEF DropChunks
    <3> QED  BY <1>0, <2>1, <3>1 DEF Origins, OwnChunks, SplitOf
  <2>3. CASE ~ DropChunks(p)
    <3>1. UNCHANGED chunks
      BY <1>4, <2>3 DEF Step, FindForProcessing, Announce, Reread, InsertChunks, Synced,
         FindForConfig, Configure, MarkUpserting, FindForUpsert, Collect, CallIndex, Finish,
         NextLoader, Unlist, SaveEdited, Find, Save, Tables
    <3> QED  BY <1>0, <2>1, <3>1 DEF Origins, OwnChunks, SplitOf
  <2> QED  BY <2>2, <2>3
<1> QED  BY <1>1, <1>2, <1>3, <1>4

LEMMA OriginsRequest ==
  ASSUME TypeInv, NEW p \in Clients, Origins(p), Request(p)
  PROVE  Origins(p)'
<1>1. ASSUME NEW r, Begin(p, r), r.pc \notin {"clear", "insert"}, OwnChunks' PROVE Origins(p)'
  <2>1. req'[p] = r /\ mode' = mode  BY <1>1, GotoIs DEF Begin
  <2> QED  BY <1>1, <2>1 DEF Origins, SplitOf
<1>2. ASSUME UNCHANGED Tables PROVE OwnChunks'
  BY <1>2 DEF Tables, Origins, OwnChunks
<1>3. ASSUME NEW l \in Loaders, Process(p, l) \/ UpsertLoader(p, l) \/ DeleteLoader(p, l)
      PROVE Origins(p)'
  BY <1>1, <1>2, <1>3 DEF Process, UpsertLoader, DeleteLoader, Idle
<1>4. ASSUME NEW l \in Loaders, EditChunk(p, l) PROVE Origins(p)'
  <2>1. PICK old \in chunks[l], new \in SUBSET UNION Splits[l] :
          chunks' = [chunks EXCEPT ![l] = (@ \ {old}) \cup new] /\ late' = late
    BY <1>4 DEF EditChunk
  <2>2. OwnChunks'  BY <2>1 DEF Origins, OwnChunks, TypeInv, TypeOK
  <2> QED  BY <1>1, <1>4, <2>2 DEF EditChunk, Idle
<1>5. ASSUME NEW doc \in Loaders \cup {All}, Upsert(p, doc) PROVE Origins(p)'
  BY <1>1, <1>2, <1>5 DEF Upsert, Idle
<1>6. ASSUME NEW items \in SUBSET Loaders, Refresh(p, items) PROVE Origins(p)'
  BY <1>1, <1>2, <1>6 DEF Refresh, Idle
<1>7. CASE DeleteStore(p)  BY <1>1, <1>2, <1>7 DEF DeleteStore, Idle
<1>8. ASSUME NEW doc \in Loaders \cup {All}, DeleteVectors(p, doc) PROVE Origins(p)'
  BY <1>8 DEF DeleteVectors, Tables, Origins, OwnChunks, SplitOf
<1> QED  BY <1>3, <1>4, <1>5, <1>6, <1>7, <1>8 DEF Request

LEMMA OriginsNext ==
  ASSUME NEW p, Clients = {p}, TypeInv, Origins(p), [Next]_vars
  PROVE  Origins(p)'
<1>0. p \in Clients  OBVIOUS
<1>1. CASE UNCHANGED vars  BY <1>1 DEF Origins, OwnChunks, SplitOf, vars
<1>2. CASE Request(p)  BY <1>0, <1>2, OriginsRequest
<1>3. CASE Step(p)  BY <1>0, <1>3, OriginsStep
<1>4. CASE Fail(p)
  <2> DEFINE r == req[p]
  <2>1. req'[p] = Idle /\ mode' = mode /\ chunks' = chunks  BY <1>0, <1>4, GotoIs DEF Fail
  <2>2. late' \subseteq late \cup (IF r.pc = "insert" THEN {r.doc} \X r.docs ELSE {})
    BY <1>4 DEF Fail
  <2>3. OwnChunks'  BY <2>1, <2>2 DEF Origins, OwnChunks, SplitOf
  <2>4. SplitOf(req[p])'  BY <2>1 DEF SplitOf, Idle
  <2> QED  BY <2>1, <2>3, <2>4 DEF Origins
<1>5. ASSUME NEW l \in Loaders, NEW k \in Chunks, LandLate(l, k) \/ LoseLate(l, k)
      PROVE  Origins(p)'
  <2>1. UNCHANGED <<mode, req>>  BY <1>5 DEF LandLate, LoseLate, Bounds
  <2>2. OwnChunks'  BY <1>5 DEF LandLate, LoseLate, Origins, OwnChunks, TypeInv, TypeOK
  <2> QED  BY <2>1, <2>2 DEF Origins, SplitOf
<1> QED  BY <1>1, <1>2, <1>3, <1>4, <1>5 DEF Next

RefreshedOf(r) ==
  r.op = "refresh" /\ failures = 0 =>
    /\ r.pc = "next" => r.doc = All
    /\ r.pc # "next" => r.doc \in Loaders
    /\ \A l \in Loaders \ r.todo :
         LeftAlone(l) /\ HasLoader(store, l) /\ l # r.doc => chunks[l] \subseteq vectors

(* What a step leaves of the loaders that it is not about. *)
LEMMA StepListKept ==
  ASSUME TypeInv, NEW p \in Clients, Quiet(p), Step(p), ~ Unlist(p), ~ SaveEdited(p),
         NEW l \in Loaders, l # req[p].doc
  PROVE  HasLoader(store', l) => HasLoader(store, l)
<1> DEFINE r == req[p]
<1>0. ReqOK(r) /\ CalmOf(r)  BY DEF TypeInv, ReqOK, Quiet
<1>1. CASE Announce(p) \/ Configure(p) \/ MarkUpserting(p) \/ Finish(p) \/ Synced(p)
  <2>1. r.snap = store /\ store \in StoreType
    BY <1>0, <1>1 DEF CalmOf, ReqOK, WithRow, Announce, Configure, MarkUpserting, Finish, Synced, At
  <2>2. store # NoStore /\ store.loaders \in [Loaders -> {"none", "SYNCING", "SYNC"}]
    BY <2>1, StoreAssumption DEF StoreType
  <2>3. CASE Announce(p)
    <3>1. store' = [store EXCEPT !.loaders[r.doc] = "SYNCING"]  BY <2>1, <2>3 DEF Announce, Save
    <3>2. store'.loaders = [store.loaders EXCEPT ![r.doc] = "SYNCING"]  BY <2>1, <3>1 DEF StoreType
    <3> QED  BY <2>2, <3>2 DEF HasLoader
  <2>4. CASE Configure(p)
    <3>1. \E s : store' = [store EXCEPT !.status = s]
      <4> DEFINE s == IF store.status = "UPSERTED" THEN store.status ELSE "SYNC"
      <4>1. store' = [store EXCEPT !.status = s]  BY <2>1, <2>4 DEF Configure, Save
      <4> HIDE DEF s
      <4> QED  BY <4>1
    <3>2. store'.loaders = store.loaders  BY <2>1, <3>1 DEF StoreType
    <3> QED  BY <2>2, <3>2 DEF HasLoader
  <2>5. CASE MarkUpserting(p) \/ Finish(p)
    <3>1. \/ store' = [store EXCEPT !.status = "UPSERTING"]
          \/ store' = [store EXCEPT !.status = "UPSERTED"]
      BY <2>1, <2>5 DEF MarkUpserting, Finish, Save
    <3>2. store'.loaders = store.loaders  BY <2>1, <3>1 DEF StoreType
    <3> QED  BY <2>2, <3>2 DEF HasLoader
  <2>6. CASE Synced(p)
    <3>1. \/ store' = [status |-> "SYNC", loaders |-> [store.loaders EXCEPT ![r.doc] = "SYNC"]]
          \/ store' = [status |-> "STALE", loaders |-> [store.loaders EXCEPT ![r.doc] = "SYNC"]]
      BY <2>1, <2>6 DEF Synced
    <3>2. store'.loaders = [store.loaders EXCEPT ![r.doc] = "SYNC"]  BY <3>1
    <3> QED  BY <2>2, <3>2 DEF HasLoader
  <2> QED  BY <1>1, <2>3, <2>4, <2>5, <2>6
<1>2. CASE ~ (Announce(p) \/ Configure(p) \/ MarkUpserting(p) \/ Finish(p) \/ Synced(p))
  <2>1. UNCHANGED store
    BY <1>2 DEF Step, FindForProcessing, Reread, Split, ClearChunks, SaveChunk, InsertChunks,
       FindForConfig, FindForUpsert, Collect, CallIndex, NextLoader, DropChunks, Find, Tables
  <2> QED  BY <2>1
<1> QED  BY <1>1, <1>2

LEMMA StepChunksKept ==
  ASSUME TypeInv, NEW p \in Clients, Step(p), NEW l \in Loaders, l # req[p].doc
  PROVE  chunks'[l] \subseteq chunks[l]
BY DEF TypeInv, TypeOK, Step, FindForProcessing, Announce, Reread, Split, ClearChunks, SaveChunk,
       InsertChunks, Synced, FindForConfig, Configure, MarkUpserting, FindForUpsert, Collect, CallIndex, Finish,
       NextLoader, DropChunks, Unlist, SaveEdited, Find, Save, Tables

LEMMA CallKeepsOthers ==
  ASSUME TypeInv, NEW p \in Clients, Covering(p), Origins(p), CallIndex(p),
         failures = 0, req[p].doc \in Loaders,
         NEW l \in Loaders, LeftAlone(l), l # req[p].doc, chunks[l] \subseteq vectors
  PROVE  chunks[l] \subseteq vectors'
<1> DEFINE docs == req[p].docs
<1>1. vectors = known /\ docs = chunks[req[p].doc] /\ Indexing!Indexes(docs, mode)
  BY StoreAssumption DEF CallIndex, At, Covering, Agree, CoversOf, OfDoc
<1>2. docs \in SUBSET Chunks /\ IndexOK  BY TypeParts DEF TypeInv, ReqType
<1>3. vectors \ Indexing!Scope(docs, mode) \subseteq vectors'  BY <1>1, <1>2, IndexOnAgreement
<1>4. ASSUME NEW c \in chunks[l] PROVE c \notin Indexing!Scope(docs, mode)
  <2>1. CASE mode = "incremental"
    <3>1. c \in UNION Splits[l] /\ docs \subseteq UNION Splits[req[p].doc]
      BY <1>1 DEF Origins, OwnChunks
    <3>2. SourcesOf(l) \cap SourcesOf(req[p].doc) = {}  BY <2>1 DEF LeftAlone, OwnSource
    <3>3. \A d \in docs : Source[c] # Source[d]  BY <3>1, <3>2 DEF SourcesOf
    <3> QED  BY <2>1, <3>3 DEF Indexing!Scope
  <2>2. CASE mode = "none"  BY <2>2 DEF Indexing!Scope
  <2> QED  BY <2>1, <2>2 DEF LeftAlone
<1> QED  BY <1>3, <1>4

LEMMA RefreshedStep ==
  ASSUME TypeInv, NEW p \in Clients, Quiet(p), Covering(p), Origins(p), RefreshedOf(req[p]), Step(p)
  PROVE  RefreshedOf(req[p])'
<1> DEFINE r == req[p]
<1>0. r \in ReqType /\ UNCHANGED <<mode, failures>>  BY StepBounds DEF TypeInv, Bounds
<1>1. CASE req'[p] = Idle  BY <1>1 DEF RefreshedOf, Idle
<1>2. ASSUME NEW pc \in Pcs \ {"idle", "next"}, SameWork(p, pc), r.pc # "next",
             ~ Unlist(p), ~ SaveEdited(p)
      PROVE  RefreshedOf(req[p])'
  <2> SUFFICES ASSUME r.op = "refresh", failures = 0
               PROVE  RefreshedOf(req[p])'
    BY <1>0, <1>2 DEF RefreshedOf, SameWork
  <2>1. r.doc \in Loaders  BY <1>2 DEF RefreshedOf
  <2>2. ASSUME NEW l \in Loaders \ r.todo, LeftAlone(l)', HasLoader(store', l), l # r.doc
        PROVE  chunks'[l] \subseteq vectors'
    <3>0. LeftAlone(l)  BY <1>0, <2>2 DEF LeftAlone
    <3>1. chunks[l] \subseteq vectors  BY <1>2, <2>2, <3>0, StepListKept DEF RefreshedOf
    <3>2. chunks[l] \subseteq vectors'
      <4>1. CASE CallIndex(p)  BY <2>1, <2>2, <3>0, <3>1, <4>1, CallKeepsOthers
      <4>2. CASE ~ CallIndex(p)  BY <3>1, <4>2, OnlyCallsIndex
      <4> QED  BY <4>1, <4>2
    <3> QED  BY <2>2, <3>2, StepChunksKept
  <2> QED  BY <1>2, <2>1, <2>2 DEF RefreshedOf, SameWork
<1>3. CASE Unlist(p) \/ SaveEdited(p)
  <2>1. req'[p] = Idle  BY <1>3, GotoIs DEF Unlist, SaveEdited
  <2> QED  BY <1>1, <2>1
<1>4. CASE Finish(p) /\ req'[p] # Idle
  <2> SUFFICES ASSUME r.op = "refresh", failures = 0
               PROVE  RefreshedOf(req[p])'
    <3>1. req'[p] = [Idle EXCEPT !.op = r.op, !.pc = "next", !.todo = r.todo]
      BY <1>4, ToNextLoader
    <3>2. req'[p].op = r.op  BY <3>1 DEF Idle
    <3> QED  BY <1>0, <3>2 DEF RefreshedOf
  <2>1. req'[p] = [Idle EXCEPT !.op = r.op, !.pc = "next", !.todo = r.todo]
    BY <1>4, ToNextLoader
  <2>2. req'[p].pc = "next" /\ req'[p].doc = All /\ req'[p].todo = r.todo  BY <2>1 DEF Idle
  <2>3. r.pc = "finish" /\ UNCHANGED <<chunks, vectors>> /\ ~ Unlist(p) /\ ~ SaveEdited(p)
    BY <1>4 DEF Finish, Unlist, SaveEdited, At, Index
  <2>4. r.doc \in Loaders /\ chunks[r.doc] \subseteq vectors
    BY <2>3, StoreAssumption DEF RefreshedOf, Covering, CoversOf, OfDoc
  <2>5. ASSUME NEW l \in Loaders \ r.todo, LeftAlone(l)', HasLoader(store', l)
        PROVE  chunks[l] \subseteq vectors
    <3>1. CASE l = r.doc  BY <2>4, <3>1
    <3>2. CASE l # r.doc
      <4>1. LeftAlone(l)  BY <1>0, <2>5 DEF LeftAlone
      <4> QED  BY <2>3, <2>5, <3>2, <4>1, StepListKept DEF RefreshedOf
    <3> QED  BY <3>1, <3>2
  <2> QED  BY <2>2, <2>3, <2>5 DEF RefreshedOf
<1>5. CASE NextLoader(p) /\ req'[p] # Idle
  <2>1. PICK l \in r.todo : req'[p] = [r EXCEPT !.pc = "find", !.doc = l, !.todo = @ \ {l}]
    BY <1>5, ToNextLoader
  <2>2. r.pc = "next" /\ UNCHANGED <<store, chunks, vectors>>
    BY <1>5 DEF NextLoader, At, Tables, Index
  <2>3. l \in Loaders /\ req'[p].op = r.op /\ req'[p].pc = "find" /\ req'[p].doc = l
        /\ req'[p].todo = r.todo \ {l}
    BY <1>0, <2>1 DEF ReqType
  <2> QED  BY <1>0, <2>2, <2>3, StoreAssumption DEF RefreshedOf, LeftAlone
<1>6. CASE Moves(p)  BY <1>1, <1>2, <1>3, <1>6 DEF Moves
<1> QED  BY <1>1, <1>4, <1>5, <1>6, StepMoves

LEMMA RefreshedRequest ==
  ASSUME TypeInv, NEW p \in Clients, Quiet(p), RefreshedOf(req[p]), Request(p)
  PROVE  RefreshedOf(req[p])'
<1>1. ASSUME NEW r, Begin(p, r), r.op # "refresh" PROVE RefreshedOf(req[p])'
  <2>1. req'[p] = r  BY <1>1, GotoIs DEF Begin
  <2> QED  BY <1>1, <2>1 DEF RefreshedOf
<1>2. ASSUME NEW l \in Loaders,
             Process(p, l) \/ UpsertLoader(p, l) \/ DeleteLoader(p, l) \/ EditChunk(p, l)
      PROVE  RefreshedOf(req[p])'
  BY <1>1, <1>2 DEF Process, UpsertLoader, DeleteLoader, EditChunk, Idle
<1>3. ASSUME NEW doc \in Loaders \cup {All}, Upsert(p, doc) PROVE RefreshedOf(req[p])'
  BY <1>1, <1>3 DEF Upsert, Idle
<1>4. ASSUME NEW items \in SUBSET Loaders, Refresh(p, items) PROVE RefreshedOf(req[p])'
  <2> DEFINE todo == {l \in Loaders : HasLoader(store, l)}
  <2>1. \/ Begin(p, [Idle EXCEPT !.op = "replace", !.pc = "next", !.todo = items])
        \/ Begin(p, [Idle EXCEPT !.op = "refresh", !.pc = "next", !.todo = todo])
        \/ Begin(p, Idle)
    BY <1>4 DEF Refresh
  <2>2. CASE Begin(p, [Idle EXCEPT !.op = "refresh", !.pc = "next", !.todo = todo])
    <3>1. req'[p] = [Idle EXCEPT !.op = "refresh", !.pc = "next", !.todo = todo]
      BY <2>2, GotoIs DEF Begin
    <3>2. req'[p].pc = "next" /\ req'[p].doc = All /\ req'[p].todo = todo  BY <3>1 DEF Idle
    <3>3. UNCHANGED store  BY <1>4 DEF Refresh, Tables
    <3> QED  BY <3>2, <3>3 DEF RefreshedOf
  <2>3. CASE Begin(p, [Idle EXCEPT !.op = "replace", !.pc = "next", !.todo = items]) \/ Begin(p, Idle)
    BY <1>1, <2>3 DEF Idle
  <2> QED  BY <2>1, <2>2, <2>3
<1>5. CASE DeleteStore(p)  BY <1>1, <1>5 DEF DeleteStore, Idle
<1>6. ASSUME NEW doc \in Loaders \cup {All}, DeleteVectors(p, doc) PROVE RefreshedOf(req[p])'
  <2>1. req'[p] = Idle  BY <1>6 DEF DeleteVectors, At, Quiet, CalmOf
  <2> QED  BY <2>1 DEF RefreshedOf, Idle
<1> QED  BY <1>2, <1>3, <1>4, <1>5, <1>6 DEF Request

LEMMA RefreshedNext ==
  ASSUME NEW p, Clients = {p}, TypeInv, Quiet(p), Covering(p), Origins(p), RefreshedOf(req[p]),
         [Next]_vars
  PROVE  RefreshedOf(req[p])'
<1>0. p \in Clients  OBVIOUS
<1>1. CASE UNCHANGED vars  BY <1>1 DEF RefreshedOf, LeftAlone, HasLoader, vars
<1>2. CASE Request(p)  BY <1>0, <1>2, RefreshedRequest
<1>3. CASE Step(p)  BY <1>0, <1>3, RefreshedStep
<1>4. CASE Fail(p)
  <2>1. req'[p] = Idle  BY <1>0, <1>4, GotoIs DEF Fail
  <2> QED  BY <2>1 DEF RefreshedOf, Idle
<1>5. ASSUME NEW l \in Loaders, NEW k \in Chunks, LandLate(l, k) \/ LoseLate(l, k)
      PROVE  RefreshedOf(req[p])'
  BY <1>5, LateFailed DEF RefreshedOf
<1> QED  BY <1>1, <1>2, <1>3, <1>4, <1>5 DEF Next

(* At the end of a refresh that nothing disturbed, every chunk of a loader *)
(* is in the vector store, unless the record manager cleans up fully, or   *)
(* by a source that the loader shares with another one.                    *)
THEOREM RefreshesCoverStore ==
  ASSUME NEW CONSTANT p, Clients = {p}
  PROVE  Spec => []RefreshCoversStore
<1> DEFINE Inv == TypeInv /\ Quiet(p) /\ Covering(p) /\ Origins(p) /\ RefreshedOf(req[p])
<1>1. Init => Inv
  <2> SUFFICES ASSUME Init PROVE Inv
    OBVIOUS
  <2>1. /\ req[p] = Idle /\ mode \in Modes /\ late = {}
        /\ chunks = [l \in Loaders |-> {}]
    BY DEF Init
  <2>2. Origins(p)  BY <2>1 DEF Origins, OwnChunks, SplitOf, Idle
  <2>3. RefreshedOf(req[p])  BY <2>1 DEF RefreshedOf, Idle
  <2> QED  BY <2>2, <2>3, TypeInit, QuietInit, CoveringInit
<1>2. Inv /\ [Next]_vars => Inv'
  BY TypeNext, QuietNext, CoveringNext, OriginsNext, RefreshedNext
<1>3. Inv => RefreshCoversStore
  <2> SUFFICES ASSUME Inv, NEW l \in Loaders, Refreshed(p), LeftAlone(l)
               PROVE  chunks[l] \subseteq vectors
    BY DEF RefreshCoversStore
  <2>1. req[p].pc = "finish" /\ req[p].op = "refresh" /\ req[p].todo = {} /\ failures = 0
    BY DEF Refreshed, At
  <2>2. req[p].doc \in Loaders /\ chunks[req[p].doc] \subseteq vectors
    BY <2>1, StoreAssumption DEF RefreshedOf, Covering, CoversOf, OfDoc
  <2>3. CASE HasLoader(store, l) /\ l # req[p].doc  BY <2>1, <2>3 DEF RefreshedOf
  <2>4. CASE ~ HasLoader(store, l)
    <3>1. chunks[l] \subseteq strays[l]  BY <2>4 DEF Quiet, NoOrphanChunks
    <3> QED  BY <2>1, <3>1 DEF Covering, Agree
  <2> QED  BY <2>2, <2>3, <2>4
<1> QED  BY <1>1, <1>2, <1>3, PTL DEF Spec

=============================================================================
