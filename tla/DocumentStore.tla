---------------------------- MODULE DocumentStore ----------------------------
(***************************************************************************)
(* A document store: its row with the list of its loaders, the table of    *)
(* their chunks, and the vector store the chunks are upserted into.        *)
(*                                                                         *)
(*   services/documentstore/index.ts    the requests                       *)
(*   queue/UpsertQueue.ts               the same functions, in a worker    *)
(*                                                                         *)
(* A request reads the row, works for long and saves the row it has read:  *)
(* save(entity) writes every column and inserts the row when it is gone.   *)
(* It may fail at each await, and nothing is undone.  The chunks of a      *)
(* loader are saved all at once, each by a save of its own: when one of    *)
(* them is refused the request fails, and the others still land, whatever  *)
(* is requested meanwhile.  The call of index() is one step here, with the *)
(* effect IndexContract gives it.                                          *)
(***************************************************************************)
EXTENDS Naturals, FiniteSets

CONSTANTS
  Loaders,       \* ids of loaders
  Chunks,        \* chunks, told apart by content and metadata, docId included
  Source,        \* chunk -> the value of its sourceIdKey
  Splits,        \* loader -> what splitting its documents may give
  Clients,       \* requests that may be in progress at once
  Modes,         \* cleanup modes of the record manager in use
  NoStore,       \* the row is gone
  All,           \* no docId: the request is about the whole store
  MaxRequests,   \* bound: requests
  MaxFailures    \* bound: requests that fail

StoreStatus == {"EMPTY", "SYNC", "STALE", "UPSERTING", "UPSERTED"}
StoreType == [status : StoreStatus, loaders : [Loaders -> {"none", "SYNCING", "SYNC"}]]

ASSUME StoreAssumption ==
  /\ Splits \in [Loaders -> SUBSET SUBSET Chunks]
  /\ Modes \subseteq {"none", "incremental", "full"}
  /\ All \notin Loaders /\ NoStore \notin StoreType
  /\ MaxRequests \in Nat /\ MaxFailures \in Nat

VARIABLES
  mode,       \* the record manager's cleanup mode, configured once
  store,      \* the row: status of the store, status of each loader
  chunks,     \* DocumentStoreFileChunk: the rows of each loader
  late,       \* saves under way, <<loader, chunk>>, of requests that failed
  vectors,    \* the chunks in the vector store
  known,      \* the chunks the record manager lists
  req,        \* the request of each client
  requests,   \* requests begun
  failures,   \* requests that failed
  given,      \* history: what the last split and the edits since gave a loader
  strays      \* history: what late saves gave a loader since it was cleared

vars == <<mode, store, chunks, late, vectors, known, req, requests, failures, given, strays>>

(* Seconds pass between two calls, and nobody looks at the last one. *)
Indexing == INSTANCE IndexContract WITH recent <- {}, last <- {}

(* doc is the docId of the request, todo the loaders still to refresh,     *)
(* snap the row it has read, docs the chunks it has split or read.         *)
Idle == [op |-> "none", pc |-> "idle", doc |-> All, todo |-> {}, snap |-> NoStore, docs |-> {}]

OfDoc(doc) == IF doc = All THEN UNION {chunks[l] : l \in Loaders} ELSE chunks[doc]

HasLoader(s, l) == s # NoStore /\ s.loaders[l] # "none"

Init ==
  /\ mode \in Modes
  /\ store = [status |-> "EMPTY", loaders |-> [l \in Loaders |-> "none"]]
  /\ chunks = [l \in Loaders |-> {}]
  /\ late = {}
  /\ vectors = {}
  /\ known = {}
  /\ req = [c \in Clients |-> Idle]
  /\ requests = 0
  /\ failures = 0
  /\ given = [l \in Loaders |-> {}]
  /\ strays = [l \in Loaders |-> {}]

At(c, pc) == req[c].pc = pc

Goto(c, r) == req' = [req EXCEPT ![c] = r]

Bounds == <<mode, requests, failures>>
Rows == <<chunks, late, given, strays>>
Tables == <<store, Rows>>
Index == <<vectors, known>>

Begin(c, r) ==
  /\ At(c, "idle")
  /\ requests < MaxRequests
  /\ requests' = requests + 1
  /\ Goto(c, r)
  /\ UNCHANGED <<mode, failures, Index>>

(* findOneBy; without a row the request throws. *)
Find(c, next) ==
  /\ Goto(c, IF store = NoStore THEN Idle ELSE [req[c] EXCEPT !.pc = next, !.snap = store])
  /\ UNCHANGED <<Bounds, Tables, Index>>

(* save(entity): what was read, with what the request changed in it. *)
Save(c, row, next) ==
  /\ store' = row
  /\ Goto(c, [req[c] EXCEPT !.pc = next, !.snap = row])
  /\ UNCHANGED <<Bounds, Rows, Index>>

---------------------------------------------------------------------------
(***************************************************************************)
(* Processing a loader: saveProcessingLoader, then processLoader.          *)
(***************************************************************************)
Process(c, l) ==
  /\ Begin(c, [Idle EXCEPT !.op = "process", !.pc = "find", !.doc = l])
  /\ UNCHANGED Tables

FindForProcessing(c) == At(c, "find") /\ Find(c, "announce")

(* Mutant: the loader keeps the status it had. *)
MutAnnounce(c) ==
  LET r == req[c]
  IN  /\ At(c, "announce")
      /\ Save(c, [r.snap EXCEPT !.loaders[r.doc] = IF @ = "none" THEN "SYNCING" ELSE @], "reread")

(* The loader is SYNCING; a new one is added to the list. *)
Announce(c) ==
  /\ At(c, "announce")
  /\ Save(c, [req[c].snap EXCEPT !.loaders[req[c].doc] = "SYNCING"], "reread")

(* The row that is saved in the end is read before the documents are       *)
(* loaded and split.                                                       *)
Reread(c) == At(c, "reread") /\ Find(c, "split")

Split(c) ==
  /\ At(c, "split")
  /\ \E docs \in Splits[req[c].doc] : Goto(c, [req[c] EXCEPT !.pc = "clear", !.docs = docs])
  /\ UNCHANGED <<Bounds, Tables, Index>>

ClearChunks(c) ==
  LET r == req[c]
  IN  /\ At(c, "clear")
      /\ chunks' = [chunks EXCEPT ![r.doc] = {}]
      /\ given' = [given EXCEPT ![r.doc] = r.docs]
      /\ strays' = [strays EXCEPT ![r.doc] = {}]
      /\ Goto(c, [r EXCEPT !.pc = "insert"])
      /\ UNCHANGED <<Bounds, store, late, Index>>

(* The saves of the chunks are all under way; one of them lands. *)
SaveChunk(c) ==
  LET r == req[c]
  IN  /\ At(c, "insert")
      /\ \E k \in r.docs :
           /\ chunks' = [chunks EXCEPT ![r.doc] = @ \cup {k}]
           /\ Goto(c, [r EXCEPT !.docs = @ \ {k}])
      /\ UNCHANGED <<Bounds, store, late, given, strays, Index>>

(* Promise.all: all of them have landed. *)
InsertChunks(c) ==
  LET r == req[c]
  IN  /\ At(c, "insert")
      /\ r.docs = {}
      /\ Goto(c, IF HasLoader(r.snap, r.doc) THEN [r EXCEPT !.pc = "synced"] ELSE Idle)
      /\ UNCHANGED <<Bounds, Tables, Index>>

(* The loader is SYNC, and the store when all its loaders are.  Upserting  *)
(* and refreshing go on with the vectors of this loader.                   *)
Synced(c) ==
  LET r       == req[c]
      loaders == [r.snap.loaders EXCEPT ![r.doc] = "SYNC"]
      all     == \A l \in Loaders : loaders[l] \in {"none", "SYNC"}
      row     == [status |-> IF all THEN "SYNC" ELSE "STALE", loaders |-> loaders]
  IN  /\ At(c, "synced")
      /\ store' = row
      /\ Goto(c, IF r.op = "process" THEN Idle ELSE [r EXCEPT !.pc = "config"])
      /\ UNCHANGED <<Bounds, Rows, Index>>

---------------------------------------------------------------------------
(***************************************************************************)
(* Upserting: insertIntoVectorStore.                                       *)
(***************************************************************************)
Upsert(c, doc) ==
  /\ Begin(c, [Idle EXCEPT !.op = "insert", !.pc = "config", !.doc = doc])
  /\ UNCHANGED Tables

FindForConfig(c) == At(c, "config") /\ Find(c, "configure")

(* Mutant: the status of a loader. *)
MutConfigure(c) ==
  /\ At(c, "configure")
  /\ Save(c, [req[c].snap EXCEPT !.status = IF @ = "UPSERTED" THEN @ ELSE "SYNCING"], "mark")

(* saveVectorStoreConfig *)
Configure(c) ==
  /\ At(c, "configure")
  /\ Save(c, [req[c].snap EXCEPT !.status = IF @ = "UPSERTED" THEN @ ELSE "SYNC"], "mark")

MarkUpserting(c) ==
  /\ At(c, "mark")
  /\ Save(c, [req[c].snap EXCEPT !.status = "UPSERTING"], "load")

FindForUpsert(c) == At(c, "load") /\ Find(c, "collect")

(* Mutant: the chunks of the first loader only. *)
MutCollect(c) ==
  /\ At(c, "collect")
  /\ Goto(c, [req[c] EXCEPT !.pc = "index",
                            !.docs = OfDoc(IF req[c].doc = All THEN CHOOSE l \in Loaders : TRUE
                                           ELSE req[c].doc)])
  /\ UNCHANGED <<Bounds, Tables, Index>>

(* The chunks of the loader or of the whole store. *)
Collect(c) ==
  /\ At(c, "collect")
  /\ Goto(c, [req[c] EXCEPT !.pc = "index", !.docs = OfDoc(req[c].doc)])
  /\ UNCHANGED <<Bounds, Tables, Index>>

(* index() *)
CallIndex(c) ==
  /\ At(c, "index")
  /\ Indexing!Indexes(req[c].docs, mode)
  /\ Goto(c, [req[c] EXCEPT !.pc = "finish"])
  /\ UNCHANGED <<Bounds, Tables>>

(* Mutant: the status is left to the next request. *)
MutFinish(c) ==
  LET r == req[c]
  IN  /\ At(c, "finish")
      /\ Goto(c, IF r.todo = {} THEN Idle ELSE [Idle EXCEPT !.op = r.op, !.pc = "next", !.todo = r.todo])
      /\ UNCHANGED <<Bounds, Tables, Index>>

(* UPSERTED, on the row read before the upsert. *)
Finish(c) ==
  LET r == req[c]
  IN  /\ At(c, "finish")
      /\ store' = [r.snap EXCEPT !.status = "UPSERTED"]
      /\ Goto(c, IF r.todo = {} THEN Idle ELSE [Idle EXCEPT !.op = r.op, !.pc = "next", !.todo = r.todo])
      /\ UNCHANGED <<Bounds, Rows, Index>>

---------------------------------------------------------------------------
(***************************************************************************)
(* Refreshing: every loader of the list, or the ones named, is processed   *)
(* and upserted, one after the other.                                      *)
(***************************************************************************)
(* Mutant: one loader of the list is missed. *)
MutRefresh(c, items) ==
  /\ items = {} => store # NoStore
  /\ LET todo == {l \in Loaders : HasLoader(store, l)} \ {CHOOSE l \in Loaders : TRUE}
     IN  Begin(c, CASE items # {} -> [Idle EXCEPT !.op = "replace", !.pc = "next", !.todo = items]
                    [] todo # {} -> [Idle EXCEPT !.op = "refresh", !.pc = "next", !.todo = todo]
                    [] OTHER -> Idle)
  /\ UNCHANGED Tables

Refresh(c, items) ==
  /\ items = {} => store # NoStore
  /\ LET todo == {l \in Loaders : HasLoader(store, l)}
     IN  Begin(c, CASE items # {} -> [Idle EXCEPT !.op = "replace", !.pc = "next", !.todo = items]
                    [] todo # {} -> [Idle EXCEPT !.op = "refresh", !.pc = "next", !.todo = todo]
                    [] OTHER -> Idle)
  /\ UNCHANGED Tables

(* The upsert API adds a loader, or replaces one as a refresh does. *)
UpsertLoader(c, l) ==
  /\ ~ HasLoader(store, l)
  /\ Begin(c, [Idle EXCEPT !.op = "add", !.pc = "find", !.doc = l])
  /\ UNCHANGED Tables

(* The loader is looked up; it may be gone by now. *)
NextLoader(c) ==
  /\ At(c, "next")
  /\ \E l \in req[c].todo :
       Goto(c, IF HasLoader(store, l)
               THEN [req[c] EXCEPT !.pc = "find", !.doc = l, !.todo = @ \ {l}]
               ELSE Idle)
  /\ UNCHANGED <<Bounds, Tables, Index>>

---------------------------------------------------------------------------
(***************************************************************************)
(* Deleting and editing.                                                   *)
(***************************************************************************)
DeleteLoader(c, l) ==
  /\ HasLoader(store, l)
  /\ Begin(c, [Idle EXCEPT !.op = "deleteLoader", !.pc = "drop", !.doc = l, !.snap = store])
  /\ UNCHANGED Tables

DeleteStore(c) ==
  /\ store # NoStore
  /\ Begin(c, [Idle EXCEPT !.op = "deleteStore", !.pc = "drop"])
  /\ UNCHANGED Tables

(* Mutant: the row is saved or deleted first. *)
MutDropChunks(c) ==
  LET r == req[c]
  IN  /\ At(c, "drop")
      /\ store' = IF r.doc = All THEN NoStore ELSE [r.snap EXCEPT !.loaders[r.doc] = "none"]
      /\ Goto(c, [r EXCEPT !.pc = "unlist"])
      /\ UNCHANGED <<Bounds, Rows, Index>>

(* The chunks go first... *)
DropChunks(c) ==
  LET r == req[c]
  IN  /\ At(c, "drop")
      /\ chunks' = [l \in Loaders |-> IF r.doc \in {All, l} THEN {} ELSE chunks[l]]
      /\ given' = [l \in Loaders |-> IF r.doc \in {All, l} THEN {} ELSE given[l]]
      /\ strays' = [l \in Loaders |-> IF r.doc \in {All, l} THEN {} ELSE strays[l]]
      /\ Goto(c, [r EXCEPT !.pc = "unlist"])
      /\ UNCHANGED <<Bounds, store, late, Index>>

(* ...then the row is saved without the loader, or deleted. *)
Unlist(c) ==
  LET r == req[c]
  IN  /\ At(c, "unlist")
      /\ store' = IF r.doc = All THEN NoStore ELSE [r.snap EXCEPT !.loaders[r.doc] = "none"]
      /\ Goto(c, Idle)
      /\ UNCHANGED <<Bounds, Rows, Index>>

(* deleteVectorStoreFromStore: what the record manager lists of the loader *)
(* or of the store.                                                        *)
InStoreOf(doc) ==
  {k \in known : doc = All \/ \E docs \in Splits[doc] : k \in docs}

DeleteVectors(c, doc) ==
  /\ store # NoStore
  /\ At(c, "idle")
  /\ requests < MaxRequests
  /\ requests' = requests + 1
  /\ Indexing!Deletes(InStoreOf(doc))
  /\ UNCHANGED <<mode, failures, Tables, req>>

(* Deleting a chunk, or giving it other content. *)
EditChunk(c, l) ==
  /\ HasLoader(store, l)
  /\ \E old \in chunks[l], new \in SUBSET UNION Splits[l] :
       /\ Cardinality(new) <= 1
       /\ chunks' = [chunks EXCEPT ![l] = (@ \ {old}) \cup new]
       /\ given' = [given EXCEPT ![l] = (@ \ {old}) \cup new]
  /\ Begin(c, [Idle EXCEPT !.op = "edit", !.pc = "edited", !.doc = l, !.snap = store])
  /\ UNCHANGED <<store, late, strays>>

SaveEdited(c) ==
  /\ At(c, "edited")
  /\ store' = req[c].snap
  /\ Goto(c, Idle)
  /\ UNCHANGED <<Bounds, Rows, Index>>

---------------------------------------------------------------------------
Step(c) ==
  \/ FindForProcessing(c) \/ Announce(c) \/ Reread(c) \/ Split(c)
  \/ ClearChunks(c) \/ SaveChunk(c) \/ InsertChunks(c) \/ Synced(c)
  \/ FindForConfig(c) \/ Configure(c) \/ MarkUpserting(c)
  \/ FindForUpsert(c) \/ Collect(c) \/ CallIndex(c) \/ Finish(c)
  \/ NextLoader(c) \/ DropChunks(c) \/ Unlist(c) \/ SaveEdited(c)

(* The request fails; indexing may have been done in part.  The first save *)
(* of a chunk that is refused ends the request and stops none of the       *)
(* others; when the process dies they are gone with it.                    *)
Fail(c) ==
  LET r == req[c]
  IN  /\ ~ At(c, "idle")
      /\ failures < MaxFailures
      /\ failures' = failures + 1
      /\ \/ UNCHANGED late
         \/ /\ r.pc = "insert"
            /\ \E refused \in r.docs :
                 late' = late \cup ({r.doc} \X (r.docs \ {refused}))
      /\ IF r.pc = "index" THEN Indexing!IndexesInPart(r.docs, mode) ELSE UNCHANGED Index
      /\ Goto(c, Idle)
      /\ UNCHANGED <<mode, store, chunks, requests, given, strays>>

(* A save of a request that failed lands after all... *)
LandLate(l, k) ==
  /\ <<l, k>> \in late
  /\ late' = late \ {<<l, k>>}
  /\ chunks' = [chunks EXCEPT ![l] = @ \cup {k}]
  /\ strays' = [strays EXCEPT ![l] = @ \cup {k}]
  /\ UNCHANGED <<Bounds, store, given, req, Index>>

(* ...or is refused as well. *)
LoseLate(l, k) ==
  /\ <<l, k>> \in late
  /\ late' = late \ {<<l, k>>}
  /\ UNCHANGED <<Bounds, store, chunks, given, strays, req, Index>>

Request(c) ==
  \/ \E l \in Loaders :
       Process(c, l) \/ UpsertLoader(c, l) \/ DeleteLoader(c, l) \/ EditChunk(c, l)
  \/ \E doc \in Loaders \cup {All} : Upsert(c, doc) \/ DeleteVectors(c, doc)
  \/ \E items \in SUBSET Loaders : Refresh(c, items)
  \/ DeleteStore(c)

Next ==
  \/ \E c \in Clients : Request(c) \/ Step(c) \/ Fail(c)
  \/ \E l \in Loaders, k \in Chunks : LandLate(l, k) \/ LoseLate(l, k)

Spec == Init /\ [][Next]_vars

(* The awaits of a request are answered or throw. *)
FairSpec == Spec /\ \A c \in Clients : WF_vars(Step(c))

---------------------------------------------------------------------------
(***************************************************************************)
(* Properties.                                                             *)
(***************************************************************************)
TypeOK ==
  /\ mode \in {"none", "incremental", "full"}
  /\ store \in StoreType \cup {NoStore}
  /\ chunks \in [Loaders -> SUBSET Chunks]
  /\ given \in [Loaders -> SUBSET Chunks]
  /\ strays \in [Loaders -> SUBSET Chunks]
  /\ late \subseteq Loaders \X Chunks
  /\ vectors \subseteq Chunks /\ known \subseteq Chunks
  /\ \A c \in Clients :
       /\ req[c].doc \in Loaders \cup {All}
       /\ req[c].todo \subseteq Loaders /\ req[c].docs \subseteq Chunks
       /\ req[c].snap \in StoreType \cup {NoStore}
  /\ requests \in Nat /\ failures \in Nat

(* Requests made one after the other, wherever they fail, leave no chunks  *)
(* of a loader that the store does not list, which would be upserted with  *)
(* the store and could not be removed any more, except for the saves that  *)
(* landed after the request that made them had failed.                     *)
NoOrphanChunks == \A l \in Loaders : chunks[l] \ strays[l] # {} => HasLoader(store, l)

(* "This will delete all the associated document chunks from the document  *)
(* store" (DocumentStoreDetail.jsx): a loader that the store does not list *)
(* has no chunks, once no request is in progress.                          *)
DeletedLoadersLeaveNothing ==
  (\A c \in Clients : At(c, "idle")) =>
    \A l \in Loaders : chunks[l] # {} => HasLoader(store, l)

(* A loader that is shown as SYNC has all the chunks of its last split and *)
(* of the edits since, although splitting again deletes and saves them one *)
(* by one and may fail in between; and it has no others, except for saves  *)
(* that landed after their request had failed.                             *)
SyncedIsWhole ==
  (\A c \in Clients : At(c, "idle")) /\ store # NoStore =>
    \A l \in Loaders : store.loaders[l] = "SYNC" =>
      given[l] \subseteq chunks[l] /\ chunks[l] \subseteq given[l] \cup strays[l]

(* As long as no request failed, upserting the store indexes all of its    *)
(* chunks, and with full clean-up nothing else stays in the vector store,  *)
(* whatever was upserted, edited or deleted before.                        *)
UpsertCoversStore ==
  \A c \in Clients :
    At(c, "finish") /\ req[c].op = "insert" /\ req[c].doc = All /\ failures = 0 =>
      /\ OfDoc(All) \subseteq vectors
      /\ mode = "full" => vectors \subseteq OfDoc(All)

(* A refresh that nothing disturbed is at its end. *)
Refreshed(c) ==
  At(c, "finish") /\ req[c].op = "refresh" /\ req[c].todo = {} /\ failures = 0

(* "This will re-process all loaders and upsert all chunks"                *)
(* (DocumentStoreDetail.jsx): at the end of a refresh that nothing         *)
(* disturbed, every chunk of the store is in the vector store.             *)
RefreshCoversAll ==
  \A c \in Clients : Refreshed(c) => OfDoc(All) \subseteq vectors

(* No chunk of this loader has the source of a chunk of another one.  All  *)
(* uploaded files have the source "blob".                                  *)
SourcesOf(l) == {Source[k] : k \in UNION Splits[l]}
OwnSource(l) == \A m \in Loaders \ {l} : SourcesOf(l) \cap SourcesOf(m) = {}

(* Indexing another loader cleans up nothing of this one. *)
LeftAlone(l) == mode = "none" \/ (mode = "incremental" /\ OwnSource(l))

(* The same of each loader that the record manager leaves alone while the  *)
(* others are refreshed: it does not clean up, or it cleans up by source   *)
(* and the loader shares none.                                             *)
RefreshCoversStore ==
  \A c \in Clients, l \in Loaders :
    Refreshed(c) /\ LeftAlone(l) => chunks[l] \subseteq vectors

(* Unless a request failed, a store does not stay UPSERTING. *)
UpsertingEnds ==
  store # NoStore /\ store.status = "UPSERTING"
    ~> failures > 0 \/ store = NoStore \/ store.status # "UPSERTING"
===========================================================================
