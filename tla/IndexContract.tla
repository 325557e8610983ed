---------------------------- MODULE IndexContract ----------------------------
(***************************************************************************)
(* What indexing promises, a whole call seen as one step: which chunks are *)
(* in the vector store and which the record manager knows, after a call    *)
(* that completed and after one that was cut short.                        *)
(*                                                                         *)
(* A call goes by what is known.  A chunk that is known is not embedded    *)
(* again, and a vector is removed only when its chunk is known; so a       *)
(* disagreement of the two stores is not noticed, only overwritten.        *)
(***************************************************************************)
CONSTANTS
  Chunks,     \* pieces of documents, told apart by content and metadata
  Source      \* chunk -> the value of its sourceIdKey

VARIABLES
  vectors,    \* the chunks that are in the vector store
  known,      \* the chunks that the record manager lists
  recent,     \* of those, the ones recorded in the current tick of its clock
  last        \* the last call: what it was to do, whether it completed

contract == <<vectors, known, recent, last>>

CleanupModes == {"none", "incremental", "full"}

(* What a call may clean up, besides the chunks it is given. *)
Scope(docs, mode) ==
  CASE mode = "none" -> {}
    [] mode = "incremental" -> {c \in Chunks : \E d \in docs : Source[c] = Source[d]}
    [] mode = "full" -> Chunks

IndexInit ==
  /\ vectors = {}
  /\ known = {}
  /\ recent = {}
  /\ last = [mode |-> "none", docs |-> {}, completed |-> TRUE]

Called(mode, docs, completed) ==
  last' = [mode |-> mode, docs |-> docs, completed |-> completed]

(* A completed call: known chunks in its scope are removed unless they are *)
(* given or as recent as the call; the given ones that are not known are   *)
(* added.  Incremental clean-up between two batches may drop a given chunk *)
(* that a later batch adds again.                                          *)
Indexes(docs, mode) ==
  \E kept \in SUBSET recent :
    LET obsolete == (known \cap Scope(docs, mode)) \ (docs \cup kept)
        settled  == (vectors \ obsolete) \cup (docs \ known)
    IN  /\ known' = (known \ obsolete) \cup docs
        /\ vectors' \in {settled \cup again :
                           again \in SUBSET (IF mode = "incremental" THEN docs ELSE {})}
        /\ recent' \subseteq docs \cup kept

Deletes(target) ==
  /\ known' = known \ target
  /\ vectors' = vectors \ (known \cap target)
  /\ recent' \subseteq recent

(* A call that adds docs and removes obsolete, cut short.  What it may     *)
(* leave behind is a vector of a given chunk without its record, or the    *)
(* record of an obsolete chunk without its vector; never the other way.    *)
CutShort(docs, obsolete, replaces) ==
  /\ known' \in SUBSET (known \cup docs)
  /\ vectors' \in SUBSET (vectors \cup docs)
  /\ known \ known' \subseteq obsolete \cup replaces
  /\ vectors \ vectors' \subseteq (known \cap obsolete) \cup replaces
  /\ known' \ known \subseteq vectors'
  /\ (known \ known') \cap vectors' \subseteq replaces
  /\ recent' \subseteq recent \cup docs

IndexesInPart(docs, mode) ==
  CutShort(docs, Scope(docs, mode) \ docs, IF mode = "incremental" THEN docs ELSE {})

DeletesInPart(target) == CutShort({}, target, {})

Index(docs, mode) ==
  \/ Called(mode, docs, TRUE) /\ Indexes(docs, mode)
  \/ Called(mode, docs, FALSE) /\ IndexesInPart(docs, mode)

Delete(target) ==
  \/ Called("delete", target, TRUE) /\ Deletes(target)
  \/ Called("delete", target, FALSE) /\ DeletesInPart(target)

(* The clock of the record manager moves on. *)
TimePasses ==
  /\ recent' \subseteq recent
  /\ UNCHANGED <<vectors, known, last>>

IndexNext ==
  \/ \E docs \in SUBSET Chunks, mode \in CleanupModes : Index(docs, mode)
  \/ \E target \in SUBSET Chunks : Delete(target)
  \/ TimePasses

IndexSpec == IndexInit /\ [][IndexNext]_contract
===========================================================================
