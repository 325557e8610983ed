----------------------------- MODULE MCIndexing -----------------------------
(* Indexing three chunks of two sources, one or two at a time.             *)
EXTENDS IndexingAudit, TLC

CONSTANTS a1, a2, b1, p1

Three == {a1, a2, b1}
Sources == a1 :> a1 @@ a2 :> a1 @@ b1 :> b1
OneCall == {p1}

(* A source that grows, shrinks, changes its order, and one that goes;     *)
(* a chunk that comes twice.                                               *)
Returned == {<< >>, <<a1>>, <<a2, a1, a2>>, <<a1, b1, a2>>}
OfOneLoader == {{a1, a2}}
BothDrivers == BOOLEAN
AllModes == {"none", "incremental", "full"}
===========================================================================
