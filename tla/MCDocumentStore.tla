--------------------------- MODULE MCDocumentStore ---------------------------
(* A store with two loaders: one whose documents change, one whose         *)
(* documents do not.  Each has a source of its own.                        *)
EXTENDS DocumentStore, TLC

CONSTANTS l1, l2, x1, x2, y1, c1

TwoLoaders == {l1, l2}
ThreeChunks == {x1, x2, y1}
BySource == x1 :> l1 @@ x2 :> l1 @@ y1 :> l2
Documents == l1 :> {{x1, x2}, {x2}} @@ l2 :> {{y1}}
OneClient == {c1}
AllModes == {"none", "incremental", "full"}
Full == {"full"}
Incremental == {"incremental"}
===========================================================================
