--------------------------- MODULE SequenceKeep ---------------------------
(***************************************************************************)
(* The order-preserving filter of JavaScript, Array.prototype.filter, with *)
(* the predicate given as the set of the elements to keep.  It computes    *)
(* what SelectSeq computes; it is stated with a set and with a recursive   *)
(* function so that the proofs can reason about it (SequenceKeepProofs).   *)
(***************************************************************************)
EXTENDS Naturals, Sequences

KeepStep(f, s, T, i) ==
  IF i = 0 THEN << >>
  ELSE IF s[i] \in T THEN Append(f[i-1], s[i])
  ELSE f[i-1]

(* The elements of s that are in T, in their order. *)
Keep(s, T) ==
  LET K[i \in 0..Len(s)] == KeepStep(K, s, T, i)
  IN  K[Len(s)]

(* Whether s has an element in T. *)
Has(s, T) == \E i \in DOMAIN s : s[i] \in T
===========================================================================
