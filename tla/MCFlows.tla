------------------------------- MODULE MCFlows -------------------------------
(***************************************************************************)
(* The flows the engine is checked on.                                     *)
(***************************************************************************)
EXTENDS FlowGraph, TLC

E(s, d, o) == [src |-> s, dst |-> d, out |-> o]

(* loops and inner are partial functions: node -> [to, max], node -> parent *)
MkFlow(kind, edges, loops, inner) ==
  LET N == DOMAIN kind
  IN  [nodes   |-> N,
       kind    |-> kind,
       edges   |-> edges,
       outs    |-> [n \in N |-> IF kind[n] \in {"condition", "human"} THEN 2 ELSE 1],
       parent  |-> [n \in N |-> IF n \in DOMAIN inner THEN inner[n] ELSE NoNode],
       loopTo  |-> [n \in N |-> IF n \in DOMAIN loops THEN loops[n].to ELSE n],
       maxLoop |-> [n \in N |-> IF n \in DOMAIN loops THEN loops[n].max ELSE 0]]

None == << >>

(* Two approvals in a row, each with a reject branch. *)
Approvals == MkFlow(
  "s" :> "start" @@ "h" :> "human" @@ "k" :> "human" @@ "r" :> "plain" @@ "e" :> "plain",
  <<E("s", "h", 1), E("h", "k", 1), E("h", "r", 2), E("k", "e", 1)>>, None, None)

(* A fan-out that joins. *)
Diamond == MkFlow(
  "s" :> "start" @@ "a" :> "plain" @@ "b" :> "plain" @@ "j" :> "plain",
  <<E("s", "a", 1), E("s", "b", 1), E("a", "j", 1), E("b", "j", 1)>>, None, None)

(* The two branches of a decision that join. *)
Branches == MkFlow(
  "s" :> "start" @@ "c" :> "condition" @@ "a" :> "plain" @@ "b" :> "plain" @@ "j" :> "plain",
  <<E("s", "c", 1), E("c", "a", 1), E("c", "b", 2), E("a", "j", 1), E("b", "j", 1)>>,
  None, None)

(* A join of an unconditional route and of a decision's branches. *)
MixedJoin == MkFlow(
  "s" :> "start" @@ "c" :> "condition" @@ "a" :> "plain" @@ "b" :> "plain"
    @@ "p" :> "plain" @@ "j" :> "plain",
  <<E("s", "c", 1), E("s", "p", 1), E("c", "a", 1), E("c", "b", 2),
    E("a", "j", 1), E("b", "j", 1), E("p", "j", 1)>>, None, None)

(* A condition that loops back, three times at most. *)
Looping == MkFlow(
  "s" :> "start" @@ "a" :> "plain" @@ "c" :> "condition" @@ "l" :> "loop" @@ "e" :> "plain",
  <<E("s", "a", 1), E("a", "c", 1), E("c", "l", 1), E("c", "e", 2)>>,
  "l" :> [to |-> "a", max |-> 3], None)

(* A loop that is longer than the step limits. *)
Busy == MkFlow(
  "s" :> "start" @@ "a" :> "plain" @@ "l" :> "loop",
  <<E("s", "a", 1), E("a", "l", 1)>>, "l" :> [to |-> "a", max |-> 0], None)

(* A rejected draft is written anew. *)
Revision == MkFlow(
  "s" :> "start" @@ "a" :> "plain" @@ "h" :> "human" @@ "l" :> "loop" @@ "e" :> "plain",
  <<E("s", "a", 1), E("a", "h", 1), E("h", "e", 1), E("h", "l", 2)>>,
  "l" :> [to |-> "a", max |-> 2], None)

(* An iteration over a plain node. *)
Iterating == MkFlow(
  "s" :> "start" @@ "i" :> "iteration" @@ "x" :> "plain" @@ "e" :> "plain",
  <<E("s", "i", 1), E("i", "e", 1)>>, None, "x" :> "i")

(* An agent that may wait for approval before the node it feeds. *)
Reviewed == MkFlow(
  "s" :> "start" @@ "g" :> "agent" @@ "e" :> "plain",
  <<E("s", "g", 1), E("g", "e", 1)>>, None, None)

(* A human node beside another route. *)
BesideHuman == MkFlow(
  "s" :> "start" @@ "h" :> "human" @@ "b" :> "plain",
  <<E("s", "h", 1), E("s", "b", 1)>>, None, None)
===========================================================================
