----------------------------- MODULE MCWorkflow -----------------------------
(***************************************************************************)
(* Workflow for TLC: graphs of four nodes with a join, two gates in one      *)
(* wave, a router, a branch by port and a gate below another root.          *)
(***************************************************************************)
EXTENDS Workflow

Edge(m, p, n) == [from |-> m, port |-> p, to |-> n]
NoRouters == [s \in {} |-> s]

Diamond ==
  [nodes |-> 1..4, reads |-> NoRouters, targets |-> NoRouters,
   edges |-> {Edge(Start, "a", 1), Edge(1, "a", 2), Edge(1, "a", 3), Edge(2, "a", 4),
              Edge(2, "b", End), Edge(3, "a", 4)}]

\* No edge from START: the roots are the nodes nothing leads to.
Routed ==
  [nodes |-> 1..4, reads |-> [s \in {1} |-> "own"],
   targets |-> [s \in {1} |-> [l \in {"x", "y"} |-> IF l = "x" THEN 2 ELSE 3]],
   edges |-> {Edge(3, "a", 4), Edge(2, "b", 4)}]

Branched ==
  [nodes |-> 1..4, reads |-> NoRouters, targets |-> NoRouters,
   edges |-> {Edge(Start, "a", 1), Edge(Start, "a", 4), Edge(1, "a", 2), Edge(1, "b", 3)}]

\* Four nodes no gate holds up: more than MaxSteps.
Long ==
  [nodes |-> {1, 4, 5, 6}, reads |-> NoRouters, targets |-> NoRouters,
   edges |-> {Edge(Start, "a", 1), Edge(Start, "a", 4), Edge(1, "a", 5), Edge(4, "b", 6)}]

Cyclic ==
  [nodes |-> 1..2, reads |-> NoRouters, targets |-> NoRouters,
   edges |-> {Edge(Start, "a", 1), Edge(1, "a", 2), Edge(2, "a", 1)}]

StableGraphs == {Diamond, Routed, Branched, Long, Cyclic}
WritesOf == [n \in 1..6 |-> IF n = 1 THEN {"own", "shared"} ELSE {"shared"}]
=============================================================================
