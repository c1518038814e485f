----------------------------- MODULE MCAgentRun -----------------------------
(* Instances of AgentRun for TLC.                                          *)
EXTENDS AgentRun, TLC

CONSTANTS root, spec,  \* agents
          g1, g2,      \* calls whose tools need approval
          i1,          \* a call that runs at once
          e1,          \* a call whose tool elicits input under its own id
          p1, n1, n2,  \* a sub-agent call and two calls inside it
          t1, x1,      \* a transfer to spec and a gated tool of spec
          m1, m2       \* user messages

\* Every call is its own parent, but those inside the sub-agent call p1.
ParentOf == [id \in Ids |-> IF id \in Inner THEN p1 ELSE id]

RootOwnsAll == [c \in Calls |-> root]
SpecOwnsX == [c \in Calls |-> IF c = x1 THEN spec ELSE root]

NoTransfers == [c \in {} |-> root]
TransferToSpec == [c \in {t1} |-> spec]

NoHandoffs == [a \in Agents |-> {}]
RootToSpec == [a \in Agents |-> IF a = root THEN {spec} ELSE {}]

Loops2 == [a \in Agents |-> 2]
Loops4 == [a \in Agents |-> 4]

\* Messages are interchangeable, where no liveness is checked.
Symmetry == Permutations(Msgs)
=============================================================================
