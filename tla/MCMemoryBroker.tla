--------------------------- MODULE MCMemoryBroker ---------------------------
(***************************************************************************)
(* MemoryBroker for TLC.  The subscriptions are interchangeable, and so are *)
(* the turns and the tools, where no liveness is checked.                  *)
(***************************************************************************)
EXTENDS MemoryBroker, TLC

Symmetry == Permutations(Turns) \cup Permutations(Subs) \cup Permutations(Tools)
=============================================================================
