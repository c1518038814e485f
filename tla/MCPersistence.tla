--------------------------- MODULE MCPersistence ---------------------------
(***************************************************************************)
(* Persistence for TLC: the ids of a pool are interchangeable.               *)
(***************************************************************************)
EXTENDS Persistence, TLC

Symmetry == Permutations(Runs) \cup Permutations(Threads) \cup Permutations(Managers)
=============================================================================
