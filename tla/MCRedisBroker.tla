---------------------------- MODULE MCRedisBroker ----------------------------
(***************************************************************************)
(* RedisBroker for TLC.  The readers are interchangeable, and so are the    *)
(* turns, where no liveness is checked.                                    *)
(***************************************************************************)
EXTENDS RedisBroker, TLC

Symmetry == Permutations(Turns) \cup Permutations(Subs)
=============================================================================
