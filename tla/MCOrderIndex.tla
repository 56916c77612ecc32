---------------------------- MODULE MCOrderIndex ----------------------------
(***************************************************************************)
(* Small instance of the index.                                            *)
(***************************************************************************)
EXTENDS OrderIndex, TLC

Symmetry == Permutations(Ids) \cup Permutations(Orders)
=============================================================================
