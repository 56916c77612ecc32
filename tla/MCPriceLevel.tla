---------------------------- MODULE MCPriceLevel ----------------------------
(***************************************************************************)
(* Small instance of the price levels.                                     *)
(***************************************************************************)
EXTENDS PriceLevel

Symmetry == Permutations(Orders) \cup Permutations(Levels)
=============================================================================
