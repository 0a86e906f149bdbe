---------------------------- MODULE MCTipSettlement ----------------------------
(* Instances of TipSettlement for TLC. *)
EXTENDS TipSettlement, TLC

Symmetry == Permutations(Tips) \cup Permutations(Checkers)
================================================================================
