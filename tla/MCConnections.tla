----------------------------- MODULE MCConnections -----------------------------
(* Instances of Connections for TLC. *)
EXTENDS Connections, TLC

Symmetry == Permutations(Users) \cup Permutations(Calls) \cup Permutations(RowIds)
================================================================================
