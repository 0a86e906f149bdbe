--------------------------- MODULE MCConnectionCache ---------------------------
(* An instance of ConnectionCache for TLC. *)
EXTENDS ConnectionCache, FiniteSets, TLC

CONSTANTS ann, bob

\* friends:ann and mutual_connections:ann:bob.
BothKeys == {<<ann>>, <<ann, bob>>}

\* Blocks matter to the cache by the row they remove: one at a time.
OneBlock == Cardinality(blocks) <= 1

Symmetry == Permutations(RowIds)
================================================================================
