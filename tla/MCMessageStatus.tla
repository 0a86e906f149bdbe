---------------------------- MODULE MCMessageStatus ----------------------------
(* Instances of MessageStatus for TLC. *)
EXTENDS MessageStatus, TLC

Symmetry == Permutations(Workers) \cup Permutations(Sockets)
================================================================================
