----------------------------- MODULE MCEngagement -----------------------------
(* Instances of Engagement for TLC. *)
EXTENDS Engagement, Notices, TLC

Symmetry == Permutations(CommentIds) \cup Permutations(ReactionIds) \cup Permutations(Types)
            \cup Permutations(Users)

\* Threads of four comments where nobody reacts or tips, else two comments.
ThreadsAlone ==
  Cardinality(Written) > 2 =>
    (\A i \in ReactionIds : reactions[i] = None) /\ (\A i \in TipIds : tips[i] = None)

\* Three people, one of whom comments.
ASSUME NoticesOfThree == NoticesReach({"ann", "bob", "eve"}, "nobody")
================================================================================
