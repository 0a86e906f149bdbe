----------------------------- MODULE MCModeration -----------------------------
(* Instances of Moderation for TLC. *)
EXTENDS Moderation, TLC

Symmetry == Permutations(PenaltyIds) \cup Permutations(AppealIds) \cup Permutations(ReportIds)
              \cup Permutations(RuleIds) \cup Permutations(Patterns) \cup Permutations(Calls)

\* Penalties and appeals, or content and reports: they share no table, so
\* that a state of both is one of each.
OneHalf ==
  \/ \A p \in PenaltyIds : penalties[p] = None
  \/ /\ contents = [i \in ContentIds |-> None]
     /\ reports = [r \in ReportIds |-> None]
     /\ rules = [r \in RuleIds |-> None]
     /\ \A c \in Calls : pc[c] \notin {"filter", "report", "commit"}
================================================================================
