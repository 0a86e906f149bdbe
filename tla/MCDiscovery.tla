------------------------------- MODULE MCDiscovery --------------------------------
(***************************************************************************)
(* Reputation, recommendations and trending topics, checked one after the  *)
(* other: no row of one is read by another, so that the steps of one leave *)
(* the tables of the others as they are.                                   *)
(***************************************************************************)
EXTENDS Reputation, Recommendations, Trending, Standing, TLC

VARIABLE service   \* the one that is at work

vars == <<service, reputationTables, recommendationsTables, trendingTables, serviceVars>>

Init ==
  /\ service \in {"reputation", "recommendations", "trending"}
  /\ ReputationInit /\ RecommendationsInit /\ TrendingInit

Next ==
  /\ UNCHANGED service
  /\ \/ /\ service = "reputation" /\ ReputationNext
        /\ UNCHANGED <<recommendationsTables, trendingTables>>
     \/ /\ service = "recommendations" /\ RecommendationsNext
        /\ UNCHANGED <<reputationTables, trendingTables>>
     \/ /\ service = "trending" /\ TrendingNext
        /\ UNCHANGED <<reputationTables, recommendationsTables>>

Spec == Init /\ [][Next]_vars

--------------------------------------------------------------------------------
Metric(t, a, s) == [transaction |-> t, activity |-> a, social |-> s]

\* A user with nothing and one with 100 points for the social factor, which
\* weigh 30 by the default weights, 90 by others, or less than nothing.
MCMetrics    == {Metric(0, 0, 0), Metric(0, 0, 100)}
MCWeightings == {[social |-> w] : w \in {9, -5}}

\* People and communities: an attempt of two branches.
MCKinds == {"person", "community"}

\* Bound: verifications and badges, which share only the reputation, in turn.
OneHalf ==
  \/ \A v \in VerificationIds : verifications[v] = None
  \/ \A b \in BadgeIds : badges[b] = None

\* Bound: overlapping runs of the topics' job mention one topic each.
OneMentioned ==
  service = "trending" /\ ~apart =>
    \A c \in Calls : ~Idle(c) => Cardinality(Mentioned(c)) < 2

\* Tables of different services have the same keys, which keeps the group small.
Symmetry == Permutations(Calls) \cup Permutations(Jobs)

\* The candidate lists of content hold no target twice either.
ASSUME ContentOnce ==
  \A own \in SUBSET Targets : \A engaged, popular \in Lists :
    IsInjective(ContentCandidates(own, engaged, popular))

\* The weighted score is a score whatever the metrics and the weights are, and
\* the level rises with it, from 0 to 5.
ASSUME ScoresInRange ==
  /\ \A m \in [Factors -> {0, 1, 37, 99, 100}], w \in [Factors -> {-2, 0, 3, 4, 15}] :
       WeightedScore(m, w) \in 0..100
  /\ \A x \in 0..100 : LevelOf(x) \in 0..5 /\ \A y \in 0..x : LevelOf(y) <= LevelOf(x)

\* None, some, and more than the clamps let through.
ASSUME Factors0To100 == FactorsInRange({0, 3, 900})

\* Gains on either side of 20 points, in times on either side of a day, and as
\* many calculations as push a record out of the ten that are read.
ASSUME Jumps ==
  \A first \in {0, 300}, gain \in {0, 100, 200, 201, 450}, hours \in {1, 23, 24} :
    JumpsAreHeld(first, gain, hours, 0..14)

\* Three records within two days.
ASSUME DailyAverages ==
  \A scores \in [1..3 -> {0, 100, 400}], at \in [1..3 -> {0, 20, 30, 47}] :
    TrendsAreAverages([i \in 1..3 |-> [score |-> scores[i], at |-> at[i]]], 48, 1)

================================================================================
