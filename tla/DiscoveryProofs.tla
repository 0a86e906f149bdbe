----------------------------- MODULE DiscoveryProofs -----------------------------
(***************************************************************************)
(* Theorems about what is worked out from the activity: the reputations of *)
(* Reputation, the trending topics of Trending and the recommendations of  *)
(* Recommendations, for any users, metrics, weightings, candidates,        *)
(* overlapping calls and failures.                                         *)
(***************************************************************************)
EXTENDS Reputation, Recommendations, Trending, Integers, FiniteSetTheorems, SequenceTheorems,
        TLAPS

\* The awaits at which a call holds a reputation it has read.
Holding == {"measure", "settings", "badges", "saveReputation", "verify", "saveVerified"}
Verifying == {"verify", "saveVerified", "saveVerification"}

\* A change of the settings may name no weights.
Changes == Weightings \cup {None}

RTypeOK ==
  /\ reputations \in [ReputationIds -> ReputationRow \cup {None}]
  /\ verifications \in [VerificationIds -> Verification \cup {None}]
  /\ DOMAIN pc = Calls /\ DOMAIN hand = Calls

\* A verification is of a reputation that is there.
VerifiesOne == \A v \in Used(verifications) : reputations[verifications[v].reputation] # None

HandTypeOK(c) ==
  /\ pc[c] \in Holding => hand[c].row \in ReputationRow
  /\ pc[c] = "createReputation" =>
       hand[c].user \in Users /\ hand[c].purpose \in {"read", "measure", "badges", "settings"}
  /\ pc[c] \in {"createReputation", "settings"} => hand[c].weights \in Changes
  /\ pc[c] = "insertVerification" =>
       /\ hand[c].type \in VerificationTypes
       /\ hand[c].reputation \in ReputationIds /\ reputations[hand[c].reputation] # None
  /\ pc[c] \in Verifying =>
       hand[c].verification \in VerificationIds /\ verifications[hand[c].verification] # None
  /\ pc[c] = "verify" => {"verification", "row"} \subseteq DOMAIN hand[c]
  /\ pc[c] = "saveVerification" => hand[c].status \in {"VERIFIED", "REJECTED", "FAILED"}

\* Only a calculation has ever given a user the third level, in whatever copy.
EarnedIn(row) == row.level >= 2 => row.user \in earned

Earned ==
  /\ \A r \in Used(reputations) : EarnedIn(reputations[r])
  /\ \A c \in Calls : pc[c] \in Holding => EarnedIn(hand[c].row)

ReputationInv ==
  /\ RTypeOK
  /\ VerifiesOne
  /\ \A c \in Calls : HandTypeOK(c)
  /\ Earned

--------------------------------------------------------------------------------
(* The score and its level *)

\* The two cuts keep the sum in range, whatever the weights are.
LEMMA WeightedScoreRange ==
  ASSUME NEW m \in [Factors -> 0..100], NEW w \in [Factors -> Int]
  PROVE  WeightedScore(m, w) \in 0..100
<1> DEFINE x == m.transaction * w.transaction
           y == m.activity * w.activity
           z == m.social * w.social
<1>1. x \in Int /\ y \in Int /\ z \in Int
  <2>1. \A f \in Factors : m[f] \in Int /\ w[f] \in Int
    OBVIOUS
  <2>2. \A i, j \in Int : i * j \in Int
    OBVIOUS
  <2> QED BY <2>1, <2>2 DEF Factors
<1> DEFINE sum == x + y + z
<1>2. sum \in Int
  BY <1>1
<1> HIDE DEF sum
<1>3. (IF sum < 0 THEN 0 ELSE IF sum > 1000 THEN 100 ELSE sum \div 10) \in 0..100
  BY <1>2
<1> QED BY <1>3 DEF WeightedScore, sum

LEMMA PenalisedRange ==
  ASSUME NEW score \in 0..100
  PROVE  Penalised(score) \in 0..100
BY DEF Penalised

\* The third level takes 40 points.
LEMMA LevelRange ==
  ASSUME NEW score \in 0..100
  PROVE  /\ LevelOf(score) \in 0..5
         /\ LevelOf(score) >= 2 => score >= 40
<1> DEFINE S == {i \in 1..6 : score >= Thresholds[i]}
<1>1. \A n \in {2, 6} : IsFiniteSet(1..n) /\ Cardinality(1..n) = n
  <2> SUFFICES ASSUME NEW n \in {2, 6} PROVE IsFiniteSet(1..n) /\ Cardinality(1..n) = n
    OBVIOUS
  <2>1. 1 \in Int /\ n \in Int /\ ~(1 > n) /\ n - 1 + 1 = n
    OBVIOUS
  <2> QED BY <2>1, FS_Interval, Zenon
<1>2. IsFiniteSet(S) /\ Cardinality(S) <= 6
  BY <1>1, FS_Subset
<1>3. Cardinality(S) \in Nat
  BY <1>2, FS_CardinalityType
<1>4. S # {}
  <2>1. 1 \in S
    BY DEF Thresholds
  <2> QED BY <2>1
<1>5. Cardinality(S) # 0
  BY <1>2, <1>4, FS_EmptySet
<1>6. ASSUME score < 40 PROVE Cardinality(S) <= 2
  <2>1. S \subseteq 1..2
    <3> SUFFICES ASSUME NEW i \in 1..6, score >= Thresholds[i] PROVE i \in 1..2
      OBVIOUS
    <3>1. i = 1 \/ i = 2 \/ i = 3 \/ i = 4 \/ i = 5 \/ i = 6
      OBVIOUS
    <3> QED BY <1>6, <3>1 DEF Thresholds
  <2> QED BY <1>1, <2>1, FS_Subset
<1> HIDE DEF S
<1>7. /\ Cardinality(S) - 1 \in 0..5
      /\ Cardinality(S) - 1 >= 2 => score >= 40
  BY <1>2, <1>3, <1>5, <1>6
<1> QED BY <1>7 DEF LevelOf, S

LEMMA InitialOK ==
  ASSUME NEW u \in Users
  PROVE  InitialReputation(u) \in ReputationRow /\ EarnedIn(InitialReputation(u))
<1>1. DefaultWeights \in [Factors -> Int]
  BY DEF DefaultWeights, Factors
<1> QED BY <1>1 DEF InitialReputation, ReputationRow, EarnedIn

\* A change of the settings leaves all but the weights and the score.
LEMMA ReweightedOK ==
  ASSUME NEW row \in ReputationRow, NEW change \in Changes
  PROVE  /\ Reweighted(row, change) \in ReputationRow
         /\ Reweighted(row, change).level = row.level
         /\ Reweighted(row, change).user = row.user
         /\ Reweighted(row, change).verified = row.verified
<1>1. CASE change = None
  BY <1>1 DEF Reweighted
<1>2. CASE change # None
  <2>1. PICK w : w = Merged(row.weights, change)
    OBVIOUS
  <2>2. row.weights \in [Factors -> Int] /\ row.metrics \in [Factors -> 0..100]
    BY DEF ReputationRow
  <2>3. change \in Weightings
    BY <1>2 DEF Changes
  <2>4. \A f \in DOMAIN change : change[f] \in Int
    BY <2>3, ReputationAssumption
  <2>5. w \in [Factors -> Int]
    BY <2>1, <2>2, <2>4 DEF Merged
  <2>6. PICK x \in 0..100 : x = WeightedScore(row.metrics, w)
    BY <2>2, <2>5, WeightedScoreRange
  <2>7. Reweighted(row, change) = [row EXCEPT !.weights = w, !.score = x]
    BY <1>2, <2>1, <2>6 DEF Reweighted
  <2> QED BY <2>5, <2>7 DEF ReputationRow
<1> QED BY <1>1, <1>2

--------------------------------------------------------------------------------
LEMMA InitInv == ReputationInit => ReputationInv
BY DEF ReputationInit, ServiceInit, ReputationInv, RTypeOK, VerifiesOne, HandTypeOK, Earned, Used,
       Holding, Verifying

\* What a step of one call leaves of the others: no row is taken away.
OnlyOf(c) == /\ DOMAIN pc' = Calls /\ DOMAIN hand' = Calls
             /\ \A d \in Calls \ {c} : pc'[d] = pc[d] /\ hand'[d] = hand[d]

RowsStay ==
  /\ \A r \in ReputationIds : reputations[r] # None => reputations'[r] # None
  /\ \A v \in VerificationIds : verifications[v] # None => verifications'[v] # None
  /\ earned \subseteq earned'

LEMMA OthersKeep ==
  ASSUME ReputationInv, NEW c \in Calls, OnlyOf(c), RowsStay
  PROVE  \A d \in Calls \ {c} : HandTypeOK(d)' /\ (pc'[d] \in Holding => EarnedIn(hand[d].row)')
<1> SUFFICES ASSUME NEW d \in Calls \ {c}
             PROVE  HandTypeOK(d)' /\ (pc'[d] \in Holding => EarnedIn(hand[d].row)')
  OBVIOUS
<1>1. HandTypeOK(d) /\ (pc[d] \in Holding => EarnedIn(hand[d].row))
  BY DEF ReputationInv, Earned
<1>2. HandTypeOK(d)'
  BY <1>1 DEF OnlyOf, RowsStay, HandTypeOK, Holding, Verifying
<1>3. pc'[d] \in Holding => EarnedIn(hand[d].row)'
  BY <1>1 DEF OnlyOf, RowsStay, EarnedIn
<1> QED BY <1>2, <1>3

\* A step that changes no table and leaves a call with what it may hold.
LEMMA HandStep ==
  ASSUME ReputationInv, NEW c \in Calls, OnlyOf(c), UNCHANGED <<reputations, verifications>>,
         earned \subseteq earned', HandTypeOK(c)',
         pc'[c] \in Holding => EarnedIn(hand[c].row)'
  PROVE  ReputationInv'
<1>1. RowsStay
  BY DEF RowsStay
<1>2. RTypeOK' /\ VerifiesOne'
  BY DEF ReputationInv, RTypeOK, VerifiesOne, Used, OnlyOf
<1>3. \A r \in Used(reputations)' : EarnedIn(reputations[r])'
  BY DEF ReputationInv, Earned, EarnedIn, Used
<1> QED BY <1>1, <1>2, <1>3, OthersKeep DEF ReputationInv, Earned

\* A save of a reputation, by a call that holds no reputation afterwards.
LEMMA SaveStep ==
  ASSUME ReputationInv, NEW c \in Calls, OnlyOf(c), UNCHANGED <<verifications, earned>>,
         NEW r, NEW row \in ReputationRow, EarnedIn(row),
         reputations' = [reputations EXCEPT ![r] = row],
         HandTypeOK(c)', pc'[c] \in Holding => EarnedIn(hand[c].row)'
  PROVE  ReputationInv'
<1>1. row # None
  BY ReputationAssumption
<1>2. RTypeOK' /\ RowsStay
  BY <1>1 DEF ReputationInv, RTypeOK, RowsStay, OnlyOf
<1>3. VerifiesOne'
  <2> SUFFICES ASSUME NEW v \in Used(verifications)
               PROVE  reputations'[verifications[v].reputation] # None
    BY DEF VerifiesOne, Used
  <2>1. verifications[v].reputation \in ReputationIds
    BY DEF ReputationInv, RTypeOK, Used, Verification
  <2> QED BY <1>2, <2>1 DEF ReputationInv, VerifiesOne, RowsStay
<1>4. \A s \in Used(reputations)' : EarnedIn(reputations[s])'
  BY DEF ReputationInv, RTypeOK, Earned, EarnedIn, Used
<1> QED BY <1>2, <1>3, <1>4, OthersKeep DEF ReputationInv, Earned

--------------------------------------------------------------------------------
LEMMA GetKeeps ==
  ASSUME ReputationInv, NEW c \in Calls, NEW u \in Users, NEW w \in Changes,
         NEW purpose \in {"read", "measure", "badges", "settings"},
         GetReputation(c, u, purpose, w)
  PROVE  ReputationInv'
<1> USE DEF Holding, Verifying
<1>1. UNCHANGED reputationTables
  BY DEF GetReputation
<1>2. ASSUME NEW r \in Used(reputations), purpose # "read",
             Begin(c, purpose, [id |-> r, row |-> reputations[r], weights |-> w,
                                found |-> VerificationsOf(r)])
      PROVE  ReputationInv'
  <2> DEFINE held == [id |-> r, row |-> reputations[r], weights |-> w,
                      found |-> VerificationsOf(r)]
  <2>1. held.row \in ReputationRow /\ EarnedIn(held.row) /\ held.weights = w
    BY DEF ReputationInv, RTypeOK, Earned, Used
  <2>2. OnlyOf(c) /\ pc'[c] = purpose /\ hand'[c] = held
    BY <1>2 DEF ReputationInv, RTypeOK, OnlyOf, Begin
  <2> HIDE DEF held
  <2>3. HandTypeOK(c)' /\ EarnedIn(hand[c].row)'
    BY <1>1, <1>2, <2>1, <2>2 DEF HandTypeOK, EarnedIn, reputationTables
  <2> QED BY <1>1, <2>2, <2>3, HandStep DEF reputationTables
<1>3. CASE Begin(c, "createReputation", [user |-> u, purpose |-> purpose, weights |-> w])
  <2> DEFINE held == [user |-> u, purpose |-> purpose, weights |-> w]
  <2>1. held.user = u /\ held.purpose = purpose /\ held.weights = w
    OBVIOUS
  <2>2. OnlyOf(c) /\ pc'[c] = "createReputation" /\ hand'[c] = held
    BY <1>3 DEF ReputationInv, RTypeOK, OnlyOf, Begin
  <2> HIDE DEF held
  <2>3. HandTypeOK(c)' /\ pc'[c] \notin Holding
    BY <2>1, <2>2 DEF HandTypeOK
  <2> QED BY <1>1, <2>2, <2>3, HandStep DEF reputationTables
<1> QED BY <1>2, <1>3 DEF GetReputation

LEMMA CreateKeeps ==
  ASSUME ReputationInv, NEW c \in Calls, CreateInitialReputation(c)
  PROVE  ReputationInv'
<1> USE DEF Holding, Verifying
<1> DEFINE row == InitialReputation(hand[c].user)
<1>1. PICK r \in Unused(reputations) :
        /\ reputations' = [reputations EXCEPT ![r] = row]
        /\ IF hand[c].purpose = "read" THEN End(c)
           ELSE Go(c, hand[c].purpose, [id |-> r, row |-> row, weights |-> hand[c].weights,
                                        found |-> VerificationIds])
  BY DEF CreateInitialReputation
<1>2. /\ pc[c] = "createReputation" /\ UNCHANGED <<verifications, badges, earned>>
  BY DEF CreateInitialReputation
<1>3. /\ hand[c].user \in Users /\ hand[c].purpose \in {"read", "measure", "badges", "settings"}
      /\ hand[c].weights \in Changes
  BY <1>2 DEF ReputationInv, HandTypeOK
<1>4. row \in ReputationRow /\ EarnedIn(row)
  BY <1>3, InitialOK
<1> HIDE DEF row
<1>5. OnlyOf(c)
  BY <1>1 DEF ReputationInv, RTypeOK, OnlyOf, End, Go
<1>6. HandTypeOK(c)' /\ (pc'[c] \in Holding => EarnedIn(hand[c].row)')
  <2>1. CASE End(c)
    BY <2>1 DEF ReputationInv, RTypeOK, HandTypeOK, End, Go
  <2>2. CASE hand[c].purpose # "read"
    <3> DEFINE held == [id |-> r, row |-> row, weights |-> hand[c].weights,
                        found |-> VerificationIds]
    <3>1. held.row = row /\ held.weights = hand[c].weights
      OBVIOUS
    <3>2. pc'[c] = hand[c].purpose /\ hand'[c] = held
      BY <1>1, <2>2 DEF ReputationInv, RTypeOK, Go
    <3> HIDE DEF held
    <3> QED BY <1>2, <1>3, <1>4, <2>2, <3>1, <3>2 DEF HandTypeOK, EarnedIn
  <2> QED BY <1>1, <2>1, <2>2
<1> QED BY <1>1, <1>2, <1>4, <1>5, <1>6, SaveStep

\* The factors and the fraud checks give a score; the user has earned the level.
LEMMA MeasureKeeps ==
  ASSUME ReputationInv, NEW c \in Calls, Measure(c)
  PROVE  ReputationInv'
<1> USE DEF Holding, Verifying
<1> DEFINE row == hand[c].row
<1>1. PICK m \in Metrics, fraud \in BOOLEAN :
        LET weighted == WeightedScore(m, row.weights)
            score == IF fraud THEN Penalised(weighted) ELSE weighted
        IN /\ Go(c, "saveReputation",
                 [id |-> hand[c].id, found |-> hand[c].found,
                  row |-> [row EXCEPT !.metrics = m, !.score = score, !.level = LevelOf(score)]])
           /\ earned' = IF score >= 40 THEN earned \cup {row.user} ELSE earned
  BY DEF Measure
<1> DEFINE weighted == WeightedScore(m, row.weights)
           score == IF fraud THEN Penalised(weighted) ELSE weighted
           new == [row EXCEPT !.metrics = m, !.score = score, !.level = LevelOf(score)]
           held == [id |-> hand[c].id, found |-> hand[c].found, row |-> new]
<1>2. pc[c] = "measure" /\ UNCHANGED <<reputations, verifications, badges>>
  BY DEF Measure
<1>3. row \in ReputationRow /\ m \in [Factors -> 0..100]
  BY <1>2, ReputationAssumption DEF ReputationInv, HandTypeOK
<1>4. score \in 0..100
  <2>1. row.weights \in [Factors -> Int]
    BY <1>3 DEF ReputationRow
  <2> QED BY <1>3, <2>1, WeightedScoreRange, PenalisedRange
<1>5. /\ Go(c, "saveReputation", held)
      /\ earned' = IF score >= 40 THEN earned \cup {row.user} ELSE earned
  BY <1>1
<1> HIDE DEF score
<1>6. new \in ReputationRow /\ new.level = LevelOf(score) /\ new.user = row.user
  BY <1>3, <1>4, LevelRange DEF ReputationRow
<1>7. held.row = new
  OBVIOUS
<1> HIDE DEF held, new
<1>8. OnlyOf(c) /\ pc'[c] = "saveReputation" /\ hand'[c] = held
  BY <1>5 DEF ReputationInv, RTypeOK, OnlyOf, Go
<1>9. HandTypeOK(c)'
  BY <1>6, <1>7, <1>8 DEF HandTypeOK
<1>10. EarnedIn(hand[c].row)'
  BY <1>4, <1>5, <1>6, <1>7, <1>8, LevelRange DEF EarnedIn
<1> QED BY <1>2, <1>5, <1>8, <1>9, <1>10, HandStep

\* The weights change the score, and the level stays.
LEMMA SettingsKeep ==
  ASSUME ReputationInv, NEW c \in Calls, UpdateSettings(c)
  PROVE  ReputationInv'
<1> USE DEF Holding, Verifying
<1> DEFINE row == hand[c].row
           w == hand[c].weights
           new == Reweighted(row, w)
           held == [id |-> hand[c].id, found |-> hand[c].found, row |-> new]
<1>1. /\ pc[c] = "settings" /\ Go(c, "saveReputation", held) /\ UNCHANGED reputationTables
  BY DEF UpdateSettings
<1>2. row \in ReputationRow /\ EarnedIn(row) /\ w \in Changes
  BY <1>1 DEF ReputationInv, Earned, HandTypeOK
<1>4. new \in ReputationRow /\ new.level = row.level /\ new.user = row.user
  BY <1>2, ReweightedOK
<1>5. held.row = new
  OBVIOUS
<1> HIDE DEF held, new
<1>6. OnlyOf(c) /\ pc'[c] = "saveReputation" /\ hand'[c] = held
  BY <1>1 DEF ReputationInv, RTypeOK, OnlyOf, Go
<1>7. HandTypeOK(c)' /\ EarnedIn(hand[c].row)'
  BY <1>1, <1>2, <1>4, <1>5, <1>6 DEF HandTypeOK, EarnedIn, reputationTables
<1> QED BY <1>1, <1>6, <1>7, HandStep DEF reputationTables

LEMMA SaveKeeps ==
  ASSUME ReputationInv, NEW c \in Calls, SaveReputation(c) \/ SaveVerified(c)
  PROVE  ReputationInv'
<1> USE DEF Holding, Verifying
<1>1. /\ pc[c] \in {"saveReputation", "saveVerified"}
      /\ \/ reputations' = [reputations EXCEPT ![hand[c].id] = hand[c].row]
         \/ reputations' = reputations
      /\ UNCHANGED <<verifications, badges, earned>>
  BY DEF SaveReputation, SaveVerified
<1>2. hand[c].row \in ReputationRow /\ EarnedIn(hand[c].row)
  BY <1>1 DEF ReputationInv, HandTypeOK, Earned
<1>3. OnlyOf(c)
  BY DEF SaveReputation, SaveVerified, ReputationInv, RTypeOK, OnlyOf, End, Go
<1>4. HandTypeOK(c)' /\ pc'[c] \notin Holding
  <2>1. CASE SaveReputation(c)
    BY <2>1 DEF ReputationInv, RTypeOK, SaveReputation, HandTypeOK, End, Go
  <2>2. CASE SaveVerified(c)
    <3> DEFINE held == [verification |-> hand[c].verification, status |-> "VERIFIED"]
    <3>1. held.verification = hand[c].verification /\ held.status = "VERIFIED"
      OBVIOUS
    <3>2. pc[c] = "saveVerified" /\ pc'[c] = "saveVerification" /\ hand'[c] = held
      BY <2>2 DEF ReputationInv, RTypeOK, SaveVerified, Go
    <3> HIDE DEF held
    <3> QED BY <1>1, <3>1, <3>2 DEF ReputationInv, HandTypeOK
  <2> QED BY <2>1, <2>2
<1>5. CASE reputations' = reputations
  BY <1>1, <1>3, <1>4, <1>5, HandStep
<1>6. CASE reputations' = [reputations EXCEPT ![hand[c].id] = hand[c].row]
  BY <1>1, <1>2, <1>3, <1>4, <1>6, SaveStep
<1> QED BY <1>1, <1>5, <1>6

--------------------------------------------------------------------------------
(* The verification of a user *)

LEMMA InitiateKeeps ==
  ASSUME ReputationInv, NEW c \in Calls, NEW r \in ReputationIds, NEW t \in VerificationTypes,
         InitiateVerification(c, r, t)
  PROVE  ReputationInv'
<1> USE DEF Holding, Verifying
<1> DEFINE held == [reputation |-> r, type |-> t]
<1>1. /\ reputations[r] # None /\ Begin(c, "insertVerification", held)
      /\ UNCHANGED reputationTables
  BY DEF InitiateVerification
<1>2. held.reputation = r /\ held.type = t
  OBVIOUS
<1> HIDE DEF held
<1>3. OnlyOf(c) /\ pc'[c] = "insertVerification" /\ hand'[c] = held
  BY <1>1 DEF ReputationInv, RTypeOK, OnlyOf, Begin
<1>4. HandTypeOK(c)' /\ pc'[c] \notin Holding
  BY <1>1, <1>2, <1>3 DEF HandTypeOK, reputationTables
<1> QED BY <1>1, <1>3, <1>4, HandStep DEF reputationTables

LEMMA InsertKeeps ==
  ASSUME ReputationInv, NEW c \in Calls, InsertVerification(c)
  PROVE  ReputationInv'
<1> USE DEF Holding, Verifying
<1> DEFINE new == [reputation |-> hand[c].reputation, type |-> hand[c].type, status |-> "PENDING"]
<1>1. PICK v \in Unused(verifications) : verifications' = [verifications EXCEPT ![v] = new]
  BY DEF InsertVerification
<1>2. /\ pc[c] = "insertVerification" /\ End(c) /\ UNCHANGED <<reputations, badges, earned>>
  BY DEF InsertVerification
<1>3. /\ new \in Verification /\ reputations[new.reputation] # None
  BY <1>2 DEF ReputationInv, HandTypeOK, Verification
<1> HIDE DEF new
<1>4. OnlyOf(c) /\ pc'[c] = "idle"
  BY <1>2 DEF ReputationInv, RTypeOK, OnlyOf, End, Go
<1>5. RTypeOK' /\ RowsStay /\ VerifiesOne'
  BY <1>1, <1>2, <1>3, <1>4, ReputationAssumption
     DEF ReputationInv, RTypeOK, OnlyOf, RowsStay, VerifiesOne, Used
<1>6. HandTypeOK(c)' /\ pc'[c] \notin Holding
  BY <1>4 DEF HandTypeOK
<1>7. \A r \in Used(reputations)' : EarnedIn(reputations[r])'
  BY <1>2 DEF ReputationInv, Earned, EarnedIn, Used
<1> QED BY <1>4, <1>5, <1>6, <1>7, OthersKeep DEF ReputationInv, Earned

LEMMA LoadKeeps ==
  ASSUME ReputationInv, NEW c \in Calls, NEW v \in VerificationIds, LoadVerification(c, v)
  PROVE  ReputationInv'
<1> USE DEF Holding, Verifying
<1> DEFINE r == verifications[v].reputation
           held == [verification |-> v, id |-> r, row |-> reputations[r]]
<1>1. verifications[v] # None /\ Begin(c, "verify", held) /\ UNCHANGED reputationTables
  BY DEF LoadVerification
<1>2. r \in ReputationIds /\ reputations[r] # None
  BY <1>1 DEF ReputationInv, RTypeOK, VerifiesOne, Used, Verification
<1>3. /\ held.verification = v /\ held.row \in ReputationRow /\ EarnedIn(held.row)
      /\ {"verification", "row"} \subseteq DOMAIN held
  BY <1>2 DEF ReputationInv, RTypeOK, Earned, Used
<1> HIDE DEF held
<1>4. OnlyOf(c) /\ pc'[c] = "verify" /\ hand'[c] = held
  BY <1>1 DEF ReputationInv, RTypeOK, OnlyOf, Begin
<1>5. HandTypeOK(c)' /\ EarnedIn(hand[c].row)'
  BY <1>1, <1>3, <1>4 DEF HandTypeOK, EarnedIn, reputationTables
<1> QED BY <1>1, <1>4, <1>5, HandStep DEF reputationTables

\* The provider's answer, or a failure.
LEMMA VerifyKeeps ==
  ASSUME ReputationInv, NEW c \in Calls, Verify(c) \/ VerificationFails(c)
  PROVE  ReputationInv'
<1> USE DEF Holding, Verifying
<1>1. pc[c] \in {"verify", "saveVerified"} /\ UNCHANGED reputationTables
  BY DEF Verify, VerificationFails
<1>2. OnlyOf(c)
  BY DEF Verify, VerificationFails, ReputationInv, RTypeOK, OnlyOf, Go
<1>3. ASSUME NEW status \in {"REJECTED", "FAILED"}, pc'[c] = "saveVerification",
             hand'[c] = [verification |-> hand[c].verification, status |-> status]
      PROVE  ReputationInv'
  <2>1. hand'[c].verification = hand[c].verification /\ hand'[c].status = status
    BY <1>3
  <2>2. HandTypeOK(c)' /\ pc'[c] \notin Holding
    BY <1>1, <1>3, <2>1 DEF ReputationInv, HandTypeOK, reputationTables
  <2> QED BY <1>1, <1>2, <2>2, HandStep DEF reputationTables
<1>4. CASE Go(c, "saveVerified", [hand[c] EXCEPT !.row.verified = TRUE]) /\ pc[c] = "verify"
  <2> DEFINE held == [hand[c] EXCEPT !.row.verified = TRUE]
  <2>1. pc'[c] = "saveVerified" /\ hand'[c] = held
    BY <1>4 DEF ReputationInv, RTypeOK, Go
  <2>2. /\ hand[c].row \in ReputationRow /\ EarnedIn(hand[c].row)
        /\ {"verification", "row"} \subseteq DOMAIN hand[c]
    BY <1>4 DEF ReputationInv, HandTypeOK, Earned
  <2>3. held.verification = hand[c].verification
        /\ held.row = [hand[c].row EXCEPT !.verified = TRUE]
    BY <2>2
  <2>4. /\ held.row \in ReputationRow
        /\ held.row.level = hand[c].row.level /\ held.row.user = hand[c].row.user
    BY <2>2, <2>3 DEF ReputationRow
  <2> HIDE DEF held
  <2>5. HandTypeOK(c)' /\ EarnedIn(hand[c].row)'
    BY <1>1, <1>4, <2>1, <2>2, <2>3, <2>4 DEF ReputationInv, HandTypeOK, EarnedIn, reputationTables
  <2> QED BY <1>1, <1>2, <2>1, <2>5, HandStep DEF reputationTables
<1> QED BY <1>3, <1>4 DEF Verify, VerificationFails, ReputationInv, RTypeOK, Go

LEMMA RecordKeeps ==
  ASSUME ReputationInv, NEW c \in Calls, SaveVerification(c)
  PROVE  ReputationInv'
<1> USE DEF Holding, Verifying
<1> DEFINE v == hand[c].verification
           new == [verifications[v] EXCEPT !.status = hand[c].status]
<1>1. /\ pc[c] = "saveVerification" /\ End(c) /\ UNCHANGED <<reputations, badges, earned>>
      /\ verifications' = [verifications EXCEPT ![v] = new]
  BY DEF SaveVerification
<1>2. v \in VerificationIds /\ verifications[v] \in Verification
  BY <1>1 DEF ReputationInv, RTypeOK, HandTypeOK
<1>3. hand[c].status \in {"VERIFIED", "REJECTED", "FAILED"}
  BY <1>1 DEF ReputationInv, HandTypeOK
<1>4. new \in Verification /\ new.reputation = verifications[v].reputation /\ new # None
  <2>1. new \in Verification /\ new.reputation = verifications[v].reputation
    BY <1>2, <1>3 DEF Verification
  <2> QED BY <2>1, ReputationAssumption
<1>5. v \in Used(verifications)
  BY <1>1, <1>2 DEF ReputationInv, RTypeOK, HandTypeOK, Used
<1> HIDE DEF new
<1>6. OnlyOf(c) /\ pc'[c] = "idle"
  BY <1>1 DEF ReputationInv, RTypeOK, OnlyOf, End, Go
<1>7. RTypeOK' /\ RowsStay
  BY <1>1, <1>2, <1>4, <1>6 DEF ReputationInv, RTypeOK, OnlyOf, RowsStay
<1>8. VerifiesOne'
  BY <1>1, <1>2, <1>4, <1>5 DEF ReputationInv, RTypeOK, VerifiesOne, Used
<1>9. HandTypeOK(c)' /\ pc'[c] \notin Holding
  BY <1>6 DEF HandTypeOK
<1>10. \A r \in Used(reputations)' : EarnedIn(reputations[r])'
  BY <1>1 DEF ReputationInv, Earned, EarnedIn, Used
<1> QED BY <1>6, <1>7, <1>8, <1>9, <1>10, OthersKeep DEF ReputationInv, Earned

\* The steps of the badges, and a failure that ends the call.
LEMMA OtherKeeps ==
  ASSUME ReputationInv, NEW c \in Calls, FindBadges(c) \/ SaveBadge(c) \/ ReputationFail(c)
  PROVE  ReputationInv'
<1> USE DEF Holding, Verifying
<1>1. OnlyOf(c) /\ pc'[c] \in {"saveBadge", "idle"}
      /\ UNCHANGED <<reputations, verifications, earned>>
  <2>1. CASE FindBadges(c)
    BY <2>1 DEF FindBadges, Go, ReputationInv, RTypeOK, OnlyOf, reputationTables
  <2>2. CASE SaveBadge(c)
    <3>1. /\ UNCHANGED <<reputations, verifications, earned>>
          /\ \E t \in hand[c].todo : NextBadge(c, t)
      BY <2>2 DEF SaveBadge
    <3> QED BY <3>1 DEF NextBadge, End, Go, ReputationInv, RTypeOK, OnlyOf
  <2>3. CASE ReputationFail(c)
    BY <2>3 DEF ReputationFail, Fail, ReputationInv, RTypeOK, OnlyOf, reputationTables
  <2> QED BY <2>1, <2>2, <2>3
<1>2. HandTypeOK(c)' /\ pc'[c] \notin Holding
  BY <1>1 DEF HandTypeOK
<1> QED BY <1>1, <1>2, HandStep

--------------------------------------------------------------------------------
LEMMA NextKeeps == ReputationInv /\ [ReputationNext]_reputationVars => ReputationInv'
<1> SUFFICES ASSUME ReputationInv, [ReputationNext]_reputationVars PROVE ReputationInv'
  OBVIOUS
<1>1. CASE UNCHANGED reputationVars
  BY <1>1 DEF reputationVars, reputationTables, serviceVars, ReputationInv, RTypeOK, VerifiesOne,
              HandTypeOK, Earned, EarnedIn, Used
<1>2. ASSUME NEW c \in Calls, NEW u \in Users,
             \/ \E purpose \in {"read", "measure", "badges"} :
                  GetReputation(c, u, purpose, None)
             \/ \E w \in Changes : GetReputation(c, u, "settings", w)
      PROVE  ReputationInv'
  BY <1>2, GetKeeps DEF Changes
<1>3. ASSUME NEW c \in Calls,
             \/ \E r \in ReputationIds, t \in VerificationTypes : InitiateVerification(c, r, t)
             \/ \E v \in VerificationIds : LoadVerification(c, v)
      PROVE  ReputationInv'
  BY <1>3, InitiateKeeps, LoadKeeps
<1>4. ASSUME NEW c \in Calls,
             \/ CreateInitialReputation(c) \/ Measure(c) \/ UpdateSettings(c) \/ SaveReputation(c)
             \/ InsertVerification(c) \/ Verify(c) \/ SaveVerified(c) \/ VerificationFails(c)
             \/ SaveVerification(c) \/ FindBadges(c) \/ SaveBadge(c) \/ ReputationFail(c)
      PROVE  ReputationInv'
  BY <1>4, CreateKeeps, MeasureKeeps, SettingsKeep, SaveKeeps, InsertKeeps, VerifyKeeps,
     RecordKeeps, OtherKeeps
<1> QED BY <1>1, <1>2, <1>3, <1>4 DEF ReputationNext, Changes

LEMMA ReputationHolds == ReputationSpec => []ReputationInv
BY InitInv, NextKeeps, PTL DEF ReputationSpec

\* The score and the level of every reputation stay in their ranges, whatever
\* weights it is given: updateReputationSettings takes any numbers, and the cuts
\* of calculateWeightedScore keep what they weigh in range.
THEOREM ScoresStayInRange == ReputationSpec => []RTypeOK
<1>1. ReputationInv => RTypeOK
  BY DEF ReputationInv
<1> QED BY ReputationHolds, <1>1, PTL

\* ReputationThresholdGuard lets in only users whom calculateReputation has
\* found at 40 points or more: the level is written by nothing else, and each
\* stale copy of a reputation has the level of an earlier calculation.
THEOREM GuardedByCalculation == ReputationSpec => []AdmittedOnlyIfEarned
<1>1. ReputationInv => AdmittedOnlyIfEarned
  BY DEF ReputationInv, Earned, EarnedIn, AdmittedOnlyIfEarned, CanActivate
<1> QED BY ReputationHolds, <1>1, PTL

--------------------------------------------------------------------------------
(* One call at a time *)

Alone == \A c, d \in Calls : pc[c] # "idle" /\ pc[d] # "idle" => c = d

Sole == apart => Alone

\* A step of a call, and of no other.
StepBy(c) ==
  \/ \E u \in Users :
       \/ \E purpose \in {"read", "measure", "badges"} :
            GetReputation(c, u, purpose, None)
       \/ \E w \in Changes : GetReputation(c, u, "settings", w)
  \/ \E r \in ReputationIds, t \in VerificationTypes : InitiateVerification(c, r, t)
  \/ \E v \in VerificationIds : LoadVerification(c, v)
  \/ CreateInitialReputation(c) \/ Measure(c) \/ UpdateSettings(c) \/ SaveReputation(c)
  \/ InsertVerification(c) \/ Verify(c) \/ SaveVerified(c) \/ VerificationFails(c)
  \/ SaveVerification(c)
  \/ FindBadges(c) \/ SaveBadge(c)
  \/ ReputationFail(c)

LEMMA StepOfOne ==
  ASSUME ReputationInv, NEW c \in Calls, StepBy(c)
  PROVE  /\ OnlyOf(c)
         /\ apart' => apart
         /\ apart' /\ pc[c] = "idle" => \A d \in Calls \ {c} : pc[d] = "idle"
<1> USE DEF ReputationInv, RTypeOK, OnlyOf
<1>1. ASSUME NEW at, NEW held, Begin(c, at, held)
      PROVE  /\ OnlyOf(c) /\ (apart' => apart)
             /\ apart' => \A d \in Calls \ {c} : pc[d] = "idle"
  BY <1>1 DEF Begin, Idle
<1>2. ASSUME NEW at, NEW held, Go(c, at, held), pc[c] # "idle"
      PROVE  OnlyOf(c) /\ (apart' => apart)
  BY <1>2 DEF Go
<1>3. ASSUME VerificationFails(c) \/ ReputationFail(c)
      PROVE  OnlyOf(c) /\ (apart' => apart) /\ pc[c] # "idle"
  BY <1>3 DEF VerificationFails, ReputationFail, Fail, Idle, Reject
<1> HIDE DEF OnlyOf
<1>4. ASSUME NEW u \in Users, NEW purpose, NEW w, GetReputation(c, u, purpose, w)
      PROVE  \E at, held : Begin(c, at, held)
  BY <1>4 DEF GetReputation
<1>5. ASSUME \/ \E r \in ReputationIds, t \in VerificationTypes : InitiateVerification(c, r, t)
             \/ \E v \in VerificationIds : LoadVerification(c, v)
      PROVE  \E at, held : Begin(c, at, held)
  BY <1>5 DEF InitiateVerification, LoadVerification
<1>6. ASSUME \/ CreateInitialReputation(c) \/ Measure(c) \/ UpdateSettings(c) \/ SaveReputation(c)
             \/ InsertVerification(c) \/ Verify(c) \/ SaveVerified(c)
             \/ SaveVerification(c) \/ FindBadges(c)
      PROVE  pc[c] # "idle" /\ \E at, held : Go(c, at, held)
  BY <1>6 DEF CreateInitialReputation, Measure, UpdateSettings, SaveReputation, InsertVerification,
              Verify, SaveVerified, SaveVerification, FindBadges, End
<1>7. ASSUME SaveBadge(c)
      PROVE  pc[c] # "idle" /\ \E at, held : Go(c, at, held)
  <2>1. pc[c] = "saveBadge" /\ \E t : NextBadge(c, t)
    BY <1>7 DEF SaveBadge
  <2> QED BY <2>1 DEF NextBadge, End
<1> QED BY <1>1, <1>2, <1>3, <1>4, <1>5, <1>6, <1>7 DEF StepBy

LEMMA NextIsStep == ReputationNext => \E c \in Calls : StepBy(c)
BY DEF ReputationNext, StepBy, Changes

LEMMA SoleKept == ReputationInv /\ Sole /\ [ReputationNext]_reputationVars => Sole'
<1> SUFFICES ASSUME ReputationInv, Sole, [ReputationNext]_reputationVars, apart' PROVE Alone'
  BY DEF Sole
<1>1. CASE UNCHANGED reputationVars
  BY <1>1 DEF reputationVars, serviceVars, Sole, Alone
<1>2. ASSUME NEW c \in Calls, StepBy(c) PROVE Alone'
  BY <1>2, StepOfOne DEF Sole, Alone, OnlyOf
<1> QED BY <1>1, <1>2, NextIsStep

\* While no call has overlapped another, the others are idle.
LEMMA OthersIdle ==
  ASSUME ReputationInv, Sole, apart', NEW c \in Calls, StepBy(c)
  PROVE  apart /\ \A d \in Calls \ {c} : pc[d] = "idle" /\ pc'[d] = "idle"
BY StepOfOne DEF Sole, Alone, OnlyOf

--------------------------------------------------------------------------------
(* Verified together *)

\* What a call holds is no older than the row, as far as the mark goes.
NotOlder(row, id) == reputations[id] # None /\ reputations[id].verified => row.verified

VerifyOK(c) ==
  /\ pc[c] \in {"measure", "settings", "saveReputation"} => NotOlder(hand[c].row, hand[c].id)
  /\ pc[c] \in {"verify", "saveVerified"} =>
       /\ "id" \in DOMAIN hand[c]
       /\ hand[c].id = verifications[hand[c].verification].reputation
  /\ pc[c] = "saveVerified" => hand[c].row.verified
  /\ pc[c] = "saveVerification" /\ hand[c].status = "VERIFIED" =>
       reputations[verifications[hand[c].verification].reputation].verified

MarksKept ==
  \A r \in ReputationIds : reputations[r] # None /\ reputations[r].verified
      => reputations'[r].verified

\* VerifiedTogether without the history.
Together ==
  \A v \in Used(verifications) :
    verifications[v].status = "VERIFIED" => reputations[verifications[v].reputation].verified

LEMMA TogetherKept ==
  ASSUME ReputationInv, Together, MarksKept, UNCHANGED verifications
  PROVE  Together'
<1> SUFFICES ASSUME NEW v \in Used(verifications), verifications[v].status = "VERIFIED"
             PROVE  reputations'[verifications[v].reputation].verified
  BY DEF Together, Used
<1>1. /\ verifications[v].reputation \in ReputationIds
      /\ reputations[verifications[v].reputation] # None
  BY DEF ReputationInv, RTypeOK, VerifiesOne, Used, Verification
<1> QED BY <1>1 DEF Together, MarksKept

LEMMA IdleVerifies == ASSUME NEW c,
    pc'[c] \in {"idle", "badges", "saveBadge", "createReputation", "insertVerification"}
                      PROVE VerifyOK(c)'
BY DEF VerifyOK

\* A step of the only call in progress that changes no verification.
LEMMA MarkStep ==
  ASSUME ReputationInv, Together, MarksKept, UNCHANGED verifications, NEW c \in Calls, VerifyOK(c)',
         \A d \in Calls \ {c} : pc'[d] = "idle"
  PROVE  Together' /\ \A d \in Calls : VerifyOK(d)'
<1>1. \A d \in Calls \ {c} : VerifyOK(d)'
  BY IdleVerifies
<1> QED BY <1>1, TogetherKept

Good == Together /\ \A c \in Calls : VerifyOK(c)

LEMMA GetMarks ==
  ASSUME ReputationInv, Good, NEW c \in Calls, NEW u \in Users, NEW w,
         NEW purpose \in {"read", "measure", "badges", "settings"},
         GetReputation(c, u, purpose, w), \A d \in Calls \ {c} : pc'[d] = "idle"
  PROVE  Good'
<1>1. UNCHANGED <<reputations, verifications>> /\ MarksKept
  BY DEF GetReputation, reputationTables, MarksKept
<1>2. VerifyOK(c)'
  <2>1. ASSUME NEW r \in Used(reputations), purpose # "read",
               Begin(c, purpose, [id |-> r, row |-> reputations[r], weights |-> w,
                                  found |-> VerificationsOf(r)])
        PROVE  VerifyOK(c)'
    <3>1. PICK held : held = [id |-> r, row |-> reputations[r], weights |-> w,
                              found |-> VerificationsOf(r)]
      OBVIOUS
    <3>2. pc'[c] = purpose /\ hand'[c] = held
      BY <2>1, <3>1 DEF ReputationInv, RTypeOK, Begin
    <3>3. held.id = r /\ held.row = reputations[r]
      BY <3>1
    <3> QED BY <1>1, <2>1, <3>2, <3>3 DEF VerifyOK, NotOlder
  <2>2. CASE Begin(c, "createReputation", [user |-> u, purpose |-> purpose, weights |-> w])
    <3>1. pc'[c] = "createReputation"
      BY <2>2 DEF ReputationInv, RTypeOK, Begin
    <3> QED BY <3>1, IdleVerifies
  <2> QED BY <2>1, <2>2 DEF GetReputation
<1> QED BY <1>1, <1>2, MarkStep DEF Good

LEMMA CreateMarks ==
  ASSUME ReputationInv, Good, NEW c \in Calls, CreateInitialReputation(c),
         \A d \in Calls \ {c} : pc'[d] = "idle"
  PROVE  Good'
<1>0. PICK row : row = InitialReputation(hand[c].user)
  OBVIOUS
<1>1. PICK r \in Unused(reputations) :
        /\ reputations' = [reputations EXCEPT ![r] = row]
        /\ IF hand[c].purpose = "read" THEN End(c)
           ELSE Go(c, hand[c].purpose, [id |-> r, row |-> row, weights |-> hand[c].weights,
                                        found |-> VerificationIds])
  BY <1>0 DEF CreateInitialReputation
<1>2. UNCHANGED verifications /\ MarksKept
  BY <1>1 DEF CreateInitialReputation, MarksKept, Unused, ReputationInv, RTypeOK
<1>3. hand[c].purpose \in {"read", "measure", "badges", "settings"}
  BY DEF ReputationInv, HandTypeOK, CreateInitialReputation
<1>4. VerifyOK(c)'
  <2>1. CASE hand[c].purpose = "read"
    <3>1. pc'[c] = "idle"
      BY <1>1, <2>1 DEF ReputationInv, RTypeOK, End, Go
    <3> QED BY <3>1, IdleVerifies
  <2>2. CASE hand[c].purpose # "read"
    <3>1. PICK held : held = [id |-> r, row |-> row, weights |-> hand[c].weights,
                              found |-> VerificationIds]
      OBVIOUS
    <3>2. held.id = r /\ held.row = row
      BY <3>1
    <3>3. pc'[c] = hand[c].purpose /\ hand'[c] = held
      BY <1>1, <2>2, <3>1 DEF ReputationInv, RTypeOK, Go
    <3>4. reputations'[r] = row
      BY <1>1 DEF Unused
    <3> QED BY <1>3, <2>2, <3>2, <3>3, <3>4 DEF VerifyOK, NotOlder
  <2> QED BY <2>1, <2>2
<1> QED BY <1>2, <1>4, MarkStep DEF Good

\* A calculation and a change of the weights leave the mark alone.
LEMMA WeighMarks ==
  ASSUME ReputationInv, Good, NEW c \in Calls, Measure(c) \/ UpdateSettings(c),
         \A d \in Calls \ {c} : pc'[d] = "idle"
  PROVE  Good'
<1>1. PICK id, row : id = hand[c].id /\ row = hand[c].row
  OBVIOUS
<1>2. row \in ReputationRow /\ NotOlder(row, id)
  BY <1>1 DEF ReputationInv, HandTypeOK, Good, VerifyOK, Measure, UpdateSettings, Holding
<1>3. UNCHANGED <<reputations, verifications>> /\ MarksKept
  BY DEF Measure, UpdateSettings, reputationTables, MarksKept
<1>4. PICK new : /\ new.verified = row.verified
                 /\ Go(c, "saveReputation", [id |-> id, found |-> hand[c].found, row |-> new])
  <2>1. CASE Measure(c)
    <3>1. PICK m, score, level :
            Go(c, "saveReputation",
               [id |-> id, found |-> hand[c].found,
                row |-> [row EXCEPT !.metrics = m, !.score = score, !.level = level]])
      BY <1>1, <2>1 DEF Measure
    <3>2. [row EXCEPT !.metrics = m, !.score = score, !.level = level].verified = row.verified
      BY <1>2 DEF ReputationRow
    <3> QED BY <3>1, <3>2
  <2>2. CASE UpdateSettings(c)
    <3>1. hand[c].weights \in Changes
      BY <2>2 DEF UpdateSettings, ReputationInv, HandTypeOK
    <3>2. Reweighted(row, hand[c].weights).verified = row.verified
      BY <1>2, <3>1, ReweightedOK
    <3> QED BY <1>1, <2>2, <3>2 DEF UpdateSettings
  <2> QED BY <2>1, <2>2
<1>5. PICK held : held = [id |-> id, found |-> hand[c].found, row |-> new]
  OBVIOUS
<1>6. held.id = id /\ held.row = new
  BY <1>5
<1>7. pc'[c] = "saveReputation" /\ hand'[c] = held
  BY <1>4, <1>5 DEF ReputationInv, RTypeOK, Go
<1>8. VerifyOK(c)'
  BY <1>2, <1>3, <1>4, <1>6, <1>7 DEF VerifyOK, NotOlder
<1> QED BY <1>3, <1>8, MarkStep DEF Good

LEMMA SaveMarks ==
  ASSUME ReputationInv, Good, NEW c \in Calls, SaveReputation(c),
         \A d \in Calls \ {c} : pc'[d] = "idle"
  PROVE  Good'
<1>1. PICK id, row : id = hand[c].id /\ row = hand[c].row
  OBVIOUS
<1>2. row \in ReputationRow /\ NotOlder(row, id)
  BY <1>1 DEF ReputationInv, HandTypeOK, Good, VerifyOK, SaveReputation, Holding
<1>3. /\ reputations' \in {reputations, [reputations EXCEPT ![id] = row]}
      /\ UNCHANGED verifications
  BY <1>1 DEF SaveReputation
<1>4. MarksKept
  BY <1>2, <1>3 DEF MarksKept, NotOlder, ReputationInv, RTypeOK
<1>5. pc'[c] = "idle"
  BY DEF SaveReputation, ReputationInv, RTypeOK, End, Go
<1> QED BY <1>3, <1>4, <1>5, IdleVerifies, MarkStep DEF Good

LEMMA SaveVerifiedMarks ==
  ASSUME ReputationInv, Good, NEW c \in Calls, SaveVerified(c),
         \A d \in Calls \ {c} : pc'[d] = "idle"
  PROVE  Good'
<1>1. PICK id, row, v : id = hand[c].id /\ row = hand[c].row /\ v = hand[c].verification
  OBVIOUS
<1>2. /\ row \in ReputationRow /\ row.verified
      /\ v \in VerificationIds /\ verifications[v] # None /\ id = verifications[v].reputation
  BY <1>1 DEF ReputationInv, HandTypeOK, Good, VerifyOK, SaveVerified, Holding, Verifying
<1>3. id \in ReputationIds
  BY <1>2 DEF ReputationInv, RTypeOK, Verification
<1>4. PICK held : held = [verification |-> v, status |-> "VERIFIED"]
  OBVIOUS
<1>5. /\ reputations' = [reputations EXCEPT ![id] = row] /\ UNCHANGED verifications
      /\ Go(c, "saveVerification", held)
  BY <1>1, <1>4 DEF SaveVerified
<1>6. MarksKept /\ reputations'[id] = row
  BY <1>2, <1>3, <1>5 DEF MarksKept, ReputationInv, RTypeOK
<1>7. pc'[c] = "saveVerification" /\ hand'[c] = held /\ held.verification = v
  BY <1>4, <1>5 DEF ReputationInv, RTypeOK, Go
<1>8. VerifyOK(c)'
  BY <1>2, <1>5, <1>6, <1>7 DEF VerifyOK
<1> QED BY <1>5, <1>6, <1>8, MarkStep DEF Good

LEMMA VerifyMarks ==
  ASSUME ReputationInv, Good, NEW c \in Calls, Verify(c) \/ VerificationFails(c),
         \A d \in Calls \ {c} : pc'[d] = "idle"
  PROVE  Good'
<1>1. UNCHANGED <<reputations, verifications>> /\ MarksKept
  BY DEF Verify, VerificationFails, reputationTables, MarksKept
<1>2. VerifyOK(c)'
  <2>1. ASSUME NEW status \in {"REJECTED", "FAILED"}, pc'[c] = "saveVerification",
               hand'[c] = [verification |-> hand[c].verification, status |-> status]
        PROVE  VerifyOK(c)'
    <3>1. hand'[c].status = status
      BY <2>1
    <3> QED BY <2>1, <3>1 DEF VerifyOK
  <2>2. CASE Go(c, "saveVerified", [hand[c] EXCEPT !.row.verified = TRUE]) /\ pc[c] = "verify"
    <3>1. PICK held : held = [hand[c] EXCEPT !.row.verified = TRUE]
      OBVIOUS
    <3>2. /\ hand[c].row \in ReputationRow /\ {"verification", "row", "id"} \subseteq DOMAIN hand[c]
          /\ hand[c].id = verifications[hand[c].verification].reputation
      BY <2>2 DEF ReputationInv, HandTypeOK, Holding, Good, VerifyOK
    <3>3. /\ "id" \in DOMAIN held /\ held.id = hand[c].id
               /\ held.verification = hand[c].verification
          /\ held.row = [hand[c].row EXCEPT !.verified = TRUE]
      BY <3>1, <3>2
    <3>4. held.row.verified
      BY <3>2, <3>3 DEF ReputationRow
    <3>5. pc'[c] = "saveVerified" /\ hand'[c] = held
      BY <2>2, <3>1 DEF ReputationInv, RTypeOK, Go
    <3> QED BY <1>1, <3>2, <3>3, <3>4, <3>5 DEF VerifyOK
  <2> QED BY <2>1, <2>2 DEF Verify, VerificationFails, ReputationInv, RTypeOK, Go
<1> QED BY <1>1, <1>2, MarkStep DEF Good

LEMMA LoadMarks ==
  ASSUME ReputationInv, Good, NEW c \in Calls, NEW v \in VerificationIds, LoadVerification(c, v),
         \A d \in Calls \ {c} : pc'[d] = "idle"
  PROVE  Good'
<1>1. PICK r, held : /\ r = verifications[v].reputation
                     /\ held = [verification |-> v, id |-> r, row |-> reputations[r]]
  OBVIOUS
<1>2. Begin(c, "verify", held) /\ UNCHANGED <<reputations, verifications>> /\ MarksKept
  BY <1>1 DEF LoadVerification, reputationTables, MarksKept
<1>3. pc'[c] = "verify" /\ hand'[c] = held
  BY <1>2 DEF ReputationInv, RTypeOK, Begin
<1>4. "id" \in DOMAIN held /\ held.id = r /\ held.verification = v
  BY <1>1
<1>5. VerifyOK(c)'
  BY <1>1, <1>2, <1>3, <1>4 DEF VerifyOK
<1> QED BY <1>2, <1>5, MarkStep DEF Good

LEMMA InsertMarks ==
  ASSUME ReputationInv, Good, NEW c \in Calls, InsertVerification(c),
         \A d \in Calls \ {c} : pc'[d] = "idle"
  PROVE  Good'
<1>1. PICK v \in Unused(verifications) : verifications' = [verifications EXCEPT ![v] =
         [reputation |-> hand[c].reputation, type |-> hand[c].type, status |-> "PENDING"]]
  BY DEF InsertVerification
<1>2. UNCHANGED reputations /\ pc'[c] = "idle"
  BY DEF InsertVerification, ReputationInv, RTypeOK, End, Go
<1>3. Together'
  BY <1>1, <1>2 DEF Good, Together, Used, Unused, ReputationInv, RTypeOK
<1> QED BY <1>2, <1>3, IdleVerifies DEF Good

\* The status is saved after the mark.
LEMMA RecordMarks ==
  ASSUME ReputationInv, Good, NEW c \in Calls, SaveVerification(c),
         \A d \in Calls \ {c} : pc'[d] = "idle"
  PROVE  Good'
<1>1. PICK v, status : v = hand[c].verification /\ status = hand[c].status
  OBVIOUS
<1>2. /\ v \in VerificationIds /\ verifications[v] # None
      /\ status = "VERIFIED" => reputations[verifications[v].reputation].verified
  BY <1>1 DEF SaveVerification, ReputationInv, HandTypeOK, Good, VerifyOK, Verifying
<1>3. verifications[v] \in Verification
  BY <1>2 DEF ReputationInv, RTypeOK
<1>4. verifications' = [verifications EXCEPT ![v].status = status] /\ UNCHANGED reputations
  BY <1>1 DEF SaveVerification
<1>5. /\ verifications'[v].status = status
      /\ verifications'[v].reputation = verifications[v].reputation
      /\ \A x \in VerificationIds \ {v} : verifications'[x] = verifications[x]
      /\ DOMAIN verifications' = VerificationIds
  BY <1>2, <1>3, <1>4 DEF ReputationInv, RTypeOK, Verification
<1>6. Together'
  BY <1>2, <1>4, <1>5 DEF Good, Together, Used, ReputationInv, RTypeOK
<1>7. pc'[c] = "idle"
  BY DEF SaveVerification, ReputationInv, RTypeOK, End, Go
<1> QED BY <1>6, <1>7, IdleVerifies DEF Good

LEMMA OtherMarks ==
  ASSUME ReputationInv, Good, NEW c \in Calls, \A d \in Calls \ {c} : pc'[d] = "idle",
         \/ \E r \in ReputationIds, t \in VerificationTypes : InitiateVerification(c, r, t)
         \/ FindBadges(c) \/ SaveBadge(c) \/ ReputationFail(c)
  PROVE  Good'
<1>1. UNCHANGED <<reputations, verifications>>
      /\ pc'[c] \in {"idle", "saveBadge", "insertVerification"}
  <2>1. CASE SaveBadge(c)
    <3>1. UNCHANGED <<reputations, verifications>> /\ \E t : NextBadge(c, t)
      BY <2>1 DEF SaveBadge
    <3> QED BY <3>1 DEF NextBadge, End, Go, ReputationInv, RTypeOK
  <2>2. CASE FindBadges(c)
    BY <2>2 DEF FindBadges, Go, ReputationInv, RTypeOK, reputationTables
  <2>3. CASE ReputationFail(c)
    BY <2>3 DEF ReputationFail, Fail, ReputationInv, RTypeOK, reputationTables
  <2>4. ASSUME NEW r \in ReputationIds, NEW t \in VerificationTypes, InitiateVerification(c, r, t)
        PROVE  UNCHANGED <<reputations, verifications>> /\ pc'[c] = "insertVerification"
    BY <2>4 DEF InitiateVerification, Begin, ReputationInv, RTypeOK, reputationTables
  <2> QED BY <2>1, <2>2, <2>3, <2>4
<1>2. MarksKept
  BY <1>1 DEF MarksKept
<1> QED BY <1>1, <1>2, IdleVerifies, MarkStep DEF Good

LEMMA GoodKept ==
  ASSUME ReputationInv, Good, NEW c \in Calls, StepBy(c), \A d \in Calls \ {c} : pc'[d] = "idle"
  PROVE  Good'
<1>1. ASSUME NEW u \in Users,
             \/ \E purpose \in {"read", "measure", "badges"} :
                  GetReputation(c, u, purpose, None)
             \/ \E w \in Changes : GetReputation(c, u, "settings", w)
      PROVE  Good'
  BY <1>1, GetMarks
<1>2. CASE \E v \in VerificationIds : LoadVerification(c, v)
  BY <1>2, LoadMarks
<1>3. CASE \/ CreateInitialReputation(c) \/ Measure(c) \/ UpdateSettings(c) \/ SaveReputation(c)
           \/ InsertVerification(c) \/ Verify(c) \/ SaveVerified(c) \/ VerificationFails(c)
           \/ SaveVerification(c)
  BY <1>3, CreateMarks, WeighMarks, SaveMarks, InsertMarks, VerifyMarks, SaveVerifiedMarks,
       RecordMarks
<1>4. CASE \/ \E r \in ReputationIds, t \in VerificationTypes : InitiateVerification(c, r, t)
           \/ FindBadges(c) \/ SaveBadge(c) \/ ReputationFail(c)
  BY <1>4, OtherMarks
<1> QED BY <1>1, <1>2, <1>3, <1>4 DEF StepBy

LEMMA MarksInv == ReputationSpec => [](Sole /\ (apart => Good))
<1>1. ReputationInit => Sole /\ (apart => Good)
  BY DEF ReputationInit, ServiceInit, Sole, Alone, Good, Together, VerifyOK, Used
<1>2. ReputationInv /\ Sole /\ (apart => Good) /\ [ReputationNext]_reputationVars
      => Sole' /\ (apart => Good)'
  <2> SUFFICES ASSUME ReputationInv, Sole, apart => Good, [ReputationNext]_reputationVars, apart'
               PROVE  Good'
    BY SoleKept
  <2>1. CASE UNCHANGED reputationVars
    BY <2>1 DEF reputationVars, reputationTables, serviceVars, Good, Together, VerifyOK, NotOlder,
         Used
  <2>2. ASSUME NEW c \in Calls, StepBy(c) PROVE Good'
    BY <2>2, OthersIdle, GoodKept
  <2> QED BY <2>1, <2>2, NextIsStep
<1> QED BY <1>1, <1>2, ReputationHolds, PTL DEF ReputationSpec

\* A verification recorded as such has its user marked as verified, whatever
\* fails between the two saves of processVerification and whatever calculation,
\* settings or further verifications follow, as long as no two calls overlap.
THEOREM MarkedWhenVerified == ReputationSpec => []VerifiedTogether
<1>1. (apart => Good) => VerifiedTogether
  BY DEF Good, Together, VerifiedTogether
<1> QED BY <1>1, MarksInv, PTL

--------------------------------------------------------------------------------
(* Badges *)

\* The badges that a check has found and is still to save are there, and it
\* knows of their awards, unless they are contested.
BadgeHandOK(c) ==
  pc[c] = "saveBadge" =>
    /\ hand[c].user \in Users /\ hand[c].todo \subseteq BadgeTypes
    /\ DOMAIN hand[c].found \subseteq BadgeIds
    /\ \A b \in DOMAIN hand[c].found : hand[c].found[b] \in Badge /\ badges[b] # None
    /\ {"user", "todo", "found"} \subseteq DOMAIN hand[c]

KnowsAward(c, b) ==
  pc[c] = "saveBadge" /\ b \in DOMAIN hand[c].found /\ hand[c].found[b].type \in hand[c].todo =>
    hand[c].found[b].status = "AWARDED"

BadgesInv ==
  /\ badges \in [BadgeIds -> Badge \cup {None}]
  /\ \A c \in Calls : BadgeHandOK(c)
  /\ \A b \in Used(badges) \ contested :
       badges[b].status = "AWARDED" => \A c \in Calls : KnowsAward(c, b)

\* AwardsStand, as a formula about one step
AwardsGoOn ==
  \A b \in Used(badges) \ contested :
    badges[b].status = "AWARDED" => badges'[b] # None /\ badges'[b].status = "AWARDED"

LEMMA BadgeApart == None \notin Badge
BY ReputationAssumption

LEMMA SameBadges ==
  ASSUME BadgesInv, UNCHANGED badges
  PROVE  AwardsGoOn
BY DEF AwardsGoOn, Used

\* A step that writes no badge, after which its call is not at its badges.
LEMMA NoBadge ==
  ASSUME BadgesInv, NEW c \in Calls, OnlyOf(c), UNCHANGED <<badges, contested>>,
         pc'[c] # "saveBadge"
  PROVE  BadgesInv' /\ AwardsGoOn
<1>1. ASSUME NEW d \in Calls
      PROVE  BadgeHandOK(d)' /\ \A b : KnowsAward(d, b) => KnowsAward(d, b)'
  <2>1. CASE d = c
    BY <2>1 DEF BadgeHandOK, KnowsAward
  <2>2. CASE d # c
    BY <2>2 DEF BadgeHandOK, KnowsAward, BadgesInv, OnlyOf
  <2> QED BY <2>1, <2>2
<1> QED BY <1>1, SameBadges DEF BadgesInv, Used

LEMMA FindBadgesKeeps ==
  ASSUME ReputationInv, BadgesInv, NEW c \in Calls, FindBadges(c)
  PROVE  BadgesInv' /\ AwardsGoOn
<1>1. UNCHANGED <<badges, contested>> /\ pc[c] = "badges"
  BY DEF FindBadges, reputationTables
<1>2. OnlyOf(c)
  BY DEF FindBadges, Go, ReputationInv, RTypeOK, OnlyOf
<1>3. PICK u \in Users : u = hand[c].row.user
  <2>1. hand[c].row.user \in Users
    BY <1>1 DEF ReputationInv, HandTypeOK, Holding, ReputationRow
  <2> QED BY <2>1
<1>4. PICK found, complete :
        /\ found = [b \in BadgesOf(u) |-> badges[b]]
        /\ complete = [t \in BadgeTypes |-> Complete(hand[c].row, t)]
  OBVIOUS
<1>5. PICK held : held = [user |-> u, found |-> found, todo |-> BadgeTypes, complete |-> complete]
  OBVIOUS
<1>6. pc'[c] = "saveBadge" /\ hand'[c] = held
  BY <1>3, <1>4, <1>5 DEF FindBadges, Go, ReputationInv, RTypeOK
<1>7. /\ held.user = u /\ held.todo = BadgeTypes /\ held.found = found
      /\ {"user", "todo", "found"} \subseteq DOMAIN held
  BY <1>5
<1>8. /\ DOMAIN found \subseteq BadgeIds
      /\ \A b \in DOMAIN found : found[b] \in Badge /\ found[b] = badges[b] /\ badges[b] # None
  BY <1>4 DEF BadgesOf, Used, BadgesInv
<1>9. BadgeHandOK(c)'
  BY <1>1, <1>6, <1>7, <1>8 DEF BadgeHandOK
<1>10. ASSUME NEW b, badges[b].status = "AWARDED" PROVE KnowsAward(c, b)'
  BY <1>6, <1>7, <1>8, <1>10 DEF KnowsAward
<1>11. ASSUME NEW d \in Calls \ {c}
       PROVE  BadgeHandOK(d)' /\ \A b : KnowsAward(d, b) => KnowsAward(d, b)'
  BY <1>1, <1>2 DEF BadgeHandOK, KnowsAward, BadgesInv, OnlyOf
<1> QED BY <1>1, <1>9, <1>10, <1>11, SameBadges DEF BadgesInv, Used

\* What SaveBadge does: one row of one of the types to do.
LEMMA SavedBadge ==
  ASSUME ReputationInv, BadgesInv, NEW c \in Calls, SaveBadge(c)
  PROVE  \E t \in BadgeTypes, b \in BadgeIds, new \in Badge :
           /\ t \in hand[c].todo /\ NextBadge(c, t)
           /\ WriteBadge(c, b, new)
           /\ \/ badges[b] = None
              \/ /\ b \in DOMAIN hand[c].found
                 /\ hand[c].found[b].type = t
                 /\ hand[c].found[b].status = "AWARDED" => new.status = "AWARDED"
<1>1. pc[c] = "saveBadge" /\ BadgeHandOK(c)
  BY DEF SaveBadge, BadgesInv
<1>2. ASSUME NEW badge \in Badge, NEW complete
      PROVE  /\ Progressed(badge, complete) \in Badge
             /\ badge.status = "AWARDED" => Progressed(badge, complete).status = "AWARDED"
  BY DEF Progressed, Badge
<1>3. PICK t \in hand[c].todo :
        LET mine == {b \in DOMAIN hand[c].found : hand[c].found[b].type = t}
            new == [user |-> hand[c].user, type |-> t, status |-> "IN_PROGRESS"]
        IN /\ \E complete \in hand[c].complete[t] :
                IF mine # {}
                THEN \E b \in mine : WriteBadge(c, b, Progressed(hand[c].found[b], complete))
                ELSE \E b \in Unused(badges) : WriteBadge(c, b, Progressed(new, complete))
           /\ NextBadge(c, t)
  BY DEF SaveBadge
<1>4. t \in BadgeTypes
  BY <1>1 DEF BadgeHandOK
<1>5. PICK complete \in hand[c].complete[t] :
        \/ \E b \in {b \in DOMAIN hand[c].found : hand[c].found[b].type = t} :
             WriteBadge(c, b, Progressed(hand[c].found[b], complete))
        \/ \E b \in Unused(badges) : WriteBadge(c, b,
             Progressed([user |-> hand[c].user, type |-> t, status |-> "IN_PROGRESS"], complete))
  BY <1>3
<1>6. CASE \E b \in {b \in DOMAIN hand[c].found : hand[c].found[b].type = t} :
             WriteBadge(c, b, Progressed(hand[c].found[b], complete))
  <2>1. PICK b \in DOMAIN hand[c].found :
          /\ hand[c].found[b].type = t
          /\ WriteBadge(c, b, Progressed(hand[c].found[b], complete))
    BY <1>6
  <2>2. b \in BadgeIds /\ hand[c].found[b] \in Badge
    BY <1>1 DEF BadgeHandOK
  <2>3. PICK row \in Badge : row = Progressed(hand[c].found[b], complete)
    BY <1>2, <2>2
  <2>4. NextBadge(c, t)
    BY <1>3
  <2>5. WriteBadge(c, b, row)
    BY <2>1, <2>3
  <2>6. hand[c].found[b].status = "AWARDED" => row.status = "AWARDED"
    BY <1>2, <2>2, <2>3
  <2> QED BY <1>4, <2>1, <2>2, <2>4, <2>5, <2>6
<1>7. CASE \E b \in Unused(badges) : WriteBadge(c, b,
             Progressed([user |-> hand[c].user, type |-> t, status |-> "IN_PROGRESS"], complete))
  <2>1. PICK first : first = [user |-> hand[c].user, type |-> t, status |-> "IN_PROGRESS"]
    OBVIOUS
  <2>2. first \in Badge
    BY <1>1, <1>4, <2>1 DEF BadgeHandOK, Badge
  <2>3. PICK b \in Unused(badges) : WriteBadge(c, b, Progressed(first, complete))
    BY <1>7, <2>1
  <2>4. PICK new \in Badge : new = Progressed(first, complete)
    BY <1>2, <2>2
  <2>5. b \in BadgeIds /\ badges[b] = None
    BY <2>3 DEF Unused, BadgesInv
  <2> QED BY <1>3, <1>4, <2>3, <2>4, <2>5
<1> QED BY <1>5, <1>6, <1>7

LEMMA SaveBadgeKeeps ==
  ASSUME ReputationInv, BadgesInv, NEW c \in Calls, SaveBadge(c)
  PROVE  BadgesInv' /\ AwardsGoOn
<1>1. PICK t \in BadgeTypes, b \in BadgeIds, new \in Badge :
        /\ t \in hand[c].todo /\ NextBadge(c, t)
        /\ WriteBadge(c, b, new)
        /\ \/ badges[b] = None
           \/ /\ b \in DOMAIN hand[c].found /\ hand[c].found[b].type = t
              /\ hand[c].found[b].status = "AWARDED" => new.status = "AWARDED"
  BY SavedBadge
<1>2. /\ badges' = [badges EXCEPT ![b] = new] /\ new # None
      /\ badges' \in [BadgeIds -> Badge \cup {None}]
      /\ badges'[b] = new /\ \A x \in BadgeIds \ {b} : badges'[x] = badges[x]
      /\ \A x : x # b => (x \in contested' <=> x \in contested)
      /\ new.status = "AWARDED" /\ FoundUnawarded(c, b) => b \in contested'
  BY <1>1, BadgeApart DEF WriteBadge, BadgesInv
<1>3. pc[c] = "saveBadge" /\ OnlyOf(c)
  BY <1>1 DEF SaveBadge, NextBadge, End, Go, ReputationInv, RTypeOK, OnlyOf
<1>4. PICK old : old = hand[c]
  OBVIOUS
<1>5. /\ old.user \in Users /\ old.todo \subseteq BadgeTypes
      /\ DOMAIN old.found \subseteq BadgeIds
      /\ \A x \in DOMAIN old.found : old.found[x] \in Badge /\ badges[x] # None
      /\ {"user", "todo", "found"} \subseteq DOMAIN old
  BY <1>3, <1>4 DEF BadgesInv, BadgeHandOK
<1>6. PICK held : held = [old EXCEPT !.todo = @ \ {t}]
  OBVIOUS
<1>7. /\ held.user = old.user /\ held.todo = old.todo \ {t} /\ held.found = old.found
      /\ {"user", "todo", "found"} \subseteq DOMAIN held
  BY <1>5, <1>6
<1>8. pc'[c] = "idle" \/ (pc'[c] = "saveBadge" /\ hand'[c] = held)
  BY <1>1, <1>4, <1>6 DEF NextBadge, End, Go, ReputationInv, RTypeOK
<1>9. BadgeHandOK(c)'
  <2>1. \A x \in DOMAIN old.found : badges'[x] # None
    BY <1>2, <1>5
  <2> QED BY <1>5, <1>7, <1>8, <2>1 DEF BadgeHandOK
<1>10. ASSUME NEW d \in Calls \ {c} PROVE BadgeHandOK(d)'
  BY <1>2, <1>3 DEF BadgesInv, BadgeHandOK, OnlyOf
<1>11. ASSUME NEW x \in Used(badges)' \ contested', badges'[x].status = "AWARDED"
       PROVE  \A d \in Calls : KnowsAward(d, x)'
  <2>1. x \in BadgeIds
    BY <1>2, <1>11 DEF Used
  <2>2. CASE x = b
    <3>1. ~FoundUnawarded(c, b)
      BY <1>2, <1>11, <2>2
    <3>2. ASSUME NEW d \in Calls \ {c} PROVE KnowsAward(d, x)'
      BY <1>3, <2>2, <3>1 DEF OnlyOf, FoundUnawarded, KnowsAward
    <3>3. b \in DOMAIN old.found => old.found[b].type = t
      BY <1>1, <1>4, <1>5
    <3>4. KnowsAward(c, x)'
      BY <1>7, <1>8, <2>2, <3>3 DEF KnowsAward
    <3> QED BY <3>2, <3>4
  <2>3. CASE x # b
    <3>1. x \in Used(badges) \ contested /\ badges[x].status = "AWARDED"
      BY <1>2, <1>11, <2>1, <2>3 DEF Used, BadgesInv
    <3>2. \A d \in Calls : KnowsAward(d, x)
      BY <3>1 DEF BadgesInv
    <3>3. ASSUME NEW d \in Calls \ {c} PROVE KnowsAward(d, x)'
      BY <1>3, <3>2 DEF OnlyOf, KnowsAward
    <3>4. KnowsAward(c, x)'
      BY <1>3, <1>4, <1>7, <1>8, <3>2 DEF KnowsAward
    <3> QED BY <3>3, <3>4
  <2> QED BY <2>2, <2>3
<1>12. ASSUME NEW x \in Used(badges) \ contested, badges[x].status = "AWARDED"
       PROVE  badges'[x] # None /\ badges'[x].status = "AWARDED"
  <2>1. x \in BadgeIds /\ badges[x] # None
    BY <1>12 DEF Used, BadgesInv
  <2>2. CASE x = b
    <3>1. KnowsAward(c, b)
      BY <1>12, <2>2 DEF BadgesInv
    <3> QED BY <1>1, <1>2, <1>3, <2>1, <2>2, <3>1 DEF KnowsAward
  <2>3. CASE x # b
    BY <1>2, <1>12, <2>1, <2>3
  <2> QED BY <2>2, <2>3
<1> QED BY <1>2, <1>9, <1>10, <1>11, <1>12 DEF BadgesInv, AwardsGoOn

LEMMA WritesNoBadge ==
  ASSUME ReputationInv, NEW c \in Calls, StepBy(c), ~SaveBadge(c), ~FindBadges(c)
  PROVE  UNCHANGED <<badges, contested>> /\ pc'[c] # "saveBadge"
<1> USE DEF ReputationInv, RTypeOK
<1>1. ASSUME NEW u \in Users,
             \/ \E purpose \in {"read", "measure", "badges"} :
                  GetReputation(c, u, purpose, None)
             \/ \E w \in Changes : GetReputation(c, u, "settings", w)
      PROVE  UNCHANGED <<badges, contested>> /\ pc'[c] # "saveBadge"
  BY <1>1 DEF GetReputation, Begin, reputationTables
<1>2. CASE \/ \E r \in ReputationIds, t \in VerificationTypes : InitiateVerification(c, r, t)
           \/ \E v \in VerificationIds : LoadVerification(c, v)
  BY <1>2 DEF InitiateVerification, LoadVerification, Begin, reputationTables
<1>3. CASE Measure(c) \/ UpdateSettings(c) \/ SaveReputation(c)
           \/ InsertVerification(c) \/ Verify(c) \/ SaveVerified(c) \/ SaveVerification(c)
  BY <1>3 DEF Measure, UpdateSettings, SaveReputation, InsertVerification, Verify, SaveVerified,
              SaveVerification, End, Go, reputationTables
<1>4. CASE CreateInitialReputation(c)
  <2>1. hand[c].purpose \in {"read", "measure", "badges", "settings"}
    BY <1>4 DEF HandTypeOK, CreateInitialReputation
  <2> QED BY <1>4, <2>1 DEF CreateInitialReputation, End, Go
<1>5. CASE VerificationFails(c) \/ ReputationFail(c)
  BY <1>5 DEF VerificationFails, ReputationFail, Fail, reputationTables
<1> QED BY <1>1, <1>2, <1>3, <1>4, <1>5 DEF StepBy

LEMMA BadgesKept ==
  ASSUME ReputationInv, BadgesInv, [ReputationNext]_reputationVars
  PROVE  BadgesInv' /\ AwardsGoOn
<1>1. CASE UNCHANGED reputationVars
  <2>1. UNCHANGED <<badges, contested, pc, hand>>
    BY <1>1 DEF reputationVars, reputationTables, serviceVars
  <2>2. BadgesInv'
    BY <2>1 DEF BadgesInv, BadgeHandOK, KnowsAward, Used
  <2> QED BY <2>1, <2>2, SameBadges
<1>2. ASSUME NEW c \in Calls, StepBy(c) PROVE BadgesInv' /\ AwardsGoOn
  BY <1>2, FindBadgesKeeps, SaveBadgeKeeps, WritesNoBadge, NoBadge, StepOfOne
<1> QED BY <1>1, <1>2, NextIsStep

\* An award is taken back by no check of the badges, whatever the progress has
\* become and whatever overlaps, unless it was made while another check that
\* had found the badge before was still to save it.
THEOREM AwardsAreKept == ReputationSpec => AwardsStand
<1>1. ReputationInit => BadgesInv
  BY DEF ReputationInit, ServiceInit, BadgesInv, BadgeHandOK, Used
<1>2. ReputationInv /\ BadgesInv /\ [ReputationNext]_reputationVars =>
        [\A b \in Used(badges) \ contested :
           badges[b].status = "AWARDED"
             => badges'[b] # None /\ badges'[b].status = "AWARDED"]_reputationVars
  BY BadgesKept DEF AwardsGoOn
<1> QED BY <1>1, <1>2, ReputationHolds, BadgesKept, PTL DEF ReputationSpec, AwardsStand

--------------------------------------------------------------------------------
(* Trending topics *)

Score == Nat \cup {None}

\* What a run carries from one await to the next.
RunOK(c) ==
  /\ pc[c] = "decay" =>
       /\ {"mentions", "row", "todo"} \subseteq DOMAIN hand[c]
       /\ hand[c].mentions \in Mentions
       /\ hand[c].row \in [Topics -> Score]
       /\ hand[c].todo \subseteq {t \in Topics : hand[c].row[t] # None}
  /\ pc[c] \in {"findTopic", "insertTopic", "saveTopic"} =>
       hand[c].mentions \in Mentions /\ hand[c].todo \subseteq Topics
  /\ pc[c] \in {"insertTopic", "saveTopic"} => hand[c].topic \in Topics
  /\ pc[c] = "saveTopic" => hand[c].row \in Nat

\* What a run is to save is as it has read it, unless the topic is crossed.
AsRead(c) ==
  /\ pc[c] = "decay" =>
       \A t \in hand[c].todo \ crossed : topics[t] \in {None, hand[c].row[t]}
  /\ pc[c] = "saveTopic" /\ hand[c].topic \notin crossed =>
       topics[hand[c].topic] \in {None, hand[c].row}

TrendsInv ==
  /\ topics \in [Topics -> Score]
  /\ DOMAIN pc = Calls /\ DOMAIN hand = Calls
  /\ \A c \in Calls : RunOK(c) /\ AsRead(c)

\* No score falls by more than one decay.
Slowly ==
  \A t \in Used(topics) \ crossed :
    IF topics'[t] = None THEN topics[t] = 0 ELSE topics'[t] >= Decayed(topics[t])

LEMMA DecayedLess == ASSUME NEW n \in Nat PROVE Decayed(n) \in Nat /\ Decayed(n) <= n
BY DEF Decayed

LEMMA SlowIfUnchanged == TrendsInv /\ UNCHANGED topics => Slowly
<1> SUFFICES ASSUME TrendsInv, UNCHANGED topics, NEW t \in Used(topics)
             PROVE  topics'[t] # None /\ topics'[t] >= Decayed(topics[t])
  BY DEF Slowly
<1>1. topics[t] \in Nat /\ topics[t] # None
  BY DEF Used, TrendsInv, Score
<1> QED BY <1>1, DecayedLess

\* A step of one run.
LEMMA RunStep ==
  ASSUME TrendsInv, NEW c \in Calls, OnlyOf(c), topics' \in [Topics -> Score],
         RunOK(c)', \A d \in Calls : AsRead(d)'
  PROVE  TrendsInv'
<1>1. ASSUME NEW d \in Calls \ {c} PROVE RunOK(d)'
  BY DEF OnlyOf, TrendsInv, RunOK
<1> QED BY <1>1 DEF TrendsInv, OnlyOf

\* A step of one run that writes nothing.
LEMMA QuietStep ==
  ASSUME TrendsInv, NEW c \in Calls, OnlyOf(c), UNCHANGED trendingTables,
         RunOK(c)', AsRead(c)'
  PROVE  TrendsInv' /\ Slowly
<1>1. ASSUME NEW d \in Calls \ {c} PROVE AsRead(d)'
  BY DEF OnlyOf, TrendsInv, AsRead, trendingTables
<1>2. topics' \in [Topics -> Score]
  BY DEF trendingTables, TrendsInv
<1> QED BY <1>1, <1>2, RunStep, SlowIfUnchanged DEF trendingTables

\* A run that goes on to an await with nothing to save, or returns.
LEMMA FreeHanded ==
  ASSUME NEW c \in Calls, pc'[c] \in {"idle", "findTopic", "insertTopic"} PROVE AsRead(c)'
BY DEF AsRead

\* A save leaves what the other runs are to save as they have read it, or
\* crossed.
LEMMA WriteStep ==
  ASSUME TrendsInv, NEW c \in Calls, OnlyOf(c), NEW t \in Topics, NEW n \in Nat,
         WriteTopic(c, t, n), RunOK(c)', AsRead(c)'
  PROVE  TrendsInv'
<1>1. /\ topics' = [topics EXCEPT ![t] = n] /\ topics' \in [Topics -> Score]
      /\ \A x \in Topics \ {t} : topics'[x] = topics[x] /\ (x \in crossed' <=> x \in crossed)
  BY DEF WriteTopic, TrendsInv, Score
<1>2. ASSUME NEW d \in Calls \ {c} PROVE AsRead(d)'
  <2>1. pc'[d] = pc[d] /\ hand'[d] = hand[d] /\ AsRead(d) /\ RunOK(d)
    BY DEF OnlyOf, TrendsInv
  <2>2. ASSUME Holds(d, t) PROVE t \in crossed'
    BY <2>2 DEF WriteTopic
  <2>3. ASSUME pc'[d] = "decay", NEW x \in hand'[d].todo \ crossed'
        PROVE  topics'[x] \in {None, hand'[d].row[x]}
    <3>1. x \in Topics /\ x # t
      BY <2>1, <2>2, <2>3 DEF RunOK, Holds
    <3> QED BY <1>1, <2>1, <2>3, <3>1 DEF AsRead
  <2>4. ASSUME pc'[d] = "saveTopic", hand'[d].topic \notin crossed'
        PROVE  topics'[hand'[d].topic] \in {None, hand'[d].row}
    <3>1. hand[d].topic \in Topics /\ hand[d].topic # t
      BY <2>1, <2>2, <2>4 DEF RunOK, Holds
    <3> QED BY <1>1, <2>1, <2>4, <3>1 DEF AsRead
  <2> QED BY <2>3, <2>4 DEF AsRead
<1> QED BY <1>1, <1>2, RunStep

\* A save that leaves a topic that is not crossed no less than decayed.
LEMMA SlowWrite ==
  ASSUME TrendsInv, NEW c \in Calls, NEW t \in Topics, NEW n \in Nat, WriteTopic(c, t, n),
         t \notin crossed /\ topics[t] # None => n >= Decayed(topics[t])
  PROVE  Slowly
<1>1. topics' = [topics EXCEPT ![t] = n]
  BY DEF WriteTopic
<1>2. ASSUME NEW x \in Used(topics) \ crossed
      PROVE  topics'[x] # None /\ topics'[x] >= Decayed(topics[x])
  <2>1. x \in Topics /\ topics[x] \in Nat /\ topics[x] # None
    BY <1>2 DEF Used, TrendsInv, Score
  <2>2. CASE x = t
    BY <1>1, <1>2, <2>1, <2>2, TrendingAssumption DEF TrendsInv
  <2>3. CASE x # t
    BY <1>1, <2>1, <2>3, DecayedLess DEF TrendsInv
  <2> QED BY <2>2, <2>3
<1> QED BY <1>2 DEF Slowly

LEMMA RunGoes ==
  ASSUME TrendsInv, NEW c \in Calls, NEW at, NEW held, Go(c, at, held)
  PROVE  OnlyOf(c) /\ pc'[c] = at /\ hand'[c] = held
BY DEF TrendsInv, Go, OnlyOf

LEMMA StartKeeps ==
  ASSUME TrendsInv, NEW c \in Calls, StartCalculation(c)
  PROVE  TrendsInv' /\ Slowly
<1>1. PICK m \in Mentions :
        Begin(c, "decay", [mentions |-> m, row |-> topics, todo |-> Used(topics)])
  BY DEF StartCalculation
<1>2. PICK held : held = [mentions |-> m, row |-> topics, todo |-> Used(topics)]
  OBVIOUS
<1>3. /\ OnlyOf(c) /\ pc'[c] = "decay" /\ hand'[c] = held
      /\ UNCHANGED trendingTables /\ topics' = topics
  BY <1>1, <1>2 DEF StartCalculation, TrendsInv, Begin, Idle, OnlyOf, trendingTables
<1>4. /\ {"mentions", "row", "todo"} \subseteq DOMAIN held
      /\ held.mentions = m /\ held.row = topics /\ held.todo = Used(topics)
  BY <1>2
<1>5. RunOK(c)' /\ AsRead(c)'
  BY <1>3, <1>4 DEF RunOK, AsRead, TrendsInv, Used
<1> QED BY <1>3, <1>5, QuietStep

LEMMA DecayKeeps ==
  ASSUME TrendsInv, NEW c \in Calls, Decay(c)
  PROVE  TrendsInv' /\ Slowly
<1>1. PICK t \in hand[c].todo :
        /\ WriteTopic(c, t, Decayed(hand[c].row[t]))
        /\ Go(c, "decay", [hand[c] EXCEPT !.todo = @ \ {t}])
  BY DEF Decay
<1>2. pc[c] = "decay" /\ RunOK(c) /\ AsRead(c)
  BY DEF Decay, TrendsInv
<1>3. PICK old : old = hand[c]
  OBVIOUS
<1>4. PICK held : held = [old EXCEPT !.todo = @ \ {t}]
  OBVIOUS
<1>5. /\ {"mentions", "row", "todo"} \subseteq DOMAIN old
      /\ old.mentions \in Mentions /\ old.row \in [Topics -> Score]
      /\ old.todo \subseteq {x \in Topics : old.row[x] # None}
      /\ \A x \in old.todo \ crossed : topics[x] \in {None, old.row[x]}
  BY <1>2, <1>3 DEF RunOK, AsRead
<1>6. /\ {"mentions", "row", "todo"} \subseteq DOMAIN held
      /\ held.mentions = old.mentions /\ held.row = old.row /\ held.todo = old.todo \ {t}
  BY <1>4, <1>5
<1>7. OnlyOf(c) /\ pc'[c] = "decay" /\ hand'[c] = held
  BY <1>1, <1>3, <1>4, RunGoes
<1>8. t \in Topics /\ old.row[t] \in Nat
  BY <1>1, <1>3, <1>5 DEF Score
<1>9. PICK n \in Nat : n = Decayed(old.row[t])
  BY <1>8, DecayedLess
<1>10. WriteTopic(c, t, n)
  BY <1>1, <1>3, <1>9
<1>11. RunOK(c)'
  BY <1>5, <1>6, <1>7 DEF RunOK
<1>12. AsRead(c)'
  <2>1. \A x \in Topics \ {t} : topics'[x] = topics[x] /\ (x \in crossed' <=> x \in crossed)
    BY <1>10 DEF WriteTopic, TrendsInv
  <2>2. \A x \in held.todo \ crossed' : topics'[x] \in {None, held.row[x]}
    BY <1>5, <1>6, <2>1
  <2> QED BY <1>7, <2>2 DEF AsRead
<1>13. t \notin crossed /\ topics[t] # None => n >= Decayed(topics[t])
  BY <1>1, <1>3, <1>5, <1>9
<1> QED BY <1>7, <1>8, <1>10, <1>11, <1>12, <1>13, WriteStep, SlowWrite

\* The steps after the decay.
LEMMA EndDecayKeeps ==
  ASSUME TrendsInv, NEW c \in Calls, EndDecay(c)
  PROVE  TrendsInv' /\ Slowly
<1>1. hand[c].mentions \in Mentions
  BY DEF EndDecay, TrendsInv, RunOK
<1>2. PICK held : held = [mentions |-> hand[c].mentions, todo |-> Mentioned(c)]
  OBVIOUS
<1>3. held.mentions = hand[c].mentions /\ held.todo \subseteq Topics
  BY <1>2 DEF Mentioned
<1>4. OnlyOf(c) /\ pc'[c] = "findTopic" /\ hand'[c] = held /\ UNCHANGED trendingTables
  BY <1>2, RunGoes DEF EndDecay
<1>5. RunOK(c)'
  BY <1>1, <1>3, <1>4 DEF RunOK
<1> QED BY <1>4, <1>5, FreeHanded, QuietStep

LEMMA FindTopicKeeps ==
  ASSUME TrendsInv, NEW c \in Calls, FindTopic(c)
  PROVE  TrendsInv' /\ Slowly
<1>1. hand[c].mentions \in Mentions /\ hand[c].todo \subseteq Topics
  BY DEF FindTopic, TrendsInv, RunOK
<1>2. PICK t \in hand[c].todo :
        Go(c, IF topics[t] = None THEN "insertTopic" ELSE "saveTopic",
           [mentions |-> hand[c].mentions, todo |-> hand[c].todo, topic |-> t, row |-> topics[t]])
  BY DEF FindTopic
<1>3. PICK held, at :
        /\ held = [mentions |-> hand[c].mentions, todo |-> hand[c].todo, topic |-> t,
                   row |-> topics[t]]
        /\ at = IF topics[t] = None THEN "insertTopic" ELSE "saveTopic"
  OBVIOUS
<1>4. /\ held.mentions = hand[c].mentions /\ held.todo = hand[c].todo
      /\ held.topic = t /\ held.row = topics[t]
  BY <1>3
<1>5. /\ OnlyOf(c) /\ pc'[c] = at /\ hand'[c] = held
      /\ UNCHANGED trendingTables /\ topics' = topics
  BY <1>2, <1>3, RunGoes DEF FindTopic, trendingTables
<1>6. t \in Topics /\ (at = "saveTopic" => topics[t] \in Nat) /\ at \in {"insertTopic", "saveTopic"}
  BY <1>1, <1>3 DEF TrendsInv, Score
<1>7. RunOK(c)'
  BY <1>1, <1>4, <1>5, <1>6 DEF RunOK
<1>8. AsRead(c)'
  BY <1>4, <1>5, <1>6 DEF AsRead
<1> QED BY <1>5, <1>7, <1>8, QuietStep

\* The run goes on to the next topic.
LEMMA NextTopicKeeps ==
  ASSUME TrendsInv, NEW c \in Calls, pc[c] \in {"insertTopic", "saveTopic"}, NextTopic(c)
  PROVE  OnlyOf(c) /\ RunOK(c)' /\ AsRead(c)'
<1>1. hand[c].mentions \in Mentions /\ hand[c].todo \subseteq Topics
  BY DEF TrendsInv, RunOK
<1>2. PICK held : held = [mentions |-> hand[c].mentions, todo |-> hand[c].todo \ {hand[c].topic}]
  OBVIOUS
<1>3. held.mentions = hand[c].mentions /\ held.todo \subseteq Topics
  BY <1>1, <1>2
<1>4. OnlyOf(c) /\ pc'[c] = "findTopic" /\ hand'[c] = held
  BY <1>2, RunGoes DEF NextTopic
<1> QED BY <1>1, <1>3, <1>4, FreeHanded DEF RunOK

\* A run that returns has written nothing.
LEMMA ReturnKeeps ==
  ASSUME TrendsInv, NEW c \in Calls, End(c), UNCHANGED trendingTables
  PROVE  TrendsInv' /\ Slowly
<1>1. OnlyOf(c) /\ pc'[c] = "idle"
  BY RunGoes DEF End
<1> QED BY <1>1, FreeHanded, QuietStep DEF RunOK

LEMMA InsertTopicKeeps ==
  ASSUME TrendsInv, NEW c \in Calls, InsertTopic(c)
  PROVE  TrendsInv' /\ Slowly
<1>1. PICK t \in Topics : t = hand[c].topic
  BY DEF InsertTopic, TrendsInv, RunOK
<1>2. CASE topics[t] = None
  <2>1. hand[c].mentions \in Mentions
    BY DEF InsertTopic, TrendsInv, RunOK
  <2>2. PICK n \in Nat : n = hand[c].mentions[t]
    <3>1. hand[c].mentions[t] \in Scores \cup {0}
      BY <2>1 DEF Mentions
    <3>2. Scores \cup {0} \subseteq Nat
      <4>1. Scores \subseteq Nat /\ 0 \in Nat
        BY TrendingAssumption
      <4> QED BY <4>1
    <3> QED BY <3>1, <3>2, Zenon
  <2>3. WriteTopic(c, t, n) /\ NextTopic(c) /\ pc[c] = "insertTopic"
    BY <1>1, <1>2, <2>2 DEF InsertTopic
  <2> QED BY <1>2, <2>3, NextTopicKeeps, WriteStep, SlowWrite
<1>3. CASE topics[t] # None
  BY <1>1, <1>3, ReturnKeeps DEF InsertTopic
<1> QED BY <1>2, <1>3

LEMMA SaveTopicKeeps ==
  ASSUME TrendsInv, NEW c \in Calls, SaveTopic(c)
  PROVE  TrendsInv' /\ Slowly
<1>1. CASE UNCHANGED trendingTables /\ End(c)
  BY <1>1, ReturnKeeps
<1>2. CASE WriteTopic(c, hand[c].topic, hand[c].row) /\ NextTopic(c)
  <2>1. /\ pc[c] = "saveTopic" /\ hand[c].topic \in Topics /\ hand[c].row \in Nat
        /\ hand[c].topic \notin crossed => topics[hand[c].topic] \in {None, hand[c].row}
    BY DEF SaveTopic, TrendsInv, RunOK, AsRead
  <2>2. PICK t \in Topics, n \in Nat : t = hand[c].topic /\ n = hand[c].row
    BY <2>1
  <2>3. t \notin crossed /\ topics[t] # None => n >= Decayed(topics[t])
    BY <2>1, <2>2, DecayedLess
  <2> QED BY <1>2, <2>1, <2>2, <2>3, NextTopicKeeps, WriteStep, SlowWrite
<1> QED BY <1>1, <1>2 DEF SaveTopic

LEMMA CleanupKeeps ==
  ASSUME TrendsInv, NEW c \in Calls, Cleanup(c)
  PROVE  TrendsInv' /\ Slowly
<1>1. PICK old \in SUBSET {t \in Used(topics) : topics[t] = 0} :
        topics' = [t \in Topics |-> IF t \in old THEN None ELSE topics[t]]
  BY DEF Cleanup
<1>2. OnlyOf(c) /\ pc'[c] = "idle" /\ crossed' = crossed
  BY RunGoes DEF Cleanup, End
<1>3. topics' \in [Topics -> Score]
  BY <1>1 DEF TrendsInv, Score
<1>4. ASSUME NEW d \in Calls \ {c} PROVE AsRead(d)'
  <2>1. pc'[d] = pc[d] /\ hand'[d] = hand[d] /\ AsRead(d) /\ RunOK(d)
    BY <1>2 DEF OnlyOf, TrendsInv
  <2>2. \A t \in Topics : topics'[t] \in {None, topics[t]}
    BY <1>1
  <2> QED BY <1>2, <2>1, <2>2 DEF AsRead, RunOK
<1>5. AsRead(c)' /\ RunOK(c)'
  BY <1>2, FreeHanded DEF RunOK
<1>6. ASSUME NEW t \in Used(topics)
      PROVE  IF topics'[t] = None THEN topics[t] = 0 ELSE topics'[t] >= Decayed(topics[t])
  <2>1. t \in Topics /\ topics[t] \in Nat /\ topics[t] # None
    BY <1>6 DEF Used, TrendsInv, Score
  <2> QED BY <1>1, <2>1, DecayedLess
<1> QED BY <1>2, <1>3, <1>4, <1>5, <1>6, RunStep DEF Slowly

LEMMA TrendsKept ==
  ASSUME TrendsInv, [TrendingNext]_trendingVars
  PROVE  TrendsInv' /\ Slowly
<1>1. CASE UNCHANGED trendingVars
  <2>1. UNCHANGED <<topics, crossed, pc, hand>>
    BY <1>1 DEF trendingVars, trendingTables, serviceVars
  <2>2. TrendsInv'
    BY <2>1 DEF TrendsInv, RunOK, AsRead
  <2> QED BY <2>1, <2>2, SlowIfUnchanged
<1>2. ASSUME NEW c \in Calls, TrendingFail(c) PROVE TrendsInv' /\ Slowly
  <2>1. OnlyOf(c) /\ pc'[c] = "idle" /\ UNCHANGED trendingTables
    BY <1>2 DEF TrendingFail, Fail, TrendsInv, OnlyOf
  <2> QED BY <2>1, FreeHanded, QuietStep DEF RunOK
<1> QED BY <1>1, <1>2, StartKeeps, DecayKeeps, EndDecayKeeps, FindTopicKeeps, InsertTopicKeeps,
          SaveTopicKeeps, CleanupKeeps DEF TrendingNext

\* No save costs a topic more than one decay, whatever is mentioned, overlaps
\* and fails, unless the topic was written while another run was still to save
\* it as read before; and none goes before it has decayed to nothing.
THEOREM ScoresFallSlowly == TrendingSpec => FallsByOneDecay
<1>1. TrendingInit => TrendsInv
  BY DEF TrendingInit, ServiceInit, TrendsInv, Score, RunOK, AsRead
<1>2. TrendsInv /\ [TrendingNext]_trendingVars =>
        [\A t \in Used(topics) \ crossed :
           IF topics'[t] = None THEN topics[t] = 0
           ELSE topics'[t] >= Decayed(topics[t])]_trendingVars
  BY TrendsKept DEF Slowly
<1> QED BY <1>1, <1>2, TrendsKept, PTL DEF TrendingSpec, FallsByOneDecay

--------------------------------------------------------------------------------
(* Recommendations *)

\* What a dismissal, a failure or two jobs at a time may cause.
Cause(u) ==
  \/ failures > 0
  \/ u \in crowded
  \/ \E r \in Stored(u) : recommendations[r].dismissed \/ r \in raced

\* The rows of a user and a kind.
Mine(r, u, kind) == r.user = u /\ r.kind = kind

Busy(c) == pc[c] # "idle"

UserOf(c) == jobs[hand[c].job].user

\* What a branch carries: rows of its user and kind, none of them twice.
BranchOK(c) ==
  Busy(c) =>
    /\ pc[c] \in {"findExisting", "saveUpdates", "saveInserts"}
    /\ hand[c].job \in Jobs /\ jobs[hand[c].job] # None
    /\ hand[c].attempt \in Nat /\ hand[c].kind \in Kinds
    /\ {"job", "attempt", "kind", "twice"} \subseteq DOMAIN hand[c]
    /\ hand[c].twice = {}
    /\ pc[c] = "findExisting" => \A r \in hand[c].found : Mine(r, UserOf(c), hand[c].kind)
    /\ pc[c] \in {"saveUpdates", "saveInserts"} =>
         /\ {"update", "insert"} \subseteq DOMAIN hand[c]
         /\ \A r \in hand[c].insert : Mine(r, UserOf(c), hand[c].kind)
    /\ pc[c] = "saveUpdates" =>
         \A r \in hand[c].update :
           r \in DOMAIN recommendations /\ (recommendations[r].dismissed => r \in raced)

RecommendationsTypes ==
  /\ \A r \in DOMAIN recommendations : recommendations[r] \in [dismissed: BOOLEAN]
  /\ jobs \in [Jobs -> Job \cup {None}]
  /\ branches \subseteq Jobs \X Nat \X Kinds
  /\ \A b \in branches : jobs[b[1]] # None
  /\ failures \in Nat
  /\ DOMAIN pc = Calls /\ DOMAIN hand = Calls

\* A job of a user is in its first attempt, the only one in progress,
JobsCalm(u) ==
  /\ \A j \in Jobs : jobs[j] # None /\ jobs[j].user = u =>
       \/ jobs[j].status = "waiting" /\ jobs[j].attempt = 0
       \/ jobs[j].status \in {"active", "completed"} /\ jobs[j].attempt = 1
  /\ \A i, j \in Jobs : InProgress(i) /\ InProgress(j) /\ jobs[i].user = u /\ jobs[j].user = u
       => i = j

\* a branch that has not begun, or has not ended, is not done,
BranchesCalm(u) ==
  /\ \A b \in branches : jobs[b[1]].user = u =>
       b[2] = 1 /\ jobs[b[1]].status = "active" /\ b[3] \notin jobs[b[1]].done
  /\ \A c \in Calls : Busy(c) /\ UserOf(c) = u =>
       /\ hand[c].attempt = 1 /\ jobs[hand[c].job].status = "active"
       /\ hand[c].kind \notin jobs[hand[c].job].done
       /\ \A b \in branches : b[1] = hand[c].job => b[3] # hand[c].kind
       /\ \A d \in Calls : Busy(d) /\ hand[d].job = hand[c].job /\ hand[d].kind = hand[c].kind
            => c = d

\* and the rows it is to insert are not there.
InsertsCalm(u) ==
  \A c \in Calls : pc[c] \in {"saveUpdates", "saveInserts"} /\ UserOf(c) = u =>
    \A r \in hand[c].insert : r \notin DOMAIN recommendations

Calm(u) == JobsCalm(u) /\ BranchesCalm(u) /\ InsertsCalm(u)

RecommendationsInv ==
  /\ RecommendationsTypes
  /\ \A c \in Calls : BranchOK(c)
  /\ \A u \in Users : Cause(u) \/ Calm(u)

\* Each position of Fresh is of a target of its own.
LEMMA FreshOnce ==
  ASSUME NEW list \in Seq(Targets), NEW seen
  PROVE  /\ Fresh(list, seen) \subseteq 1..Len(list)
         /\ \A i \in Fresh(list, seen) : list[i] \notin seen
         /\ \A i, k \in Fresh(list, seen) : list[i] = list[k] => i = k
<1>1. Fresh(list, seen) \subseteq 1..Len(list)
  BY DEF Fresh
<1>2. ASSUME NEW i \in Fresh(list, seen), NEW k \in Fresh(list, seen), i < k
      PROVE  list[i] # list[k]
  <2>1. i \in 1..(k - 1)
    BY <1>1, <1>2
  <2> QED BY <2>1 DEF Fresh
<1>3. \A i, k \in Fresh(list, seen) : i = k \/ i < k \/ k < i
  BY <1>1
<1> QED BY <1>1, <1>2, <1>3 DEF Fresh

LEMMA ListsAreSequences == Lists \subseteq Seq(Targets)
BY RecommendationsAssumption DEF Lists

LEMMA FreshInjective ==
  ASSUME NEW list \in Seq(Targets), NEW seen
  PROVE  IsInjective(Restrict(list, Fresh(list, seen)))
BY FreshOnce DEF IsInjective, Restrict

\* Friends of friends come each once, and are not looked for a second time.
LEMMA PeopleInjective ==
  ASSUME NEW friends \in Lists, IsInjective(friends), NEW similar \in Lists
  PROVE  IsInjective(PeopleCandidates(friends, similar))
<1> DEFINE all == friends \o similar
           fresh == Fresh(similar, Range(friends))
           late == {Len(friends) + i : i \in fresh}
<1>1. friends \in Seq(Targets) /\ similar \in Seq(Targets)
  BY ListsAreSequences
<1>2. /\ Len(friends) \in Nat /\ DOMAIN friends = 1..Len(friends)
      /\ \A i \in 1..Len(friends) : all[i] = friends[i]
      /\ \A i \in 1..Len(similar) : all[Len(friends) + i] = similar[i]
  BY <1>1, ConcatProperties
<1>3. /\ fresh \subseteq 1..Len(similar)
      /\ \A i \in fresh : similar[i] \notin Range(friends)
      /\ \A i, k \in fresh : similar[i] = similar[k] => i = k
  BY <1>1, FreshOnce
<1> HIDE DEF all, fresh
<1>4. ASSUME NEW x \in DOMAIN friends, NEW i \in fresh
      PROVE  all[x] # all[Len(friends) + i]
  BY <1>2, <1>3 DEF Range
<1>5. ASSUME NEW x \in DOMAIN friends \cup late, NEW y \in DOMAIN friends \cup late, all[x] = all[y]
      PROVE  x = y
  <2>1. CASE x \in DOMAIN friends /\ y \in DOMAIN friends
    BY <1>2, <1>5, <2>1 DEF IsInjective
  <2>2. CASE x \in late /\ y \in late
    <3>1. PICK i \in fresh, k \in fresh : x = Len(friends) + i /\ y = Len(friends) + k
      BY <2>2
    <3>2. similar[i] = similar[k]
      BY <1>2, <1>3, <1>5, <3>1
    <3> QED BY <1>3, <3>1, <3>2
  <2>3. CASE x \in DOMAIN friends /\ y \in late
    BY <1>4, <1>5, <2>3
  <2>4. CASE x \in late /\ y \in DOMAIN friends
    BY <1>4, <1>5, <2>4
  <2> QED BY <2>1, <2>2, <2>3, <2>4
<1>6. PeopleCandidates(friends, similar) = [x \in DOMAIN friends \cup late |-> all[x]]
  BY DEF PeopleCandidates, Kept, Restrict, all, fresh
<1> HIDE DEF late
<1> QED BY <1>5, <1>6 DEF IsInjective

LEMMA CandidatesOnce ==
  ASSUME NEW kind \in Kinds, NEW list \in CandidateLists(kind)
  PROVE  IsInjective(list)
<1>1. CASE kind = "person"
  BY <1>1, PeopleInjective DEF CandidateLists
<1>2. ASSUME NEW own \in SUBSET Targets, NEW first \in Lists, NEW second \in Lists
      PROVE  IsInjective(ContentCandidates(own, first, second))
             /\ IsInjective(CommunityCandidates(own, first, second))
  <2>1. first \o second \in Seq(Targets)
    BY ListsAreSequences, ConcatProperties
  <2> QED BY <2>1, FreshInjective DEF ContentCandidates, CommunityCandidates
<1>3. CASE kind = "content"
  <2>1. list \in {ContentCandidates(own, engaged, popular) :
                    own \in SUBSET Targets, engaged \in Lists, popular \in Lists}
    BY <1>3 DEF CandidateLists
  <2> QED BY <1>2, <2>1
<1>4. CASE kind = "community"
  <2>1. list \in {CommunityCandidates(own, joined, matching) :
                    own \in SUBSET Targets, joined \in Lists, matching \in Lists}
    BY <1>4 DEF CandidateLists
  <2> QED BY <1>2, <2>1
<1> QED BY <1>1, <1>3, <1>4, RecommendationsAssumption

\* No branch ends with the same target twice.
LEMMA NothingTwice ==
  ASSUME NEW kind \in Kinds, NEW best \in Outcomes[kind]
  PROVE  best.twice = {}
<1>1. PICK list \in CandidateLists(kind) :
        \E kept \in SUBSET DOMAIN list : best = Best(list, kept)
  BY DEF Outcomes
<1>2. PICK kept \in SUBSET DOMAIN list : best = Best(list, kept)
  BY <1>1
<1>3. ASSUME NEW h \in kept, NEW g \in kept \ {h} PROVE list[g] # list[h]
  BY CandidatesOnce DEF IsInjective
<1>4. {h \in kept : \E g \in kept \ {h} : list[g] = list[h]} = {}
  BY <1>3
<1> QED BY <1>2, <1>4 DEF Best

\* What every step leaves: the jobs keep their users, and no row is taken away.
UsersKept ==
  /\ jobs' \in [Jobs -> Job \cup {None}]
  /\ \A j \in Jobs : jobs[j] # None => jobs'[j] # None /\ jobs'[j].user = jobs[j].user

\* A dismissal that a save undoes was made while the save was waiting.
CausesKept ==
  /\ failures' \in Nat /\ failures' >= failures
  /\ crowded \subseteq crowded'
  /\ \A r \in DOMAIN recommendations :
       /\ r \in DOMAIN recommendations'
       /\ recommendations[r].dismissed \/ r \in raced
            => recommendations'[r].dismissed \/ r \in raced'

LEMMA CauseStays ==
  ASSUME CausesKept, RecommendationsInv, NEW u, Cause(u)
  PROVE  Cause(u)'
<1>1. CASE failures > 0 \/ u \in crowded
  BY <1>1 DEF Cause, CausesKept, RecommendationsInv, RecommendationsTypes
<1>2. ASSUME NEW r \in Stored(u), recommendations[r].dismissed \/ r \in raced
      PROVE  Cause(u)'
  BY <1>2 DEF Cause, CausesKept, Stored
<1> QED BY <1>1, <1>2 DEF Cause

\* A branch that stands still.
LEMMA BranchKept ==
  ASSUME RecommendationsInv, UsersKept, NEW d \in Calls, pc'[d] = pc[d], hand'[d] = hand[d],
         pc[d] = "saveUpdates" =>
           \A r \in hand[d].update :
             r \in DOMAIN recommendations' /\ (recommendations'[r].dismissed => r \in raced')
  PROVE  BranchOK(d)'
<1>1. BranchOK(d)
  BY DEF RecommendationsInv
<1>2. CASE ~Busy(d)
  BY <1>2 DEF BranchOK, Busy
<1>3. CASE Busy(d)
  <2>1. PICK j \in Jobs : j = hand[d].job /\ jobs[j] # None
    BY <1>1, <1>3 DEF BranchOK
  <2>2. PICK u : u = jobs[j].user /\ u = jobs'[j].user /\ jobs'[j] # None
    BY <2>1 DEF UsersKept
  <2>3. UserOf(d) = u /\ UserOf(d)' = u
    BY <2>1, <2>2 DEF UserOf
  <2> QED BY <1>1, <1>3, <2>1, <2>2, <2>3 DEF BranchOK, Busy
<1> QED BY <1>2, <1>3

\* A user whose jobs are left alone.
LEMMA CalmKept ==
  ASSUME RecommendationsInv, UsersKept, NEW u, Calm(u),
         \A j \in Jobs : jobs'[j] # None /\ jobs'[j].user = u => jobs'[j] = jobs[j],
         branches' \subseteq branches,
         \A d \in Calls : Busy(d)' =>
           /\ Busy(d) /\ hand'[d].job = hand[d].job /\ hand'[d].kind = hand[d].kind
           /\ hand'[d].attempt = hand[d].attempt,
         InsertsCalm(u)'
  PROVE  Calm(u)'
<1>1. JobsCalm(u) /\ BranchesCalm(u)
  BY DEF Calm
<1>2. \A j \in Jobs : jobs[j] # None => jobs'[j] # None /\ jobs'[j].user = jobs[j].user
  BY DEF UsersKept
<1>3. JobsCalm(u)'
  BY <1>1, <1>2 DEF JobsCalm, InProgress
<1>4. ASSUME NEW b \in branches', jobs'[b[1]].user = u
      PROVE  b[2] = 1 /\ jobs'[b[1]].status = "active" /\ b[3] \notin jobs'[b[1]].done
  <2>1. b \in branches /\ b[1] \in Jobs /\ jobs[b[1]] # None
    BY DEF RecommendationsInv, RecommendationsTypes
  <2>2. PICK j \in Jobs : j = b[1] /\ jobs'[j] = jobs[j] /\ jobs[j].user = u
    BY <1>2, <1>4, <2>1
  <2> QED BY <1>1, <2>1, <2>2 DEF BranchesCalm
<1>5. ASSUME NEW c \in Calls, Busy(c)', UserOf(c)' = u
      PROVE  /\ hand'[c].attempt = 1 /\ jobs'[hand'[c].job].status = "active"
             /\ hand'[c].kind \notin jobs'[hand'[c].job].done
             /\ \A b \in branches' : b[1] = hand'[c].job => b[3] # hand'[c].kind
             /\ \A d \in Calls : Busy(d)' /\ hand'[d].job = hand'[c].job
                  /\ hand'[d].kind = hand'[c].kind
                                  => c = d
  <2>1. Busy(c) /\ hand[c].job \in Jobs /\ jobs[hand[c].job] # None
    BY <1>5 DEF RecommendationsInv, BranchOK
  <2>2. PICK j \in Jobs : j = hand[c].job /\ j = hand'[c].job /\ jobs'[j] = jobs[j]
             /\ jobs[j].user = u
    BY <1>2, <1>5, <2>1 DEF UserOf
  <2>3. UserOf(c) = u
    BY <2>2 DEF UserOf
  <2> QED BY <1>1, <1>5, <2>1, <2>2, <2>3 DEF BranchesCalm
<1>6. BranchesCalm(u)'
  BY <1>4, <1>5 DEF BranchesCalm
<1> QED BY <1>3, <1>6 DEF Calm

--------------------------------------------------------------------------------
(* The queue *)

\* The rows stay as they are.
LEMMA RowsAlone ==
  ASSUME RecommendationsInv, UNCHANGED <<recommendations, raced, failures>>,
         crowded \subseteq crowded'
  PROVE  CausesKept
BY DEF CausesKept, RecommendationsInv, RecommendationsTypes

LEMMA BranchesAlone ==
  ASSUME RecommendationsInv, UsersKept, UNCHANGED <<recommendations, raced, pc, hand>>
  PROVE  /\ \A d \in Calls : BranchOK(d)'
         /\ \A u : InsertsCalm(u) => InsertsCalm(u)'
<1>1. ASSUME NEW d \in Calls PROVE BranchOK(d)'
  <2>1. BranchOK(d)
    BY DEF RecommendationsInv
  <2> QED BY <2>1, BranchKept DEF BranchOK, Busy
<1>2. ASSUME NEW u, InsertsCalm(u), NEW c \in Calls, pc[c] \in {"saveUpdates", "saveInserts"},
             UserOf(c)' = u, NEW r \in hand[c].insert
      PROVE  r \notin DOMAIN recommendations
  <2>1. hand[c].job \in Jobs /\ jobs[hand[c].job] # None
    BY <1>2 DEF RecommendationsInv, BranchOK, Busy
  <2>2. UserOf(c) = u
    BY <1>2, <2>1 DEF UserOf, UsersKept
  <2> QED BY <1>2, <2>2 DEF InsertsCalm
<1>3. ASSUME NEW u, InsertsCalm(u) PROVE InsertsCalm(u)'
  BY <1>2, <1>3 DEF InsertsCalm
<1> QED BY <1>1, <1>3

LEMMA RefreshKeeps ==
  ASSUME RecommendationsInv, NEW j \in Jobs, NEW v \in Users, Refresh(j, v)
  PROVE  RecommendationsInv'
<1>1. PICK new : new = [user |-> v, attempt |-> 0, status |-> "waiting", done |-> {}]
  OBVIOUS
<1>2. new \in Job /\ new.user = v /\ new.attempt = 0 /\ new.status = "waiting" /\ new # None
  <2>1. new \in Job
    BY <1>1 DEF Job
  <2> QED BY <1>1, <2>1, RecommendationsAssumption
<1>3. /\ jobs[j] = None /\ jobs' = [jobs EXCEPT ![j] = new]
      /\ UNCHANGED <<recommendations, branches, raced, pc, hand, failures>>
  BY <1>1 DEF Refresh, serviceVars
<1>4. jobs'[j] = new /\ (\A i \in Jobs \ {j} : jobs'[i] = jobs[i]) /\ UsersKept
  BY <1>2, <1>3 DEF UsersKept, RecommendationsInv, RecommendationsTypes
<1>5. (\E i \in Jobs : InProgress(i) /\ jobs[i].user = v) => v \in crowded'
  BY DEF Refresh
<1>6. CausesKept
  BY <1>3, RowsAlone DEF Refresh
<1>7. (\A d \in Calls : BranchOK(d)') /\ RecommendationsTypes'
  BY <1>3, <1>4, BranchesAlone DEF RecommendationsInv, RecommendationsTypes, UsersKept
<1>8. ASSUME NEW u \in Users, Calm(u), ~Cause(u)' PROVE Calm(u)'
  <2>1. u = v => \A i \in Jobs : InProgress(i) => jobs[i].user # u
    BY <1>5, <1>6, <1>8 DEF Cause
  <2>2. JobsCalm(u)'
    <3>1. ASSUME NEW i \in Jobs, jobs'[i] # None, jobs'[i].user = u
          PROVE  \/ jobs'[i].status = "waiting" /\ jobs'[i].attempt = 0
                 \/ jobs'[i].status \in {"active", "completed"} /\ jobs'[i].attempt = 1
      BY <1>2, <1>4, <1>8, <3>1 DEF Calm, JobsCalm
    <3>2. ASSUME NEW i \in Jobs, NEW k \in Jobs, InProgress(i)', InProgress(k)',
                 jobs'[i].user = u, jobs'[k].user = u
          PROVE  i = k
      BY <1>2, <1>4, <1>8, <2>1, <3>2 DEF Calm, JobsCalm, InProgress
    <3> QED BY <3>1, <3>2 DEF JobsCalm
  <2>3. \A b \in branches : b[1] \in Jobs /\ b[1] # j
    BY <1>3 DEF RecommendationsInv, RecommendationsTypes
  <2>4. \A c \in Calls : Busy(c) => hand[c].job \in Jobs \ {j}
    BY <1>3 DEF RecommendationsInv, BranchOK
  <2>5. BranchesCalm(u)'
    BY <1>3, <1>4, <1>8, <2>3, <2>4 DEF Calm, BranchesCalm, Busy, UserOf
  <2> QED BY <1>3, <1>4, <1>8, <2>2, <2>5, BranchesAlone DEF Calm
<1> QED BY <1>6, <1>7, <1>8, CauseStays DEF RecommendationsInv

LEMMA StartKeepsCalm ==
  ASSUME RecommendationsInv, NEW j \in Jobs, StartAttempt(j)
  PROVE  RecommendationsInv'
<1>1. PICK old \in Job : old = jobs[j] /\ old.status = "waiting" /\ old # None
  BY DEF StartAttempt, RecommendationsInv, RecommendationsTypes
<1>2. PICK n \in Nat : n = old.attempt + 1
  <2>1. old.attempt + 1 \in Nat
    BY DEF Job
  <2> QED BY <2>1
<1>3. PICK new : new = [old EXCEPT !.attempt = n, !.status = "active", !.done = {}]
  OBVIOUS
<1>4. new \in Job /\ new.user = old.user /\ new.attempt = n /\ new.status = "active"
      /\ new.done = {}
  BY <1>3 DEF Job
<1>5. /\ jobs' = [jobs EXCEPT ![j].attempt = n, ![j].status = "active", ![j].done = {}]
      /\ branches' = branches \cup ({j} \X {n} \X Kinds)
      /\ UNCHANGED <<recommendations, raced, crowded, pc, hand, failures>>
  BY <1>1, <1>2 DEF StartAttempt, serviceVars
<1>6. jobs' = [jobs EXCEPT ![j] = new]
  BY <1>1, <1>3, <1>5 DEF RecommendationsInv, RecommendationsTypes
<1>7. jobs'[j] = new /\ (\A i \in Jobs \ {j} : jobs'[i] = jobs[i]) /\ new # None
  BY <1>4, <1>6, RecommendationsAssumption DEF RecommendationsInv, RecommendationsTypes
<1>8. UsersKept
  BY <1>1, <1>4, <1>6, <1>7 DEF UsersKept, RecommendationsInv, RecommendationsTypes
<1>9. CausesKept
  BY <1>5, RowsAlone
<1>10. \A b \in branches' : b \in branches \/ (b[1] = j /\ b[2] = n /\ b[3] \in Kinds)
  BY <1>5
<1>11. RecommendationsTypes'
  <2>1. branches' \subseteq Jobs \X Nat \X Kinds
    BY <1>5 DEF RecommendationsInv, RecommendationsTypes
  <2>2. \A b \in branches' : jobs'[b[1]] # None
    BY <1>7, <1>8, <1>10 DEF RecommendationsInv, RecommendationsTypes, UsersKept
  <2> QED BY <1>5, <1>8, <2>1, <2>2 DEF RecommendationsInv, RecommendationsTypes, UsersKept
<1>12. ASSUME NEW u \in Users, Calm(u) PROVE Calm(u)'
  <2>1. JobsCalm(u) /\ BranchesCalm(u)
    BY <1>12 DEF Calm
  <2>2. old.user = u => n = 1
    BY <1>1, <1>2, <2>1 DEF JobsCalm
  <2>3. \A b \in branches : b[1] = j => jobs[j].user # u
    BY <1>1, <2>1 DEF BranchesCalm
  <2>4. \A c \in Calls : Busy(c) /\ UserOf(c) = u => hand[c].job # j
    BY <1>1, <2>1 DEF BranchesCalm
  <2>5. JobsCalm(u)'
    BY <1>1, <1>4, <1>7, <2>1, <2>2 DEF JobsCalm, InProgress
  <2>6. ASSUME NEW b \in branches', jobs'[b[1]].user = u
        PROVE  b[2] = 1 /\ jobs'[b[1]].status = "active" /\ b[3] \notin jobs'[b[1]].done
    <3>1. CASE b \in branches
      <4>1. PICK i \in Jobs : i = b[1] /\ jobs[i] # None /\ jobs[i].user = u
        BY <1>8, <2>6, <3>1 DEF RecommendationsInv, RecommendationsTypes, UsersKept
      <4>2. i # j
        BY <2>3, <3>1, <4>1
      <4> QED BY <1>7, <2>1, <3>1, <4>1, <4>2 DEF BranchesCalm
    <3>2. CASE b[1] = j /\ b[2] = n
      BY <1>4, <1>7, <2>2, <2>6, <3>2
    <3> QED BY <1>10, <3>1, <3>2
  <2>7. ASSUME NEW c \in Calls, Busy(c), UserOf(c)' = u
        PROVE  /\ hand[c].attempt = 1 /\ jobs'[hand[c].job].status = "active"
               /\ hand[c].kind \notin jobs'[hand[c].job].done
               /\ \A b \in branches' : b[1] = hand[c].job => b[3] # hand[c].kind
               /\ \A d \in Calls : Busy(d) /\ hand[d].job = hand[c].job
                    /\ hand[d].kind = hand[c].kind
                                    => c = d
    <3>1. hand[c].job \in Jobs /\ jobs[hand[c].job] # None
      BY <2>7 DEF RecommendationsInv, BranchOK
    <3>2. UserOf(c) = u
      BY <1>5, <1>8, <2>7, <3>1 DEF UserOf, UsersKept
    <3>3. hand[c].job # j
      BY <2>4, <2>7, <3>2
    <3>4. jobs'[hand[c].job] = jobs[hand[c].job]
      BY <1>7, <3>1, <3>3
    <3> QED BY <1>10, <2>1, <2>7, <3>2, <3>3, <3>4 DEF BranchesCalm
  <2>8. BranchesCalm(u)'
    BY <1>5, <2>6, <2>7 DEF BranchesCalm, Busy
  <2> QED BY <1>5, <1>8, <1>12, <2>5, <2>8, BranchesAlone DEF Calm
<1> QED BY <1>5, <1>8, <1>9, <1>11, <1>12, CauseStays, BranchesAlone DEF RecommendationsInv

LEMMA GatherKeeps ==
  ASSUME RecommendationsInv, NEW c \in Calls, NEW j \in Jobs, NEW n \in 1..Attempts,
         NEW kind \in Kinds,
         Gather(c, j, n, kind)
  PROVE  RecommendationsInv'
<1>1. <<j, n, kind>> \in branches /\ jobs[j] # None /\ pc[c] = "idle"
  BY DEF Gather, Begin, Idle, RecommendationsInv, RecommendationsTypes
<1>2. PICK best \in Outcomes[kind] :
        LET row(t) == [user |-> jobs[j].user, kind |-> kind, target |-> t] IN
          Begin(c, "findExisting",
                [job |-> j, attempt |-> n, kind |-> kind,
                 found |-> {row(t) : t \in best.targets}, twice |-> {row(t) : t \in best.twice}])
  BY DEF Gather
<1>3. PICK found : found = {[user |-> jobs[j].user, kind |-> kind,
           target |-> t] : t \in best.targets}
  OBVIOUS
<1>4. PICK held : held = [job |-> j, attempt |-> n, kind |-> kind, found |-> found, twice |-> {}]
  OBVIOUS
<1>5. {[user |-> jobs[j].user, kind |-> kind, target |-> t] : t \in best.twice} = {}
  BY NothingTwice
<1>6. Begin(c, "findExisting", held)
  BY <1>2, <1>3, <1>4, <1>5
<1>7. /\ held.job = j /\ held.attempt = n /\ held.kind = kind /\ held.found = found
           /\ held.twice = {}
      /\ {"job", "attempt", "kind", "twice"} \subseteq DOMAIN held
  BY <1>4
<1>8. \A r \in found : Mine(r, jobs[j].user, kind)
  BY <1>3 DEF Mine
<1>9. /\ branches' = branches \ {<<j, n, kind>>}
      /\ UNCHANGED <<recommendations, jobs, raced, crowded, failures>>
      /\ OnlyOf(c) /\ pc'[c] = "findExisting" /\ hand'[c] = held
  BY <1>6 DEF Gather, Begin, OnlyOf, RecommendationsInv, RecommendationsTypes
<1>10. UsersKept /\ CausesKept /\ RecommendationsTypes'
  BY <1>9, RowsAlone DEF RecommendationsInv, RecommendationsTypes, UsersKept, OnlyOf
<1>11. ASSUME NEW d \in Calls PROVE BranchOK(d)'
  <2>1. CASE d = c
    <3>1. n \in Nat /\ UserOf(c)' = jobs[j].user
      BY <1>7, <1>9, RecommendationsAssumption DEF UserOf
    <3> QED BY <1>1, <1>7, <1>8, <1>9, <2>1, <3>1 DEF BranchOK, Busy
  <2>2. CASE d # c
    <3>1. BranchOK(d)
      BY DEF RecommendationsInv
    <3>2. pc'[d] = pc[d] /\ hand'[d] = hand[d]
      BY <1>9, <2>2 DEF OnlyOf
    <3> QED BY <1>9, <1>10, <3>1, <3>2, BranchKept DEF BranchOK, Busy
  <2> QED BY <2>1, <2>2
<1>12. ASSUME NEW u \in Users, Calm(u) PROVE Calm(u)'
  <2>1. JobsCalm(u) /\ BranchesCalm(u) /\ InsertsCalm(u)
    BY <1>12 DEF Calm
  <2>2. JobsCalm(u)'
    BY <1>9, <2>1 DEF JobsCalm, InProgress
  <2>3. InsertsCalm(u)'
    BY <1>9, <2>1 DEF InsertsCalm, UserOf, OnlyOf
  <2>4. PICK b0 \in branches : b0 = <<j, n, kind>> /\ b0[1] = j /\ b0[2] = n /\ b0[3] = kind
    BY <1>1
  <2>5. ASSUME jobs[j].user = u
        PROVE  /\ n = 1 /\ jobs[j].status = "active" /\ kind \notin jobs[j].done
               /\ \A d \in Calls : Busy(d) /\ hand[d].job = j => hand[d].kind # kind
    BY <2>1, <2>4, <2>5 DEF BranchesCalm, UserOf
  <2>6. ASSUME NEW b \in branches', b[1] = j PROVE b[3] # kind \/ jobs[j].user # u
    <3>1. CASE jobs[j].user = u /\ b[3] = kind
      <4>1. b[2] = 1 /\ n = 1
        BY <1>9, <2>1, <2>5, <2>6, <3>1 DEF BranchesCalm
      <4>2. b = <<b[1], b[2], b[3]>>
        BY <1>9 DEF RecommendationsInv, RecommendationsTypes
      <4> QED BY <1>9, <2>6, <3>1, <4>1, <4>2
    <3> QED BY <3>1
  <2>7. ASSUME NEW d \in Calls, Busy(d)', UserOf(d)' = u
        PROVE  /\ hand'[d].attempt = 1 /\ jobs[hand'[d].job].status = "active"
               /\ hand'[d].kind \notin jobs[hand'[d].job].done
               /\ \A b \in branches' : b[1] = hand'[d].job => b[3] # hand'[d].kind
               /\ \A e \in Calls : Busy(e)' /\ hand'[e].job = hand'[d].job
                    /\ hand'[e].kind = hand'[d].kind
                                    => d = e
    <3>1. CASE d = c
      <4>1. jobs[j].user = u
        BY <1>7, <1>9, <2>7, <3>1 DEF UserOf
      <4> QED BY <1>7, <1>9, <2>5, <2>6, <3>1, <4>1 DEF OnlyOf, Busy
    <3>2. CASE d # c
      <4>1. Busy(d) /\ hand'[d] = hand[d] /\ UserOf(d) = u
        BY <1>9, <2>7, <3>2 DEF OnlyOf, Busy, UserOf
      <4>2. hand[d].job = j => hand[d].kind # kind
        BY <2>5, <4>1 DEF UserOf
      <4> QED BY <1>7, <1>9, <2>1, <3>2, <4>1, <4>2 DEF BranchesCalm, OnlyOf, Busy
    <3> QED BY <3>1, <3>2
  <2>8. BranchesCalm(u)'
    BY <1>9, <2>1, <2>7 DEF BranchesCalm
  <2> QED BY <2>2, <2>3, <2>8 DEF Calm
<1> QED BY <1>10, <1>11, <1>12, CauseStays DEF RecommendationsInv

--------------------------------------------------------------------------------
(* The store *)

FoundKept ==
  /\ DOMAIN recommendations' = DOMAIN recommendations
  /\ UNCHANGED <<jobs, branches, crowded, failures, raced>>

\* A step of a branch that keeps its job, attempt and kind, and the set of rows.
LEMMA StoreStep ==
  ASSUME RecommendationsInv, FoundKept, CausesKept, NEW c \in Calls, OnlyOf(c), Busy(c),
         hand'[c].job = hand[c].job, hand'[c].kind = hand[c].kind,
             hand'[c].attempt = hand[c].attempt,
         \A r \in DOMAIN recommendations :
           /\ recommendations'[r] \in [dismissed: BOOLEAN]
           /\ recommendations'[r].dismissed => recommendations[r].dismissed,
         BranchOK(c)',
         \A u \in Users : ~Cause(u) /\ pc'[c] \in {"saveUpdates", "saveInserts"} /\ UserOf(c) = u =>
           \A r \in hand'[c].insert : r \notin DOMAIN recommendations
  PROVE  RecommendationsInv'
<1>1. UsersKept /\ RecommendationsTypes'
  BY DEF FoundKept, UsersKept, RecommendationsInv, RecommendationsTypes, OnlyOf
<1>2. ASSUME NEW d \in Calls \ {c} PROVE BranchOK(d)'
  <2>1. BranchOK(d)
    BY DEF RecommendationsInv
  <2>2. pc'[d] = pc[d] /\ hand'[d] = hand[d]
    BY DEF OnlyOf
  <2>3. pc[d] = "saveUpdates" => \A r \in hand[d].update :
          r \in DOMAIN recommendations' /\ (recommendations'[r].dismissed => r \in raced')
    BY <2>1 DEF BranchOK, Busy, FoundKept
  <2> QED BY <1>1, <2>2, <2>3, BranchKept
<1>3. ASSUME NEW u \in Users, Calm(u), ~Cause(u) PROVE Calm(u)'
  <2>1. ASSUME NEW d \in Calls, pc'[d] \in {"saveUpdates", "saveInserts"}, UserOf(d)' = u,
               NEW r \in hand'[d].insert
        PROVE  r \notin DOMAIN recommendations
    <3>1. CASE d = c
      BY <1>3, <2>1, <3>1 DEF FoundKept, UserOf
    <3>2. CASE d # c
      BY <1>3, <2>1, <3>2 DEF FoundKept, UserOf, OnlyOf, Calm, InsertsCalm
    <3> QED BY <3>1, <3>2
  <2>2. InsertsCalm(u)'
    BY <2>1 DEF InsertsCalm, FoundKept
  <2>3. \A d \in Calls : Busy(d)' =>
           /\ Busy(d) /\ hand'[d].job = hand[d].job /\ hand'[d].kind = hand[d].kind
           /\ hand'[d].attempt = hand[d].attempt
    BY DEF OnlyOf, Busy
  <2> QED BY <1>1, <1>3, <2>2, <2>3, CalmKept DEF FoundKept
<1> QED BY <1>1, <1>2, <1>3, CauseStays DEF RecommendationsInv

LEMMA FindKeeps ==
  ASSUME RecommendationsInv, NEW c \in Calls, FindExisting(c)
  PROVE  RecommendationsInv'
<1>1. PICK existing, old : /\ old = hand[c]
                           /\ existing = {r \in old.found \cap DOMAIN recommendations :
                                            ~recommendations[r].dismissed}
  OBVIOUS
<1>2. PICK held : held = [job |-> old.job, attempt |-> old.attempt, kind |-> old.kind,
                          twice |-> old.twice, update |-> existing, insert |-> old.found \ existing]
  OBVIOUS
<1>3. /\ held.job = old.job /\ held.attempt = old.attempt /\ held.kind = old.kind
      /\ held.twice = old.twice /\ held.update = existing /\ held.insert = old.found \ existing
      /\ {"job", "attempt", "kind", "twice", "update", "insert"} \subseteq DOMAIN held
  BY <1>2
<1>4. pc[c] = "findExisting" /\ Busy(c) /\ Go(c, "saveUpdates", held)
      /\ UNCHANGED recommendationsTables
  BY <1>1, <1>2 DEF FindExisting, Busy
<1>5. OnlyOf(c) /\ pc'[c] = "saveUpdates" /\ hand'[c] = held /\ UNCHANGED failures
  BY <1>4 DEF Go, OnlyOf, RecommendationsInv, RecommendationsTypes
<1>6. FoundKept /\ CausesKept
  BY <1>4, <1>5, RowsAlone DEF FoundKept, recommendationsTables
<1>7. BranchOK(c)
  BY DEF RecommendationsInv
<1>8. BranchOK(c)'
  <2>1. UserOf(c)' = UserOf(c)
    BY <1>1, <1>3, <1>5, <1>6 DEF UserOf, FoundKept
  <2>2. \A r \in existing : r \in DOMAIN recommendations /\ ~recommendations[r].dismissed
    BY <1>1
  <2> QED BY <1>1, <1>3, <1>4, <1>5, <1>7, <2>1, <2>2 DEF BranchOK, Busy, recommendationsTables
<1>9. ASSUME NEW u \in Users, ~Cause(u), UserOf(c) = u, NEW r \in old.found \ existing
      PROVE  r \notin DOMAIN recommendations
  <2>1. r.user = u
    BY <1>1, <1>4, <1>7, <1>9 DEF BranchOK, Mine
  <2> QED BY <1>1, <1>9, <2>1 DEF Cause, Stored
<1> QED BY <1>1, <1>3, <1>4, <1>5, <1>6, <1>8, <1>9, StoreStep
        DEF recommendationsTables, RecommendationsInv, RecommendationsTypes

LEMMA UpdateKeeps ==
  ASSUME RecommendationsInv, NEW c \in Calls, SaveUpdates(c)
  PROVE  RecommendationsInv'
<1>1. PICK old, held : old = hand[c] /\ held = [old EXCEPT !.update = {}]
  OBVIOUS
<1>2. pc[c] = "saveUpdates" /\ Busy(c) /\ BranchOK(c)
  BY DEF SaveUpdates, Busy, RecommendationsInv
<1>3. {"job", "attempt", "kind", "twice", "update", "insert"} \subseteq DOMAIN old
  BY <1>1, <1>2 DEF BranchOK
<1>4. /\ held.job = old.job /\ held.attempt = old.attempt /\ held.kind = old.kind
      /\ held.twice = old.twice /\ held.insert = old.insert
      /\ {"job", "attempt", "kind", "twice", "update", "insert"} \subseteq DOMAIN held
  BY <1>1, <1>3
<1>5. /\ recommendations' = Saved(old.update) /\ Go(c, "saveInserts", held)
      /\ UNCHANGED <<jobs, branches, raced, crowded>>
  BY <1>1 DEF SaveUpdates
<1>6. OnlyOf(c) /\ pc'[c] = "saveInserts" /\ hand'[c] = held /\ UNCHANGED failures
  BY <1>5 DEF Go, OnlyOf, RecommendationsInv, RecommendationsTypes
<1>7. \A r \in old.update : r \in DOMAIN recommendations
      /\ (recommendations[r].dismissed => r \in raced)
  BY <1>1, <1>2 DEF BranchOK
<1>8. /\ DOMAIN recommendations' = DOMAIN recommendations
      /\ \A r \in DOMAIN recommendations :
           recommendations'[r] = IF r \in old.update THEN [dismissed |-> FALSE] ELSE recommendations[r]
  BY <1>5, <1>7 DEF Saved
<1>9. FoundKept
  BY <1>5, <1>6, <1>8 DEF FoundKept
<1>10. CausesKept
  BY <1>5, <1>6, <1>7, <1>8 DEF CausesKept, RecommendationsInv, RecommendationsTypes
<1>11. BranchOK(c)'
  <2>1. UserOf(c)' = UserOf(c)
    BY <1>1, <1>4, <1>5, <1>6 DEF UserOf
  <2> QED BY <1>1, <1>2, <1>4, <1>5, <1>6, <2>1 DEF BranchOK, Busy
<1>12. \A r \in DOMAIN recommendations :
         /\ recommendations'[r] \in [dismissed: BOOLEAN]
         /\ recommendations'[r].dismissed => recommendations[r].dismissed
  <2>1. ASSUME NEW r \in DOMAIN recommendations
        PROVE  /\ recommendations'[r] \in [dismissed: BOOLEAN]
               /\ recommendations'[r].dismissed => recommendations[r].dismissed
    <3>1. CASE r \in old.update
      <4>1. recommendations'[r] = [dismissed |-> FALSE]
        BY <1>8, <3>1
      <4> QED BY <4>1
    <3>2. CASE r \notin old.update
      BY <1>8, <3>2 DEF RecommendationsInv, RecommendationsTypes
    <3> QED BY <3>1, <3>2
  <2> QED BY <2>1
<1>13. ASSUME NEW u \in Users, ~Cause(u), UserOf(c) = u, NEW r \in held.insert
       PROVE  r \notin DOMAIN recommendations
  BY <1>1, <1>2, <1>4, <1>13 DEF RecommendationsInv, Calm, InsertsCalm
<1> QED BY <1>1, <1>2, <1>4, <1>6, <1>9, <1>10, <1>11, <1>12, <1>13, StoreStep

\* A dismissal: a cause for the user, and noted if a save is to undo it.
LEMMA DismissKeeps ==
  ASSUME RecommendationsInv, NEW x \in Row, Dismiss(x)
  PROVE  RecommendationsInv'
<1>1. /\ x \in DOMAIN recommendations
      /\ recommendations' = [recommendations EXCEPT ![x].dismissed = TRUE]
      /\ UNCHANGED <<jobs, branches, crowded, pc, hand, failures>>
  BY DEF Dismiss, serviceVars
<1>2. /\ DOMAIN recommendations' = DOMAIN recommendations
      /\ \A r \in DOMAIN recommendations : recommendations'[r] \in [dismissed: BOOLEAN]
      /\ recommendations'[x].dismissed
      /\ \A r \in DOMAIN recommendations \ {x} : recommendations'[r] = recommendations[r]
  BY <1>1 DEF RecommendationsInv, RecommendationsTypes
<1>3. /\ \A r : r # x => (r \in raced' <=> r \in raced)
      /\ \A c \in Calls : pc[c] = "saveUpdates" /\ x \in hand[c].update => x \in raced'
  BY DEF Dismiss
<1>4. RecommendationsTypes' /\ UsersKept
  BY <1>1, <1>2 DEF RecommendationsInv, RecommendationsTypes, UsersKept
<1>5. CausesKept
  BY <1>1, <1>2, <1>3 DEF CausesKept, RecommendationsInv, RecommendationsTypes
<1>6. ASSUME NEW d \in Calls PROVE BranchOK(d)'
  <2>1. BranchOK(d)
    BY DEF RecommendationsInv
  <2>2. pc[d] = "saveUpdates" => \A r \in hand[d].update :
          r \in DOMAIN recommendations' /\ (recommendations'[r].dismissed => r \in raced')
    BY <1>2, <1>3, <2>1 DEF BranchOK, Busy
  <2> QED BY <1>1, <1>4, <2>2, BranchKept
<1>7. ASSUME NEW u \in Users, Calm(u) PROVE Calm(u)'
  BY <1>1, <1>2, <1>7 DEF Calm, JobsCalm, BranchesCalm, InsertsCalm, InProgress, Busy, UserOf
<1> QED BY <1>4, <1>5, <1>6, <1>7, CauseStays DEF RecommendationsInv

\* What the end of a branch does to its job.
LEMMA JobNoted ==
  ASSUME RecommendationsInv, NEW j \in Jobs, jobs[j] # None, NEW n, NEW kind \in Kinds,
         Succeeded(j, n, kind) \/ Failed(j, n)
  PROVE  UsersKept /\ \A i \in Jobs \ {j} : jobs'[i] = jobs[i]
<1>1. PICK old \in Job : old = jobs[j]
  BY DEF RecommendationsInv, RecommendationsTypes
<1>2. CASE jobs' = jobs
  BY <1>2 DEF UsersKept, RecommendationsInv, RecommendationsTypes
<1>3. ASSUME NEW new \in Job, new.user = old.user, jobs' = [jobs EXCEPT ![j] = new]
      PROVE  UsersKept /\ \A i \in Jobs \ {j} : jobs'[i] = jobs[i]
  BY <1>1, <1>3, RecommendationsAssumption DEF UsersKept, RecommendationsInv, RecommendationsTypes
<1>4. CASE Succeeded(j, n, kind) /\ jobs' # jobs
  <2>1. PICK new : new = [old EXCEPT !.done = old.done \cup {kind},
                                     !.status = IF old.done \cup {kind} = Kinds
                                                THEN "completed" ELSE "active"]
    OBVIOUS
  <2>2. new \in Job /\ new.user = old.user
    BY <2>1 DEF Job
  <2>3. jobs' = [jobs EXCEPT ![j] = new]
    BY <1>1, <1>4, <2>1 DEF Succeeded, RecommendationsInv, RecommendationsTypes
  <2> QED BY <1>3, <2>2, <2>3
<1>5. CASE Failed(j, n) /\ jobs' # jobs
  <2>1. PICK new : new = [old EXCEPT !.status = IF n < Attempts THEN "waiting" ELSE "failed"]
    OBVIOUS
  <2>2. new \in Job /\ new.user = old.user
    BY <2>1 DEF Job
  <2>3. jobs' = [jobs EXCEPT ![j] = new]
    BY <1>1, <1>5, <2>1 DEF Failed, RecommendationsInv, RecommendationsTypes
  <2> QED BY <1>3, <2>2, <2>3
<1> QED BY <1>2, <1>4, <1>5

\* A success of the first attempt of a job.
LEMMA DoneNoted ==
  ASSUME RecommendationsInv, NEW j \in Jobs, jobs[j] # None, NEW kind \in Kinds,
         jobs[j].status = "active", jobs[j].attempt = 1, Succeeded(j, 1, kind)
  PROVE  /\ jobs'[j].attempt = 1 /\ jobs'[j].done = jobs[j].done \cup {kind}
         /\ jobs'[j].status = IF jobs'[j].done = Kinds THEN "completed" ELSE "active"
<1>1. PICK old \in Job : old = jobs[j]
  BY DEF RecommendationsInv, RecommendationsTypes
<1>2. PICK new : new = [old EXCEPT !.done = old.done \cup {kind},
                                   !.status = IF old.done \cup {kind} = Kinds
                                              THEN "completed" ELSE "active"]
  OBVIOUS
<1>3. /\ new.attempt = old.attempt /\ new.done = old.done \cup {kind}
      /\ new.status = IF new.done = Kinds THEN "completed" ELSE "active"
  BY <1>2 DEF Job
<1>4. jobs' = [jobs EXCEPT ![j] = new]
  BY <1>1, <1>2 DEF Succeeded, RecommendationsInv, RecommendationsTypes
<1> QED BY <1>1, <1>3, <1>4 DEF RecommendationsInv, RecommendationsTypes

\* A call that ends leaves the others.
LEMMA OthersLeft ==
  ASSUME RecommendationsInv, UsersKept, NEW c \in Calls, OnlyOf(c), pc'[c] = "idle",
         UNCHANGED raced,
         \A r \in DOMAIN recommendations : r \in DOMAIN recommendations'
             /\ recommendations'[r] = recommendations[r]
  PROVE  \A d \in Calls : BranchOK(d)'
<1>1. ASSUME NEW d \in Calls PROVE BranchOK(d)'
  <2>1. CASE d = c
    BY <2>1 DEF BranchOK, Busy
  <2>2. CASE d # c
    <3>1. BranchOK(d)
      BY DEF RecommendationsInv
    <3>2. pc'[d] = pc[d] /\ hand'[d] = hand[d]
      BY <2>2 DEF OnlyOf
    <3>3. pc[d] = "saveUpdates" => \A r \in hand[d].update :
            r \in DOMAIN recommendations' /\ (recommendations'[r].dismissed => r \in raced')
      BY <3>1 DEF BranchOK, Busy
    <3> QED BY <3>2, <3>3, BranchKept
  <2> QED BY <2>1, <2>2
<1> QED BY <1>1

LEMMA InsertKeepsRows ==
  ASSUME RecommendationsInv, NEW c \in Calls, SaveInserts(c)
  PROVE  RecommendationsInv'
<1>1. PICK j \in Jobs, kind \in Kinds :
        j = hand[c].job /\ kind = hand[c].kind /\ jobs[j] # None
  BY DEF SaveInserts, RecommendationsInv, BranchOK, Busy
<1>2. PICK n, rows, v : n = hand[c].attempt /\ rows = hand[c].insert /\ v = jobs[j].user
  OBVIOUS
<1>3. /\ pc[c] = "saveInserts" /\ Busy(c) /\ UserOf(c) = v /\ hand[c].twice = {}
      /\ \A r \in rows : Mine(r, v, kind)
  BY <1>1, <1>2 DEF SaveInserts, RecommendationsInv, BranchOK, Busy, UserOf
<1>4. /\ OnlyOf(c) /\ pc'[c] = "idle" /\ UNCHANGED <<branches, raced, crowded, failures>>
  BY DEF SaveInserts, End, Go, OnlyOf, RecommendationsInv, RecommendationsTypes
<1>5. \/ /\ rows \cap (DOMAIN recommendations \cup hand[c].twice) # {}
         /\ recommendations' = recommendations /\ Failed(j, n)
      \/ /\ rows \cap (DOMAIN recommendations \cup hand[c].twice) = {}
         /\ recommendations' = Saved(rows) /\ Succeeded(j, n, kind)
  BY <1>1, <1>2 DEF SaveInserts
<1>6. UsersKept /\ \A i \in Jobs \ {j} : jobs'[i] = jobs[i]
  BY <1>1, <1>5, JobNoted
<1>7. /\ \A r \in DOMAIN recommendations : r \in DOMAIN recommendations'
           /\ recommendations'[r] = recommendations[r]
      /\ DOMAIN recommendations' \subseteq DOMAIN recommendations \cup rows
      /\ \A r \in DOMAIN recommendations' : recommendations'[r] \in [dismissed: BOOLEAN]
  <2>1. CASE recommendations' = recommendations
    BY <2>1 DEF RecommendationsInv, RecommendationsTypes
  <2>2. CASE recommendations' = Saved(rows) /\ rows \cap DOMAIN recommendations = {}
    <3>1. \A r \in DOMAIN recommendations' :
            recommendations'[r] = IF r \in rows THEN [dismissed |-> FALSE] ELSE recommendations[r]
      BY <2>2 DEF Saved
    <3>2. [dismissed |-> FALSE] \in [dismissed: BOOLEAN]
      OBVIOUS
    <3>3. DOMAIN recommendations' = DOMAIN recommendations \cup rows
      BY <2>2 DEF Saved
    <3> QED BY <2>2, <3>1, <3>2, <3>3 DEF RecommendationsInv, RecommendationsTypes
  <2> QED BY <1>5, <2>1, <2>2
<1>8. RecommendationsTypes' /\ CausesKept
  BY <1>4, <1>6, <1>7 DEF RecommendationsInv, RecommendationsTypes, UsersKept, CausesKept, OnlyOf
<1>9. \A d \in Calls : BranchOK(d)'
  BY <1>4, <1>6, <1>7, OthersLeft
<1>10. ASSUME NEW d \in Calls, Busy(d)'
       PROVE  /\ d # c /\ Busy(d) /\ hand'[d] = hand[d] /\ pc'[d] = pc[d]
              /\ hand[d].job \in Jobs /\ jobs[hand[d].job] # None /\ UserOf(d)' = UserOf(d)
              /\ pc[d] \in {"saveUpdates", "saveInserts"} =>
                   \A r \in hand[d].insert : Mine(r, UserOf(d), hand[d].kind)
  <2>1. d # c /\ Busy(d) /\ hand'[d] = hand[d] /\ pc'[d] = pc[d]
    BY <1>4, <1>10 DEF OnlyOf, Busy
  <2>2. BranchOK(d)
    BY DEF RecommendationsInv
  <2> QED BY <1>6, <2>1, <2>2 DEF BranchOK, UserOf, UsersKept
<1>11. ASSUME NEW u \in Users, Calm(u), u # v PROVE Calm(u)'
  <2>1. InsertsCalm(u)'
    <3>1. ASSUME NEW d \in Calls, pc'[d] \in {"saveUpdates", "saveInserts"}, UserOf(d)' = u,
                 NEW r \in hand'[d].insert
          PROVE  r \notin DOMAIN recommendations'
      <4>1. Busy(d)'
        BY <3>1 DEF Busy
      <4>2. r.user = u /\ r \notin DOMAIN recommendations
        BY <1>10, <1>11, <3>1, <4>1 DEF Mine, Calm, InsertsCalm
      <4>3. r \notin rows
        BY <1>3, <1>11, <4>2 DEF Mine
      <4> QED BY <1>7, <4>2, <4>3
    <3> QED BY <3>1 DEF InsertsCalm
  <2>2. \A i \in Jobs : jobs'[i] # None /\ jobs'[i].user = u => jobs'[i] = jobs[i]
    BY <1>1, <1>2, <1>6, <1>11 DEF UsersKept
  <2> QED BY <1>4, <1>6, <1>10, <1>11, <2>1, <2>2, CalmKept
<1>12. ASSUME v \in Users, Calm(v), ~Cause(v) PROVE Calm(v)'
  <2>1. JobsCalm(v) /\ BranchesCalm(v) /\ InsertsCalm(v)
    BY <1>12 DEF Calm
  <2>2. /\ n = 1 /\ jobs[j].status = "active" /\ kind \notin jobs[j].done
        /\ \A b \in branches : b[1] = j => b[3] # kind
        /\ \A d \in Calls : Busy(d) /\ hand[d].job = j /\ hand[d].kind = kind => c = d
    BY <1>1, <1>2, <1>3, <2>1 DEF BranchesCalm
  <2>3. \A r \in rows : r \notin DOMAIN recommendations
    BY <1>2, <1>3, <2>1 DEF InsertsCalm
  <2>4. Succeeded(j, 1, kind)
    BY <1>3, <1>5, <2>2, <2>3
  <2>5. jobs[j].attempt = 1
    BY <1>1, <1>2, <2>1, <2>2 DEF JobsCalm
  <2>6. /\ jobs'[j].attempt = 1 /\ jobs'[j].done = jobs[j].done \cup {kind}
        /\ jobs'[j].status = IF jobs'[j].done = Kinds THEN "completed" ELSE "active"
    BY <1>1, <2>2, <2>4, <2>5, DoneNoted
  <2>7. \A i \in Jobs : InProgress(i) /\ jobs[i].user = v => i = j
    BY <1>1, <1>2, <2>1, <2>2 DEF JobsCalm, InProgress
  <2>8. JobsCalm(v)'
    <3>1. ASSUME NEW i \in Jobs, jobs'[i] # None, jobs'[i].user = v
          PROVE  \/ jobs'[i].status = "waiting" /\ jobs'[i].attempt = 0
                 \/ jobs'[i].status \in {"active", "completed"} /\ jobs'[i].attempt = 1
      BY <1>6, <2>1, <2>6, <3>1 DEF JobsCalm, UsersKept
    <3>2. ASSUME NEW i \in Jobs, InProgress(i)', jobs'[i].user = v PROVE i = j
      BY <1>6, <2>7, <3>2 DEF InProgress, UsersKept
    <3> QED BY <3>1, <3>2 DEF JobsCalm
  <2>9. ASSUME NEW i \in Jobs, jobs'[i].user = v, jobs[i] # None, jobs[i].status = "active",
               NEW k \in Kinds, k \notin jobs[i].done, k # kind
        PROVE  i = j /\ jobs'[i].status = "active" /\ k \notin jobs'[i].done
    <3>1. i = j
      BY <1>6, <2>7, <2>9 DEF InProgress, UsersKept
    <3>2. k \notin jobs'[j].done
      BY <2>6, <2>9, <3>1
    <3> QED BY <2>6, <3>1, <3>2
  <2>10. ASSUME NEW b \in branches', jobs'[b[1]].user = v
         PROVE  b[2] = 1 /\ jobs'[b[1]].status = "active" /\ b[3] \notin jobs'[b[1]].done
    <3>1. b \in branches /\ b[1] \in Jobs /\ b[3] \in Kinds /\ jobs[b[1]] # None
      BY <1>4 DEF RecommendationsInv, RecommendationsTypes
    <3>2. jobs[b[1]].user = v
      BY <1>6, <2>10, <3>1 DEF UsersKept
    <3>3. b[2] = 1 /\ jobs[b[1]].status = "active" /\ b[3] \notin jobs[b[1]].done
      BY <2>1, <3>1, <3>2 DEF BranchesCalm
    <3>4. b[1] = j
      BY <2>7, <3>1, <3>2, <3>3 DEF InProgress
    <3> QED BY <2>2, <2>9, <2>10, <3>1, <3>3, <3>4
  <2>11. ASSUME NEW d \in Calls, Busy(d)', UserOf(d)' = v
         PROVE  /\ hand'[d].attempt = 1 /\ jobs'[hand'[d].job].status = "active"
                /\ hand'[d].kind \notin jobs'[hand'[d].job].done
                /\ \A b \in branches' : b[1] = hand'[d].job => b[3] # hand'[d].kind
                /\ \A e \in Calls : Busy(e)' /\ hand'[e].job = hand'[d].job
                     /\ hand'[e].kind = hand'[d].kind
                                     => d = e
    <3>0. PICK k : k = hand[d].kind
      OBVIOUS
    <3>1. PICK i \in Jobs : i = hand[d].job /\ k = hand[d].kind
      BY <1>10, <2>11, <3>0
    <3>2. d # c /\ Busy(d) /\ hand'[d] = hand[d] /\ UserOf(d) = v /\ jobs[i] # None
      BY <1>10, <2>11, <3>1
    <3>3. k \in Kinds
      BY <3>1, <3>2 DEF RecommendationsInv, BranchOK
    <3>4. /\ hand[d].attempt = 1 /\ jobs[i].status = "active" /\ k \notin jobs[i].done
          /\ \A b \in branches : b[1] = i => b[3] # k
          /\ \A e \in Calls : Busy(e) /\ hand[e].job = i /\ hand[e].kind = k => d = e
      BY <2>1, <3>1, <3>2 DEF BranchesCalm
    <3>5. i = j
      BY <2>7, <3>1, <3>2, <3>4 DEF InProgress, UserOf
    <3>6. k # kind
      BY <2>2, <3>1, <3>2, <3>5
    <3>7. jobs'[i].user = v
      BY <2>11, <3>1, <3>2 DEF UserOf
    <3>8. jobs'[i].status = "active" /\ k \notin jobs'[i].done
      BY <2>9, <3>2, <3>3, <3>4, <3>6, <3>7
    <3> QED BY <1>4, <1>10, <3>1, <3>2, <3>4, <3>8
  <2>12. BranchesCalm(v)'
    BY <2>10, <2>11 DEF BranchesCalm
  <2>13. InsertsCalm(v)'
    <3>1. ASSUME NEW d \in Calls, pc'[d] \in {"saveUpdates", "saveInserts"}, UserOf(d)' = v,
                 NEW r \in hand'[d].insert
          PROVE  r \notin DOMAIN recommendations'
      <4>1. Busy(d)'
        BY <3>1 DEF Busy
      <4>2. /\ d # c /\ Busy(d) /\ hand'[d] = hand[d] /\ pc'[d] = pc[d] /\ UserOf(d) = v
            /\ Mine(r, v, hand[d].kind) /\ hand[d].job \in Jobs /\ jobs[hand[d].job] # None
        BY <1>10, <3>1, <4>1
      <4>3. r \notin DOMAIN recommendations
        BY <2>1, <3>1, <4>2 DEF InsertsCalm
      <4>4. jobs[hand[d].job].status = "active"
        BY <2>1, <4>2 DEF BranchesCalm
      <4>5. hand[d].job = j
        BY <2>7, <4>2, <4>4 DEF InProgress, UserOf
      <4>6. r \notin rows
        BY <1>3, <2>2, <4>2, <4>5 DEF Mine
      <4> QED BY <1>7, <4>3, <4>6
    <3> QED BY <3>1 DEF InsertsCalm
  <2> QED BY <2>8, <2>12, <2>13 DEF Calm
<1> QED BY <1>8, <1>9, <1>11, <1>12, CauseStays DEF RecommendationsInv

LEMMA FailKeeps ==
  ASSUME RecommendationsInv, NEW c \in Calls, BranchFail(c)
  PROVE  RecommendationsInv'
<1>1. /\ OnlyOf(c) /\ Busy(c) /\ pc'[c] = "idle" /\ failures' = failures + 1
      /\ UNCHANGED <<recommendations, branches, raced, crowded>>
      /\ Failed(hand[c].job, hand[c].attempt)
  BY DEF BranchFail, Fail, Reject, Idle, Busy, OnlyOf, RecommendationsInv, RecommendationsTypes
<1>2. PICK j \in Jobs : j = hand[c].job /\ jobs[j] # None
  BY <1>1 DEF RecommendationsInv, BranchOK
<1>3. hand[c].kind \in Kinds
  BY <1>1 DEF RecommendationsInv, BranchOK
<1>4. UsersKept
  BY <1>1, <1>2, <1>3, JobNoted
<1>5. failures' \in Nat /\ failures' > 0 /\ \A u : Cause(u)'
  BY <1>1 DEF RecommendationsInv, RecommendationsTypes, Cause
<1>6. RecommendationsTypes'
  BY <1>1, <1>4, <1>5 DEF RecommendationsInv, RecommendationsTypes, UsersKept, OnlyOf
<1>7. \A d \in Calls : BranchOK(d)'
  BY <1>1, <1>4, OthersLeft
<1> QED BY <1>5, <1>6, <1>7 DEF RecommendationsInv

--------------------------------------------------------------------------------
LEMMA RecommendationsInitOK == RecommendationsInit => RecommendationsInv
<1> SUFFICES ASSUME RecommendationsInit PROVE RecommendationsInv
  OBVIOUS
<1> USE DEF RecommendationsInit, ServiceInit
<1>1. DOMAIN recommendations = {}
  OBVIOUS
<1>2. RecommendationsTypes
  BY <1>1 DEF RecommendationsTypes
<1>3. ASSUME NEW c \in Calls PROVE ~Busy(c)
  BY DEF Busy
<1>4. ASSUME NEW u PROVE Calm(u)
  BY <1>1, <1>3 DEF Calm, JobsCalm, BranchesCalm, InsertsCalm, InProgress, Busy
<1> QED BY <1>2, <1>3, <1>4 DEF RecommendationsInv, BranchOK

LEMMA RecommendationsKept == RecommendationsInv /\ [RecommendationsNext]_recommendationsVars
    => RecommendationsInv'
<1> SUFFICES ASSUME RecommendationsInv, [RecommendationsNext]_recommendationsVars
             PROVE  RecommendationsInv'
  OBVIOUS
<1>1. CASE UNCHANGED recommendationsVars
  BY <1>1 DEF recommendationsVars, recommendationsTables, serviceVars, RecommendationsInv,
     RecommendationsTypes, BranchOK, Busy, UserOf, Mine, Cause, Stored, Calm, JobsCalm,
     BranchesCalm, InsertsCalm, InProgress
<1>2. ASSUME NEW j \in Jobs, StartAttempt(j) \/ \E u \in Users : Refresh(j, u)
      PROVE  RecommendationsInv'
  BY <1>2, StartKeepsCalm, RefreshKeeps
<1>3. ASSUME NEW r \in Row, Dismiss(r) PROVE RecommendationsInv'
  BY <1>3, DismissKeeps
<1>4. ASSUME NEW c \in Calls,
             \/ \E j \in Jobs, n \in 1..Attempts, kind \in Kinds : Gather(c, j, n, kind)
             \/ FindExisting(c) \/ SaveUpdates(c) \/ SaveInserts(c) \/ BranchFail(c)
      PROVE  RecommendationsInv'
  BY <1>4, GatherKeeps, FindKeeps, UpdateKeeps, InsertKeepsRows, FailKeeps
<1> QED BY <1>1, <1>2, <1>3, <1>4 DEF RecommendationsNext

LEMMA RecommendationsHold == RecommendationsSpec => []RecommendationsInv
BY RecommendationsInitOK, RecommendationsKept, PTL DEF RecommendationsSpec

\* A refresh is given up only for a cause: without a failure of the store, two
\* jobs of the user at a time or a dismissal, the unique index refuses no insert
\* of any branch of any user.
THEOREM NeverInVain == RecommendationsSpec => []GivenUpForCause
<1>1. RecommendationsInv => GivenUpForCause
  <2> SUFFICES ASSUME RecommendationsInv, NEW j \in Jobs, jobs[j] # None, jobs[j].status = "failed"
               PROVE  Cause(jobs[j].user)
    BY DEF GivenUpForCause, Cause
  <2>1. PICK u \in Users : u = jobs[j].user
    BY DEF RecommendationsInv, RecommendationsTypes, Job
  <2>2. ~Calm(u)
    BY <2>1 DEF Calm, JobsCalm
  <2> QED BY <2>1, <2>2 DEF RecommendationsInv
<1> QED BY <1>1, RecommendationsHold, PTL

LEMMA DismissedStays ==
  ASSUME RecommendationsInv, [RecommendationsNext]_recommendationsVars, NEW u \in Users,
         NEW r \in Stored(u),
         recommendations[r].dismissed, r \in ListFor(u)'
  PROVE  r \in raced
<1>1. r \in DOMAIN recommendations /\ ~recommendations'[r].dismissed
  BY DEF Stored, ListFor
<1>2. recommendations' # recommendations
  BY <1>1
<1>3. ASSUME NEW x \in Row, Dismiss(x) PROVE FALSE
  BY <1>1, <1>3 DEF Dismiss, RecommendationsInv, RecommendationsTypes
<1>4. ASSUME NEW c \in Calls, SaveUpdates(c) PROVE r \in raced
  <2>1. recommendations' = Saved(hand[c].update) /\ pc[c] = "saveUpdates"
    BY <1>4 DEF SaveUpdates
  <2>2. r \in hand[c].update
    BY <1>1, <2>1 DEF Saved
  <2> QED BY <1>1, <2>1, <2>2 DEF RecommendationsInv, BranchOK, Busy
<1>5. ASSUME NEW c \in Calls, SaveInserts(c) PROVE FALSE
  <2>1. recommendations' = Saved(hand[c].insert) /\ r \notin hand[c].insert
    BY <1>1, <1>2, <1>5 DEF SaveInserts
  <2> QED BY <1>1, <2>1 DEF Saved
<1>6. CASE \/ \E j \in Jobs : StartAttempt(j) \/ \E v \in Users : Refresh(j, v)
           \/ \E c \in Calls :
                \/ \E j \in Jobs, n \in 1..Attempts, kind \in Kinds : Gather(c, j, n, kind)
                \/ FindExisting(c) \/ BranchFail(c)
  BY <1>2, <1>6 DEF StartAttempt, Refresh, Gather, FindExisting, BranchFail, recommendationsTables
<1>7. CASE UNCHANGED recommendationsVars
  BY <1>2, <1>7 DEF recommendationsVars, recommendationsTables
<1> QED BY <1>3, <1>4, <1>5, <1>6, <1>7 DEF RecommendationsNext

\* What a user has dismissed is shown again only if it was dismissed while a
\* refresh was about to save the row as it had read it.
THEOREM DismissalStands == RecommendationsSpec => DismissalHolds
<1>1. RecommendationsInv /\ [RecommendationsNext]_recommendationsVars =>
        [\A u \in Users : \A r \in Stored(u) :
           recommendations[r].dismissed /\ r \in ListFor(u)' => r \in raced]_recommendationsVars
  BY DismissedStays
<1> QED BY <1>1, RecommendationsHold, PTL DEF RecommendationsSpec, DismissalHolds
================================================================================
