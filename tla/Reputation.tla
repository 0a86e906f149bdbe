------------------------------- MODULE Reputation --------------------------------
(***************************************************************************)
(* The reputation of a user: its score and level, the settings that weigh  *)
(* the score, the verification of the user and the badges.  Every save     *)
(* writes an entity read some awaits before over the row; one that has     *)
(* been read with its verifications detaches those stored since, whose     *)
(* reputationId may not be null, and is refused.                           *)
(*                                                                         *)
(* The factor services, the fraud checks and the verification provider are *)
(* given their results at will.  Abstracted: the history, which only the   *)
(* fraud checks and the trends read, and all metadata.  A weight is any    *)
(* number of tenths, and a score a whole number.                           *)
(***************************************************************************)
EXTENDS Service, Integers

CONSTANTS
  ReputationIds, VerificationIds, BadgeIds,
  Metrics,      \* bound: the results of the three factors, each 0 to 100
  Weightings,   \* bound: the weights of a change of the settings, of some factors
  BadgeTypes

Factors == {"transaction", "activity", "social"}
DefaultWeights == [transaction |-> 4, activity |-> 3, social |-> 3]
Providers == {"blockchain"}
VerificationTypes == Providers \cup {"other"}

ReputationRow == [user: Users, metrics: [Factors -> 0..100], weights: [Factors -> Int],
                  score: 0..100, level: 0..5, verified: BOOLEAN]
Verification == [reputation: ReputationIds, type: VerificationTypes,
                 status: {"PENDING", "VERIFIED", "REJECTED", "FAILED"}]
Badge == [user: Users, type: BadgeTypes, status: {"IN_PROGRESS", "AWARDED"}]

ASSUME ReputationAssumption ==
  /\ Metrics \subseteq [Factors -> 0..100]
  /\ \A w \in Weightings : w \in [DOMAIN w -> Int]
  /\ None \notin Weightings
  /\ None \notin ReputationRow \cup Verification \cup Badge

VARIABLES
  reputations,     \* userId has no unique index
  verifications,
  badges,
  earned,          \* history: users a calculation has found at 40 or more
  contested        \* history: badges awarded while a check held them as not awarded

reputationTables == <<reputations, verifications, badges, earned, contested>>
reputationVars == <<reputationTables, serviceVars>>

ReputationInit ==
  /\ reputations = [r \in ReputationIds |-> None]
  /\ verifications = [v \in VerificationIds |-> None]
  /\ badges = [b \in BadgeIds |-> None]
  /\ earned = {} /\ contested = {}
  /\ ServiceInit

--------------------------------------------------------------------------------
(* ReputationService *)

\* calculateWeightedScore: the weighted sum, cut to 0..100
WeightedScore(m, w) ==
  LET sum == m.transaction * w.transaction + m.activity * w.activity + m.social * w.social
  IN IF sum < 0 THEN 0 ELSE IF sum > 1000 THEN 100 ELSE sum \div 10

\* determineLevelFromScore, NEWCOMER to MASTER
Thresholds == <<0, 20, 40, 60, 80, 95>>
LevelOf(score) == Cardinality({i \in 1..6 : score >= Thresholds[i]}) - 1

\* The penalty for fraud
Penalised(score) == IF score >= 10 THEN score - 10 ELSE 0

InitialReputation(u) ==
  [user |-> u, metrics |-> [f \in Factors |-> 0], weights |-> DefaultWeights,
   score |-> 0, level |-> 0, verified |-> FALSE]

VerificationsOf(r) == {v \in Used(verifications) : verifications[v].reputation = r}

\* getReputationByUserId, on behalf of a calculation, a change of the settings
\* (w), a check of the badges, or a reader, who has what exists and is done.
GetReputation(c, u, purpose, w) ==
  /\ \/ \E r \in Used(reputations) :
          /\ reputations[r].user = u /\ purpose # "read"
          /\ Begin(c, purpose, [id |-> r, row |-> reputations[r], weights |-> w,
                                found |-> VerificationsOf(r)])
     \/ /\ \A r \in Used(reputations) : reputations[r].user # u
        /\ Room(reputations, {"createReputation"})
        /\ Begin(c, "createReputation", [user |-> u, purpose |-> purpose, weights |-> w])
  /\ UNCHANGED reputationTables

\* createInitialReputation: a new entity has no list of verifications, and its
\* save detaches none.
CreateInitialReputation(c) ==
  /\ pc[c] = "createReputation"
  /\ \E r \in Unused(reputations) :
       LET row == InitialReputation(hand[c].user) IN
         /\ reputations' = [reputations EXCEPT ![r] = row]
         /\ IF hand[c].purpose = "read" THEN End(c)
            ELSE Go(c, hand[c].purpose, [id |-> r, row |-> row, weights |-> hand[c].weights,
                                         found |-> VerificationIds])
  /\ UNCHANGED <<verifications, badges, earned, contested>>

\* calculateReputation, from the factors to the save
Measure(c) ==
  /\ pc[c] = "measure"
  /\ \E m \in Metrics, fraud \in BOOLEAN :
       LET row == hand[c].row
           weighted == WeightedScore(m, row.weights)
           score == IF fraud THEN Penalised(weighted) ELSE weighted
       IN /\ Go(c, "saveReputation",
                [id |-> hand[c].id, found |-> hand[c].found,
                 row |-> [row EXCEPT !.metrics = m, !.score = score, !.level = LevelOf(score)]])
          /\ earned' = IF score >= 40 THEN earned \cup {row.user} ELSE earned
  /\ UNCHANGED <<reputations, verifications, badges, contested>>

\* The weights of the factors that the change names; None changes nothing.
Merged(weights, change) ==
  [f \in Factors |-> IF f \in DOMAIN change THEN change[f] ELSE weights[f]]

Reweighted(row, change) ==
  IF change = None THEN row
  ELSE LET w == Merged(row.weights, change)
       IN [row EXCEPT !.weights = w, !.score = WeightedScore(row.metrics, w)]

\* Mutant of UpdateSettings: the level follows the score.
UpdateSettingsAndLevel(c) ==
  /\ pc[c] = "settings"
  /\ LET row == Reweighted(hand[c].row, hand[c].weights) IN
       Go(c, "saveReputation", [id |-> hand[c].id, found |-> hand[c].found,
                                row |-> [row EXCEPT !.level = LevelOf(row.score)]])
  /\ UNCHANGED reputationTables

\* updateReputationSettings: the score is weighed anew, the level is not.
UpdateSettings(c) ==
  /\ pc[c] = "settings"
  /\ Go(c, "saveReputation", [id |-> hand[c].id, found |-> hand[c].found,
                              row |-> Reweighted(hand[c].row, hand[c].weights)])
  /\ UNCHANGED reputationTables

\* save, refused when it would detach a verification
SaveReputation(c) ==
  /\ pc[c] = "saveReputation"
  /\ reputations' = IF VerificationsOf(hand[c].id) \subseteq hand[c].found
                    THEN [reputations EXCEPT ![hand[c].id] = hand[c].row] ELSE reputations
  /\ End(c)
  /\ UNCHANGED <<verifications, badges, earned, contested>>

\* ReputationThresholdGuard, with its default thresholds
CanActivate(row) == row.score >= 40 /\ row.level >= 2

--------------------------------------------------------------------------------
(* VerificationService *)

\* initiateVerification, up to the insert: a pending or verified one is returned.
InitiateVerification(c, r, t) ==
  /\ reputations[r] # None
  /\ LET existing == {v \in Used(verifications) :
                        verifications[v].reputation = r /\ verifications[v].type = t}
     IN \/ existing = {}
        \/ \E v \in existing : verifications[v].status \in {"REJECTED", "FAILED"}
  /\ Room(verifications, {"insertVerification"})
  /\ Begin(c, "insertVerification", [reputation |-> r, type |-> t])
  /\ UNCHANGED reputationTables

InsertVerification(c) ==
  /\ pc[c] = "insertVerification"
  /\ \E v \in Unused(verifications) :
       verifications' = [verifications EXCEPT ![v] =
         [reputation |-> hand[c].reputation, type |-> hand[c].type, status |-> "PENDING"]]
  /\ End(c)
  /\ UNCHANGED <<reputations, badges, earned, contested>>

\* processVerification: the row and its reputation, without the verifications
\* of the reputation; whatever its status is.
LoadVerification(c, v) ==
  /\ verifications[v] # None
  /\ verifications[v].type \in Providers
  /\ LET r == verifications[v].reputation IN
       Begin(c, "verify", [verification |-> v, id |-> r, row |-> reputations[r]])
  /\ UNCHANGED reputationTables

Verify(c) ==
  /\ pc[c] = "verify"
  /\ \/ Go(c, "saveVerified", [hand[c] EXCEPT !.row.verified = TRUE])
     \/ Go(c, "saveVerification", [verification |-> hand[c].verification, status |-> "REJECTED"])
  /\ UNCHANGED reputationTables

\* The reputation is saved before the verification.
SaveVerified(c) ==
  /\ pc[c] = "saveVerified"
  /\ reputations' = [reputations EXCEPT ![hand[c].id] = hand[c].row]
  /\ Go(c, "saveVerification", [verification |-> hand[c].verification, status |-> "VERIFIED"])
  /\ UNCHANGED <<verifications, badges, earned, contested>>

\* Mutant of VerificationFails: an error is ignored.
VerificationGoesOn(c) ==
  /\ pc[c] \in {"verify", "saveVerified"}
  /\ pc' = [pc EXCEPT ![c] = "saveVerification"]
  /\ hand' = [hand EXCEPT ![c] = [verification |-> hand[c].verification, status |-> "VERIFIED"]]
  /\ Reject(c)
  /\ UNCHANGED reputationTables

\* An error before the last save makes it FAILED.
VerificationFails(c) ==
  /\ pc[c] \in {"verify", "saveVerified"}
  /\ pc' = [pc EXCEPT ![c] = "saveVerification"]
  /\ hand' = [hand EXCEPT ![c] = [verification |-> hand[c].verification, status |-> "FAILED"]]
  /\ Reject(c)
  /\ UNCHANGED reputationTables

SaveVerification(c) ==
  /\ pc[c] = "saveVerification"
  /\ verifications' = [verifications EXCEPT ![hand[c].verification].status = hand[c].status]
  /\ End(c)
  /\ UNCHANGED <<reputations, badges, earned, contested>>

--------------------------------------------------------------------------------
(* BadgeService *)

\* calculateBadgeProgress = 100: what the code draws at random is left open.
Complete(row, t) ==
  CASE t = "TRUSTED_TRADER"   -> {FALSE, row.metrics.transaction >= 70}
    [] t = "COMMUNITY_LEADER" -> {FALSE, row.metrics.social >= 80}
    [] t = "POWER_USER"       -> {FALSE, row.metrics.activity >= 75}
    [] t = "VERIFIED_EXPERT"  -> {row.score >= 90 /\ row.verified}
    [] t = "EARLY_ADOPTER"    -> BOOLEAN

\* getBadgesByUserId
BadgesOf(u) == {b \in Used(badges) : badges[b].user = u}

\* checkBadgeProgress: the badges are read once,
FindBadges(c) ==
  /\ pc[c] = "badges"
  /\ LET row == hand[c].row
         found == BadgesOf(row.user)
     IN Go(c, "saveBadge",
           [user |-> row.user, found |-> [b \in found |-> badges[b]], todo |-> BadgeTypes,
            complete |-> [t \in BadgeTypes |-> Complete(row, t)]])
  /\ UNCHANGED reputationTables

NextBadge(c, t) ==
  IF hand[c].todo = {t} THEN End(c)
  ELSE Go(c, "saveBadge", [hand[c] EXCEPT !.todo = @ \ {t}])

\* Mutant of Progressed: the status follows the progress.
ProgressedBack(badge, complete) ==
  [badge EXCEPT !.status = IF complete THEN "AWARDED" ELSE "IN_PROGRESS"]

\* The badge's new state, found so or created; an award is not taken back.
Progressed(badge, complete) ==
  [badge EXCEPT !.status = IF complete THEN "AWARDED" ELSE @]

\* Another check is to save b as a badge that is not awarded.
FoundUnawarded(c, b) ==
  \E d \in Calls \ {c} :
    /\ pc[d] = "saveBadge" /\ b \in DOMAIN hand[d].found
    /\ hand[d].found[b].type \in hand[d].todo /\ hand[d].found[b].status # "AWARDED"

\* The save of one badge
WriteBadge(c, b, badge) ==
  /\ badges' = [badges EXCEPT ![b] = badge]
  /\ contested' = IF badge.status = "AWARDED" /\ FoundUnawarded(c, b)
                  THEN contested \cup {b} ELSE contested \ {b}

\* and those of each type saved one after the other.
SaveBadge(c) ==
  /\ pc[c] = "saveBadge"
  /\ \E t \in hand[c].todo :
       LET mine == {b \in DOMAIN hand[c].found : hand[c].found[b].type = t}
           new == [user |-> hand[c].user, type |-> t, status |-> "IN_PROGRESS"]
       IN /\ \E complete \in hand[c].complete[t] :
               IF mine # {}
               THEN \E b \in mine : WriteBadge(c, b, Progressed(hand[c].found[b], complete))
               ELSE \E b \in Unused(badges) : WriteBadge(c, b, Progressed(new, complete))
          /\ NextBadge(c, t)
  /\ UNCHANGED <<reputations, verifications, earned>>

ReputationFail(c) ==
  /\ pc[c] \notin {"verify", "saveVerified"}
  /\ Fail(c)
  /\ UNCHANGED reputationTables

ReputationNext ==
  \E c \in Calls :
    \/ \E u \in Users :
         \/ \E purpose \in {"read", "measure", "badges"} :
              GetReputation(c, u, purpose, None)
         \/ \E w \in Weightings \cup {None} : GetReputation(c, u, "settings", w)
    \/ \E r \in ReputationIds, t \in VerificationTypes : InitiateVerification(c, r, t)
    \/ \E v \in VerificationIds : LoadVerification(c, v)
    \/ CreateInitialReputation(c) \/ Measure(c) \/ UpdateSettings(c) \/ SaveReputation(c)
    \/ InsertVerification(c) \/ Verify(c) \/ SaveVerified(c) \/ VerificationFails(c)
    \/ SaveVerification(c)
    \/ FindBadges(c) \/ SaveBadge(c)
    \/ ReputationFail(c)

ReputationSpec == ReputationInit /\ [][ReputationNext]_reputationVars

--------------------------------------------------------------------------------
\* The guard lets in only whom a calculation has found at 40 points or more:
\* changing the weights, which rewrites the score, is not enough, nor is any
\* overlap of stale saves.
AdmittedOnlyIfEarned ==
  \A r \in Used(reputations) : CanActivate(reputations[r]) => reputations[r].user \in earned

\* A verification recorded as such has its user marked as verified, whatever
\* fails between the two saves; only a stale save of another call undoes it.
VerifiedTogether ==
  apart => \A v \in Used(verifications) :
             verifications[v].status = "VERIFIED"
               => reputations[verifications[v].reputation].verified

\* An awarded badge stays awarded though the progress falls again, unless it was
\* awarded while another check of the badges, which had found it before, was
\* still to save it.
AwardsStand ==
  [][\A b \in Used(badges) \ contested :
       badges[b].status = "AWARDED"
         => badges'[b] # None /\ badges'[b].status = "AWARDED"]_reputationVars
================================================================================
