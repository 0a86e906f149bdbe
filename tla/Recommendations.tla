----------------------------- MODULE Recommendations -----------------------------
(***************************************************************************)
(* The recommendations of a user, refreshed by a job of the discovery      *)
(* queue.  An attempt of a job computes people, content and communities at *)
(* once (Promise.all): it fails with the first branch that fails, while    *)
(* the others go on, into the next attempt if they are slow.               *)
(*                                                                         *)
(* A branch is a call.  The user, activity and social graph services       *)
(* return any lists.  Abstracted: scores and metadata, so that the best    *)
(* candidates are any of them; a user who is not found has no candidates.  *)
(***************************************************************************)
EXTENDS Service, Sequences, Functions

CONSTANTS
  Kinds,          \* of recommendations: person, content, community
  Targets,
  Jobs,
  Attempts,       \* of a job
  Limit,          \* the candidates a branch keeps at most
  MaxListed       \* bound: the length of a list of the other services

Job == [user: Users, attempt: Nat, done: SUBSET Kinds,
        status: {"waiting", "active", "completed", "failed"}]

ASSUME RecommendationsAssumption ==
  /\ Kinds \subseteq {"person", "content", "community"}
  /\ Attempts \in Nat \ {0} /\ Limit \in Nat /\ MaxListed \in Nat
  /\ None \notin Job

Lists == UNION {[1..n -> Targets] : n \in 0..MaxListed}

Row == [user: Users, kind: Kinds, target: Targets]   \* the unique index

VARIABLES
  recommendations,   \* the rows: dismissed or not
  jobs,
  branches,          \* <<job, attempt, kind>>: called, and at their first await
  raced,             \* history: rows dismissed while a branch was to save them
  crowded            \* history: users who have had two jobs at a time

recommendationsTables == <<recommendations, jobs, branches, raced, crowded>>
recommendationsVars == <<recommendationsTables, serviceVars>>

RecommendationsInit ==
  /\ recommendations = <<>>
  /\ jobs = [j \in Jobs |-> None]
  /\ branches = {}
  /\ raced = {}
  /\ crowded = {}
  /\ ServiceInit

Stored(u) == {r \in DOMAIN recommendations : r.user = u}

\* getRecommendationsForUser
ListFor(u) == {r \in Stored(u) : ~recommendations[r].dismissed}

--------------------------------------------------------------------------------
(* The candidates *)

\* The positions in a list of what is not seen yet, each target once.
Fresh(list, seen) ==
  {i \in DOMAIN list : list[i] \notin seen /\ \A h \in 1..(i - 1) : list[h] # list[i]}

\* Two lists, of which some positions are kept.
Kept(first, second, here, there) ==
  Restrict(first \o second, here \cup {Len(first) + i : i \in there})

\* getPeopleRecommendationCandidates: friends of friends, then people of the same interests
PeopleCandidates(friends, similar) ==
  Kept(friends, similar, DOMAIN friends, Fresh(similar, Range(friends)))

\* getContentRecommendationCandidates: not what the user has had to do with already
ContentCandidates(own, engaged, popular) ==
  LET all == engaged \o popular IN Restrict(all, Fresh(all, own))

\* Mutant of CommunityCandidates: the matching communities are not compared.
CommunityCandidatesTwice(own, joined, matching) ==
  Kept(joined, matching, Fresh(joined, own), Fresh(matching, own))

\* getCommunityRecommendationCandidates: not the user's own communities
CommunityCandidates(own, joined, matching) ==
  LET all == joined \o matching IN Restrict(all, Fresh(all, own))

\* What a branch may end with.  Friends of friends come each once; people
\* of the same interests have been asked for without the user's connections.
CandidateLists(kind) ==
  CASE kind = "person" ->
         {PeopleCandidates(friends, similar) :
            friends \in {l \in Lists : IsInjective(l)}, similar \in Lists}
    [] kind = "content" ->
         {ContentCandidates(own, engaged, popular) :
            own \in SUBSET Targets, engaged \in Lists, popular \in Lists}
    [] kind = "community" ->
         {CommunityCandidates(own, joined, matching) :
            own \in SUBSET Targets, joined \in Lists, matching \in Lists}

\* The targets of the candidates kept, and those of two of them: an array of
\* two entities.
Best(list, kept) ==
  [targets |-> {list[i] : i \in kept},
   twice |-> {list[i] : i \in {h \in kept : \E g \in kept \ {h} : list[g] = list[h]}}]

\* sort and slice: the best, whichever they are.
Outcomes ==
  [kind \in Kinds |->
     UNION {{Best(list, kept) :
               kept \in {k \in SUBSET DOMAIN list :
                           \/ k = DOMAIN list /\ Cardinality(k) <= Limit
                           \/ Cardinality(k) = Limit}} :
            list \in CandidateLists(kind)}]

--------------------------------------------------------------------------------
(* The queue *)

InProgress(j) == jobs[j] # None /\ jobs[j].status \in {"waiting", "active"}

\* refreshRecommendationsForUser
Refresh(j, u) ==
  /\ jobs[j] = None
  /\ jobs' = [jobs EXCEPT ![j] = [user |-> u, attempt |-> 0, status |-> "waiting", done |-> {}]]
  /\ crowded' = IF \E i \in Jobs : InProgress(i) /\ jobs[i].user = u
                THEN crowded \cup {u} ELSE crowded
  /\ UNCHANGED <<recommendations, branches, raced, serviceVars>>

\* handleRecommendationCalculation, once more or for the first time
StartAttempt(j) ==
  /\ jobs[j] # None /\ jobs[j].status = "waiting"
  /\ LET n == jobs[j].attempt + 1 IN
       /\ jobs' = [jobs EXCEPT ![j].attempt = n, ![j].status = "active", ![j].done = {}]
       /\ branches' = branches \cup ({j} \X {n} \X Kinds)
  /\ UNCHANGED <<recommendations, raced, crowded, serviceVars>>

\* A branch of an attempt that has not been given up has succeeded,
Succeeded(j, n, kind) ==
  jobs' = IF jobs[j].attempt # n \/ jobs[j].status # "active" THEN jobs
          ELSE [jobs EXCEPT ![j].done = @ \cup {kind},
                            ![j].status = IF jobs[j].done \cup {kind} = Kinds
                                          THEN "completed" ELSE "active"]

\* or failed.
Failed(j, n) ==
  jobs' = IF jobs[j].attempt # n \/ jobs[j].status # "active" THEN jobs
          ELSE [jobs EXCEPT ![j].status = IF n < Attempts THEN "waiting" ELSE "failed"]

--------------------------------------------------------------------------------
(* calculatePeople-, calculateContent- and calculateCommunityRecommendations *)

Gather(c, j, n, kind) ==
  /\ <<j, n, kind>> \in branches
  /\ branches' = branches \ {<<j, n, kind>>}
  /\ \E best \in Outcomes[kind] :
       LET row(t) == [user |-> jobs[j].user, kind |-> kind, target |-> t] IN
         Begin(c, "findExisting",
               [job |-> j, attempt |-> n, kind |-> kind,
                found |-> {row(t) : t \in best.targets}, twice |-> {row(t) : t \in best.twice}])
  /\ UNCHANGED <<recommendations, jobs, raced, crowded>>

\* storeRecommendations: the rows that are not dismissed are updated, the others inserted.
FindExisting(c) ==
  /\ pc[c] = "findExisting"
  /\ LET existing == {r \in hand[c].found \cap DOMAIN recommendations :
                        ~recommendations[r].dismissed}
     IN Go(c, "saveUpdates",
           [job |-> hand[c].job, attempt |-> hand[c].attempt, kind |-> hand[c].kind,
            twice |-> hand[c].twice, update |-> existing, insert |-> hand[c].found \ existing])
  /\ UNCHANGED recommendationsTables

\* The rows inserted or updated, dismissed = false in each.
Saved(rows) ==
  [r \in rows \cup DOMAIN recommendations |->
     IF r \in rows THEN [dismissed |-> FALSE] ELSE recommendations[r]]

\* The entities are saved as they were read, dismissed = false included.
SaveUpdates(c) ==
  /\ pc[c] = "saveUpdates"
  /\ recommendations' = Saved(hand[c].update)
  /\ Go(c, "saveInserts", [hand[c] EXCEPT !.update = {}])
  /\ UNCHANGED <<jobs, branches, raced, crowded>>

\* Mutant of SaveInserts: the row that exists is overwritten.
UpsertInserts(c) ==
  /\ pc[c] = "saveInserts"
  /\ recommendations' = Saved(hand[c].insert)
  /\ Succeeded(hand[c].job, hand[c].attempt, hand[c].kind)
  /\ End(c)
  /\ UNCHANGED <<branches, raced, crowded>>

\* One transaction: the unique index refuses all of it when one row exists.
SaveInserts(c) ==
  /\ pc[c] = "saveInserts"
  /\ LET refused == hand[c].insert \cap (DOMAIN recommendations \cup hand[c].twice) # {} IN
       /\ recommendations' = IF refused THEN recommendations
                             ELSE Saved(hand[c].insert)
       /\ IF refused THEN Failed(hand[c].job, hand[c].attempt)
          ELSE Succeeded(hand[c].job, hand[c].attempt, hand[c].kind)
  /\ End(c)
  /\ UNCHANGED <<branches, raced, crowded>>

\* dismissRecommendation: one UPDATE of the user's row.
Dismiss(r) ==
  /\ r \in DOMAIN recommendations
  /\ recommendations' = [recommendations EXCEPT ![r].dismissed = TRUE]
  /\ raced' = IF \E c \in Calls : pc[c] = "saveUpdates" /\ r \in hand[c].update
              THEN raced \cup {r} ELSE raced \ {r}
  /\ UNCHANGED <<jobs, branches, crowded, serviceVars>>

BranchFail(c) ==
  /\ Fail(c)
  /\ Failed(hand[c].job, hand[c].attempt)
  /\ UNCHANGED <<recommendations, branches, raced, crowded>>

RecommendationsNext ==
  \/ \E j \in Jobs : StartAttempt(j) \/ \E u \in Users : Refresh(j, u)
  \/ \E r \in Row : Dismiss(r)
  \/ \E c \in Calls :
       \/ \E j \in Jobs, n \in 1..Attempts, kind \in Kinds : Gather(c, j, n, kind)
       \/ FindExisting(c) \/ SaveUpdates(c) \/ SaveInserts(c)
       \/ BranchFail(c)

RecommendationsSpec == RecommendationsInit /\ [][RecommendationsNext]_recommendationsVars

--------------------------------------------------------------------------------
\* A recommendation the user has dismissed does not come back, unless it was
\* dismissed between a refresh's read and its save, which writes the row as read.
DismissalHolds ==
  [][\A u \in Users : \A r \in Stored(u) :
       recommendations[r].dismissed /\ r \in ListFor(u)' => r \in raced]_recommendationsVars

\* A job is given up only after a failure of the store, or because two jobs of
\* its user have overlapped, or because a candidate has been dismissed: then the
\* insert violates the unique index in this attempt and in every one to come.
GivenUpForCause ==
  \A j \in Jobs :
    jobs[j] # None /\ jobs[j].status = "failed" =>
      \/ failures > 0
      \/ jobs[j].user \in crowded
      \/ \E r \in Stored(jobs[j].user) : recommendations[r].dismissed \/ r \in raced
================================================================================
