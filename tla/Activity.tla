--------------------------------- MODULE Activity ---------------------------------
(***************************************************************************)
(* The activity feed: an activity is stored and a job queued, which puts   *)
(* an item in the feed of each follower of its actor and then in that of   *)
(* each user it targets, in two transactions; followers come and go.  A    *)
(* feed is read in pages.                                                  *)
(*                                                                         *)
(* The processor of the queue and the relevance calculator are not in the  *)
(* repository: the processor calls distributeActivity, a score is any.     *)
(* Abstracted: the types and payloads, the targets that are no users, and  *)
(* the search for an activity to aggregate with, which asks for a creation *)
(* exactly 24 hours ago.                                                   *)
(***************************************************************************)
EXTENDS Service, Paging, Sequences

CONSTANTS
  Activities, Subscriptions,
  Attempts,     \* of a job of the feed queue
  Drafts,       \* bound: the activities that are created
  TopScore,     \* bound: a score is 1, or up to TopScore, that of a target
  Times,        \* bound: when transactions may begin, in any order
  PageSize

\* A request may list a user among the targets more than once.
Row    == [actor: Users, public: BOOLEAN, targets: Seq(Users), deleted: BOOLEAN]
Follow == [subscriber: Users, publisher: Users, active: BOOLEAN]
Job    == [attempt: Nat, status: {"waiting", "active", "completed", "failed"}]

ASSUME ActivityAssumption ==
  /\ Drafts \subseteq {row \in Row : ~row.deleted}
  /\ None \notin Row /\ None \notin Follow /\ None \notin Job
  /\ IsFiniteSet(Users) /\ IsFiniteSet(Subscriptions)
  /\ Attempts \in Nat \ {0}
  /\ TopScore \in Nat \ {0}
  /\ Times \subseteq Nat
  /\ PageSize \in Nat \ {0}

VARIABLES
  activities,
  subscriptions,   \* subscriber and publisher have no unique index
  items,           \* the feed items by user and activity, their unique index
  jobs,
  ended            \* history: the follows whose subscriber has ended them since

activityTables == <<activities, subscriptions, items, jobs, ended>>
activityVars == <<activityTables, serviceVars>>

ActivityInit ==
  /\ activities = [a \in Activities |-> None]
  /\ subscriptions = [s \in Subscriptions |-> None]
  /\ items = <<>>
  /\ jobs = [a \in Activities |-> None]
  /\ ended = {}
  /\ ServiceInit

--------------------------------------------------------------------------------
(* ActivityService *)

\* createActivity: the activity with its targets in one transaction,
CreateActivity(c, row) ==
  /\ Room(activities, {"insertActivity"})
  /\ Begin(c, "insertActivity", row)
  /\ UNCHANGED activityTables

InsertActivity(c) ==
  /\ pc[c] = "insertActivity"
  /\ \E a \in Unused(activities) :
       /\ activities' = [activities EXCEPT ![a] = hand[c]]
       /\ Go(c, "enqueue", [activity |-> a])
  /\ UNCHANGED <<subscriptions, items, jobs, ended>>

\* and then the job.  When that fails the transaction is past its rollback.
Enqueue(c) ==
  /\ pc[c] = "enqueue"
  /\ jobs' = [jobs EXCEPT ![hand[c].activity] = [attempt |-> 0, status |-> "waiting"]]
  /\ End(c)
  /\ UNCHANGED <<activities, subscriptions, items, ended>>

\* deleteActivity, which the items of an activity that has any refuse.
DeleteActivity(a) ==
  /\ activities[a] # None
  /\ \A i \in DOMAIN items : i.activity # a
  /\ activities' = [activities EXCEPT ![a].deleted = TRUE]
  /\ UNCHANGED <<subscriptions, items, jobs, ended, serviceVars>>

--------------------------------------------------------------------------------
(* FeedService.distributeActivity, a job of the feed queue *)

StartAttempt(c, a) ==
  /\ jobs[a] # None /\ jobs[a].status = "waiting"
  /\ jobs' = [jobs EXCEPT ![a] = [attempt |-> @.attempt + 1, status |-> "active"]]
  /\ Begin(c, "findActivity", [activity |-> a])
  /\ UNCHANGED <<activities, subscriptions, items, ended>>

AttemptFailed(a) ==
  jobs' = [jobs EXCEPT ![a].status = IF jobs[a].attempt < Attempts THEN "waiting" ELSE "failed"]

\* A private activity goes to its targets only.
FindActivity(c) ==
  /\ pc[c] = "findActivity"
  /\ LET a == hand[c].activity IN
       IF activities[a].deleted
       THEN AttemptFailed(a) /\ End(c)
       ELSE /\ Go(c, IF activities[a].public THEN "findFollowers" ELSE "saveTargets", hand[c])
            /\ UNCHANGED jobs
  /\ UNCHANGED <<activities, subscriptions, items, ended>>

FollowsOf(u) == {s \in Used(subscriptions) :
                   subscriptions[s].publisher = u /\ subscriptions[s].active}

\* Mutant of FindFollowers: the followers of anyone.
FindAllFollowers(c) ==
  /\ pc[c] = "findFollowers"
  /\ LET found == UNION {FollowsOf(u) : u \in Users}
         users == {subscriptions[s].subscriber : s \in found}
     IN Go(c, "saveFollowers",
           [activity |-> hand[c].activity, users |-> users,
            twice |-> Cardinality(users) < Cardinality(found)])
  /\ UNCHANGED activityTables

FindFollowers(c) ==
  /\ pc[c] = "findFollowers"
  /\ LET found == FollowsOf(activities[hand[c].activity].actor)
         users == {subscriptions[s].subscriber : s \in found}
     IN Go(c, "saveFollowers",
           [activity |-> hand[c].activity, users |-> users,
            twice |-> Cardinality(users) < Cardinality(found)])
  /\ UNCHANGED activityTables

Targets(row) == {row.targets[k] : k \in DOMAIN row.targets}

ListsTwice(row) ==
  \E k, l \in DOMAIN row.targets : k # l /\ row.targets[k] = row.targets[l]

\* One transaction: an item that exists, or the same one twice, refuses all of
\* them, and so does the deletion of the activity.
Refused(a, users, twice) ==
  /\ users # {}
  /\ \/ twice
     \/ activities[a].deleted
     \/ \E u \in users : [user |-> u, activity |-> a] \in DOMAIN items

\* The time of an item is that of its transaction.
WithItems(a, score, now) ==
  [i \in {[user |-> u, activity |-> a] : u \in DOMAIN score} \cup DOMAIN items |->
     IF i \in DOMAIN items THEN items[i]
     ELSE [score |-> score[i.user], at |-> now, read |-> FALSE]]

SaveFollowers(c) ==
  /\ pc[c] = "saveFollowers"
  /\ LET a == hand[c].activity
         users == hand[c].users
     IN IF Refused(a, users, hand[c].twice)
        THEN AttemptFailed(a) /\ End(c) /\ UNCHANGED items
        ELSE /\ \E score \in [users -> 1..TopScore], now \in Times :
                  items' = WithItems(a, score, now)
             /\ Go(c, "saveTargets", [activity |-> a])
             /\ UNCHANGED jobs
  /\ UNCHANGED <<activities, subscriptions, ended>>

\* distributeToTargets
SaveTargets(c) ==
  /\ pc[c] = "saveTargets"
  /\ LET a == hand[c].activity
         users == Targets(activities[a])
     IN IF Refused(a, users, ListsTwice(activities[a]))
        THEN AttemptFailed(a) /\ UNCHANGED items
        ELSE /\ \E now \in Times : items' = WithItems(a, [u \in users |-> TopScore], now)
             /\ jobs' = [jobs EXCEPT ![a].status = "completed"]
  /\ End(c)
  /\ UNCHANGED <<activities, subscriptions, ended>>

DistributionFail(c) ==
  /\ pc[c] \in {"findActivity", "findFollowers", "saveFollowers", "saveTargets"}
  /\ AttemptFailed(hand[c].activity)
  /\ Fail(c)
  /\ UNCHANGED <<activities, subscriptions, items, ended>>

--------------------------------------------------------------------------------
(* Following, and reading *)

Between(u, p) == {s \in Used(subscriptions) :
                    subscriptions[s].subscriber = u /\ subscriptions[s].publisher = p}

\* Mutant of Subscribe: no row is looked for.
SubscribeAnew(c, u, p) ==
  /\ Room(subscriptions, {"insertFollow"})
  /\ Begin(c, "insertFollow", [subscriber |-> u, publisher |-> p])
  /\ UNCHANGED activityTables

\* subscribe: the row that is found, if any, becomes active.
Subscribe(c, u, p) ==
  /\ \/ \E s \in Between(u, p) : Begin(c, "saveFollow", [id |-> s])
     \/ /\ Between(u, p) = {}
        /\ Room(subscriptions, {"insertFollow"})
        /\ Begin(c, "insertFollow", [subscriber |-> u, publisher |-> p])
  /\ UNCHANGED activityTables

InsertFollow(c) ==
  /\ pc[c] = "insertFollow"
  /\ \E s \in Unused(subscriptions) :
       subscriptions' = [subscriptions EXCEPT ![s] =
         [subscriber |-> hand[c].subscriber, publisher |-> hand[c].publisher, active |-> TRUE]]
  /\ ended' = ended \ {<<hand[c].subscriber, hand[c].publisher>>}
  /\ End(c)
  /\ UNCHANGED <<activities, items, jobs>>

SaveFollow(c) ==
  /\ pc[c] = "saveFollow"
  /\ LET s == hand[c].id IN
       /\ subscriptions' = [subscriptions EXCEPT ![s].active = TRUE]
       /\ ended' = ended \ {<<subscriptions[s].subscriber, subscriptions[s].publisher>>}
  /\ End(c)
  /\ UNCHANGED <<activities, items, jobs>>

\* unsubscribe: one row, if there is any.
Unsubscribe(c, u, p) ==
  /\ \E s \in Between(u, p) : Begin(c, "endFollow", [id |-> s])
  /\ UNCHANGED activityTables

EndFollow(c) ==
  /\ pc[c] = "endFollow"
  /\ LET s == hand[c].id IN
       /\ subscriptions' = [subscriptions EXCEPT ![s].active = FALSE]
       /\ ended' = ended \cup {<<subscriptions[s].subscriber, subscriptions[s].publisher>>}
  /\ End(c)
  /\ UNCHANGED <<activities, items, jobs>>

\* markFeedItemAsRead, of the user's own item; an item is never removed.
MarkRead(i) ==
  /\ i \in DOMAIN items
  /\ items' = [items EXCEPT ![i].read = TRUE]
  /\ UNCHANGED <<activities, subscriptions, jobs, ended, serviceVars>>

\* generateFeed: the order of the items,
FeedOrder ==
  {ij \in (DOMAIN items) \X (DOMAIN items) :
     LET i == items[ij[1]]
         j == items[ij[2]]
     IN i.score > j.score \/ (i.score = j.score /\ i.at > j.at)}

\* those that match a cursor, itself an item's score and time.  The condition
\* is an OR without parentheses between AND conditions, so that its first half
\* goes with the user and its second half with the read flag.
Matching(u, cursor) ==
  IF cursor = None
  THEN {i \in DOMAIN items : i.user = u /\ ~items[i].read}
  ELSE {i \in DOMAIN items :
          \/ i.user = u /\ items[i].score < cursor.score
          \/ /\ items[i].score = cursor.score /\ items[i].at < cursor.at
             /\ ~items[i].read}

\* the pages of it,
Pages(u, cursor) == PagesOf(PageSize, Matching(u, cursor), FeedOrder)

\* Mutant of NextCursor: of the last item fetched, the one that is not shown.
CursorOfNext(page, u, cursor) ==
  LET rest == Matching(u, cursor) \ page
      next == IF rest = {} THEN page ELSE rest
      last == CHOOSE i \in next : \A j \in next : <<j, i>> \notin FeedOrder
  IN [score |-> items[last].score, at |-> Printed(items[last].at)]

\* and the cursor of the next one.
NextCursor(page, u, cursor) ==
  LET last == LastOf(page, FeedOrder)
  IN [score |-> items[last].score, at |-> Printed(items[last].at)]

CallFail(c) ==
  /\ pc[c] \in {"insertActivity", "enqueue", "insertFollow", "saveFollow", "endFollow"}
  /\ Fail(c)
  /\ UNCHANGED activityTables

ActivityNext ==
  \/ \E a \in Activities : DeleteActivity(a)
  \/ \E i \in DOMAIN items : MarkRead(i)
  \/ \E c \in Calls :
       \/ \E row \in Drafts : CreateActivity(c, row)
       \/ \E a \in Activities : StartAttempt(c, a)
       \/ \E u, p \in Users : Subscribe(c, u, p) \/ Unsubscribe(c, u, p)
       \/ InsertActivity(c) \/ Enqueue(c)
       \/ FindActivity(c) \/ FindFollowers(c) \/ SaveFollowers(c) \/ SaveTargets(c)
       \/ InsertFollow(c) \/ SaveFollow(c) \/ EndFollow(c)
       \/ DistributionFail(c) \/ CallFail(c)

ActivitySpec == ActivityInit /\ [][ActivityNext]_activityVars

--------------------------------------------------------------------------------
\* A distribution is given up, with some of its users left out, only after a
\* failure, or when its activity is deleted, or when one of its users is to have
\* two items, which refuses the items of all in every attempt: a target that is
\* listed twice or has followed the actor, or a follow that has two rows.
Cause(a) ==
  \/ failures > 0
  \/ activities[a].deleted
  \/ ListsTwice(activities[a])
  \/ /\ activities[a].public
     /\ \E u \in Users :
          LET rows == Between(u, activities[a].actor) IN
            (u \in Targets(activities[a]) /\ rows # {}) \/ Cardinality(rows) > 1

DistributedUnlessCause ==
  \A a \in Activities : jobs[a] # None /\ jobs[a].status = "failed" => Cause(a)

\* Who has ended a follow follows no more: unsubscribe ends one row of a pair,
\* and a pair has two only when two calls overlap.
EndedFollowEnds ==
  apart => \A s \in Used(subscriptions) :
             subscriptions[s].active
               => <<subscriptions[s].subscriber, subscriptions[s].publisher>> \notin ended

\* Whoever follows the cursors misses none of the unread items: one that comes
\* after a cursor is in the page, or after the next cursor, or has the score of
\* one in the page, of any user's, and has come in the same millisecond.
FeedMissesOnlyTies ==
  \A u \in Users :
    LET cursors == {None} \cup
                   {[score |-> items[i].score, at |-> Printed(items[i].at)] : i \in DOMAIN items}
        unread == {i \in DOMAIN items : i.user = u /\ ~items[i].read}
        After(i, cursor) == \/ cursor = None
                            \/ items[i].score < cursor.score
                            \/ items[i].score = cursor.score /\ items[i].at < cursor.at
    IN \A cursor \in cursors : \A page \in Pages(u, cursor) : \A i \in unread :
         After(i, cursor) =>
           \/ i \in page
           \/ After(i, NextCursor(page, u, cursor))
           \/ \E j \in page : /\ items[j].score = items[i].score
                             /\ Printed(items[j].at) = Printed(items[i].at)
================================================================================
