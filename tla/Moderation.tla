------------------------------- MODULE Moderation -------------------------------
(***************************************************************************)
(* Penalties and appeals, and the filter that reports content.  A call is  *)
(* a process whose steps are its awaits; repository.save(entity) replaces  *)
(* the row by the entity.  The two halves share no table.                  *)
(*                                                                         *)
(* The filter is a subscriber of the save of an entity with content, whose *)
(* module is external: it runs inside that save's transaction, and a       *)
(* failure of the filter rolls the content back.  The report is written by *)
(* a connection of its own and stays.  It sees an entity that has content, *)
(* an id and a userId, and passes over any other: a message, which has a   *)
(* senderId, or an entity saved with some of its columns.                  *)
(*                                                                         *)
(* Abstracted: reasons, responses, categories, scores and the action of a  *)
(* rule, which nothing acts upon; a text is the set of patterns it matches *)
(* (an invalid one matches none).  A notification that fails, ends the     *)
(* call at the await it has reached.                                       *)
(***************************************************************************)
EXTENDS Integers, FiniteSets

CONSTANTS
  Users,
  PenaltyIds, AppealIds, ReportIds, RuleIds, ContentIds,
  Patterns,
  RulePriorities,   \* bound: the priorities rules and reports are given
  Calls,
  None,             \* no row, nothing in hand
  MaxFailures,      \* bound: calls that fail at an await
  MaxRuleChanges    \* bound: changes of the rules

PriorityValue == [low |-> 0, medium |-> 1, high |-> 2, urgent |-> 3]
Priorities    == DOMAIN PriorityValue
ReportStatus  == {"pending", "in_review", "resolved", "dismissed"}
Reviews       == {"approved", "rejected"}
Expiry        == {"never", "later", "past"}   \* expiresAt against the clock

Awaits == {"idle", "savePenalty", "loadPenalty", "saveAppeal", "saveReview",
           "saveReport", "filter", "report", "commit"}

Penalty == [userId: Users, isActive: BOOLEAN, revoked: BOOLEAN, expiresAt: Expiry]
Appeal  == [penaltyId: PenaltyIds, status: {"pending"} \cup Reviews]
Report  == [contentId: ContentIds, priority: Priorities, status: ReportStatus]
Rule    == [pattern: Patterns, priority: RulePriorities, isActive: BOOLEAN]
Text    == SUBSET Patterns
Content == [text: Text, whole: BOOLEAN]   \* whole: saved with content, id and userId
Checked == [text: Text, whole: BOOLEAN, priority: Priorities]   \* and what the filter made of it

ASSUME ModerationAssumption ==
  /\ MaxFailures \in Nat /\ MaxRuleChanges \in Nat
  /\ RulePriorities \subseteq Priorities
  /\ None \notin Penalty \cup Appeal \cup Report \cup Rule \cup Content
                  \cup (AppealIds \X Appeal)

VARIABLES
  penalties, appeals, reports, rules, contents,   \* the tables
  pc,           \* the await each call has reached
  review,       \* the appeal a call reviews: <<id, entity>>
  hand,         \* another row a call carries: <<id, entity>>
  failures, ruleChanges

cvars == <<pc, review, hand>>
vars == <<penalties, appeals, reports, rules, contents, cvars, failures, ruleChanges>>

Init ==
  /\ penalties = [p \in PenaltyIds |-> None]
  /\ appeals = [a \in AppealIds |-> None]
  /\ reports = [r \in ReportIds |-> None]
  /\ rules \in [RuleIds -> Rule \cup {None}]   \* whatever rules there are so far
  /\ contents = [i \in ContentIds |-> None]
  /\ pc = [c \in Calls |-> "idle"]
  /\ review = [c \in Calls |-> None]
  /\ hand = [c \in Calls |-> None]
  /\ failures = 0
  /\ ruleChanges = 0

\* Bound: a row is created while an id is left.
Free(table) == {i \in DOMAIN table : table[i] = None}

Go(c, at, id, row) ==
  /\ pc' = [pc EXCEPT ![c] = at]
  /\ hand' = [hand EXCEPT ![c] = <<id, row>>]

End(c) ==
  /\ pc' = [pc EXCEPT ![c] = "idle"]
  /\ review' = [review EXCEPT ![c] = None]
  /\ hand' = [hand EXCEPT ![c] = None]

halfA == <<penalties, appeals>>
halfB == <<reports, rules, contents, ruleChanges>>

--------------------------------------------------------------------------------
(* PenaltyService *)

\* issuePenalty: one insert, and a notification.
IssuePenalty ==
  /\ \E p \in Free(penalties), u \in Users, e \in {"never", "later"} :
       penalties' = [penalties EXCEPT ![p] =
         [userId |-> u, isActive |-> TRUE, revoked |-> FALSE, expiresAt |-> e]]
  /\ UNCHANGED <<appeals, cvars, halfB>>

\* The clock passes expiresAt.
Elapse(p) ==
  /\ penalties[p] # None
  /\ penalties[p].expiresAt = "later"
  /\ penalties' = [penalties EXCEPT ![p].expiresAt = "past"]
  /\ UNCHANGED <<appeals, cvars, halfB>>

\* Mutant of CleanupExpiredPenalties: penalties that have an expiry.
CleanupEarly ==
  /\ penalties' = [p \in PenaltyIds |->
       IF penalties[p] # None /\ penalties[p].expiresAt # "never"
       THEN [penalties[p] EXCEPT !.isActive = FALSE] ELSE penalties[p]]
  /\ UNCHANGED <<appeals, cvars, halfB>>

\* cleanupExpiredPenalties: one UPDATE.
CleanupExpiredPenalties ==
  /\ penalties' = [p \in PenaltyIds |->
       IF penalties[p] # None /\ penalties[p].expiresAt = "past"
       THEN [penalties[p] EXCEPT !.isActive = FALSE] ELSE penalties[p]]
  /\ UNCHANGED <<appeals, cvars, halfB>>

Revoked(penalty) == [penalty EXCEPT !.isActive = FALSE, !.revoked = TRUE]

\* revokePenalty, on its own
StartRevoke(c, p) ==
  /\ pc[c] = "idle"
  /\ penalties[p] # None
  /\ Go(c, "savePenalty", p, Revoked(penalties[p]))
  /\ UNCHANGED <<review, halfA, halfB>>

\* or inside a review.
LoadPenalty(c) ==
  /\ pc[c] = "loadPenalty"
  /\ LET p == review[c][2].penaltyId IN Go(c, "savePenalty", p, Revoked(penalties[p]))
  /\ UNCHANGED <<review, halfA, halfB>>

\* The entity is written over the row; the clock is not in the row.
SavePenalty(c) ==
  /\ pc[c] = "savePenalty"
  /\ penalties' = [penalties EXCEPT ![hand[c][1]] =
       [hand[c][2] EXCEPT !.expiresAt = penalties[hand[c][1]].expiresAt]]
  /\ IF review[c] = None THEN End(c)
     ELSE pc' = [pc EXCEPT ![c] = "saveReview"] /\ UNCHANGED <<review, hand>>
  /\ UNCHANGED <<appeals, halfB>>

\* hasActiveRestriction and getUserActivePenalties.  TypeORM takes
\* "expiresAt: null" for no condition, so that the first alternative of the
\* query takes in the second one.
HasActiveRestriction(u) ==
  \E p \in PenaltyIds : penalties[p] # None /\ penalties[p].userId = u /\ penalties[p].isActive

--------------------------------------------------------------------------------
(* AppealService *)

Appealed(p) == \E a \in AppealIds : appeals[a] # None /\ appeals[a].penaltyId = p

\* createAppeal: the penalty is found and has no appeal yet.
CreateAppeal(c) ==
  /\ pc[c] = "idle"
  /\ Free(appeals) # {}
  /\ \E p \in PenaltyIds :
       /\ penalties[p] # None
       /\ ~Appealed(p)
       /\ Go(c, "saveAppeal", None, [penaltyId |-> p, status |-> "pending"])
  /\ UNCHANGED <<review, halfA, halfB>>

SaveAppeal(c) ==
  /\ pc[c] = "saveAppeal"
  /\ \E a \in Free(appeals) : appeals' = [appeals EXCEPT ![a] = hand[c][2]]
  /\ End(c)
  /\ UNCHANGED <<penalties, halfB>>

\* Mutant of ReviewAppeal: the decision is saved before the penalty is revoked.
ReviewThenRevoke(c, a, status) ==
  /\ pc[c] = "idle"
  /\ appeals[a] # None
  /\ appeals' = [appeals EXCEPT ![a].status = status]
  /\ review' = [review EXCEPT ![c] = <<a, [appeals[a] EXCEPT !.status = status]>>]
  /\ pc' = [pc EXCEPT ![c] = IF status = "approved" THEN "loadPenalty" ELSE "saveReview"]
  /\ UNCHANGED <<hand, penalties, halfB>>

\* reviewAppeal, of any appeal, reviewed before or not; an approval revokes
\* the penalty first.
ReviewAppeal(c, a, status) ==
  /\ pc[c] = "idle"
  /\ appeals[a] # None
  /\ review' = [review EXCEPT ![c] = <<a, [appeals[a] EXCEPT !.status = status]>>]
  /\ pc' = [pc EXCEPT ![c] = IF status = "approved" THEN "loadPenalty" ELSE "saveReview"]
  /\ UNCHANGED <<hand, halfA, halfB>>

SaveReview(c) ==
  /\ pc[c] = "saveReview"
  /\ appeals' = [appeals EXCEPT ![review[c][1]] = review[c][2]]
  /\ End(c)
  /\ UNCHANGED <<penalties, halfB>>

--------------------------------------------------------------------------------
(* ReportService *)

\* create, by a user.
CreateReport ==
  /\ \E r \in Free(reports), i \in ContentIds, priority \in RulePriorities :
       reports' = [reports EXCEPT ![r] =
         [contentId |-> i, priority |-> priority, status |-> "pending"]]
  /\ UNCHANGED <<halfA, rules, contents, ruleChanges, cvars>>

\* updateStatus
UpdateStatus(c, r, status) ==
  /\ pc[c] = "idle"
  /\ reports[r] # None
  /\ Go(c, "saveReport", r, [reports[r] EXCEPT !.status = status])
  /\ UNCHANGED <<review, halfA, halfB>>

SaveReport(c) ==
  /\ pc[c] = "saveReport"
  /\ reports' = [reports EXCEPT ![hand[c][1]] = hand[c][2]]
  /\ End(c)
  /\ UNCHANGED <<halfA, rules, contents, ruleChanges>>

--------------------------------------------------------------------------------
(* FilterService and ContentSubscriber *)

\* createRule, updateRule and deleteRule: one statement each.
ChangeRule(r) ==
  /\ ruleChanges < MaxRuleChanges
  /\ \E rule \in (Rule \cup {None}) \ {rules[r]} : rules' = [rules EXCEPT ![r] = rule]
  /\ ruleChanges' = ruleChanges + 1
  /\ UNCHANGED <<halfA, reports, contents, cvars>>

\* The row a transaction has written is locked until it ends.
Locked(i) == \E c \in Calls : pc[c] \in {"filter", "report", "commit"} /\ hand[c][1] = i

\* An entity is inserted or its content updated, and the subscriber called.
SaveContent(c, i, text) ==
  /\ pc[c] = "idle"
  /\ ~Locked(i)
  /\ \E whole \in BOOLEAN :
       Go(c, IF whole THEN "filter" ELSE "commit", i,
          [text |-> text, whole |-> whole, priority |-> "low"])
  /\ UNCHANGED <<review, halfA, halfB>>

Matching(text) ==
  {r \in RuleIds : rules[r] # None /\ rules[r].isActive /\ rules[r].pattern \in text}

\* The highest of the priorities of the rules, "low" when there are none.
HighestPriority(matched) ==
  CHOOSE p \in {"low"} \cup {rules[r].priority : r \in matched} :
    \A r \in matched : PriorityValue[p] >= PriorityValue[rules[r].priority]

\* filterContent: the active rules, one after the other.
Filter(c) ==
  /\ pc[c] = "filter"
  /\ LET text == hand[c][2].text
         matched == Matching(text)
     IN Go(c, IF matched = {} THEN "commit" ELSE "report", hand[c][1],
           [hand[c][2] EXCEPT !.priority = HighestPriority(matched)])
  /\ UNCHANGED <<review, halfA, halfB>>

\* Mutant of ReportContent: an error is swallowed.
ReportContentOrNot(c) ==
  /\ pc[c] = "report"
  /\ \E r \in Free(reports) :
       \/ UNCHANGED reports
       \/ reports' = [reports EXCEPT ![r] =
            [contentId |-> hand[c][1], priority |-> hand[c][2].priority, status |-> "pending"]]
  /\ pc' = [pc EXCEPT ![c] = "commit"]
  /\ UNCHANGED <<review, hand, halfA, rules, contents, ruleChanges>>

ReportContent(c) ==
  /\ pc[c] = "report"
  /\ \E r \in Free(reports) : reports' = [reports EXCEPT ![r] =
       [contentId |-> hand[c][1], priority |-> hand[c][2].priority, status |-> "pending"]]
  /\ pc' = [pc EXCEPT ![c] = "commit"]
  /\ UNCHANGED <<review, hand, halfA, rules, contents, ruleChanges>>

\* The transaction of the content.
Commit(c) ==
  /\ pc[c] = "commit"
  /\ contents' = [contents EXCEPT ![hand[c][1]] =
       [text |-> hand[c][2].text, whole |-> hand[c][2].whole]]
  /\ End(c)
  /\ UNCHANGED <<halfA, reports, rules, ruleChanges>>

--------------------------------------------------------------------------------
\* An await rejects: the call ends, a transaction is rolled back.
Fail(c) ==
  /\ failures < MaxFailures
  /\ pc[c] # "idle"
  /\ End(c)
  /\ failures' = failures + 1
  /\ UNCHANGED <<halfA, halfB>>

AppealRequest(c) ==
  \/ CreateAppeal(c)
  \/ \E a \in AppealIds, status \in Reviews : ReviewAppeal(c, a, status)

Request(c) ==
  \/ \E p \in PenaltyIds : StartRevoke(c, p)
  \/ AppealRequest(c)
  \/ \E r \in ReportIds, status \in ReportStatus : UpdateStatus(c, r, status)
  \/ \E i \in ContentIds, text \in Text : SaveContent(c, i, text)

Step(c) ==
  \/ LoadPenalty(c) \/ SavePenalty(c) \/ SaveAppeal(c) \/ SaveReview(c)
  \/ SaveReport(c) \/ Filter(c) \/ ReportContent(c) \/ Commit(c)

Next ==
  \/ \E c \in Calls : Fail(c)
  \/ /\ \/ \E c \in Calls : Request(c) \/ Step(c)
        \/ IssuePenalty \/ CleanupExpiredPenalties \/ CreateReport
        \/ \E p \in PenaltyIds : Elapse(p)
        \/ \E r \in RuleIds : ChangeRule(r)
     /\ UNCHANGED failures

Spec == Init /\ [][Next]_vars
--------------------------------------------------------------------------------
(***************************************************************************)
(* The penalty of an approved appeal is revoked, whatever reviews, clean-  *)
(* ups and failures come in between: reviewAppeal revokes before it saves, *)
(* and a penalty that is not active is never made active again.            *)
(***************************************************************************)
ApprovedMeansRevoked ==
  \A a \in AppealIds :
    appeals[a] # None /\ appeals[a].status = "approved" =>
      LET penalty == penalties[appeals[a].penaltyId]
      IN penalty # None /\ penalty.revoked /\ ~penalty.isActive

(***************************************************************************)
(* A penalty that was not revoked and is not over, restricts its user.     *)
(***************************************************************************)
RestrictedWhileInForce ==
  \A p \in PenaltyIds :
    penalties[p] # None /\ ~penalties[p].revoked /\ penalties[p].expiresAt # "past" =>
      HasActiveRestriction(penalties[p].userId)

\* p is the priority of the highest of the rules that match a text.
Deserved(p, text) ==
  /\ \A m \in Matching(text) : PriorityValue[p] >= PriorityValue[rules[m].priority]
  /\ \E m \in Matching(text) : p = rules[m].priority

Reported(i, text) ==
  \E r \in ReportIds :
    reports[r] # None /\ reports[r].contentId = i /\ Deserved(reports[r].priority, text)

(***************************************************************************)
(* While the rules stay as they are, content that the subscriber saw and a *)
(* rule matches is stored with a report of the highest priority of the     *)
(* rules that match it, whatever calls overlap or fail.  A rule that comes *)
(* later finds no content stored before.                                   *)
(***************************************************************************)
StoredIsReported ==
  ruleChanges = 0 =>
    \A i \in ContentIds :
      contents[i] # None /\ contents[i].whole /\ Matching(contents[i].text) # {} =>
        Reported(i, contents[i].text)
================================================================================
