---------------------------- MODULE ModerationProofs ----------------------------
(***************************************************************************)
(* Theorems about the penalties and appeals of Moderation, and about the   *)
(* reports on the content it filters, for any users, rows, rules, texts,   *)
(* overlapping calls and failures.                                         *)
(***************************************************************************)
EXTENDS Moderation, TLAPS

Gone(p) == penalties[p] # None /\ penalties[p].revoked /\ ~penalties[p].isActive

\* The types of what the first half of the module uses.
HalfTypeOK ==
  /\ penalties \in [PenaltyIds -> Penalty \cup {None}]
  /\ appeals \in [AppealIds -> Appeal \cup {None}]
  /\ pc \in [Calls -> Awaits]
  /\ DOMAIN review = Calls /\ DOMAIN hand = Calls

\* A penalty in the table is in force, or it was revoked or is over.
PenaltyOK(p) ==
  penalties[p] # None =>
    /\ penalties[p].revoked => ~penalties[p].isActive
    /\ ~penalties[p].revoked /\ penalties[p].expiresAt # "past" => penalties[p].isActive

\* An appeal is about a penalty, which is gone once it is approved.
AppealOK(a) ==
  appeals[a] # None =>
    /\ penalties[appeals[a].penaltyId] # None
    /\ appeals[a].status = "approved" => Gone(appeals[a].penaltyId)

\* A call that reviews an appeal.
ReviewOK(c) ==
  /\ review[c] # None => pc[c] \in {"loadPenalty", "savePenalty", "saveReview"}
  /\ pc[c] \in {"loadPenalty", "saveReview"} => review[c] # None
  /\ review[c] # None =>
       /\ review[c] = <<review[c][1], review[c][2]>>
       /\ review[c][1] \in AppealIds
       /\ review[c][2] \in Appeal
       /\ penalties[review[c][2].penaltyId] # None
       /\ pc[c] = "saveReview" /\ review[c][2].status = "approved"
            => Gone(review[c][2].penaltyId)

\* What a call is about to save.
HandOK(c) ==
  /\ pc[c] = "savePenalty" =>
       /\ hand[c][1] \in PenaltyIds
       /\ hand[c][2] \in Penalty
       /\ penalties[hand[c][1]] # None
       /\ hand[c][2].revoked /\ ~hand[c][2].isActive
       /\ review[c] # None => hand[c][1] = review[c][2].penaltyId
  /\ pc[c] = "saveAppeal" =>
       /\ hand[c][2] \in Appeal
       /\ hand[c][2].status = "pending"
       /\ penalties[hand[c][2].penaltyId] # None

IInv ==
  /\ HalfTypeOK
  /\ \A p \in PenaltyIds : PenaltyOK(p)
  /\ \A a \in AppealIds : AppealOK(a)
  /\ \A c \in Calls : ReviewOK(c) /\ HandOK(c)

\* What a step does to the penalties: none disappears, none comes back.
Kept == \A p \in PenaltyIds :
          /\ penalties[p] # None => penalties'[p] # None
          /\ Gone(p) => penalties'[p] # None /\ penalties'[p].revoked /\ ~penalties'[p].isActive

LEMMA NoneIsApart == None \notin Penalty /\ None \notin Appeal /\ None \notin AppealIds \X Appeal
  BY ModerationAssumption

LEMMA InitHolds == Init => IInv
<1> SUFFICES ASSUME Init PROVE IInv
  OBVIOUS
<1> USE DEF Init, Awaits
<1>1. HalfTypeOK
  BY DEF HalfTypeOK
<1>2. ASSUME NEW p \in PenaltyIds PROVE PenaltyOK(p)
  BY DEF PenaltyOK
<1>3. ASSUME NEW a \in AppealIds PROVE AppealOK(a)
  BY DEF AppealOK
<1>4. ASSUME NEW c \in Calls PROVE ReviewOK(c) /\ HandOK(c)
  BY DEF ReviewOK, HandOK
<1> QED BY <1>1, <1>2, <1>3, <1>4 DEF IInv

\* A call that stands still keeps its facts when penalties are kept.
LEMMA OthersKept ==
  ASSUME IInv, Kept, NEW c \in Calls,
         pc'[c] = pc[c], review'[c] = review[c], hand'[c] = hand[c]
  PROVE  ReviewOK(c)' /\ HandOK(c)'
<1>1. ReviewOK(c) /\ HandOK(c)
  BY DEF IInv
<1>2. ReviewOK(c)'
  BY <1>1 DEF ReviewOK, Kept, Gone, Appeal
<1>3. HandOK(c)'
  BY <1>1 DEF HandOK, Kept, Appeal
<1> QED BY <1>2, <1>3

\* So do the appeals that are not written.
LEMMA AppealsKept ==
  ASSUME IInv, Kept, NEW a \in AppealIds, appeals'[a] = appeals[a]
  PROVE  AppealOK(a)'
<1>1. AppealOK(a) /\ appeals[a] \in Appeal \cup {None}
  BY DEF IInv, HalfTypeOK
<1> QED BY <1>1 DEF AppealOK, Kept, Gone, Appeal

\* An idle call has no facts to keep.
LEMMA IdleOK ==
  ASSUME NEW c, pc'[c] = "idle", review'[c] = None
  PROVE  ReviewOK(c)' /\ HandOK(c)'
  BY DEF ReviewOK, HandOK

\* Steps that leave the penalties alone.
LEMMA SamePenalties ==
  ASSUME IInv, UNCHANGED penalties
  PROVE  Kept /\ \A p \in PenaltyIds : PenaltyOK(p)'
  BY DEF IInv, Kept, Gone, PenaltyOK

\* A step of one call.
LEMMA OneCall ==
  ASSUME IInv, NEW c \in Calls, HalfTypeOK', Kept,
         \A p \in PenaltyIds : PenaltyOK(p)',
         \A a \in AppealIds : AppealOK(a)',
         ReviewOK(c)' /\ HandOK(c)',
         \A d \in Calls \ {c} :
           pc'[d] = pc[d] /\ review'[d] = review[d] /\ hand'[d] = hand[d]
  PROVE  IInv'
<1>1. ASSUME NEW d \in Calls \ {c} PROVE ReviewOK(d)' /\ HandOK(d)'
  BY OthersKept
<1> QED BY <1>1 DEF IInv

\* A call that moves on, and one that ends, leave the others alone.
LEMMA Moves ==
  ASSUME HalfTypeOK, NEW c \in Calls, NEW at \in Awaits, NEW id, NEW row,
         Go(c, at, id, row), UNCHANGED review
  PROVE  /\ \A d \in Calls \ {c} :
              pc'[d] = pc[d] /\ review'[d] = review[d] /\ hand'[d] = hand[d]
         /\ pc' \in [Calls -> Awaits] /\ DOMAIN review' = Calls /\ DOMAIN hand' = Calls
         /\ pc'[c] = at /\ review'[c] = review[c] /\ hand'[c] = <<id, row>>
  BY DEF HalfTypeOK, Go

LEMMA Ends ==
  ASSUME HalfTypeOK, NEW c \in Calls, End(c)
  PROVE  /\ \A d \in Calls \ {c} :
              pc'[d] = pc[d] /\ review'[d] = review[d] /\ hand'[d] = hand[d]
         /\ pc' \in [Calls -> Awaits] /\ DOMAIN review' = Calls /\ DOMAIN hand' = Calls
         /\ ReviewOK(c)' /\ HandOK(c)'
<1>1. pc'[c] = "idle" /\ review'[c] = None
  BY DEF HalfTypeOK, End
<1> QED BY <1>1, IdleOK DEF HalfTypeOK, End, Awaits

\* A step that touches neither penalties nor appeals.
LEMMA NoWrite ==
  ASSUME IInv, UNCHANGED halfA,
         pc' \in [Calls -> Awaits], DOMAIN review' = Calls, DOMAIN hand' = Calls
  PROVE  /\ HalfTypeOK' /\ Kept
         /\ \A p \in PenaltyIds : PenaltyOK(p)'
         /\ \A a \in AppealIds : AppealOK(a)'
<1>1. HalfTypeOK'
  BY DEF IInv, HalfTypeOK, halfA
<1>2. Kept /\ \A p \in PenaltyIds : PenaltyOK(p)'
  BY SamePenalties DEF halfA
<1>3. ASSUME NEW a \in AppealIds PROVE AppealOK(a)'
  BY <1>2, AppealsKept DEF halfA
<1> QED BY <1>1, <1>2, <1>3

\* A call that ends without writing to them.
LEMMA EndsUnwritten ==
  ASSUME IInv, NEW c \in Calls, End(c), UNCHANGED halfA
  PROVE  IInv'
  BY Ends, NoWrite, OneCall DEF IInv

\* A step of no call that touches neither of them.
LEMMA OutsideCalls ==
  ASSUME IInv, UNCHANGED <<cvars, halfA>>
  PROVE  IInv'
<1>1. HalfTypeOK' /\ Kept /\ (\A p \in PenaltyIds : PenaltyOK(p)')
        /\ \A a \in AppealIds : AppealOK(a)'
  BY NoWrite DEF IInv, HalfTypeOK, cvars
<1>2. ASSUME NEW c \in Calls PROVE ReviewOK(c)' /\ HandOK(c)'
  BY <1>1, OthersKept DEF cvars
<1> QED BY <1>1, <1>2 DEF IInv

\* A step that writes penalties, but neither appeals nor calls.
LEMMA PenaltyStep ==
  ASSUME IInv, UNCHANGED <<appeals, cvars>>, Kept,
         penalties' \in [PenaltyIds -> Penalty \cup {None}],
         \A p \in PenaltyIds : PenaltyOK(p)'
  PROVE  IInv'
<1>1. HalfTypeOK'
  BY DEF IInv, HalfTypeOK, cvars
<1>2. ASSUME NEW a \in AppealIds PROVE AppealOK(a)'
  BY AppealsKept
<1>3. ASSUME NEW c \in Calls PROVE ReviewOK(c)' /\ HandOK(c)'
  BY OthersKept DEF cvars
<1> QED BY <1>1, <1>2, <1>3 DEF IInv

LEMMA IssueStep == ASSUME IInv, IssuePenalty PROVE IInv'
<1>1. PICK p \in Free(penalties), u \in Users, e \in {"never", "later"} :
        penalties' = [penalties EXCEPT ![p] =
          [userId |-> u, isActive |-> TRUE, revoked |-> FALSE, expiresAt |-> e]]
  BY DEF IssuePenalty
<1>2. p \in PenaltyIds /\ penalties[p] = None /\ penalties \in [PenaltyIds -> Penalty \cup {None}]
  BY DEF Free, IInv, HalfTypeOK
<1>3. [userId |-> u, isActive |-> TRUE, revoked |-> FALSE, expiresAt |-> e] \in Penalty
  BY DEF Penalty, Expiry
<1>4. penalties' \in [PenaltyIds -> Penalty \cup {None}]
  BY <1>1, <1>2, <1>3
<1>5. Kept
  BY <1>1, <1>2 DEF Kept, Gone
<1>6. ASSUME NEW q \in PenaltyIds PROVE PenaltyOK(q)'
  BY <1>1, <1>2 DEF PenaltyOK, IInv
<1> QED BY <1>4, <1>5, <1>6, PenaltyStep DEF IssuePenalty

LEMMA ElapseStep == ASSUME IInv, NEW p \in PenaltyIds, Elapse(p) PROVE IInv'
<1>1. penalties' \in [PenaltyIds -> Penalty \cup {None}]
  BY DEF Elapse, IInv, HalfTypeOK, Penalty, Expiry
<1>2. Kept
  BY NoneIsApart DEF Elapse, IInv, HalfTypeOK, Kept, Gone, Penalty, Expiry
<1>3. ASSUME NEW q \in PenaltyIds PROVE PenaltyOK(q)'
  BY DEF Elapse, IInv, HalfTypeOK, PenaltyOK, Penalty, Expiry
<1> QED BY <1>1, <1>2, <1>3, PenaltyStep DEF Elapse

LEMMA CleanupStep == ASSUME IInv, CleanupExpiredPenalties PROVE IInv'
<1> USE DEF CleanupExpiredPenalties
<1>1. penalties' \in [PenaltyIds -> Penalty \cup {None}]
  BY DEF IInv, HalfTypeOK, Penalty, Expiry
<1>2. Kept
  BY NoneIsApart DEF IInv, HalfTypeOK, Kept, Gone, Penalty, Expiry
<1>3. ASSUME NEW q \in PenaltyIds PROVE PenaltyOK(q)'
  BY DEF IInv, HalfTypeOK, PenaltyOK, Penalty, Expiry
<1> QED BY <1>1, <1>2, <1>3, PenaltyStep

\* A call that moves on with something in hand, when what it says holds.
LEMMA GoesOn ==
  ASSUME IInv, UNCHANGED <<review, halfA>>, NEW c \in Calls, NEW at \in Awaits, NEW id, NEW row,
         Go(c, at, id, row), ReviewOK(c)' /\ HandOK(c)'
  PROVE  IInv'
  BY Moves, NoWrite, OneCall DEF IInv

\* Half B goes on with other things in hand.
LEMMA GoesOnElsewhere ==
  ASSUME IInv, UNCHANGED <<review, halfA>>, NEW c \in Calls, NEW id, NEW row,
         NEW at \in {"saveReport", "filter", "report", "commit"},
         pc[c] \in {"idle", "filter", "report"}, Go(c, at, id, row)
  PROVE  IInv'
<1>1. pc'[c] = at /\ review'[c] = review[c] /\ review[c] = None
  BY Moves DEF IInv, ReviewOK, Awaits
<1>2. ReviewOK(c)' /\ HandOK(c)'
  BY <1>1 DEF ReviewOK, HandOK
<1> QED BY <1>2, GoesOn DEF Awaits

LEMMA RevokedFacts ==
  ASSUME NEW p \in Penalty
  PROVE  Revoked(p) \in Penalty /\ Revoked(p).revoked /\ ~Revoked(p).isActive
  BY DEF Revoked, Penalty

LEMMA StartRevokeStep ==
  ASSUME IInv, NEW c \in Calls, NEW p \in PenaltyIds, StartRevoke(c, p)
  PROVE  IInv'
<1> USE DEF StartRevoke
<1>1. review[c] = None /\ penalties[p] \in Penalty
  BY DEF IInv, HalfTypeOK, ReviewOK
<1>2. /\ pc'[c] = "savePenalty" /\ review'[c] = None
      /\ hand'[c] = <<p, Revoked(penalties[p])>>
  BY <1>1, Moves DEF IInv, Awaits
<1>3. ReviewOK(c)' /\ HandOK(c)'
  BY <1>1, <1>2, RevokedFacts DEF ReviewOK, HandOK, halfA
<1> QED BY <1>3, GoesOn DEF Awaits

LEMMA LoadPenaltyStep == ASSUME IInv, NEW c \in Calls, LoadPenalty(c) PROVE IInv'
<1> DEFINE p == review[c][2].penaltyId
<1> USE DEF LoadPenalty
<1>1. /\ ReviewOK(c) /\ review[c] # None /\ p \in PenaltyIds
      /\ penalties[p] \in Penalty
  BY DEF IInv, HalfTypeOK, ReviewOK, Appeal
<1>2. Go(c, "savePenalty", p, Revoked(penalties[p])) /\ UNCHANGED <<review, halfA>>
  OBVIOUS
<1>3. /\ pc'[c] = "savePenalty" /\ review'[c] = review[c]
      /\ hand'[c] = <<p, Revoked(penalties[p])>> /\ penalties' = penalties
  BY <1>2, Moves DEF IInv, Awaits, halfA
<1>4. ReviewOK(c)'
  BY <1>1, <1>3 DEF ReviewOK
<1>5. HandOK(c)'
  BY <1>1, <1>3, RevokedFacts, NoneIsApart DEF HandOK
<1> QED BY <1>2, <1>4, <1>5, GoesOn DEF Awaits

LEMMA CreateAppealStep == ASSUME IInv, NEW c \in Calls, CreateAppeal(c) PROVE IInv'
<1>1. PICK p \in PenaltyIds :
        /\ penalties[p] # None
        /\ Go(c, "saveAppeal", None, [penaltyId |-> p, status |-> "pending"])
  BY DEF CreateAppeal
<1>2. pc[c] = "idle" /\ UNCHANGED <<review, halfA>>
  BY DEF CreateAppeal
<1>3. /\ pc'[c] = "saveAppeal" /\ review'[c] = review[c] /\ penalties' = penalties
      /\ hand'[c] = <<None, [penaltyId |-> p, status |-> "pending"]>>
  BY <1>1, <1>2, Moves DEF IInv, Awaits, halfA
<1>4. ReviewOK(c)'
  BY <1>2, <1>3 DEF ReviewOK, IInv
<1>5. HandOK(c)'
  BY <1>1, <1>3 DEF HandOK, Appeal
<1> QED BY <1>1, <1>2, <1>4, <1>5, GoesOn DEF Awaits

LEMMA SaveAppealStep == ASSUME IInv, NEW c \in Calls, SaveAppeal(c) PROVE IInv'
<1>1. PICK a \in Free(appeals) : appeals' = [appeals EXCEPT ![a] = hand[c][2]]
  BY DEF SaveAppeal
<1>2. UNCHANGED penalties /\ End(c)
  BY DEF SaveAppeal
<1>3. a \in AppealIds /\ HandOK(c) /\ pc[c] = "saveAppeal"
  BY DEF Free, IInv, HalfTypeOK, SaveAppeal
<1>4. HalfTypeOK'
  BY <1>1, <1>2, <1>3, Ends DEF IInv, HalfTypeOK, HandOK
<1>5. Kept /\ \A p \in PenaltyIds : PenaltyOK(p)'
  BY <1>2, SamePenalties
<1>6. ASSUME NEW b \in AppealIds PROVE AppealOK(b)'
  <2>1. CASE b = a
    BY <1>1, <1>2, <1>3, <2>1 DEF IInv, HalfTypeOK, AppealOK, HandOK
  <2>2. CASE b # a
    BY <1>1, <1>5, <2>2, AppealsKept DEF IInv, HalfTypeOK
  <2> QED BY <2>1, <2>2
<1> QED BY <1>2, <1>4, <1>5, <1>6, Ends, OneCall DEF IInv

LEMMA ReviewAppealStep ==
  ASSUME IInv, NEW c \in Calls, NEW a \in AppealIds, NEW status \in Reviews,
         ReviewAppeal(c, a, status)
  PROVE  IInv'
<1> DEFINE row == [appeals[a] EXCEPT !.status = status]
<1> USE DEF ReviewAppeal
<1>1. AppealOK(a) /\ appeals[a] # None /\ appeals[a] \in Appeal
  BY DEF IInv, HalfTypeOK
<1>2. row \in Appeal /\ row.penaltyId = appeals[a].penaltyId /\ row.status = status
  BY <1>1 DEF Appeal, Reviews
<1>3. /\ \A d \in Calls \ {c} :
           pc'[d] = pc[d] /\ review'[d] = review[d] /\ hand'[d] = hand[d]
      /\ pc' \in [Calls -> Awaits] /\ DOMAIN review' = Calls /\ DOMAIN hand' = Calls
      /\ pc'[c] = IF status = "approved" THEN "loadPenalty" ELSE "saveReview"
      /\ review'[c] = <<a, row>> /\ hand'[c] = hand[c] /\ penalties' = penalties
  BY DEF IInv, HalfTypeOK, Awaits, halfA
<1> HIDE DEF row
<1>4. <<a, row>> # None
  BY <1>2, NoneIsApart
<1>5. ReviewOK(c)'
  BY <1>1, <1>2, <1>3, <1>4 DEF ReviewOK, AppealOK
<1>6. HandOK(c)'
  BY <1>3 DEF HandOK
<1> QED BY <1>3, <1>5, <1>6, NoWrite, OneCall

LEMMA SaveReviewStep == ASSUME IInv, NEW c \in Calls, SaveReview(c) PROVE IInv'
<1> DEFINE a == review[c][1]
           row == review[c][2]
<1> USE DEF SaveReview
<1>1. /\ a \in AppealIds /\ row \in Appeal /\ penalties[row.penaltyId] # None
      /\ row.status = "approved" => Gone(row.penaltyId)
  BY DEF IInv, ReviewOK
<1>2. appeals' = [appeals EXCEPT ![a] = row] /\ UNCHANGED penalties /\ End(c)
  OBVIOUS
<1> HIDE DEF a, row
<1>4. HalfTypeOK'
  BY <1>1, <1>2, Ends DEF IInv, HalfTypeOK
<1>5. Kept /\ \A p \in PenaltyIds : PenaltyOK(p)'
  BY <1>2, SamePenalties
<1>6. ASSUME NEW b \in AppealIds PROVE AppealOK(b)'
  <2>1. CASE b = a
    BY <1>1, <1>2, <2>1 DEF IInv, HalfTypeOK, AppealOK, Gone
  <2>2. CASE b # a
    BY <1>1, <1>2, <1>5, <2>2, AppealsKept DEF IInv, HalfTypeOK
  <2> QED BY <2>1, <2>2
<1> QED BY <1>2, <1>4, <1>5, <1>6, Ends, OneCall DEF IInv

LEMMA SavePenaltyStep == ASSUME IInv, NEW c \in Calls, SavePenalty(c) PROVE IInv'
<1> DEFINE p == hand[c][1]
           row == [hand[c][2] EXCEPT !.expiresAt = penalties[p].expiresAt]
<1>1. /\ pc[c] = "savePenalty" /\ ReviewOK(c) /\ HandOK(c)
      /\ p \in PenaltyIds /\ penalties[p] \in Penalty
  BY DEF SavePenalty, IInv, HalfTypeOK, HandOK
<1>2. row \in Penalty /\ row.revoked /\ ~row.isActive
  BY <1>1 DEF HandOK, Penalty
<1>3. penalties' = [penalties EXCEPT ![p] = row] /\ UNCHANGED appeals
  BY DEF SavePenalty
<1> HIDE DEF row
<1>4. /\ penalties' \in [PenaltyIds -> Penalty \cup {None}]
      /\ penalties'[p] = row
      /\ \A q \in PenaltyIds \ {p} : penalties'[q] = penalties[q]
  BY <1>1, <1>2, <1>3 DEF IInv, HalfTypeOK
<1>5. Kept
  BY <1>1, <1>2, <1>4, NoneIsApart DEF Kept, Gone
<1>6. ASSUME NEW q \in PenaltyIds PROVE PenaltyOK(q)'
  BY <1>2, <1>4 DEF IInv, PenaltyOK
<1>7. ASSUME NEW b \in AppealIds PROVE AppealOK(b)'
  BY <1>3, <1>5, AppealsKept
<1>8. CASE review[c] = None
  <2>1. End(c)
    BY <1>8 DEF SavePenalty
  <2>2. HalfTypeOK'
    BY <1>3, <1>4, <2>1, Ends DEF IInv, HalfTypeOK
  <2> QED BY <1>5, <1>6, <1>7, <2>1, <2>2, Ends, OneCall DEF IInv
<1>9. CASE review[c] # None
  <2>1. pc' = [pc EXCEPT ![c] = "saveReview"] /\ UNCHANGED <<review, hand>>
    BY <1>9 DEF SavePenalty
  <2>2. HalfTypeOK' /\ pc'[c] = "saveReview"
    BY <1>3, <1>4, <2>1 DEF IInv, HalfTypeOK, Awaits
  <2>3. p = review[c][2].penaltyId
    BY <1>1, <1>9 DEF HandOK
  <2>4. ReviewOK(c)'
    BY <1>1, <1>2, <1>4, <1>9, <2>1, <2>2, <2>3, NoneIsApart DEF ReviewOK, Gone
  <2>5. HandOK(c)'
    BY <2>2 DEF HandOK
  <2> QED BY <1>5, <1>6, <1>7, <2>1, <2>2, <2>4, <2>5, OneCall DEF IInv, HalfTypeOK
<1> QED BY <1>8, <1>9

--------------------------------------------------------------------------------
LEMMA StepHolds == IInv /\ [Next]_vars => IInv'
<1> SUFFICES ASSUME IInv, [Next]_vars PROVE IInv'
  OBVIOUS
<1>1. CASE UNCHANGED vars
  BY <1>1, OutsideCalls DEF vars, cvars, halfA
<1>2. ASSUME NEW c \in Calls, Fail(c) PROVE IInv'
  BY <1>2, EndsUnwritten DEF Fail
<1>3. ASSUME NEW c \in Calls, Request(c) PROVE IInv'
  <2>1. CASE \E p \in PenaltyIds : StartRevoke(c, p)
    BY <2>1, StartRevokeStep
  <2>2. CASE CreateAppeal(c)
    BY <2>2, CreateAppealStep
  <2>3. CASE \E a \in AppealIds, status \in Reviews : ReviewAppeal(c, a, status)
    BY <2>3, ReviewAppealStep
  <2>4. CASE \E r \in ReportIds, status \in ReportStatus : UpdateStatus(c, r, status)
    BY <2>4, GoesOnElsewhere DEF UpdateStatus
  <2>5. CASE \E i \in ContentIds, text \in Text : SaveContent(c, i, text)
    <3>1. PICK at \in {"filter", "commit"} : \E i, row : Go(c, at, i, row)
      BY <2>5 DEF SaveContent
    <3> QED BY <2>5, <3>1, GoesOnElsewhere DEF SaveContent
  <2> QED BY <1>3, <2>1, <2>2, <2>3, <2>4, <2>5 DEF Request, AppealRequest
<1>4. ASSUME NEW c \in Calls, Step(c) PROVE IInv'
  <2>1. CASE LoadPenalty(c) BY <2>1, LoadPenaltyStep
  <2>2. CASE SavePenalty(c) BY <2>2, SavePenaltyStep
  <2>3. CASE SaveAppeal(c) BY <2>3, SaveAppealStep
  <2>4. CASE SaveReview(c) BY <2>4, SaveReviewStep
  <2>5. CASE SaveReport(c) BY <2>5, EndsUnwritten DEF SaveReport
  <2>6. CASE Filter(c)
    <3>1. PICK at \in {"report", "commit"} : \E row : Go(c, at, hand[c][1], row)
      BY <2>6 DEF Filter
    <3> QED BY <2>6, <3>1, GoesOnElsewhere DEF Filter
  <2>7. CASE ReportContent(c)
    <3>1. UNCHANGED <<review, halfA, hand>> /\ pc' = [pc EXCEPT ![c] = "commit"]
      BY <2>7 DEF ReportContent
    <3>2. pc'[c] = "commit" /\ pc' \in [Calls -> Awaits] /\ review[c] = None
      BY <2>7, <3>1 DEF ReportContent, IInv, HalfTypeOK, ReviewOK, Awaits
    <3>3. ReviewOK(c)' /\ HandOK(c)'
      BY <3>1, <3>2 DEF ReviewOK, HandOK
    <3> QED BY <3>1, <3>2, <3>3, NoWrite, OneCall DEF IInv, HalfTypeOK
  <2>8. CASE Commit(c) BY <2>8, EndsUnwritten DEF Commit
  <2> QED BY <1>4, <2>1, <2>2, <2>3, <2>4, <2>5, <2>6, <2>7, <2>8 DEF Step
<1>5. CASE IssuePenalty BY <1>5, IssueStep
<1>6. CASE CleanupExpiredPenalties BY <1>6, CleanupStep
<1>7. CASE CreateReport BY <1>7, OutsideCalls DEF CreateReport
<1>8. ASSUME NEW p \in PenaltyIds, Elapse(p) PROVE IInv' BY <1>8, ElapseStep
<1>9. ASSUME NEW r \in RuleIds, ChangeRule(r) PROVE IInv'
  BY <1>9, OutsideCalls DEF ChangeRule
<1> QED BY <1>1, <1>2, <1>3, <1>4, <1>5, <1>6, <1>7, <1>8, <1>9 DEF Next

LEMMA Invariant == Spec => []IInv
  BY InitHolds, StepHolds, PTL DEF Spec

(***************************************************************************)
(* The penalty of an approved appeal is revoked and not active, for any    *)
(* number of overlapping reviews, revocations and clean-ups, any of which  *)
(* may fail: reviewAppeal revokes before it saves the appeal.              *)
(***************************************************************************)
THEOREM ApprovalRevokes == Spec => []ApprovedMeansRevoked
<1>1. IInv => ApprovedMeansRevoked
  BY DEF IInv, AppealOK, Gone, ApprovedMeansRevoked
<1> QED BY <1>1, Invariant, PTL

(***************************************************************************)
(* A penalty that was neither revoked nor has expired, restricts its user: *)
(* hasActiveRestriction.                                                   *)
(***************************************************************************)
THEOREM InForceRestricts == Spec => []RestrictedWhileInForce
<1>1. IInv => RestrictedWhileInForce
  BY DEF IInv, PenaltyOK, RestrictedWhileInForce, HasActiveRestriction
<1> QED BY <1>1, Invariant, PTL


--------------------------------------------------------------------------------
(* Reports and content *)

ContentTypes ==
  /\ reports \in [ReportIds -> Report \cup {None}]
  /\ rules \in [RuleIds -> Rule \cup {None}]
  /\ contents \in [ContentIds -> Content \cup {None}]
  /\ ruleChanges \in Nat

\* What a call of the second half carries.
CarriesOK(c) ==
  /\ pc[c] = "saveReport" =>
       /\ hand[c] = <<hand[c][1], hand[c][2]>>
       /\ hand[c][1] \in ReportIds /\ hand[c][2] \in Report
       /\ reports[hand[c][1]] # None
       /\ hand[c][2].contentId = reports[hand[c][1]].contentId
       /\ hand[c][2].priority = reports[hand[c][1]].priority
  /\ pc[c] \in {"filter", "report", "commit"} =>
       hand[c][1] \in ContentIds /\ hand[c][2] \in Checked
  /\ ruleChanges = 0 =>
       /\ pc[c] = "report" => Deserved(hand[c][2].priority, hand[c][2].text)
       /\ pc[c] = "commit" /\ hand[c][2].whole /\ Matching(hand[c][2].text) # {}
            => Reported(hand[c][1], hand[c][2].text)

ContentInv ==
  /\ ContentTypes
  /\ \A c \in Calls : CarriesOK(c)
  /\ StoredIsReported

\* A report keeps its content and its priority.
ReportsKept ==
  \A r \in ReportIds : reports[r] # None =>
    /\ reports'[r] # None
    /\ reports'[r].contentId = reports[r].contentId
    /\ reports'[r].priority = reports[r].priority

LEMMA ReportsApart == None \notin Report /\ None \notin Rule /\ None \notin Content
  BY ModerationAssumption

LEMMA HighestDeserved ==
  ASSUME ContentTypes, NEW text
  PROVE  /\ HighestPriority(Matching(text)) \in Priorities
         /\ Matching(text) # {} => Deserved(HighestPriority(Matching(text)), text)
<1>1. PICK matched : matched = Matching(text)
  OBVIOUS
<1>2. \A r \in matched : rules[r].priority \in Priorities
  BY <1>1, ModerationAssumption DEF Matching, ContentTypes, Rule
<1>3. \A p \in Priorities : PriorityValue[p] \in 0..3
  BY DEF Priorities, PriorityValue
<1>4. PriorityValue["low"] = 0 /\ \A p \in Priorities : PriorityValue[p] = 0 => p = "low"
  BY DEF Priorities, PriorityValue
<1>5. PICK found : found = {"low"} \cup {rules[r].priority : r \in matched}
  OBVIOUS
<1>6. \E p \in found : \A r \in matched : PriorityValue[p] >= PriorityValue[rules[r].priority]
  <2>1. PICK values : values = {PriorityValue[p] : p \in found}
    OBVIOUS
  <2>2. values \subseteq 0..3 /\ 0 \in values
    BY <1>2, <1>3, <1>4, <1>5, <2>1 DEF Priorities, PriorityValue
  <2>3. \E n \in values : \A m \in values : n >= m
    <3>1. CASE 3 \in values BY <2>2, <3>1
    <3>2. CASE 3 \notin values /\ 2 \in values BY <2>2, <3>2
    <3>3. CASE 3 \notin values /\ 2 \notin values /\ 1 \in values BY <2>2, <3>3
    <3>4. CASE 3 \notin values /\ 2 \notin values /\ 1 \notin values BY <2>2, <3>4
    <3> QED BY <3>1, <3>2, <3>3, <3>4
  <2>4. \A r \in matched : rules[r].priority \in found
    BY <1>5
  <2> QED BY <2>1, <2>3, <2>4
<1>7. PICK p \in found : /\ p = HighestPriority(matched)
                         /\ \A r \in matched : PriorityValue[p] >= PriorityValue[rules[r].priority]
  BY <1>5, <1>6 DEF HighestPriority
<1>8. p \in Priorities
  BY <1>2, <1>5, <1>7 DEF Priorities, PriorityValue
<1>9. ASSUME matched # {} PROVE \E r \in matched : p = rules[r].priority
  <2>1. PICK r \in matched : TRUE
    BY <1>9
  <2>2. CASE p = "low"
    <3>1. PriorityValue[rules[r].priority] = 0
      BY <1>2, <1>3, <1>4, <1>7, <2>2
    <3> QED BY <1>2, <1>4, <2>2, <3>1
  <2>3. CASE p # "low"
    BY <1>5, <1>7, <2>3
  <2> QED BY <2>2, <2>3
<1> QED BY <1>1, <1>7, <1>8, <1>9 DEF Deserved


LEMMA ReportedKept ==
  ASSUME ReportsKept, UNCHANGED rules, NEW i, NEW text
  PROVE  /\ Matching(text)' = Matching(text)
         /\ \A p : Deserved(p, text)' = Deserved(p, text)
         /\ Reported(i, text) => Reported(i, text)'
<1>1. Matching(text)' = Matching(text)
  BY DEF Matching
<1>2. \A p : Deserved(p, text)' = Deserved(p, text)
  BY <1>1 DEF Deserved
<1>3. ASSUME Reported(i, text) PROVE Reported(i, text)'
  <2>1. PICK r \in ReportIds : reports[r] # None /\ reports[r].contentId = i
             /\ Deserved(reports[r].priority, text)
    BY <1>3 DEF Reported
  <2>2. PICK p : p = reports[r].priority
    OBVIOUS
  <2>3. reports'[r] # None /\ reports'[r].contentId = i /\ reports'[r].priority = p
        /\ Deserved(p, text)'
    BY <1>2, <2>1, <2>2 DEF ReportsKept
  <2> QED BY <1>1, <2>3 DEF Reported, Deserved
<1> QED BY <1>1, <1>2, <1>3

LEMMA CarriesKept ==
  ASSUME ContentInv, ReportsKept, UNCHANGED <<rules, ruleChanges>>,
         NEW c \in Calls, pc'[c] = pc[c], hand'[c] = hand[c]
  PROVE  CarriesOK(c)'
<1>1. PICK i, row : i = hand[c][1] /\ row = hand[c][2]
  OBVIOUS
<1>2. CarriesOK(c)
  BY DEF ContentInv
<1>3. /\ pc[c] = "saveReport" => /\ hand[c] = <<i, row>> /\ i \in ReportIds /\ row \in Report
                                 /\ reports'[i] # None
                                 /\ row.contentId = reports'[i].contentId
                                 /\ row.priority = reports'[i].priority
      /\ pc[c] \in {"filter", "report", "commit"} => i \in ContentIds /\ row \in Checked
  BY <1>1, <1>2 DEF CarriesOK, ReportsKept
<1>4. PICK text : text = row.text
  OBVIOUS
<1>5. PICK p : p = row.priority
  OBVIOUS
<1>6. ruleChanges = 0 =>
       /\ pc[c] = "report" => Deserved(p, text)'
       /\ pc[c] = "commit" /\ row.whole /\ Matching(text)' # {} => Reported(i, text)'
  BY <1>1, <1>2, <1>4, <1>5, ReportedKept DEF CarriesOK
<1>7. hand'[c][1] = i /\ hand'[c][2] = row
  BY <1>1
<1> QED BY <1>3, <1>4, <1>5, <1>6, <1>7 DEF CarriesOK

LEMMA StoredKept ==
  ASSUME ContentInv, ReportsKept, UNCHANGED <<rules, ruleChanges, contents>>
  PROVE  StoredIsReported'
<1>1. ASSUME ruleChanges = 0, NEW i \in ContentIds, NEW text, contents[i] # None,
             contents[i].text = text, contents[i].whole,
             Matching(text)' # {}
      PROVE  Reported(i, text)'
  BY <1>1, ReportedKept DEF ContentInv, StoredIsReported
<1> QED BY <1>1 DEF StoredIsReported, Reported, Deserved, Matching

\* A step of one call, which may write reports.
LEMMA ContentStep ==
  ASSUME ContentInv, ContentTypes', ReportsKept, UNCHANGED <<rules, ruleChanges>>,
         NEW c \in Calls, CarriesOK(c)', StoredIsReported',
         \A d \in Calls \ {c} : pc'[d] = pc[d] /\ hand'[d] = hand[d]
  PROVE  ContentInv'
<1>1. ASSUME NEW d \in Calls \ {c} PROVE CarriesOK(d)'
  BY CarriesKept
<1> QED BY <1>1 DEF ContentInv

\* A call that does not write to the second half's tables.
LEMMA CallStep ==
  ASSUME ContentInv, UNCHANGED <<reports, rules, contents, ruleChanges>>,
         NEW c \in Calls, CarriesOK(c)',
         \A d \in Calls \ {c} : pc'[d] = pc[d] /\ hand'[d] = hand[d]
  PROVE  ContentInv'
<1>1. ReportsKept /\ ContentTypes'
  BY DEF ReportsKept, ContentInv, ContentTypes
<1> QED BY <1>1, ContentStep, StoredKept

LEMMA IdleCarries ==
  ASSUME NEW c, pc'[c] \in {"idle", "savePenalty", "loadPenalty", "saveAppeal", "saveReview"}
  PROVE  CarriesOK(c)'
  BY DEF CarriesOK

LEMMA PenaltiesElsewhere ==
  ASSUME IInv, ContentInv, NEW c \in Calls,
         \/ \E p \in PenaltyIds : StartRevoke(c, p)
         \/ AppealRequest(c) \/ LoadPenalty(c) \/ SavePenalty(c) \/ SaveAppeal(c) \/ SaveReview(c)
         \/ Fail(c)
  PROVE  ContentInv'
<1>1. DOMAIN pc = Calls /\ DOMAIN hand = Calls
  BY DEF IInv, HalfTypeOK
<1>2. UNCHANGED <<reports, rules, contents, ruleChanges>>
  BY DEF StartRevoke, AppealRequest, CreateAppeal, ReviewAppeal, LoadPenalty, SavePenalty,
     SaveAppeal, SaveReview, Fail, halfB
<1>3. /\ pc'[c] \in {"idle", "savePenalty", "loadPenalty", "saveAppeal", "saveReview"}
      /\ \A d \in Calls \ {c} : pc'[d] = pc[d] /\ hand'[d] = hand[d]
  <2>1. CASE \E p \in PenaltyIds : StartRevoke(c, p)
    BY <1>1, <2>1 DEF StartRevoke, Go
  <2>2. CASE CreateAppeal(c)
    BY <1>1, <2>2 DEF CreateAppeal, Go
  <2>3. CASE \E a \in AppealIds, status \in Reviews : ReviewAppeal(c, a, status)
    BY <1>1, <2>3 DEF ReviewAppeal
  <2>4. CASE LoadPenalty(c)
    BY <1>1, <2>4 DEF LoadPenalty, Go
  <2>5. CASE SavePenalty(c)
    BY <1>1, <2>5 DEF SavePenalty, End
  <2>6. CASE SaveAppeal(c) \/ SaveReview(c) \/ Fail(c)
    BY <1>1, <2>6 DEF SaveAppeal, SaveReview, Fail, End
  <2> QED BY <2>1, <2>2, <2>3, <2>4, <2>5, <2>6 DEF AppealRequest
<1>4. CarriesOK(c)'
  BY <1>3, IdleCarries
<1> QED BY <1>2, <1>3, <1>4, CallStep


\* A call that goes on.
LEMMA CallGoes ==
  ASSUME IInv, NEW c \in Calls, NEW at, NEW id, NEW row, Go(c, at, id, row)
  PROVE  /\ pc'[c] = at /\ hand'[c] = <<id, row>>
         /\ \A d \in Calls \ {c} : pc'[d] = pc[d] /\ hand'[d] = hand[d]
  BY DEF IInv, HalfTypeOK, Go

LEMMA UpdateStatusKeeps ==
  ASSUME IInv, ContentInv, NEW c \in Calls, NEW r \in ReportIds, NEW status \in ReportStatus,
         UpdateStatus(c, r, status)
  PROVE  ContentInv'
<1>1. reports[r] # None /\ reports[r] \in Report
  BY DEF UpdateStatus, ContentInv, ContentTypes
<1>2. PICK row : row = [reports[r] EXCEPT !.status = status]
  OBVIOUS
<1>3. row \in Report /\ row.contentId = reports[r].contentId /\ row.priority = reports[r].priority
  BY <1>1, <1>2 DEF Report
<1>4. Go(c, "saveReport", r, row) /\ UNCHANGED <<reports, rules, contents, ruleChanges>>
  BY <1>2 DEF UpdateStatus, halfB
<1>5. /\ pc'[c] = "saveReport" /\ hand'[c] = <<r, row>>
      /\ \A d \in Calls \ {c} : pc'[d] = pc[d] /\ hand'[d] = hand[d]
  BY <1>4, CallGoes
<1>6. CarriesOK(c)'
  BY <1>1, <1>3, <1>4, <1>5 DEF CarriesOK
<1> QED BY <1>4, <1>5, <1>6, CallStep

LEMMA SaveContentKeeps ==
  ASSUME IInv, ContentInv, NEW c \in Calls, NEW i \in ContentIds, NEW text \in Text,
         SaveContent(c, i, text)
  PROVE  ContentInv'
<1>1. PICK whole \in BOOLEAN :
        Go(c, IF whole THEN "filter" ELSE "commit", i,
           [text |-> text, whole |-> whole, priority |-> "low"])
  BY DEF SaveContent
<1>2. PICK row \in Checked : row = [text |-> text, whole |-> whole, priority |-> "low"]
  <2>1. [text |-> text, whole |-> whole, priority |-> "low"] \in Checked
    BY DEF Checked, Priorities, PriorityValue
  <2> QED BY <2>1
<1>3. PICK at : at = IF whole THEN "filter" ELSE "commit"
  OBVIOUS
<1>4. Go(c, at, i, row) /\ UNCHANGED <<reports, rules, contents, ruleChanges>>
  BY <1>1, <1>2, <1>3 DEF SaveContent, halfB
<1>5. /\ pc'[c] = at /\ hand'[c] = <<i, row>>
      /\ \A d \in Calls \ {c} : pc'[d] = pc[d] /\ hand'[d] = hand[d]
  BY <1>4, CallGoes
<1>6. row.whole = whole
  BY <1>2
<1>7. CarriesOK(c)'
  BY <1>3, <1>5, <1>6 DEF CarriesOK
<1> QED BY <1>4, <1>5, <1>7, CallStep

LEMMA FilterKeeps ==
  ASSUME IInv, ContentInv, NEW c \in Calls, Filter(c)
  PROVE  ContentInv'
<1>1. PICK i \in ContentIds, text \in Text : i = hand[c][1] /\ text = hand[c][2].text
  BY DEF ContentInv, CarriesOK, Checked, Filter
<1>2. PICK p \in Priorities : p = HighestPriority(Matching(text))
           /\ (Matching(text) # {} => Deserved(p, text))
  BY HighestDeserved DEF ContentInv
<1>3. PICK row \in Checked : row = [hand[c][2] EXCEPT !.priority = p] /\ row.text = text
                             /\ row.priority = p
  <2>1. hand[c][2] \in Checked
    BY DEF ContentInv, CarriesOK, Filter
  <2>2. /\ [hand[c][2] EXCEPT !.priority = p] \in Checked
        /\ [hand[c][2] EXCEPT !.priority = p].text = text
        /\ [hand[c][2] EXCEPT !.priority = p].priority = p
    BY <1>1, <2>1 DEF Checked
  <2> QED BY <2>2
<1>4. PICK at : at = IF Matching(text) = {} THEN "commit" ELSE "report"
  OBVIOUS
<1>5. Go(c, at, i, row) /\ UNCHANGED <<reports, rules, contents, ruleChanges>>
  BY <1>1, <1>2, <1>3, <1>4 DEF Filter, halfB
<1>6. /\ pc'[c] = at /\ hand'[c] = <<i, row>>
      /\ \A d \in Calls \ {c} : pc'[d] = pc[d] /\ hand'[d] = hand[d]
  BY <1>5, CallGoes
<1>7. ReportsKept
  BY <1>5 DEF ReportsKept
<1>8. Matching(text)' = Matching(text) /\ Deserved(p, text)' = Deserved(p, text)
  BY <1>5, <1>7, ReportedKept
<1>9. /\ hand'[c][1] = i /\ hand'[c][2] = row /\ row.text = text /\ row.priority = p
  BY <1>3, <1>6
<1>10. /\ pc'[c] = "report" => Deserved(p, text)'
       /\ pc'[c] = "commit" => Matching(text)' = {}
  BY <1>2, <1>4, <1>6, <1>8
<1>11. CarriesOK(c)'
  BY <1>4, <1>6, <1>9, <1>10 DEF CarriesOK
<1> QED BY <1>5, <1>6, <1>11, CallStep

LEMMA SaveReportKeeps ==
  ASSUME IInv, ContentInv, NEW c \in Calls, SaveReport(c)
  PROVE  ContentInv'
<1>1. PICK r \in ReportIds, row \in Report : hand[c] = <<r, row>>
  BY DEF ContentInv, CarriesOK, SaveReport
<1>2. /\ reports[r] # None
      /\ row.contentId = reports[r].contentId /\ row.priority = reports[r].priority
  BY <1>1 DEF ContentInv, CarriesOK, SaveReport
<1>3. /\ reports' = [reports EXCEPT ![r] = row] /\ UNCHANGED <<rules, contents, ruleChanges>>
      /\ End(c)
  BY <1>1 DEF SaveReport
<1>4. ReportsKept /\ ContentTypes'
  BY <1>1, <1>2, <1>3, ReportsApart DEF ReportsKept, ContentInv, ContentTypes
<1>5. /\ pc'[c] = "idle"
      /\ \A d \in Calls \ {c} : pc'[d] = pc[d] /\ hand'[d] = hand[d]
  BY <1>3 DEF End, IInv, HalfTypeOK
<1>6. CarriesOK(c)'
  BY <1>5, IdleCarries
<1> QED BY <1>3, <1>4, <1>5, <1>6, StoredKept, ContentStep

\* A report is inserted.
LEMMA Inserted ==
  ASSUME ContentInv, NEW r \in Free(reports), NEW row \in Report,
         reports' = [reports EXCEPT ![r] = row], UNCHANGED <<rules, contents, ruleChanges>>
  PROVE  ReportsKept /\ ContentTypes' /\ r \in ReportIds /\ reports'[r] = row
  BY ReportsApart DEF Free, ReportsKept, ContentInv, ContentTypes

LEMMA ReportContentKeeps ==
  ASSUME IInv, ContentInv, NEW c \in Calls, ReportContent(c)
  PROVE  ContentInv'
<1>1. PICK i \in ContentIds, row \in Checked : i = hand[c][1] /\ row = hand[c][2]
  BY DEF ContentInv, CarriesOK, ReportContent
<1>2. PICK text, p : text = row.text /\ p = row.priority /\ p \in Priorities
  BY DEF Checked
<1>3. PICK new \in Report : new = [contentId |-> i, priority |-> p, status |-> "pending"]
  <2>1. [contentId |-> i, priority |-> p, status |-> "pending"] \in Report
    BY <1>2 DEF Report, ReportStatus
  <2> QED BY <2>1
<1>4. PICK r \in Free(reports) : reports' = [reports EXCEPT ![r] = new]
  BY <1>1, <1>2, <1>3 DEF ReportContent
<1>5. /\ UNCHANGED <<rules, contents, ruleChanges, hand>>
      /\ pc' = [pc EXCEPT ![c] = "commit"]
  BY DEF ReportContent
<1>6. ReportsKept /\ ContentTypes' /\ r \in ReportIds /\ reports'[r] = new
  BY <1>4, <1>5, Inserted
<1>7. /\ pc'[c] = "commit"
      /\ \A d \in Calls \ {c} : pc'[d] = pc[d] /\ hand'[d] = hand[d]
  BY <1>5 DEF IInv, HalfTypeOK
<1>8. ruleChanges = 0 => Deserved(p, text)
  BY <1>1, <1>2 DEF ContentInv, CarriesOK, ReportContent
<1>9. ruleChanges = 0 => Reported(i, text)'
  <2>1. ruleChanges = 0 => Deserved(p, text)'
    BY <1>5, <1>6, <1>8, ReportedKept
  <2>2. new # None /\ new.contentId = i /\ new.priority = p
    BY <1>3, ReportsApart
  <2> QED BY <1>6, <2>1, <2>2 DEF Reported, Deserved
<1>10. hand'[c][1] = i /\ hand'[c][2] = row
  BY <1>1, <1>5
<1>11. CarriesOK(c)'
  BY <1>2, <1>5, <1>7, <1>9, <1>10 DEF CarriesOK
<1> QED BY <1>5, <1>6, <1>7, <1>11, StoredKept, ContentStep

LEMMA CommitKeeps ==
  ASSUME IInv, ContentInv, NEW c \in Calls, Commit(c)
  PROVE  ContentInv'
<1>1. PICK i \in ContentIds, row \in Checked : i = hand[c][1] /\ row = hand[c][2]
  BY DEF ContentInv, CarriesOK, Commit
<1>2. PICK text \in Text : text = row.text
  BY DEF Checked
<1>3. PICK new \in Content : new = [text |-> text, whole |-> row.whole]
  <2>1. [text |-> text, whole |-> row.whole] \in Content
    BY DEF Content, Checked
  <2> QED BY <2>1
<1>4. contents' = [contents EXCEPT ![i] = new] /\ UNCHANGED <<reports, rules, ruleChanges>>
      /\ End(c)
  BY <1>1, <1>2, <1>3 DEF Commit
<1>5. ReportsKept /\ ContentTypes'
  BY <1>4, ReportsApart DEF ReportsKept, ContentInv, ContentTypes
<1>6. /\ pc'[c] = "idle"
      /\ \A d \in Calls \ {c} : pc'[d] = pc[d] /\ hand'[d] = hand[d]
  BY <1>4 DEF End, IInv, HalfTypeOK
<1>7. ruleChanges = 0 /\ row.whole /\ Matching(text) # {} => Reported(i, text)
  BY <1>1, <1>2 DEF ContentInv, CarriesOK, Commit
<1>8. ASSUME ruleChanges = 0, NEW k \in ContentIds, NEW t, contents'[k] # None,
             contents'[k].text = t, contents'[k].whole,
             Matching(t)' # {}
      PROVE  Reported(k, t)'
  <2>1. CASE k = i
    <3>1. t = text /\ row.whole
      BY <1>3, <1>4, <1>8, <2>1 DEF ContentInv, ContentTypes
    <3> QED BY <1>4, <1>5, <1>7, <1>8, <2>1, <3>1, ReportedKept
  <2>2. CASE k # i
    <3>1. contents[k] # None /\ contents[k].text = t /\ contents[k].whole
      BY <1>4, <1>8, <2>2 DEF ContentInv, ContentTypes
    <3>2. Matching(t) # {} => Reported(k, t)
      BY <1>8, <3>1 DEF ContentInv, StoredIsReported
    <3> QED BY <1>4, <1>5, <1>8, <3>2, ReportedKept
  <2> QED BY <2>1, <2>2
<1>9. StoredIsReported'
  BY <1>4, <1>8 DEF StoredIsReported, Reported, Deserved, Matching
<1>10. CarriesOK(c)'
  BY <1>6, IdleCarries
<1> QED BY <1>4, <1>5, <1>6, <1>9, <1>10, ContentStep

LEMMA CreateReportKeeps ==
  ASSUME ContentInv, CreateReport
  PROVE  ContentInv'
<1>1. PICK r \in Free(reports), i \in ContentIds, p \in RulePriorities :
        reports' = [reports EXCEPT ![r] = [contentId |-> i, priority |-> p, status |-> "pending"]]
  BY DEF CreateReport
<1>2. [contentId |-> i, priority |-> p, status |-> "pending"] \in Report
  BY ModerationAssumption DEF Report, ReportStatus
<1>3. UNCHANGED <<rules, contents, ruleChanges, pc, hand>>
  BY DEF CreateReport, cvars
<1>4. ReportsKept /\ ContentTypes'
  BY <1>1, <1>2, <1>3, Inserted
<1>5. ASSUME NEW c \in Calls PROVE CarriesOK(c)'
  BY <1>3, <1>4, CarriesKept
<1> QED BY <1>3, <1>4, <1>5, StoredKept DEF ContentInv

\* What depends on the rules is no longer said once they have changed.
LEMMA ChangeRuleKeeps ==
  ASSUME ContentInv, NEW r \in RuleIds, ChangeRule(r)
  PROVE  ContentInv'
<1>1. PICK rule \in Rule \cup {None} : rules' = [rules EXCEPT ![r] = rule]
  BY DEF ChangeRule
<1>2. UNCHANGED <<reports, contents, pc, hand>> /\ ruleChanges' = ruleChanges + 1
  BY DEF ChangeRule, cvars
<1>3. ContentTypes' /\ ruleChanges' # 0
  BY <1>1, <1>2 DEF ContentInv, ContentTypes
<1>4. ASSUME NEW c \in Calls PROVE CarriesOK(c)'
  BY <1>2, <1>3 DEF ContentInv, CarriesOK
<1> QED BY <1>3, <1>4 DEF ContentInv, StoredIsReported

LEMMA ContentElsewhere ==
  ASSUME ContentInv, UNCHANGED <<reports, rules, contents, ruleChanges, pc, hand>>
  PROVE  ContentInv'
<1>1. ReportsKept /\ ContentTypes'
  BY DEF ReportsKept, ContentInv, ContentTypes
<1>2. ASSUME NEW c \in Calls PROVE CarriesOK(c)'
  BY <1>1, CarriesKept
<1> QED BY <1>1, <1>2, StoredKept DEF ContentInv

LEMMA ContentInit == Init => ContentInv
<1> SUFFICES ASSUME Init PROVE ContentInv
  OBVIOUS
<1>1. ContentTypes
  BY DEF Init, ContentTypes
<1>2. ASSUME NEW c \in Calls PROVE CarriesOK(c)
  BY DEF Init, CarriesOK
<1>3. StoredIsReported
  BY DEF Init, StoredIsReported
<1> QED BY <1>1, <1>2, <1>3 DEF ContentInv

LEMMA ContentHolds == IInv /\ ContentInv /\ [Next]_vars => ContentInv'
<1> SUFFICES ASSUME IInv, ContentInv, [Next]_vars PROVE ContentInv'
  OBVIOUS
<1>1. CASE UNCHANGED vars
  BY <1>1, ContentElsewhere DEF vars, cvars
<1>2. ASSUME NEW c \in Calls, Fail(c) PROVE ContentInv'
  BY <1>2, PenaltiesElsewhere
<1>3. ASSUME NEW c \in Calls, Request(c) PROVE ContentInv'
  BY <1>3, PenaltiesElsewhere, UpdateStatusKeeps, SaveContentKeeps DEF Request
<1>4. ASSUME NEW c \in Calls, Step(c) PROVE ContentInv'
  BY <1>4, PenaltiesElsewhere, SaveReportKeeps, FilterKeeps, ReportContentKeeps, CommitKeeps
       DEF Step
<1>5. CASE IssuePenalty \/ CleanupExpiredPenalties \/ \E p \in PenaltyIds : Elapse(p)
  BY <1>5, ContentElsewhere DEF IssuePenalty, CleanupExpiredPenalties, Elapse, halfB, cvars
<1>6. CASE CreateReport BY <1>6, CreateReportKeeps
<1>7. ASSUME NEW r \in RuleIds, ChangeRule(r) PROVE ContentInv'
  BY <1>7, ChangeRuleKeeps
<1> QED BY <1>1, <1>2, <1>3, <1>4, <1>5, <1>6, <1>7 DEF Next

(***************************************************************************)
(* Content that the subscriber saw and a rule matches is stored with a     *)
(* report of the highest of the priorities of the rules that match it,     *)
(* while the rules stay as they are: filterContent is part of the          *)
(* transaction that stores the content, and a report keeps its content and *)
(* its priority whatever save comes last, for any number of overlapping    *)
(* calls, any of which may fail.                                           *)
(***************************************************************************)
THEOREM MatchedIsReported == Spec => []StoredIsReported
<1>1. ContentInv => StoredIsReported
  BY DEF ContentInv
<1>2. Spec => []ContentInv
  BY ContentInit, ContentHolds, Invariant, PTL DEF Spec
<1> QED BY <1>1, <1>2, PTL
================================================================================
