-------------------------------- MODULE Standing ---------------------------------
(***************************************************************************)
(* What a reputation score is made of: the three factors, the checks for   *)
(* fraud, the penalty and the history of the scores, which the checks read *)
(* again.  Functions of their inputs; Reputation has the calls that use    *)
(* them.  Scores are in tenths of a point, times in hours.                 *)
(***************************************************************************)
EXTENDS Integers, Sequences

LOCAL INSTANCE SequencesExt

LOCAL Least(a, b) == IF a < b THEN a ELSE b

\* normalize, the same in the three services
Normalize(score) == IF score < 0 THEN 0 ELSE Least(score, 1000)

(***************************************************************************)
(* The calculate of each factor, from what the activity and transaction    *)
(* services count of a user.                                               *)
(***************************************************************************)
TransactionScore(m) ==
  Normalize(20 * m.successful + Least(m.volume \div 100, 500) + 5 * m.perMonth
            + 50 * m.types - 100 * m.disputed - 20 * m.cancelled)

ActivityScore(m) ==
  Normalize(10 * m.loginDays + 20 * m.created + 30 * m.features + Least(m.hours, 200)
            + 5 * m.engagements - 100 * m.reported)

\* The square root is rounded down to a tenth.
Root(n) == CHOOSE r \in 0..(10 * n) : r * r <= 100 * n /\ 100 * n < (r + 1) * (r + 1)

SocialScore(m) ==
  Normalize(Least(2 * Root(m.followers), 300) + 2 * m.likes + 5 * m.comments + 50 * m.vouches
            + 20 * m.helpful + 30 * m.events - 50 * m.blocked - 30 * m.reported)

--------------------------------------------------------------------------------
(* FraudDetectionUtil; a history lists the latest record first. *)

\* checkForSuddenIncreases
SuddenIncrease(history) ==
  \E i \in 1..(Len(history) - 1) :
    /\ history[i].score - history[i + 1].score > 200
    /\ history[i].at - history[i + 1].at < 24

\* The thresholds of the other three, in tenths.
Artificial(p) == p.tooConsistent \/ p.bursts \/ p.unusualHours > 8
Suspicious(p) == p.circular \/ p.washTrading \/ p.volumeAnomaly > 8
Coordinated(p) == p.coordination > 7 \/ p.exclusivity > 9

\* checkForFraud
Fraudulent(history, p) ==
  \/ SuddenIncrease(SubSeq(history, 1, Least(Len(history), 10)))
  \/ Artificial(p) \/ Suspicious(p) \/ Coordinated(p)

\* calculateReputation, from the weighted score on; recordReputationHistory if
\* the score has moved by a point.
Recalculated(standing, weighted, now, p) ==
  LET score == IF Fraudulent(standing.history, p) THEN Normalize(weighted - 100) ELSE weighted
      moved == score - standing.score
  IN [score |-> score,
      history |-> IF moved \in -9..9 THEN standing.history
                  ELSE <<[score |-> score, at |-> now]>> \o standing.history]

\* getReputationHistory between two times; getReputationTrends sums it by day.
Between(history, from, to) == SelectSeq(history, LAMBDA h : from <= h.at /\ h.at <= to)

Day(hour) == hour \div 24

\* A day's count and total; the trend shows their quotient.
DayOf(history, day) ==
  LET scores == SelectSeq(history, LAMBDA h : Day(h.at) = day)
  IN [count |-> Len(scores), total |-> FoldSeq(LAMBDA h, sum : h.score + sum, 0, scores)]

Trends(history, now, days) ==
  LET recent == Between(history, now - 24 * days, now) IN
    [day \in {Day(recent[i].at) : i \in 1..Len(recent)} |-> DayOf(recent, day)]
--------------------------------------------------------------------------------
(***************************************************************************)
(* Each factor is a score whatever the counts are, and what is held        *)
(* against a user never raises it: the counts enter before the clamp.      *)
(***************************************************************************)
FactorsInRange(Counts) ==
  /\ \A m \in [{"successful", "volume", "perMonth", "types", "disputed", "cancelled"} -> Counts] :
       /\ TransactionScore(m) \in 0..1000
       /\ TransactionScore([m EXCEPT !.disputed = @ + 1]) <= TransactionScore(m)
  /\ \A m \in [{"loginDays", "created", "features", "hours", "engagements", "reported"} -> Counts] :
       /\ ActivityScore(m) \in 0..1000
       /\ ActivityScore([m EXCEPT !.reported = @ + 1]) <= ActivityScore(m)
  /\ \A m \in [{"followers", "likes", "comments", "vouches", "helpful", "events", "blocked",
                 "reported"} -> Counts] :
       /\ SocialScore(m) \in 0..1000
       /\ SocialScore([m EXCEPT !.blocked = @ + 1]) <= SocialScore(m)

(***************************************************************************)
(* A score that jumps by more than 20 points within a day is found at the  *)
(* next calculation and costs 10 points; and since a score that stays is   *)
(* not recorded again, no later calculation of the same factors forgets    *)
(* it.  The same gain over more than a day costs nothing.                  *)
(***************************************************************************)
Innocent ==
  [tooConsistent |-> FALSE, bursts |-> FALSE, unusualHours |-> 0, circular |-> FALSE,
   washTrading |-> FALSE, volumeAnomaly |-> 0, coordination |-> 0, exclusivity |-> 0]

JumpsAreHeld(first, gain, hours, Times) ==
  LET standing[n \in Times] ==
        IF n = 0 THEN [score |-> first, history |-> <<[score |-> first, at |-> 0]>>]
        ELSE Recalculated(standing[n - 1], first + gain, hours * n, Innocent)
      held == gain > 200 /\ hours < 24
  IN \A n \in Times \ {0, 1} :
       standing[n].score = IF held THEN first + gain - 100 ELSE first + gain

\* A day of a trend has records, and its average is between two of its scores.
TrendsAreAverages(history, now, days) ==
  LET trends == Trends(history, now, days) IN
    \A day \in DOMAIN trends :
      /\ trends[day].count > 0
      /\ \E i, j \in 1..Len(history) :
           /\ Day(history[i].at) = day /\ Day(history[j].at) = day
           /\ history[i].score * trends[day].count <= trends[day].total
           /\ trends[day].total <= history[j].score * trends[day].count
================================================================================
