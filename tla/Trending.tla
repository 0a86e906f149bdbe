-------------------------------- MODULE Trending ---------------------------------
(***************************************************************************)
(* The trending topics: every hour a job decays the score of all of them,  *)
(* one save each, then adds what the last day's activities mention.  Any   *)
(* error is logged and the job is done.                                    *)
(*                                                                         *)
(* score is a decimal column: the driver returns it as a string, so that   *)
(* "*=" makes a number of it while "+=" appends digits to it.  A sum of    *)
(* fractions appended to "6.00" is no number, and the save is refused; a   *)
(* whole one is: "6.003", which the column rounds to the score it had.  So *)
(* being mentioned again does not raise a score.                           *)
(*                                                                         *)
(* Abstracted: hashtags, related topics and the counts; a score is a whole *)
(* number here.  The activity service returns any mentions.                *)
(***************************************************************************)
EXTENDS Service

CONSTANTS
  Topics,
  Scores       \* bound: the scores that a day's mentions make

ASSUME TrendingAssumption == Scores \subseteq Nat \ {0} /\ None \notin Nat

VARIABLES
  topics,      \* the score of each row
  crossed      \* history: topics written while another run was to write them as read before

trendingTables == <<topics, crossed>>
trendingVars == <<trendingTables, serviceVars>>

TrendingInit ==
  /\ topics = [t \in Topics |-> None]
  /\ crossed = {}
  /\ ServiceInit

Decayed(score) == (3 * score) \div 4

\* extractTopicMentions: the score a topic's mentions add up to, 0 if it has
\* fewer than three of them.
Mentions == [Topics -> Scores \cup {0}]

\* A run that is to save a topic has read it, with all the others or alone.
Holds(c, t) ==
  \/ pc[c] = "decay" /\ t \in hand[c].todo
  \/ pc[c] = "saveTopic" /\ t = hand[c].topic

\* The save of one topic
WriteTopic(c, t, score) ==
  /\ topics' = [topics EXCEPT ![t] = score]
  /\ crossed' = IF \E d \in Calls \ {c} : Holds(d, t)
                THEN crossed \cup {t} ELSE crossed \ {t}

\* performTrendingCalculation: the activities, then all rows.
StartCalculation(c) ==
  /\ \E m \in Mentions :
       Begin(c, "decay", [mentions |-> m, row |-> topics, todo |-> Used(topics)])
  /\ UNCHANGED trendingTables

\* decayExistingTrendingTopics: each row as it was read; one that has been
\* cleaned up meanwhile is inserted again.
Decay(c) ==
  /\ pc[c] = "decay"
  /\ \E t \in hand[c].todo :
       /\ WriteTopic(c, t, Decayed(hand[c].row[t]))
       /\ Go(c, "decay", [hand[c] EXCEPT !.todo = @ \ {t}])

Mentioned(c) == {t \in Topics : hand[c].mentions[t] > 0}

\* The topics mentioned, in turn.
EndDecay(c) ==
  /\ pc[c] = "decay"
  /\ hand[c].todo = {}
  /\ Go(c, "findTopic", [mentions |-> hand[c].mentions, todo |-> Mentioned(c)])
  /\ UNCHANGED trendingTables

FindTopic(c) ==
  /\ pc[c] = "findTopic"
  /\ \E t \in hand[c].todo :
       Go(c, IF topics[t] = None THEN "insertTopic" ELSE "saveTopic",
          [mentions |-> hand[c].mentions, todo |-> hand[c].todo, topic |-> t, row |-> topics[t]])
  /\ UNCHANGED trendingTables

NextTopic(c) ==
  Go(c, "findTopic", [mentions |-> hand[c].mentions, todo |-> hand[c].todo \ {hand[c].topic}])

\* A new topic, unless another run has just inserted it: the index on topic.
InsertTopic(c) ==
  /\ pc[c] = "insertTopic"
  /\ LET t == hand[c].topic IN
       IF topics[t] = None
       THEN WriteTopic(c, t, hand[c].mentions[t]) /\ NextTopic(c)
       ELSE UNCHANGED trendingTables /\ End(c)

\* Mutant of SaveTopic: the score is that of the day's mentions.
SaveMentioned(c) ==
  /\ pc[c] = "saveTopic"
  /\ WriteTopic(c, hand[c].topic, hand[c].mentions[hand[c].topic])
  /\ NextTopic(c)

\* A topic that exists: its score becomes a string that is no number, the save
\* is refused and the run is over; or one that is a number, the score again.
SaveTopic(c) ==
  /\ pc[c] = "saveTopic"
  /\ \/ UNCHANGED trendingTables /\ End(c)
     \/ WriteTopic(c, hand[c].topic, hand[c].row) /\ NextTopic(c)

\* The last step: of the topics decayed to nothing, those that have not been
\* written for a week.
Cleanup(c) ==
  /\ pc[c] = "findTopic"
  /\ hand[c].todo = {}
  /\ \E old \in SUBSET {t \in Used(topics) : topics[t] = 0} :
       topics' = [t \in Topics |-> IF t \in old THEN None ELSE topics[t]]
  /\ End(c)
  /\ UNCHANGED crossed

TrendingFail(c) == Fail(c) /\ UNCHANGED trendingTables

TrendingNext ==
  \E c \in Calls :
    \/ StartCalculation(c) \/ Decay(c) \/ EndDecay(c)
    \/ FindTopic(c) \/ InsertTopic(c) \/ SaveTopic(c) \/ Cleanup(c)
    \/ TrendingFail(c)

TrendingSpec == TrendingInit /\ [][TrendingNext]_trendingVars

--------------------------------------------------------------------------------
\* No save costs a topic more than one decay, be it mentioned or not, and none
\* goes before it has decayed to nothing, unless it was written while another
\* run was still to save it as read before.
FallsByOneDecay ==
  [][\A t \in Used(topics) \ crossed :
       IF topics'[t] = None THEN topics[t] = 0
       ELSE topics'[t] >= Decayed(topics[t])]_trendingVars
================================================================================
