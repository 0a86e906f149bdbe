----------------------------- MODULE TipSettlement -----------------------------
(***************************************************************************)
(* StarknetTippingService: a tip is submitted to the chain, kept in a map  *)
(* as PENDING and asked about until the chain's answer is another one,     *)
(* which is stored and posted to the callback URL of the tip.  Whoever     *)
(* asks is a checker: a request for the status, or a tick of the cron job, *)
(* which goes through the pending tips one by one; a tick starts every     *)
(* minute, whether or not the one before has ended.                        *)
(*                                                                         *)
(* The map lives in memory: a restart empties it and ends every call.      *)
(* Abstracted: amounts, addresses, signatures (checked before anything is  *)
(* sent) and the outcome of the POST, which is logged only.  The chain is  *)
(* external: a transaction is received, then pending, and in the end       *)
(* rejected, reverted, or accepted on L2 and later on L1.                  *)
(***************************************************************************)
EXTENDS Naturals, Sequences

CONSTANTS
  Tips,
  Checkers,
  None,        \* no transaction, no record, no check
  MayFail,     \* may a call to the provider fail?
  MayRestart,  \* may the server restart?
  MaxPosts     \* bound: posts to a callback after which checks of a tip do not overlap

Decided  == {"l2", "l1", "rejected", "reverted"}
ChainStates == {"received", "pending"} \cup Decided
Settled  == {"ACCEPTED", "ACCEPTED_ON_L2", "REJECTED", "FAILED"}
Statuses == Settled \cup {"PENDING"}

\* late: history, another check has settled the tip since this one began.
Check == [tip: Tips, answer: Statuses \cup {None}, late: BOOLEAN]

ASSUME TipSettlementAssumption ==
  /\ MayFail \in BOOLEAN /\ MayRestart \in BOOLEAN
  /\ MaxPosts \in Nat
  /\ None \notin ChainStates \cup Statuses \cup Check

VARIABLES
  chain,    \* the transaction of each tip on the chain
  execute,  \* the executeTip call of each tip
  stored,   \* the status the transactions map holds
  check,    \* the status query each checker is in, with the answer if it has one
  posts,    \* the statuses posted to each tip's callback, in order
  overwrites  \* history: settled statuses of each tip written over so far

vars == <<chain, execute, stored, check, posts, overwrites>>

Init ==
  /\ chain = [t \in Tips |-> None]
  /\ execute = [t \in Tips |-> "new"]
  /\ stored = [t \in Tips |-> None]
  /\ check = [c \in Checkers |-> None]
  /\ posts = [t \in Tips |-> <<>>]
  /\ overwrites = [t \in Tips |-> 0]

\* executeTip hands the transaction to the account.
Submit(t) ==
  /\ execute[t] = "new"
  /\ execute' = [execute EXCEPT ![t] = "sent"]
  /\ chain' = [chain EXCEPT ![t] = "received"]
  /\ UNCHANGED <<stored, check, posts, overwrites>>

\* The hash came back.
Store(t) ==
  /\ execute[t] = "sent"
  /\ execute' = [execute EXCEPT ![t] = "done"]
  /\ stored' = [stored EXCEPT ![t] = "PENDING"]
  /\ UNCHANGED <<chain, check, posts, overwrites>>

\* The answer to the submission was lost.
SubmitFails(t) ==
  /\ MayFail
  /\ execute[t] = "sent"
  /\ execute' = [execute EXCEPT ![t] = "failed"]
  /\ UNCHANGED <<chain, stored, check, posts, overwrites>>

\* Mutant of Ask: settled transactions are asked about as well.
AskAnyway(c, t) ==
  /\ check[c] = None
  /\ stored[t] # None
  /\ Len(posts[t]) <= MaxPosts
  /\ check' = [check EXCEPT ![c] = [tip |-> t, answer |-> None, late |-> FALSE]]
  /\ UNCHANGED <<chain, execute, stored, posts, overwrites>>

\* getTransactionStatus up to its await, by a request or by a tick.
Ask(c, t) ==
  /\ check[c] = None
  /\ stored[t] = "PENDING"
  /\ Len(posts[t]) < MaxPosts \/ \A d \in Checkers : check[d] # None => check[d].tip # t
  /\ check' = [check EXCEPT ![c] = [tip |-> t, answer |-> None, late |-> FALSE]]
  /\ UNCHANGED <<chain, execute, stored, posts, overwrites>>

\* Mutant of Reported: the names of the two layers are swapped.
ReportedSwapped(state) ==
  CASE state = "l2" -> "ACCEPTED"
    [] state = "l1" -> "ACCEPTED_ON_L2"
    [] state = "pending" -> "PENDING"
    [] state = "rejected" -> "REJECTED"
    [] OTHER -> "FAILED"

\* Mutant of Reported: acceptance on L2 is no outcome yet.
ReportedOnL1(state) ==
  CASE state = "l1" -> "ACCEPTED"
    [] state \in {"pending", "l2"} -> "PENDING"
    [] state = "rejected" -> "REJECTED"
    [] OTHER -> "FAILED"

\* The provider's answer; a failed call and any other state are FAILED.
Reported(state) ==
  CASE state = "l2" -> "ACCEPTED_ON_L2"
    [] state = "l1" -> "ACCEPTED"
    [] state = "pending" -> "PENDING"
    [] state = "rejected" -> "REJECTED"
    [] OTHER -> "FAILED"

Asked(c) == check[c] # None /\ check[c].answer = None
Answered(c) == check[c] # None /\ check[c].answer # None

Answer(c) ==
  /\ Asked(c)
  /\ \E a \in {Reported(chain[check[c].tip])} \cup (IF MayFail THEN {"FAILED"} ELSE {}) :
       check' = [check EXCEPT ![c].answer = a]
  /\ UNCHANGED <<chain, execute, stored, posts, overwrites>>

\* c ends its check; if it settles the tip, the other checks of it are late.
EndCheck(c, settles) ==
  check' = [d \in Checkers |->
    IF d = c \/ check[d] = None THEN None
    ELSE [check[d] EXCEPT !.late = @ \/ (settles /\ check[d].tip = check[c].tip)]]

Write(t, a, settles) ==
  /\ stored' = [stored EXCEPT ![t] = a]
  /\ posts' = IF settles THEN [posts EXCEPT ![t] = Append(@, a)] ELSE posts
  /\ overwrites' = IF stored[t] \in Settled \ {a}
                   THEN [overwrites EXCEPT ![t] = @ + 1] ELSE overwrites

\* Mutant of Resume: the answer is compared with the status read before the await.
ResumeOnCopy(c) ==
  /\ Answered(c)
  /\ LET settles == check[c].answer \in Settled
     IN Write(check[c].tip, check[c].answer, settles) /\ EndCheck(c, settles)
  /\ UNCHANGED <<chain, execute>>

(***************************************************************************)
(* The rest of getTransactionStatus: transaction is the object in the map, *)
(* so its status is the one another checker may have set by now.           *)
(***************************************************************************)
Resume(c) ==
  /\ Answered(c)
  /\ LET settles == check[c].answer \in Settled \ {stored[check[c].tip]}
     IN Write(check[c].tip, check[c].answer, settles) /\ EndCheck(c, settles)
  /\ UNCHANGED <<chain, execute>>

Restart ==
  /\ MayRestart
  /\ execute' = [t \in Tips |-> IF execute[t] = "sent" THEN "failed" ELSE execute[t]]
  /\ stored' = [t \in Tips |-> None]
  /\ check' = [c \in Checkers |-> None]
  /\ UNCHANGED <<chain, posts, overwrites>>

ChainMoves(t) ==
  /\ \/ chain[t] = "received" /\ chain' = [chain EXCEPT ![t] = "pending"]
     \/ chain[t] \in {"received", "pending"} /\ chain' = [chain EXCEPT ![t] = "rejected"]
     \/ chain[t] = "pending" /\ \E s \in {"l2", "reverted"} : chain' = [chain EXCEPT ![t] = s]
     \/ chain[t] = "l2" /\ chain' = [chain EXCEPT ![t] = "l1"]
  /\ UNCHANGED <<execute, stored, check, posts, overwrites>>

CheckStep(c) == Answer(c) \/ Resume(c)

Next ==
  \/ \E t \in Tips : Submit(t) \/ Store(t) \/ SubmitFails(t) \/ ChainMoves(t)
  \/ \E c \in Checkers, t \in Tips : Ask(c, t)
  \/ \E c \in Checkers : CheckStep(c)
  \/ Restart

Spec == Init /\ [][Next]_vars

\* A tick asks about one pending tip after the other, so each has its turn
\* though others keep the checkers busy; an asked provider answers or fails,
\* and the call goes on.
FairSpec ==
  /\ Spec
  /\ \A t \in Tips : SF_vars(\E c \in Checkers : Ask(c, t))
  /\ \A c \in Checkers : WF_vars(CheckStep(c))
--------------------------------------------------------------------------------
TypeOK ==
  /\ chain \in [Tips -> ChainStates \cup {None}]
  /\ execute \in [Tips -> {"new", "sent", "done", "failed"}]
  /\ stored \in [Tips -> Statuses \cup {None}]
  /\ check \in [Checkers -> Check \cup {None}]
  /\ posts \in [Tips -> Seq(Settled)]
  /\ overwrites \in [Tips -> Nat]

(***************************************************************************)
(* What the map says, and what any callback was ever told, is true of the  *)
(* chain if it says accepted or rejected: no stale answer, however late it *)
(* is written, tells of an acceptance that is not there.                   *)
(***************************************************************************)
TrueOf(status, state) ==
  /\ status = "ACCEPTED" => state = "l1"
  /\ status = "ACCEPTED_ON_L2" => state \in {"l2", "l1"}
  /\ status = "REJECTED" => state = "rejected"

NoFalseSettlement ==
  \A t \in Tips :
    /\ TrueOf(stored[t], chain[t])
    /\ \A i \in 1..Len(posts[t]) : TrueOf(posts[t][i], chain[t])

(***************************************************************************)
(* A settled status in the map is the one the callback was told last.      *)
(* With overlapping checkers as well: the write and the post are in the    *)
(* same turn of the event loop.                                            *)
(***************************************************************************)
ToldAsStored ==
  \A t \in Tips :
    stored[t] \in Settled => posts[t] # <<>> /\ posts[t][Len(posts[t])] = stored[t]

(***************************************************************************)
(* A callback is told once, and once more for every settled status that    *)
(* was written over: checks that overlap and learn the same outcome tell   *)
(* it once, since each compares its answer with the object in the map.     *)
(***************************************************************************)
ToldOnce == \A t \in Tips : Len(posts[t]) <= 1 + overwrites[t]

(***************************************************************************)
(* "Only check status if it's still pending": a settled status is written  *)
(* over only by a check that was under way when it was settled.  Such a    *)
(* late answer may be PENDING, and the tip is then asked about again.      *)
(***************************************************************************)
SettledStays ==
  [][\A t \in Tips :
       stored[t] \in Settled /\ stored'[t] \notin {stored[t], None} =>
         \E c \in Checkers : /\ check[c] # None /\ check'[c] = None
                             /\ check[c].tip = t /\ check[c].late]_vars

\* A tip whose transaction the chain has decided does not stay PENDING.
EventuallySettled ==
  \A t \in Tips :
    chain[t] \in Decided /\ stored[t] = "PENDING" ~> stored[t] # "PENDING"
================================================================================
