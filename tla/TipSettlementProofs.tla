-------------------------- MODULE TipSettlementProofs --------------------------
(***************************************************************************)
(* Theorems about TipSettlement, for any tips and any number of checkers.  *)
(***************************************************************************)
EXTENDS TipSettlement, TLAPS

(***************************************************************************)
(* An answer on its way may be old, but what it says of an acceptance or a *)
(* rejection is still true: the chain does not take those back.            *)
(***************************************************************************)
AnswersTrue ==
  \A c \in Checkers :
    check[c] # None => TrueOf(check[c].answer, chain[check[c].tip])

\* Nothing is on the chain before it is sent.
SentFirst == \A t \in Tips : execute[t] = "new" => chain[t] = None

IInv == TypeOK /\ NoFalseSettlement /\ ToldAsStored /\ AnswersTrue /\ SentFirst

USE TipSettlementAssumption

LEMMA NoneIsApart ==
  /\ None \notin Check /\ None \notin Statuses /\ None \notin ChainStates
  BY DEF TipSettlementAssumption

\* What the provider says is true of the chain it was asked about.
LEMMA ReportedTrue ==
  ASSUME NEW s
  PROVE  Reported(s) \in Statuses /\ TrueOf(Reported(s), s) /\ TrueOf("FAILED", s)
  BY DEF Reported, Statuses, Settled, TrueOf

\* The checks that go on are those that were under way, late or not.
LEMMA EndedCheck ==
  ASSUME check \in [Checkers -> Check \cup {None}], NEW c \in Checkers, NEW settles \in BOOLEAN,
         EndCheck(c, settles)
  PROVE  /\ check' \in [Checkers -> Check \cup {None}]
         /\ check'[c] = None
         /\ \A d \in Checkers : check'[d] # None =>
              /\ d # c /\ check[d] # None
              /\ check'[d].tip = check[d].tip /\ check'[d].answer = check[d].answer
              /\ check'[d].late <=> check[d].late \/ (settles /\ check[d].tip = check[c].tip)
<1>1. ASSUME NEW d \in Checkers, d # c, check[d] # None
      PROVE  /\ check'[d] \in Check
             /\ check'[d].tip = check[d].tip /\ check'[d].answer = check[d].answer
             /\ check'[d].late <=> check[d].late \/ (settles /\ check[d].tip = check[c].tip)
  <2>1. check[d] \in Check
    BY <1>1
  <2>2. check'[d] = [check[d] EXCEPT !.late = @ \/ (settles /\ check[d].tip = check[c].tip)]
    BY <1>1 DEF EndCheck
  <2> QED BY <2>1, <2>2 DEF Check
<1>2. \A d \in Checkers : d = c \/ check[d] = None => check'[d] = None
  BY DEF EndCheck
<1>3. check' = [d \in Checkers |-> check'[d]]
  BY DEF EndCheck
<1> QED BY <1>1, <1>2, <1>3

LEMMA ResumeEnds ==
  ASSUME check \in [Checkers -> Check \cup {None}], NEW c \in Checkers, Resume(c)
  PROVE  /\ check' \in [Checkers -> Check \cup {None}]
         /\ check'[c] = None
         /\ \A d \in Checkers : check'[d] # None =>
              /\ d # c /\ check[d] # None
              /\ check'[d].tip = check[d].tip /\ check'[d].answer = check[d].answer
              /\ check'[d].late <=>
                   \/ check[d].late
                   \/ /\ check[c].answer \in Settled \ {stored[check[c].tip]}
                      /\ check[d].tip = check[c].tip
<1> DEFINE settles == check[c].answer \in Settled \ {stored[check[c].tip]}
<1>1. settles \in BOOLEAN /\ EndCheck(c, settles)
  BY DEF Resume
<1> HIDE DEF settles
<1>2. /\ check' \in [Checkers -> Check \cup {None}]
      /\ check'[c] = None
      /\ \A d \in Checkers : check'[d] # None =>
           /\ d # c /\ check[d] # None
           /\ check'[d].tip = check[d].tip /\ check'[d].answer = check[d].answer
           /\ check'[d].late <=> check[d].late \/ (settles /\ check[d].tip = check[c].tip)
  BY <1>1, EndedCheck
<1> QED BY <1>2 DEF settles

\* A move of the chain keeps what was true of it.
LEMMA MovesKeepTruth ==
  ASSUME TypeOK, NEW t \in Tips, ChainMoves(t), NEW u \in Tips, NEW s,
         TrueOf(s, chain[u])
  PROVE  TrueOf(s, chain'[u])
  BY DEF TypeOK, ChainMoves, TrueOf

THEOREM TypeCorrect == Spec => []TypeOK
<1>1. Init => TypeOK
  BY DEF Init, TypeOK, Statuses, ChainStates, Check
<1>2. TypeOK /\ [Next]_vars => TypeOK'
  <2> SUFFICES ASSUME TypeOK, [Next]_vars PROVE TypeOK'
    OBVIOUS
  <2> USE DEF TypeOK
  <2>1. ASSUME NEW t \in Tips, Submit(t) PROVE TypeOK'
    BY <2>1 DEF Submit, ChainStates
  <2>2. ASSUME NEW t \in Tips, Store(t) PROVE TypeOK'
    BY <2>2 DEF Store, Statuses
  <2>3. ASSUME NEW t \in Tips, SubmitFails(t) PROVE TypeOK'
    BY <2>3 DEF SubmitFails
  <2>4. ASSUME NEW t \in Tips, ChainMoves(t) PROVE TypeOK'
    BY <2>4 DEF ChainMoves, ChainStates, Decided
  <2>5. ASSUME NEW c \in Checkers, NEW t \in Tips, Ask(c, t) PROVE TypeOK'
    BY <2>5 DEF Ask, Check
  <2>6. ASSUME NEW c \in Checkers, Answer(c) PROVE TypeOK'
    <3>1. PICK a \in {Reported(chain[check[c].tip])} \cup (IF MayFail THEN {"FAILED"} ELSE {}) :
            check' = [check EXCEPT ![c].answer = a]
      BY <2>6 DEF Answer
    <3>2. a \in Statuses
      BY ReportedTrue DEF Statuses, Settled
    <3>3. check[c] \in Check
      BY <2>6 DEF Answer, Asked
    <3>4. [check[c] EXCEPT !.answer = a] \in Check
      BY <3>2, <3>3 DEF Check
    <3> QED
      BY <2>6, <3>1, <3>4 DEF Answer
  <2>7. ASSUME NEW c \in Checkers, Resume(c) PROVE TypeOK'
    <3>1. check[c] \in Check
      BY <2>7 DEF Resume, Answered
    <3> DEFINE t == check[c].tip
               a == check[c].answer
    <3>2. t \in Tips /\ a \in Statuses
      BY <2>7, <3>1 DEF Check, Resume, Answered
    <3>3. check' \in [Checkers -> Check \cup {None}] /\ UNCHANGED <<chain, execute>>
      BY <2>7, ResumeEnds DEF Resume
    <3>4. /\ stored' \in [Tips -> Statuses \cup {None}]
          /\ overwrites' \in [Tips -> Nat]
      BY <2>7, <3>2 DEF Resume, Write
    <3>5. posts' \in [Tips -> Seq(Settled)]
      <4>1. CASE posts' = posts
        BY <4>1
      <4>2. CASE posts' = [posts EXCEPT ![t] = Append(@, a)] /\ a \in Settled
        <5>1. Append(posts[t], a) \in Seq(Settled)
          BY <3>2, <4>2
        <5> QED
          BY <4>2, <5>1
      <4> QED
        BY <2>7, <4>1, <4>2 DEF Resume, Write
    <3> QED
      BY <3>3, <3>4, <3>5
  <2>8. ASSUME Restart PROVE TypeOK'
    BY <2>8 DEF Restart
  <2>9. CASE UNCHANGED vars
    BY <2>9 DEF vars
  <2> QED
    BY <2>1, <2>2, <2>3, <2>4, <2>5, <2>6, <2>7, <2>8, <2>9 DEF Next, CheckStep
<1> QED
  BY <1>1, <1>2, PTL DEF Spec

LEMMA InitInv == Init => IInv
  BY NoneIsApart
     DEF Init, IInv, TypeOK, NoFalseSettlement, ToldAsStored, AnswersTrue, SentFirst, TrueOf,
         Statuses, Settled, ChainStates, Decided, Check

(***************************************************************************)
(* The step that could break both parts is Resume: it writes an answer     *)
(* that may be older than what the map holds.  AnswersTrue makes it true   *)
(* all the same, and the post is in the same step.                         *)
(***************************************************************************)
LEMMA ResumeKeeps ==
  ASSUME IInv, NEW c \in Checkers, Resume(c)
  PROVE  NoFalseSettlement' /\ ToldAsStored' /\ AnswersTrue'
<1> DEFINE t == check[c].tip
           a == check[c].answer
<1>1. /\ check[c] \in Check /\ t \in Tips /\ a \in Statuses
      /\ TrueOf(a, chain[t])
  BY DEF IInv, TypeOK, Resume, Answered, Check, AnswersTrue
<1>2. AnswersTrue'
  <2>1. chain' = chain /\ \A d \in Checkers : check'[d] # None =>
          check[d] # None /\ check'[d].tip = check[d].tip /\ check'[d].answer = check[d].answer
    BY ResumeEnds DEF Resume, IInv, TypeOK
  <2> QED BY <2>1 DEF IInv, AnswersTrue
<1>3. CASE a = stored[t]
  BY <1>2, <1>3 DEF Resume, Write, IInv, TypeOK, NoFalseSettlement, ToldAsStored
<1>4. CASE a # stored[t] /\ a \in Settled
  <2>1. /\ stored' = [stored EXCEPT ![t] = a]
        /\ posts' = [posts EXCEPT ![t] = Append(@, a)]
        /\ chain' = chain
    BY <1>4 DEF Resume, Write
  <2>2. /\ posts[t] \in Seq(Settled) /\ posts'[t] = Append(posts[t], a)
        /\ stored'[t] = a
        /\ \A u \in Tips \ {t} : posts'[u] = posts[u] /\ stored'[u] = stored[u]
    BY <1>1, <2>1 DEF IInv, TypeOK
  <2>3. /\ Len(posts'[t]) = Len(posts[t]) + 1
        /\ posts'[t][Len(posts[t]) + 1] = a
        /\ \A i \in 1..Len(posts[t]) : posts'[t][i] = posts[t][i]
        /\ posts'[t] # <<>>
    BY <2>2, <1>1
  <2>4. \A i \in 1..Len(posts'[t]) : TrueOf(posts'[t][i], chain[t])
    <3> TAKE i \in 1..Len(posts'[t])
    <3>1. CASE i = Len(posts[t]) + 1
      BY <3>1, <2>3, <1>1
    <3>2. CASE i \in 1..Len(posts[t])
      BY <3>2, <2>3, <1>1 DEF IInv, NoFalseSettlement
    <3> QED
      BY <3>1, <3>2, <2>2, <2>3
  <2>5. NoFalseSettlement'
    BY <2>1, <2>2, <2>4, <1>1 DEF IInv, NoFalseSettlement
  <2>6. ToldAsStored'
    BY <2>2, <2>3, <1>1 DEF IInv, ToldAsStored
  <2> QED
    BY <1>2, <2>5, <2>6
<1>5. CASE a # stored[t] /\ a \notin Settled
  <2>1. /\ stored' = [stored EXCEPT ![t] = a] /\ posts' = posts /\ chain' = chain
    BY <1>5 DEF Resume, Write
  <2>2. stored'[t] = a /\ \A u \in Tips \ {t} : stored'[u] = stored[u]
    BY <1>1, <2>1 DEF IInv, TypeOK
  <2> QED
    BY <1>1, <1>2, <1>5, <2>1, <2>2 DEF IInv, NoFalseSettlement, ToldAsStored
<1> QED
  BY <1>3, <1>4, <1>5

THEOREM Invariance == Spec => []IInv
<1>1. IInv /\ TypeOK' /\ [Next]_vars => IInv'
  <2> SUFFICES ASSUME IInv, TypeOK', [Next]_vars
               PROVE  NoFalseSettlement' /\ ToldAsStored' /\ AnswersTrue' /\ SentFirst'
    BY DEF IInv
  <2>0. TypeOK /\ NoFalseSettlement /\ ToldAsStored /\ AnswersTrue /\ SentFirst
    BY DEF IInv
  <2> USE DEF NoFalseSettlement, ToldAsStored, AnswersTrue, SentFirst
  <2>1. ASSUME NEW t \in Tips, Submit(t)
        PROVE  NoFalseSettlement' /\ ToldAsStored' /\ AnswersTrue' /\ SentFirst'
    <3>1. chain[t] = None
      BY <2>0, <2>1 DEF Submit
    <3>2. ASSUME NEW u \in Tips, NEW s, TrueOf(s, chain[u]) PROVE TrueOf(s, chain'[u])
      BY <2>0, <2>1, <3>1, <3>2, NoneIsApart DEF Submit, TypeOK, TrueOf, ChainStates, Decided
    <3>3. ASSUME NEW c \in Checkers, check[c] # None PROVE check[c].tip \in Tips
      BY <2>0, <3>3 DEF TypeOK, Check
    <3> QED
      BY <2>0, <2>1, <3>2, <3>3 DEF Submit, TypeOK
  <2>2. ASSUME NEW t \in Tips, Store(t)
        PROVE  NoFalseSettlement' /\ ToldAsStored' /\ AnswersTrue' /\ SentFirst'
    BY <2>0, <2>2 DEF Store, TypeOK, TrueOf, Settled
  <2>3. ASSUME NEW t \in Tips, SubmitFails(t)
        PROVE  NoFalseSettlement' /\ ToldAsStored' /\ AnswersTrue' /\ SentFirst'
    BY <2>0, <2>3 DEF SubmitFails, TypeOK
  <2>4. ASSUME NEW t \in Tips, ChainMoves(t)
        PROVE  NoFalseSettlement' /\ ToldAsStored' /\ AnswersTrue' /\ SentFirst'
    <3>1. ASSUME NEW u \in Tips, NEW s, TrueOf(s, chain[u]) PROVE TrueOf(s, chain'[u])
      BY <2>0, <2>4, <3>1, MovesKeepTruth
    <3>2. ASSUME NEW c \in Checkers, check[c] # None PROVE check[c].tip \in Tips
      BY <2>0, <3>2 DEF TypeOK, Check
    <3>3. chain[t] # None
      BY <2>4, NoneIsApart DEF ChainMoves, ChainStates, Decided
    <3> QED
      BY <2>0, <2>4, <3>1, <3>2, <3>3 DEF ChainMoves, TypeOK
  <2>5. ASSUME NEW c \in Checkers, NEW t \in Tips, Ask(c, t)
        PROVE  NoFalseSettlement' /\ ToldAsStored' /\ AnswersTrue' /\ SentFirst'
    <3>1. TrueOf(None, chain[t])
      BY NoneIsApart DEF TrueOf, Statuses, Settled
    <3> QED
      BY <2>0, <2>5, <3>1 DEF Ask, TypeOK
  <2>6. ASSUME NEW c \in Checkers, Answer(c)
        PROVE  NoFalseSettlement' /\ ToldAsStored' /\ AnswersTrue' /\ SentFirst'
    <3>1. PICK a \in {Reported(chain[check[c].tip])} \cup (IF MayFail THEN {"FAILED"} ELSE {}) :
            check' = [check EXCEPT ![c].answer = a]
      BY <2>6 DEF Answer
    <3>2. TrueOf(a, chain[check[c].tip])
      BY ReportedTrue
    <3>3. check[c] \in Check
      BY <2>0, <2>6 DEF Answer, Asked, TypeOK
    <3>4. /\ check'[c].tip = check[c].tip /\ check'[c].answer = a
          /\ \A d \in Checkers \ {c} : check'[d] = check[d]
      BY <2>0, <3>1, <3>3 DEF TypeOK, Check
    <3>5. AnswersTrue'
      BY <2>0, <2>6, <3>2, <3>4 DEF Answer, Asked
    <3> QED
      BY <2>0, <2>6, <3>5 DEF Answer
  <2>7. ASSUME NEW c \in Checkers, Resume(c)
        PROVE  NoFalseSettlement' /\ ToldAsStored' /\ AnswersTrue' /\ SentFirst'
    BY <2>0, <2>7, ResumeKeeps DEF Resume
  <2>8. ASSUME Restart
        PROVE  NoFalseSettlement' /\ ToldAsStored' /\ AnswersTrue' /\ SentFirst'
    <3>1. \A state : TrueOf(None, state)
      BY NoneIsApart DEF TrueOf, Statuses, Settled
    <3>2. None \notin Settled
      BY NoneIsApart DEF Statuses
    <3> QED
      BY <2>0, <2>8, <3>1, <3>2 DEF Restart, TypeOK
  <2>9. CASE UNCHANGED vars
    BY <2>0, <2>9 DEF vars
  <2> QED
    BY <2>1, <2>2, <2>3, <2>4, <2>5, <2>6, <2>7, <2>8, <2>9 DEF Next, CheckStep
<1> QED
  BY InitInv, <1>1, TypeCorrect, PTL DEF Spec

\* NoFalseSettlement for any number of overlapping checks, failing provider
\* calls and restarts.
THEOREM SettlementTrue == Spec => []NoFalseSettlement
  BY Invariance, PTL DEF IInv

\* ToldAsStored, likewise.
THEOREM CallbackUpToDate == Spec => []ToldAsStored
  BY Invariance, PTL DEF IInv

--------------------------------------------------------------------------------
(***************************************************************************)
(* How often a tip is told of.  A check that is not late finds its tip as  *)
(* it left it, PENDING; and what is PENDING has been told of only as often *)
(* as it was settled and written over.                                     *)
(***************************************************************************)
OnTime ==
  \A c \in Checkers : check[c] # None =>
    /\ stored[check[c].tip] # None
    /\ ~check[c].late => stored[check[c].tip] = "PENDING"

Untold ==
  \A t \in Tips :
    /\ execute[t] \in {"new", "sent"} => stored[t] = None /\ posts[t] = <<>>
    /\ stored[t] = "PENDING" => Len(posts[t]) <= overwrites[t]

CInv == OnTime /\ Untold /\ ToldOnce

LEMMA ResumeCounts ==
  ASSUME TypeOK, CInv, NEW c \in Checkers, Resume(c)
  PROVE  CInv'
<1> DEFINE t == check[c].tip
           a == check[c].answer
           settles == a \in Settled \ {stored[t]}
<1>1. /\ t \in Tips /\ a \in Statuses /\ stored[t] # None /\ stored[t] \in Statuses
      /\ execute[t] \notin {"new", "sent"}
  BY DEF Resume, Answered, TypeOK, Check, CInv, OnTime, Untold
<1>2. /\ stored'[t] = a /\ execute' = execute
      /\ \A u \in Tips \ {t} : /\ stored'[u] = stored[u] /\ posts'[u] = posts[u]
                             /\ overwrites'[u] = overwrites[u]
  BY <1>1 DEF Resume, Write, TypeOK
<1>3. /\ posts'[t] = IF settles THEN Append(posts[t], a) ELSE posts[t]
      /\ overwrites'[t] = IF stored[t] \in Settled \ {a} THEN overwrites[t] + 1 ELSE overwrites[t]
  BY <1>1 DEF Resume, Write, TypeOK
<1>4. Len(posts'[t]) = IF settles THEN Len(posts[t]) + 1 ELSE Len(posts[t])
  <2>1. settles => Len(Append(posts[t], a)) = Len(posts[t]) + 1
    BY <1>1 DEF TypeOK
  <2> QED BY <1>3, <2>1
<1>5. Len(posts[t]) \in Nat /\ overwrites[t] \in Nat
  BY <1>1 DEF TypeOK
<1>6. /\ Len(posts'[t]) <= 1 + overwrites'[t]
      /\ a = "PENDING" => Len(posts'[t]) <= overwrites'[t]
  BY <1>1, <1>3, <1>4, <1>5 DEF CInv, Untold, ToldOnce, Statuses, Settled
<1>7. OnTime'
  <2> SUFFICES ASSUME NEW d \in Checkers, check'[d] # None
               PROVE  /\ stored'[check'[d].tip] # None
                      /\ ~check'[d].late => stored'[check'[d].tip] = "PENDING"
    BY DEF OnTime
  <2>1. /\ check[d] # None /\ check[d].tip \in Tips /\ check'[d].tip = check[d].tip
        /\ check'[d].late <=> check[d].late \/ (settles /\ check[d].tip = t)
    BY ResumeEnds DEF TypeOK, Check
  <2>2. CASE check[d].tip # t
    BY <1>2, <2>1, <2>2 DEF CInv, OnTime
  <2>3. CASE check[d].tip = t
    <3>1. a # None
      BY <1>1, NoneIsApart
    <3>2. ~check'[d].late => a = "PENDING"
      BY <1>1, <2>1, <2>3 DEF CInv, OnTime, Statuses, Settled
    <3> QED BY <1>2, <2>1, <2>3, <3>1, <3>2
  <2> QED BY <2>2, <2>3
<1>8. Untold'
  <2> SUFFICES ASSUME NEW u \in Tips
               PROVE  /\ execute'[u] \in {"new", "sent"} => stored'[u] = None /\ posts'[u] = <<>>
                      /\ stored'[u] = "PENDING" => Len(posts'[u]) <= overwrites'[u]
    BY DEF Untold
  <2>1. CASE u = t
    BY <1>1, <1>2, <1>6, <2>1
  <2>2. CASE u # t
    BY <1>2, <2>2 DEF CInv, Untold
  <2> QED BY <2>1, <2>2
<1>9. ToldOnce'
  BY <1>2, <1>6 DEF CInv, ToldOnce
<1> QED BY <1>7, <1>8, <1>9 DEF CInv

LEMMA CountsKept ==
  ASSUME TypeOK, CInv, [Next]_vars
  PROVE  CInv'
<1> USE DEF CInv, OnTime, Untold, ToldOnce
<1>n. None # "PENDING" /\ None \notin Settled
  BY NoneIsApart DEF Statuses, Settled
<1>c. ASSUME NEW c \in Checkers, check[c] # None PROVE check[c].tip \in Tips
  BY <1>c DEF TypeOK, Check
<1>1. ASSUME NEW t \in Tips, Submit(t) PROVE CInv'
  BY <1>1 DEF Submit, TypeOK
<1>2. ASSUME NEW t \in Tips, Store(t) PROVE CInv'
  <2>1. posts[t] = <<>> /\ overwrites[t] \in Nat
    BY <1>2 DEF Store, TypeOK
  <2>2. Len(posts[t]) <= overwrites[t]
    BY <2>1
  <2> QED BY <1>2, <1>c, <1>n, <2>2 DEF Store, TypeOK
<1>3. ASSUME NEW t \in Tips, SubmitFails(t) PROVE CInv'
  BY <1>3 DEF SubmitFails, TypeOK
<1>4. ASSUME NEW t \in Tips, ChainMoves(t) PROVE CInv'
  BY <1>4 DEF ChainMoves
<1>5. ASSUME NEW c \in Checkers, NEW t \in Tips, Ask(c, t) PROVE CInv'
  BY <1>5, <1>n DEF Ask, TypeOK
<1>6. ASSUME NEW c \in Checkers, Answer(c) PROVE CInv'
  <2>1. PICK a : check' = [check EXCEPT ![c].answer = a]
    BY <1>6 DEF Answer
  <2>2. check[c] \in Check /\ check[c] # None
    BY <1>6 DEF Answer, Asked, TypeOK
  <2>3. /\ check'[c].tip = check[c].tip /\ check'[c].late = check[c].late
        /\ \A d \in Checkers \ {c} : check'[d] = check[d]
    BY <2>1, <2>2 DEF TypeOK, Check
  <2> QED
    BY <1>6, <2>2, <2>3 DEF Answer
<1>7. ASSUME NEW c \in Checkers, Resume(c) PROVE CInv'
  BY <1>7, ResumeCounts
<1>8. ASSUME Restart PROVE CInv'
  BY <1>8, <1>n DEF Restart, TypeOK
<1>9. CASE UNCHANGED vars
  BY <1>9 DEF vars
<1> QED
  BY <1>1, <1>2, <1>3, <1>4, <1>5, <1>6, <1>7, <1>8, <1>9 DEF Next, CheckStep

LEMMA CountInvariance == Spec => [](TypeOK /\ CInv)
<1>1. Init => CInv
  BY NoneIsApart DEF Init, CInv, OnTime, Untold, ToldOnce, Statuses
<1> QED
  BY <1>1, CountsKept, TypeCorrect, PTL DEF Spec

\* A callback is told once, and once more for every settled status that was
\* written over, however many checks overlap and whatever fails.
THEOREM ToldOnceEach == Spec => []ToldOnce
  BY CountInvariance, PTL DEF CInv

\* A settled status is written over only by a check that was under way when
\* it was settled, with any number of checks.
THEOREM SettledUnlessLate == Spec => SettledStays
<1> DEFINE Late(t) == \E c \in Checkers : /\ check[c] # None /\ check'[c] = None
                                          /\ check[c].tip = t /\ check[c].late
           Over == \A t \in Tips :
                     stored[t] \in Settled /\ stored'[t] \notin {stored[t], None} => Late(t)
<1>1. TypeOK /\ CInv /\ [Next]_vars => [Over]_vars
  <2> SUFFICES ASSUME TypeOK, CInv, Next, NEW t \in Tips,
                      stored[t] \in Settled, stored'[t] \notin {stored[t], None}
               PROVE  Late(t)
    OBVIOUS
  <2>1. ASSUME NEW u \in Tips, Store(u) PROVE FALSE
    <3>1. u # t
      BY <2>1, NoneIsApart DEF CInv, Untold, Store, Statuses
    <3> QED
      BY <2>1, <3>1 DEF Store, TypeOK
  <2>2. ASSUME NEW c \in Checkers, Resume(c) PROVE Late(t)
    <3>1. check[c] # None /\ check'[c] = None
      BY <2>2, ResumeEnds DEF Resume, Answered, TypeOK
    <3>2. check[c].tip = t
      BY <2>2 DEF Resume, Write, TypeOK
    <3>3. check[c].late
      BY <3>1, <3>2 DEF CInv, OnTime, Settled
    <3> QED
      BY <3>1, <3>2, <3>3
  <2>3. CASE Restart
    BY <2>3 DEF Restart
  <2>4. ASSUME NEW u \in Tips, Submit(u) \/ SubmitFails(u) \/ ChainMoves(u)
        PROVE  stored' = stored
    BY <2>4 DEF Submit, SubmitFails, ChainMoves
  <2>5. ASSUME NEW c \in Checkers, Answer(c) PROVE stored' = stored
    BY <2>5 DEF Answer
  <2>6. ASSUME NEW c \in Checkers, NEW u \in Tips, Ask(c, u) PROVE stored' = stored
    BY <2>6 DEF Ask
  <2> QED
    BY <2>1, <2>2, <2>3, <2>4, <2>5, <2>6 DEF Next, CheckStep
<1> QED
  BY <1>1, CountInvariance, PTL DEF Spec, SettledStays
================================================================================
