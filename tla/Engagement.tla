------------------------------- MODULE Engagement -------------------------------
(***************************************************************************)
(* Comments, reactions and tips on one piece of content, and the cached    *)
(* counters of EngagementMetricsService.  A call is a process whose steps  *)
(* are its awaits; nothing is transactional.  repository.save(entity)      *)
(* reads the row again and writes every column that differs from the       *)
(* entity, so that the entity replaces the row: what others wrote since it *)
(* was loaded is written back.                                             *)
(*                                                                         *)
(* The counters are a JSON document in the cache.  A change of a counter   *)
(* is a GET and, when the document is there, a SET of the whole document.  *)
(*                                                                         *)
(* Abstracted: texts, mentions, notifications (their errors are caught),   *)
(* amounts of tips; a comment and a reaction are changed by their creator, *)
(* other callers find nothing.  External: the cache service, and the       *)
(* transaction service, which returns a status when a tip is created and   *)
(* reports another one later.                                              *)
(***************************************************************************)
EXTENDS Integers, Sequences, FiniteSets

CONSTANTS
  Users,
  Types,        \* of reactions
  CommentIds, ReactionIds, TipIds,
  Calls,
  None,         \* no row, no document, nothing in hand
  Limit,        \* replies on a page of a thread
  MaxFailures   \* bound: calls that fail at an await

Keys   == Types \cup {"comments", "tips"}
Groups == {Types, {"comments"}, {"tips"}}   \* the three queries of getMetrics
TipStatuses == {"pending", "confirmed", "failed"}

Comment  == [parentId: CommentIds \cup {None}, rootId: CommentIds \cup {None},
             replyCount: Int, isDeleted: BOOLEAN, createdAt: Nat]
Reaction == [creatorId: Users, type: Types, isDeleted: BOOLEAN]
Delta    == [key: Keys, by: {-1, 1}]
Hand     == (CommentIds \cup ReactionIds \cup TipIds \cup {None}) \X (Comment \cup Reaction \cup {None})
Awaits   == {"idle", "increment", "saveNew", "saveComment", "decrement", "saveReaction",
             "saveTip", "get", "set", "query"}

ASSUME EngagementAssumption ==
  /\ MaxFailures \in Nat /\ Limit \in Nat \ {0}
  /\ IsFiniteSet(CommentIds) /\ IsFiniteSet(ReactionIds) /\ IsFiniteSet(TipIds)
  /\ Types \cap {"comments", "tips"} = {}
  /\ CommentIds \cap (ReactionIds \cup TipIds) = {}
  /\ None \notin CommentIds \cup ReactionIds \cup TipIds \cup Comment \cup Reaction \cup TipStatuses \cup Nat

VARIABLES
  comments, reactions, tips,   \* the tables
  cache,                       \* engagement_metrics, or None
  pc,                          \* the await each call has reached
  hand,                        \* the row a call carries: <<id, entity>>
  todo,                        \* counter changes a call has yet to make
  held,                        \* the document a call carries
  failures                     \* how many calls have failed

tables == <<comments, reactions, tips>>
cvars == <<pc, hand, todo, held>>
vars == <<tables, cache, cvars, failures>>

Init ==
  /\ comments = [i \in CommentIds |-> None]
  /\ reactions = [i \in ReactionIds |-> None]
  /\ tips = [i \in TipIds |-> None]
  /\ cache = None
  /\ pc = [c \in Calls |-> "idle"]
  /\ hand = [c \in Calls |-> None]
  /\ todo = [c \in Calls |-> <<>>]
  /\ held = [c \in Calls |-> None]
  /\ failures = 0

\* Bound: a row is created while an id is left.
Free(table) == {i \in DOMAIN table : table[i] = None}

Live(table, i) == table[i] # None /\ ~table[i].isDeleted

\* A call ends, well or with an exception.
End(c) ==
  /\ pc' = [pc EXCEPT ![c] = "idle"]
  /\ hand' = [hand EXCEPT ![c] = None]
  /\ todo' = [todo EXCEPT ![c] = <<>>]
  /\ held' = [held EXCEPT ![c] = None]

\* A call goes on at another await with a row in hand and counters to change.
Go(c, at, id, row, deltas) ==
  /\ pc' = [pc EXCEPT ![c] = at]
  /\ hand' = [hand EXCEPT ![c] = <<id, row>>]
  /\ todo' = [todo EXCEPT ![c] = deltas]
  /\ UNCHANGED held

Up(key)   == [key |-> key, by |-> 1]
Down(key) == [key |-> key, by |-> -1]

--------------------------------------------------------------------------------
(* CommentService *)

NewComment(parent, root) ==
  [parentId |-> parent, rootId |-> root, replyCount |-> 0, isDeleted |-> FALSE, createdAt |-> 0]

\* create, without a parent.
CreateComment(c) ==
  /\ pc[c] = "idle"
  /\ Free(comments) # {}
  /\ Go(c, "saveNew", None, NewComment(None, None), <<Up("comments")>>)
  /\ UNCHANGED <<tables, cache>>

\* Mutant of CreateReply: the parent is taken for the root.
CreateReplyFlat(c, p) ==
  /\ pc[c] = "idle"
  /\ Free(comments) # {}
  /\ Live(comments, p)
  /\ Go(c, "increment", None, NewComment(p, p), <<Up("comments")>>)
  /\ UNCHANGED <<tables, cache>>

\* create, with a parent: found, its replyCount incremented, the reply saved.
CreateReply(c, p) ==
  /\ pc[c] = "idle"
  /\ Free(comments) # {}
  /\ Live(comments, p)
  /\ LET root == IF comments[p].rootId # None THEN comments[p].rootId ELSE p
     IN Go(c, "increment", None, NewComment(p, root), <<Up("comments")>>)
  /\ UNCHANGED <<tables, cache>>

AddReplies(p, n) == comments' = [comments EXCEPT ![p].replyCount = @ + n]

IncrementReplies(c) ==
  /\ pc[c] = "increment"
  /\ AddReplies(hand[c][2].parentId, 1)
  /\ pc' = [pc EXCEPT ![c] = "saveNew"]
  /\ UNCHANGED <<reactions, tips, cache, hand, todo, held>>

Written == {i \in CommentIds : comments[i] # None}

\* The database dates a row it inserts: no two alike, and none ever goes.
Dated(row) == [row EXCEPT !.createdAt = Cardinality(Written)]

SaveNewComment(c) ==
  /\ pc[c] = "saveNew"
  /\ \E i \in Free(comments) : comments' = [comments EXCEPT ![i] = Dated(hand[c][2])]
  /\ pc' = [pc EXCEPT ![c] = "get"]
  /\ UNCHANGED <<reactions, tips, cache, hand, todo, held>>

\* update: the text changes, the rest of the row is as it was loaded.
EditComment(c, i) ==
  /\ pc[c] = "idle"
  /\ Live(comments, i)
  /\ Go(c, "saveComment", i, comments[i], <<>>)
  /\ UNCHANGED <<tables, cache>>

RemoveComment(c, i) ==
  /\ pc[c] = "idle"
  /\ Live(comments, i)
  /\ Go(c, "saveComment", i, [comments[i] EXCEPT !.isDeleted = TRUE], <<Down("comments")>>)
  /\ UNCHANGED <<tables, cache>>

\* The save of update, which ends there, and of remove.
SaveComment(c) ==
  /\ pc[c] = "saveComment"
  /\ comments' = [comments EXCEPT ![hand[c][1]] = hand[c][2]]
  /\ IF todo[c] = <<>> THEN End(c)
     ELSE pc' = [pc EXCEPT ![c] = "get"] /\ UNCHANGED <<hand, todo, held>>
  /\ UNCHANGED <<reactions, tips, cache>>

\* Mutant of DecrementReplies: the root of the thread loses the reply.
DecrementRoot(c) ==
  /\ pc[c] = "decrement"
  /\ AddReplies(hand[c][2].rootId, -1)
  /\ End(c)
  /\ UNCHANGED <<reactions, tips, cache>>

\* The end of remove: the parent of a reply has one less.
DecrementReplies(c) ==
  /\ pc[c] = "decrement"
  /\ AddReplies(hand[c][2].parentId, -1)
  /\ End(c)
  /\ UNCHANGED <<reactions, tips, cache>>

--------------------------------------------------------------------------------
(* ReactionService *)

\* The unique index on content, creator and type; removed rows count.
Taken(u, t, except) ==
  \E i \in ReactionIds \ {except} :
    reactions[i] # None /\ reactions[i].creatorId = u /\ reactions[i].type = t

React(c, u, t) ==
  /\ pc[c] = "idle"
  /\ Free(reactions) # {}
  /\ ~Taken(u, t, None)
  /\ Go(c, "saveReaction", None,
        [creatorId |-> u, type |-> t, isDeleted |-> FALSE], <<Up(t)>>)
  /\ UNCHANGED <<tables, cache>>

\* Mutant of ChangeReaction: the type given up keeps the reaction.
ChangeUncounted(c, i) ==
  /\ pc[c] = "idle"
  /\ Live(reactions, i)
  /\ \E t \in Types :
       Go(c, "saveReaction", i, [reactions[i] EXCEPT !.type = t],
          IF t = reactions[i].type THEN <<>> ELSE <<Up(t)>>)
  /\ UNCHANGED <<tables, cache>>

\* update: another type, or the same one with new metadata.
ChangeReaction(c, i) ==
  /\ pc[c] = "idle"
  /\ Live(reactions, i)
  /\ \E t \in Types :
       Go(c, "saveReaction", i, [reactions[i] EXCEPT !.type = t],
          IF t = reactions[i].type THEN <<>> ELSE <<Down(reactions[i].type), Up(t)>>)
  /\ UNCHANGED <<tables, cache>>

RemoveReaction(c, i) ==
  /\ pc[c] = "idle"
  /\ Live(reactions, i)
  /\ Go(c, "saveReaction", i, [reactions[i] EXCEPT !.isDeleted = TRUE],
        <<Down(reactions[i].type)>>)
  /\ UNCHANGED <<tables, cache>>

\* The save of the three; a duplicate is refused by the index.
SaveReaction(c) ==
  /\ pc[c] = "saveReaction"
  /\ LET id == hand[c][1]
         row == hand[c][2]
     IN IF Taken(row.creatorId, row.type, id)
        THEN End(c) /\ UNCHANGED reactions
        ELSE /\ \E i \in IF id = None THEN Free(reactions) ELSE {id} :
                  reactions' = [reactions EXCEPT ![i] = row]
             /\ IF todo[c] = <<>> THEN End(c)
                ELSE pc' = [pc EXCEPT ![c] = "get"] /\ UNCHANGED <<hand, todo, held>>
  /\ UNCHANGED <<comments, tips, cache>>

--------------------------------------------------------------------------------
(* CryptoTipService *)

\* create: the transaction service has the balance and starts a transfer.
Tip(c) ==
  /\ pc[c] = "idle"
  /\ Free(tips) # {}
  /\ Go(c, "saveTip", None, None, <<Up("tips")>>)
  /\ UNCHANGED <<tables, cache>>

\* The record of it, with the status the transaction was given.
SaveTip(c) ==
  /\ pc[c] = "saveTip"
  /\ \E i \in Free(tips), status \in {"pending", "confirmed"} :
       tips' = [tips EXCEPT ![i] = status]
  /\ pc' = [pc EXCEPT ![c] = "get"]
  /\ UNCHANGED <<comments, reactions, cache, hand, todo, held>>

\* updateStatus
UpdateTipStatus(i) ==
  /\ tips[i] # None
  /\ \E status \in TipStatuses \ {tips[i]} : tips' = [tips EXCEPT ![i] = status]
  /\ UNCHANGED <<comments, reactions, cache, cvars>>

--------------------------------------------------------------------------------
(* EngagementMetricsService *)

\* The rows a counter counts.  The query for comments asks for
\* "parentId: null", which TypeORM takes for no condition: replies count too.
Counted(k) ==
  CASE k = "comments" -> {i \in CommentIds : Live(comments, i)}
    [] k = "tips"     -> {i \in TipIds : tips[i] = "confirmed"}
    [] OTHER          -> {i \in ReactionIds : Live(reactions, i) /\ reactions[i].type = k}

\* getMetrics: a miss, the three queries side by side, and the SET.
ReadMetrics(c) ==
  /\ pc[c] = "idle"
  /\ cache = None
  /\ pc' = [pc EXCEPT ![c] = "query"]
  /\ held' = [held EXCEPT ![c] = [k \in Keys |-> None]]
  /\ UNCHANGED <<tables, cache, hand, todo>>

Query(c, group) ==
  /\ pc[c] = "query"
  /\ \A k \in group : held[c][k] = None
  /\ held' = [held EXCEPT ![c] =
       [k \in Keys |-> IF k \in group THEN Cardinality(Counted(k)) ELSE @[k]]]
  /\ UNCHANGED <<tables, cache, pc, hand, todo>>

StoreMetrics(c) ==
  /\ pc[c] = "query"
  /\ \A k \in Keys : held[c][k] # None
  /\ cache' = held[c]
  /\ End(c)
  /\ UNCHANGED tables

\* One counter up, or down unless it is 0.
Changed(metrics, d) ==
  [metrics EXCEPT ![d.key] = IF d.by = 1 THEN @ + 1 ELSE IF @ > 0 THEN @ - 1 ELSE @]

\* What remains of a call after a counter: another one, the parent of a
\* removed reply, nothing.
NextCounter(c) ==
  IF Len(todo[c]) > 1
  THEN /\ pc' = [pc EXCEPT ![c] = "get"]
       /\ todo' = [todo EXCEPT ![c] = Tail(@)]
       /\ held' = [held EXCEPT ![c] = None]
       /\ UNCHANGED hand
  ELSE IF hand[c][1] \in CommentIds /\ hand[c][2].parentId # None
  THEN /\ pc' = [pc EXCEPT ![c] = "decrement"]
       /\ todo' = [todo EXCEPT ![c] = <<>>]
       /\ held' = [held EXCEPT ![c] = None]
       /\ UNCHANGED hand
  ELSE End(c)

\* increment... and decrement...: the GET, with the document or without.
GetCounter(c) ==
  /\ pc[c] = "get"
  /\ IF cache = None THEN NextCounter(c)
     ELSE /\ pc' = [pc EXCEPT ![c] = "set"]
          /\ held' = [held EXCEPT ![c] = Changed(cache, Head(todo[c]))]
          /\ UNCHANGED <<hand, todo>>
  /\ UNCHANGED <<tables, cache>>

SetCounter(c) ==
  /\ pc[c] = "set"
  /\ cache' = held[c]
  /\ NextCounter(c)
  /\ UNCHANGED tables

\* The 300 seconds are over.
Expire == cache # None /\ cache' = None /\ UNCHANGED <<tables, cvars>>

\* Any await of a call may reject.
Fail(c) ==
  /\ failures < MaxFailures
  /\ pc[c] # "idle"
  /\ End(c)
  /\ failures' = failures + 1
  /\ UNCHANGED <<tables, cache>>

--------------------------------------------------------------------------------
CommentRequest(c) ==
  \/ CreateComment(c)
  \/ \E i \in CommentIds : CreateReply(c, i) \/ EditComment(c, i) \/ RemoveComment(c, i)

ReactionRequest(c) ==
  \/ \E u \in Users, t \in Types : React(c, u, t)
  \/ \E i \in ReactionIds : ChangeReaction(c, i) \/ RemoveReaction(c, i)

Request(c) == CommentRequest(c) \/ ReactionRequest(c) \/ Tip(c) \/ ReadMetrics(c)

Step(c) ==
  \/ IncrementReplies(c) \/ SaveNewComment(c) \/ SaveComment(c) \/ DecrementReplies(c)
  \/ SaveReaction(c) \/ SaveTip(c) \/ GetCounter(c) \/ SetCounter(c)
  \/ StoreMetrics(c) \/ \E group \in Groups : Query(c, group)

Next ==
  \/ \E c \in Calls : Fail(c)
  \/ /\ \/ \E c \in Calls : Request(c) \/ Step(c)
        \/ \E i \in TipIds : UpdateTipStatus(i)
        \/ Expire
     /\ UNCHANGED failures

Spec == Init /\ [][Next]_vars
--------------------------------------------------------------------------------
TypeOK ==
  /\ comments \in [CommentIds -> Comment \cup {None}]
  /\ reactions \in [ReactionIds -> Reaction \cup {None}]
  /\ tips \in [TipIds -> TipStatuses \cup {None}]
  /\ cache \in [Keys -> Nat] \cup {None}
  /\ pc \in [Calls -> Awaits]
  /\ hand \in [Calls -> Hand \cup {None}]
  /\ todo \in [Calls -> Seq(Delta)]
  /\ held \in [Calls -> [Keys -> Nat \cup {None}] \cup {None}]
  /\ failures \in 0..MaxFailures

(***************************************************************************)
(* The rootId of a reply is the top of its thread: that of its parent, or  *)
(* the parent itself.  Kept by whatever calls overlap or fail.             *)
(***************************************************************************)
ThreadRooted ==
  \A i \in CommentIds :
    comments[i] # None =>
      LET p == comments[i].parentId IN
        IF p = None THEN comments[i].rootId = None
        ELSE /\ p \in CommentIds /\ comments[p] # None
             /\ comments[i].rootId = IF comments[p].rootId # None
                                     THEN comments[p].rootId ELSE p

(***************************************************************************)
(* getThreadedComments takes a page of the replies that name the root, the *)
(* oldest first, and hangs each under its parent if the parent is on that  *)
(* page too; what is left hanging is dropped.                              *)
(***************************************************************************)
Thread(r) == {i \in CommentIds : Live(comments, i) /\ comments[i].rootId = r}

\* How many of some comments were written before comment i.
Earlier(S, i) == Cardinality({j \in S : comments[j].createdAt < comments[i].createdAt})

OnPage(r, page) ==
  {i \in Thread(r) : Earlier(Thread(r), i) \in (page - 1) * Limit .. page * Limit - 1}

Shown(r, page) ==
  LET closed == {S \in SUBSET CommentIds :
                   r \in S /\ \A i \in OnPage(r, page) : comments[i].parentId \in S => i \in S}
  IN {i \in CommentIds \ {r} : \A S \in closed : i \in S}

\* A comment, its parent, the parent's parent and so on.
Above(i) ==
  LET closed == {S \in SUBSET CommentIds :
                   i \in S /\ \A j \in S : comments[j] # None =>
                                           comments[j].parentId \in S \cup {None}}
  IN {j \in CommentIds : \A S \in closed : j \in S}

\* Whatever is left of the comments below r, at any depth.
Below(r) == {i \in CommentIds \ {r} : Live(comments, i) /\ r \in Above(i)}

(***************************************************************************)
(* The first page of a thread is about the first Limit comments below the  *)
(* root, and shows those of them above which nothing was removed: none is  *)
(* lost for want of its parent, who is older and so on that page as well.  *)
(* Of a later page this is not true, there a parent may be on an earlier   *)
(* one.                                                                    *)
(***************************************************************************)
ThreadComplete ==
  \A r \in CommentIds :
    Live(comments, r) /\ comments[r].parentId = None =>
      Shown(r, 1) = {i \in Below(r) : /\ Earlier(Below(r), i) < Limit
                                      /\ \A j \in Above(i) : Live(comments, j)}

(***************************************************************************)
(* replyCount, while calls do not overlap.  It is incremented before the   *)
(* reply is there and decremented after it has gone, so that a call that   *)
(* fails in between leaves it too high and never too low; it is exact      *)
(* while no call fails.                                                    *)
(***************************************************************************)
Quiet == \A c \in Calls : pc[c] = "idle"

\* findAll: the comments under a parent, or the root comments, in all its pages.
FindAll(parent) == {i \in CommentIds : Live(comments, i) /\ comments[i].parentId = parent}

RepliesCounted ==
  \A p \in CommentIds :
    comments[p] # None =>
      /\ comments[p].replyCount >= Cardinality(FindAll(p))
      /\ Quiet /\ failures = 0 => comments[p].replyCount = Cardinality(FindAll(p))

GetReactionsByType(type) ==
  Cardinality({i \in ReactionIds : Live(reactions, i) /\ reactions[i].type = type})

HasUserReacted(u, type) ==
  \E i \in ReactionIds :
    Live(reactions, i) /\ reactions[i].creatorId = u /\ reactions[i].type = type

(***************************************************************************)
(* The cached counter of a type of reaction, while calls do not overlap    *)
(* and none has failed: counted up and down by reactions given, moved to   *)
(* another type, refused by the index and taken away, it is what a count   *)
(* of the table gives, and as many as the users who have reacted.          *)
(***************************************************************************)
ReactionsExact ==
  Quiet /\ failures = 0 /\ cache # None =>
    \A t \in Types :
      /\ cache[t] = GetReactionsByType(t)
      /\ cache[t] = Cardinality({u \in Users : HasUserReacted(u, t)})

\* "Soft delete": a removed comment stays removed, whatever calls overlap.
DeletedStays ==
  [][\A i \in CommentIds :
       comments[i] # None /\ comments[i].isDeleted => comments'[i].isDeleted]_vars
================================================================================
