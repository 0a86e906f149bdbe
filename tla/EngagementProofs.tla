---------------------------- MODULE EngagementProofs ----------------------------
(***************************************************************************)
(* Theorems about Engagement, for any users, comments, reactions and tips, *)
(* and any number of overlapping calls, any of which may fail.             *)
(***************************************************************************)
EXTENDS Engagement, FiniteSetTheorems, WellFoundedInduction, TLAPS

\* A comment knows the top of its thread.
RowRooted(row) ==
  IF row.parentId = None THEN row.rootId = None
  ELSE /\ row.parentId \in CommentIds
       /\ comments[row.parentId] # None
       /\ row.rootId = IF comments[row.parentId].rootId # None
                       THEN comments[row.parentId].rootId ELSE row.parentId

\* An entity of comment i, loaded some time ago.
SameThread(i, row) ==
  /\ row \in Comment
  /\ comments[i] # None
  /\ row.parentId = comments[i].parentId
  /\ row.rootId = comments[i].rootId
  /\ row.createdAt = comments[i].createdAt

\* What a call carries.
CallOK(c) ==
  /\ pc[c] \in {"increment", "saveNew"} =>
       /\ hand[c] = <<None, hand[c][2]>>
       /\ hand[c][2] \in Comment
       /\ RowRooted(hand[c][2])
  /\ pc[c] = "increment" => hand[c][2].parentId # None
  /\ pc[c] \in {"saveComment", "decrement"} => hand[c][1] \in CommentIds
  /\ pc[c] \in {"saveComment", "decrement", "get", "set"} /\ hand[c][1] \in CommentIds =>
       SameThread(hand[c][1], hand[c][2])
  /\ pc[c] = "decrement" => hand[c][2].parentId # None
  /\ pc[c] = "saveReaction" =>
       hand[c][1] \in ReactionIds \cup {None} /\ hand[c][2] \in Reaction
  /\ pc[c] = "saveTip" => hand[c][1] = None
  /\ pc[c] \in {"increment", "saveNew", "saveTip", "get", "set"} => todo[c] # <<>>
  /\ pc[c] = "set" => held[c] \in [Keys -> Nat]
  /\ pc[c] = "query" => held[c] \in [Keys -> Nat \cup {None}]

\* A comment is younger than its parent; all are dated by those before them.
Younger ==
  \A i \in CommentIds :
    comments[i] # None =>
      /\ comments[i].createdAt < Cardinality(Written)
      /\ comments[i].parentId # None =>
           comments[comments[i].parentId].createdAt < comments[i].createdAt

Threads == ThreadRooted /\ Younger

IInv == TypeOK /\ Threads /\ \A c \in Calls : CallOK(c)

\* Comments stay, in the thread they were written in.
Kept ==
  \A i \in CommentIds : comments[i] # None =>
    /\ comments'[i] # None
    /\ comments'[i].parentId = comments[i].parentId
    /\ comments'[i].rootId = comments[i].rootId
    /\ comments'[i].createdAt = comments[i].createdAt

LEMMA NoneIsApart ==
  /\ None \notin CommentIds /\ None \notin ReactionIds /\ None \notin TipIds
  /\ None \notin Comment /\ None \notin Reaction /\ None \notin TipStatuses /\ None \notin Nat
  /\ \A i \in CommentIds : i \notin ReactionIds /\ i \notin TipIds
  BY EngagementAssumption

LEMMA RowsKept ==
  ASSUME Kept, NEW row \in Comment, RowRooted(row)
  PROVE  RowRooted(row)'
  BY DEF Kept, RowRooted, Comment

LEMMA InitHolds == Init => IInv
<1> SUFFICES ASSUME Init PROVE IInv
  OBVIOUS
<1> USE DEF Init
<1>1. TypeOK
  BY EngagementAssumption DEF TypeOK, Awaits
<1>2. Threads
  BY DEF Threads, ThreadRooted, Younger
<1>3. ASSUME NEW c \in Calls PROVE CallOK(c)
  BY DEF CallOK
<1> QED BY <1>1, <1>2, <1>3 DEF IInv

\* A call that stands still keeps its facts while comments are kept.
LEMMA OthersKept ==
  ASSUME TypeOK, Kept, NEW c \in Calls, CallOK(c),
         pc'[c] = pc[c], hand'[c] = hand[c], todo'[c] = todo[c], held'[c] = held[c]
  PROVE  CallOK(c)'
<1>1. ASSUME RowRooted(hand[c][2]), hand[c][2] \in Comment PROVE RowRooted(hand[c][2])'
  BY <1>1, RowsKept
<1>2. ASSUME hand[c][1] \in CommentIds, SameThread(hand[c][1], hand[c][2])
      PROVE  SameThread(hand[c][1], hand[c][2])'
  BY <1>2 DEF Kept, SameThread
<1> QED BY <1>1, <1>2 DEF CallOK

LEMMA IdleOK ==
  ASSUME NEW c, pc'[c] = "idle"
  PROVE  CallOK(c)'
  BY DEF CallOK

\* A step of one call.
LEMMA OneCall ==
  ASSUME IInv, NEW c \in Calls, TypeOK', Threads', Kept, CallOK(c)',
         \A d \in Calls \ {c} : /\ pc'[d] = pc[d] /\ hand'[d] = hand[d]
                                /\ todo'[d] = todo[d] /\ held'[d] = held[d]
  PROVE  IInv'
<1>1. ASSUME NEW d \in Calls \ {c} PROVE CallOK(d)'
  BY OthersKept DEF IInv
<1> QED BY <1>1 DEF IInv

\* The part of TypeOK that is about calls.
CallsTyped ==
  /\ pc \in [Calls -> Awaits]
  /\ hand \in [Calls -> Hand \cup {None}]
  /\ todo \in [Calls -> Seq(Delta)]
  /\ held \in [Calls -> [Keys -> Nat \cup {None}] \cup {None}]

LEMMA Ends ==
  ASSUME CallsTyped, NEW c \in Calls, End(c)
  PROVE  /\ CallsTyped' /\ CallOK(c)'
         /\ \A d \in Calls \ {c} : /\ pc'[d] = pc[d] /\ hand'[d] = hand[d]
                                   /\ todo'[d] = todo[d] /\ held'[d] = held[d]
<1>1. pc'[c] = "idle"
  BY DEF End, CallsTyped
<1> QED BY <1>1, IdleOK DEF End, CallsTyped, Awaits

LEMMA Moves ==
  ASSUME CallsTyped, NEW c \in Calls, NEW at \in Awaits, NEW id, NEW row, <<id, row>> \in Hand,
         NEW deltas \in Seq(Delta), Go(c, at, id, row, deltas)
  PROVE  /\ CallsTyped'
         /\ pc'[c] = at /\ hand'[c] = <<id, row>> /\ todo'[c] = deltas /\ held' = held
         /\ \A d \in Calls \ {c} : /\ pc'[d] = pc[d] /\ hand'[d] = hand[d]
                                   /\ todo'[d] = todo[d] /\ held'[d] = held[d]
  BY DEF Go, CallsTyped

\* The call goes on from one await to the next with what it carries.
LEMMA GoesOn ==
  ASSUME CallsTyped, NEW c \in Calls, NEW at \in Awaits,
         pc' = [pc EXCEPT ![c] = at], UNCHANGED <<hand, todo, held>>
  PROVE  /\ CallsTyped' /\ pc'[c] = at
         /\ \A d \in Calls \ {c} : /\ pc'[d] = pc[d] /\ hand'[d] = hand[d]
                                   /\ todo'[d] = todo[d] /\ held'[d] = held[d]
  BY DEF CallsTyped

\* A step that leaves the comments alone.
LEMMA SameComments ==
  ASSUME Threads, UNCHANGED comments
  PROVE  Kept /\ Threads'
  BY DEF Kept, Threads, ThreadRooted, Younger, Written

LEMMA CountsAreNumbers ==
  ASSUME NEW k \in Keys PROVE Cardinality(Counted(k)) \in Nat
<1>1. ASSUME NEW S, NEW P, IsFiniteSet(S), P \subseteq S PROVE Cardinality(P) \in Nat
  BY <1>1, FS_Subset, FS_CardinalityType
<1>2. \/ Counted(k) \subseteq CommentIds
      \/ Counted(k) \subseteq TipIds
      \/ Counted(k) \subseteq ReactionIds
  BY DEF Counted
<1> QED BY <1>1, <1>2, EngagementAssumption

LEMMA UpAndDown ==
  ASSUME NEW k \in Keys
  PROVE  /\ <<Up(k)>> \in Seq(Delta) /\ <<Down(k)>> \in Seq(Delta)
         /\ <<Up(k)>> # <<>> /\ <<Down(k)>> # <<>>
  BY DEF Up, Down, Delta

\* Calls that leave the tables and the cache alone.
LEMMA Unwritten ==
  ASSUME IInv, UNCHANGED <<tables, cache, failures>>, NEW c \in Calls, CallsTyped', CallOK(c)',
         \A d \in Calls \ {c} : /\ pc'[d] = pc[d] /\ hand'[d] = hand[d]
                                /\ todo'[d] = todo[d] /\ held'[d] = held[d]
  PROVE  IInv'
<1>1. TypeOK'
  BY DEF IInv, TypeOK, CallsTyped, tables
<1>2. Kept /\ Threads'
  BY SameComments DEF tables, IInv
<1> QED BY <1>1, <1>2, OneCall

--------------------------------------------------------------------------------
(* Comments *)

\* A new comment under a root that is there, or an entity of the same
\* thread written over a comment.
LEMMA CommentWritten ==
  ASSUME IInv, NEW i \in CommentIds, NEW row \in Comment,
         comments' = [comments EXCEPT ![i] = row],
         \/ comments[i] = None /\ RowRooted(row) /\ row.createdAt = Cardinality(Written)
         \/ SameThread(i, row)
  PROVE  comments' \in [CommentIds -> Comment \cup {None}] /\ Kept /\ Threads'
<1>1. /\ comments' \in [CommentIds -> Comment \cup {None}]
      /\ comments'[i] = row
      /\ \A j \in CommentIds \ {i} : comments'[j] = comments[j]
  BY DEF IInv, TypeOK
<1>2. Kept
  BY <1>1, NoneIsApart DEF Kept, SameThread
<1>3. RowRooted(row)
  <2>1. CASE SameThread(i, row)
    BY <2>1 DEF SameThread, RowRooted, IInv, Threads, ThreadRooted
  <2> QED BY <2>1
<1>4. ASSUME NEW j \in CommentIds, comments'[j] # None PROVE RowRooted(comments[j])' 
  <2>1. CASE j = i
    <3>1. RowRooted(row)'
      BY <1>2, <1>3, RowsKept
    <3> QED BY <1>1, <2>1, <3>1 DEF RowRooted
  <2>2. CASE j # i
    <3>1. comments'[j] = comments[j] /\ comments[j] \in Comment
      BY <1>1, <1>4, <2>2 DEF IInv, TypeOK
    <3>2. RowRooted(comments[j])
      BY <1>4, <3>1 DEF RowRooted, IInv, Threads, ThreadRooted
    <3> DEFINE old == comments[j]
    <3>3. PICK r \in Comment : r = comments[j]
      BY <3>1
    <3>4. RowRooted(r)'
      BY <1>2, <3>2, <3>3, RowsKept
    <3> QED BY <3>1, <3>3, <3>4 DEF RowRooted
  <2> QED BY <2>1, <2>2
<1>5. ThreadRooted'
  BY <1>4 DEF ThreadRooted, RowRooted
<1>6. /\ Cardinality(Written) \in Nat /\ Cardinality(Written') \in Nat
      /\ comments[i] = None => Cardinality(Written') = Cardinality(Written) + 1
      /\ comments[i] # None => Cardinality(Written') = Cardinality(Written)
  <2>1. IsFiniteSet(Written)
    BY FS_Subset, EngagementAssumption DEF Written
  <2>2. Written' = Written \cup {i}
    BY <1>1, NoneIsApart DEF Written
  <2>3. comments[i] # None <=> i \in Written
    BY DEF Written
  <2> QED BY <2>1, <2>2, <2>3, FS_AddElement, FS_CardinalityType
<1>7. ASSUME NEW j \in CommentIds, comments'[j] # None
      PROVE  /\ comments'[j].createdAt < Cardinality(Written')
             /\ comments'[j].parentId # None =>
                  comments'[comments'[j].parentId].createdAt < comments'[j].createdAt
  <2>0. \A k \in CommentIds : comments[k] # None => comments[k].createdAt \in Nat
    BY DEF IInv, TypeOK, Comment
  <2>1. CASE comments[j] # None
    <3>1. /\ comments[j].createdAt < Cardinality(Written)
          /\ comments[j].parentId # None =>
               /\ comments[j].parentId \in CommentIds /\ comments[comments[j].parentId] # None
               /\ comments[comments[j].parentId].createdAt < comments[j].createdAt
      BY <2>1 DEF IInv, Threads, ThreadRooted, Younger
    <3>2. /\ comments'[j].createdAt = comments[j].createdAt
          /\ comments'[j].parentId = comments[j].parentId
      BY <1>2, <2>1 DEF Kept
    <3>3. comments[j].parentId # None =>
            comments'[comments[j].parentId].createdAt = comments[comments[j].parentId].createdAt
      BY <1>2, <3>1 DEF Kept
    <3> QED BY <1>6, <2>0, <2>1, <3>1, <3>2, <3>3
  <2>2. CASE comments[j] = None
    <3>1. j = i /\ row.createdAt = Cardinality(Written) /\ comments'[j] = row
      BY <1>1, <1>7, <2>2 DEF SameThread
    <3>2. row.parentId # None =>
            row.parentId \in CommentIds /\ comments[row.parentId] # None
      BY <1>3 DEF RowRooted
    <3>3. row.parentId # None => comments[row.parentId].createdAt < Cardinality(Written)
      BY <3>2 DEF IInv, Threads, Younger
    <3>4. row.parentId # None =>
            comments'[row.parentId].createdAt = comments[row.parentId].createdAt
      BY <1>2, <3>2 DEF Kept
    <3> QED BY <1>6, <2>2, <3>1, <3>3, <3>4
  <2> QED BY <2>1, <2>2
<1>8. Younger'
  BY <1>7 DEF Younger
<1> QED BY <1>1, <1>2, <1>5, <1>8 DEF Threads

\* A change of a counter of replies.
LEMMA RepliesAdded ==
  ASSUME IInv, NEW p \in CommentIds, comments[p] # None, NEW n \in Int, AddReplies(p, n)
  PROVE  comments' \in [CommentIds -> Comment \cup {None}] /\ Kept /\ Threads'
<1> DEFINE row == [comments[p] EXCEPT !.replyCount = @ + n]
<1>1. comments[p] \in Comment
  BY DEF IInv, TypeOK
<1>2. row \in Comment /\ SameThread(p, row)
  BY <1>1 DEF Comment, SameThread
<1>3. comments' = [comments EXCEPT ![p] = row]
  BY DEF AddReplies
<1> HIDE DEF row
<1> QED BY <1>2, <1>3, CommentWritten

\* A parent is there.
LEMMA ParentThere ==
  ASSUME IInv, NEW row \in Comment, row.parentId # None,
         RowRooted(row) \/ \E i \in CommentIds : SameThread(i, row)
  PROVE  row.parentId \in CommentIds /\ comments[row.parentId] # None
  BY DEF RowRooted, SameThread, IInv, Threads, ThreadRooted

\* A step of a call that writes a comment.
LEMMA CommentStep ==
  ASSUME IInv, UNCHANGED <<reactions, tips, cache, failures>>,
         comments' \in [CommentIds -> Comment \cup {None}], Kept, Threads',
         NEW c \in Calls, CallsTyped', CallOK(c)',
         \A d \in Calls \ {c} : /\ pc'[d] = pc[d] /\ hand'[d] = hand[d]
                                /\ todo'[d] = todo[d] /\ held'[d] = held[d]
  PROVE  IInv'
<1>1. TypeOK'
  BY DEF IInv, TypeOK, CallsTyped
<1> QED BY <1>1, OneCall

\* What a call may start with.
Fit(at, id, row, deltas) ==
  /\ at \in {"increment", "saveNew", "saveComment", "saveReaction", "saveTip"}
  /\ <<id, row>> \in Hand
  /\ deltas \in Seq(Delta)
  /\ at \in {"increment", "saveNew"} =>
       id = None /\ row \in Comment /\ RowRooted(row) /\ deltas # <<>>
  /\ at = "increment" => row.parentId # None
  /\ at = "saveComment" => id \in CommentIds /\ SameThread(id, row)
  /\ at = "saveReaction" => id \in ReactionIds \cup {None} /\ row \in Reaction
  /\ at = "saveTip" => id = None /\ deltas # <<>>

LEMMA Starts ==
  ASSUME IInv, NEW c \in Calls, NEW at, NEW id, NEW row, NEW deltas,
         Fit(at, id, row, deltas), Go(c, at, id, row, deltas),
         UNCHANGED <<tables, cache, failures>>
  PROVE  IInv'
<1>1. at \in Awaits /\ CallsTyped
  BY DEF Fit, Awaits, IInv, TypeOK, CallsTyped
<1>2. <<id, row>> \in Hand /\ deltas \in Seq(Delta)
  BY DEF Fit
<1>3. /\ CallsTyped' /\ pc'[c] = at /\ hand'[c] = <<id, row>> /\ todo'[c] = deltas
      /\ \A d \in Calls \ {c} : /\ pc'[d] = pc[d] /\ hand'[d] = hand[d]
                                /\ todo'[d] = todo[d] /\ held'[d] = held[d]
  BY <1>1, <1>2, Moves
<1>4. Kept
  BY SameComments DEF IInv, tables
<1>5. CallOK(c)'
  <2>1. hand'[c][1] = id /\ hand'[c][2] = row
    BY <1>3
  <2>2. CASE at \in {"increment", "saveNew"}
    <3>1. RowRooted(row)'
      BY <1>4, <2>2, RowsKept DEF Fit
    <3>2. hand'[c] = <<None, row>> /\ row \in Comment /\ deltas # <<>> /\ id = None
      BY <1>3, <2>2 DEF Fit
    <3>3. at = "increment" => row.parentId # None
      BY DEF Fit
    <3>4. None \notin CommentIds
      BY NoneIsApart
    <3>5. RowRooted(hand[c][2])'
      BY <2>1, <3>1 DEF RowRooted
    <3> QED BY <1>3, <2>1, <2>2, <3>2, <3>3, <3>4, <3>5 DEF CallOK
  <2>3. CASE at = "saveComment"
    <3>1. id \in CommentIds /\ SameThread(id, row)
      BY <2>3 DEF Fit
    <3>2. SameThread(hand[c][1], hand[c][2])'
      BY <1>4, <2>1, <3>1 DEF SameThread, Kept
    <3> QED BY <1>3, <2>1, <2>3, <3>1, <3>2 DEF CallOK
  <2>4. CASE at = "saveReaction"
    BY <1>3, <2>1, <2>4 DEF CallOK, Fit
  <2>5. CASE at = "saveTip"
    BY <1>3, <2>1, <2>5 DEF CallOK, Fit
  <2> QED BY <2>2, <2>3, <2>4, <2>5 DEF Fit
<1> QED BY <1>3, <1>5, Unwritten

LEMMA CreateCommentStep ==
  ASSUME IInv, UNCHANGED failures, NEW c \in Calls, CreateComment(c) PROVE IInv'
<1>1. PICK row : row = NewComment(None, None)
  OBVIOUS
<1>2. row \in Comment /\ RowRooted(row)
  BY <1>1 DEF NewComment, Comment, RowRooted
<1>3. <<None, row>> \in Hand /\ "comments" \in Keys
  BY <1>2 DEF Keys, Hand
<1>4. Fit("saveNew", None, row, <<Up("comments")>>)
  BY <1>2, <1>3, UpAndDown DEF Fit
<1>5. Go(c, "saveNew", None, row, <<Up("comments")>>) /\ UNCHANGED <<tables, cache>>
  BY <1>1 DEF CreateComment
<1> QED BY <1>4, <1>5, Starts

LEMMA CreateReplyStep ==
  ASSUME IInv, UNCHANGED failures, NEW c \in Calls, NEW p \in CommentIds, CreateReply(c, p)
  PROVE  IInv'
<1>1. comments[p] \in Comment /\ comments[p] # None
  BY DEF CreateReply, Live, IInv, TypeOK
<1>2. PICK root : root = IF comments[p].rootId # None THEN comments[p].rootId ELSE p
  OBVIOUS
<1>3. PICK row : row = NewComment(p, root)
  OBVIOUS
<1>4. row \in Comment /\ row.parentId = p /\ row.rootId = root
  BY <1>1, <1>2, <1>3 DEF NewComment, Comment
<1>5. RowRooted(row) /\ row.parentId # None
  BY <1>1, <1>2, <1>4, NoneIsApart DEF RowRooted
<1>6. <<None, row>> \in Hand /\ "comments" \in Keys
  BY <1>4 DEF Keys, Hand
<1>7. Fit("increment", None, row, <<Up("comments")>>)
  BY <1>4, <1>5, <1>6, UpAndDown DEF Fit
<1>8. Go(c, "increment", None, row, <<Up("comments")>>) /\ UNCHANGED <<tables, cache>>
  BY <1>2, <1>3 DEF CreateReply
<1> QED BY <1>7, <1>8, Starts

LEMMA IncrementRepliesStep ==
  ASSUME IInv, UNCHANGED failures, NEW c \in Calls, IncrementReplies(c) PROVE IInv'
<1> DEFINE row == hand[c][2]
<1>1. CallOK(c) /\ CallsTyped /\ row \in Comment /\ RowRooted(row) /\ row.parentId # None
  BY DEF IncrementReplies, IInv, CallOK, TypeOK, CallsTyped
<1>2. row.parentId \in CommentIds /\ comments[row.parentId] # None
  BY <1>1, ParentThere
<1>3. AddReplies(row.parentId, 1) /\ pc[c] = "increment" /\ pc' = [pc EXCEPT ![c] = "saveNew"]
      /\ UNCHANGED <<reactions, tips, cache, hand, todo, held>>
  BY DEF IncrementReplies
<1>4. comments' \in [CommentIds -> Comment \cup {None}] /\ Kept /\ Threads'
  BY <1>2, <1>3, RepliesAdded
<1>5. /\ CallsTyped' /\ pc'[c] = "saveNew"
      /\ \A d \in Calls \ {c} : /\ pc'[d] = pc[d] /\ hand'[d] = hand[d]
                                /\ todo'[d] = todo[d] /\ held'[d] = held[d]
  BY <1>1, <1>3, GoesOn DEF Awaits
<1>6. RowRooted(row)'
  BY <1>1, <1>3, <1>4, RowsKept
<1>7. CallOK(c)'
  BY <1>1, <1>3, <1>5, <1>6 DEF CallOK
<1> QED BY <1>3, <1>4, <1>5, <1>7, CommentStep

LEMMA DatedTyped ==
  ASSUME NEW row \in Comment
  PROVE  Dated(row) \in Comment /\ Dated(row).createdAt = Cardinality(Written)
<1>1. Cardinality(Written) \in Nat
  BY FS_Subset, FS_CardinalityType, EngagementAssumption DEF Written
<1> QED BY <1>1 DEF Dated, Comment

LEMMA SaveNewCommentStep ==
  ASSUME IInv, UNCHANGED failures, NEW c \in Calls, SaveNewComment(c) PROVE IInv'
<1>1. PICK row : row = hand[c][2]
  OBVIOUS
<1>2. /\ CallsTyped /\ row \in Comment /\ RowRooted(row) /\ todo[c] # <<>>
      /\ hand[c] = <<None, row>>
  BY <1>1 DEF SaveNewComment, IInv, CallOK, TypeOK, CallsTyped
<1>9. PICK new : new = Dated(row)
  OBVIOUS
<1>3. PICK i \in Free(comments) : comments' = [comments EXCEPT ![i] = new]
  BY <1>1, <1>9 DEF SaveNewComment
<1>4. i \in CommentIds /\ comments[i] = None
  BY <1>3 DEF Free, IInv, TypeOK
<1>5. comments' \in [CommentIds -> Comment \cup {None}] /\ Kept /\ Threads'
  <2>1. new \in Comment /\ new.createdAt = Cardinality(Written)
    BY <1>2, <1>9, DatedTyped
  <2>2. new.parentId = row.parentId /\ new.rootId = row.rootId
    BY <1>2, <1>9 DEF Dated, Comment
  <2>3. RowRooted(new)
    BY <1>2, <2>2 DEF RowRooted
  <2> QED BY <1>3, <1>4, <2>1, <2>3, CommentWritten
<1>6. pc' = [pc EXCEPT ![c] = "get"] /\ UNCHANGED <<reactions, tips, cache, hand, todo, held>>
  BY DEF SaveNewComment
<1>7. /\ CallsTyped' /\ pc'[c] = "get"
      /\ \A d \in Calls \ {c} : /\ pc'[d] = pc[d] /\ hand'[d] = hand[d]
                                /\ todo'[d] = todo[d] /\ held'[d] = held[d]
  BY <1>2, <1>6, GoesOn DEF Awaits
<1>8. CallOK(c)'
  BY <1>2, <1>6, <1>7, NoneIsApart DEF CallOK
<1> QED BY <1>5, <1>6, <1>7, <1>8, CommentStep

\* A comment loaded, with a change that leaves its thread alone.
LEMMA CommentLoaded ==
  ASSUME IInv, UNCHANGED failures, NEW c \in Calls, NEW i \in CommentIds, Live(comments, i),
         NEW row \in Comment, row.parentId = comments[i].parentId, row.rootId = comments[i].rootId,
         row.createdAt = comments[i].createdAt,
         NEW deltas \in Seq(Delta), Go(c, "saveComment", i, row, deltas),
         UNCHANGED <<tables, cache>>
  PROVE  IInv'
<1>1. Fit("saveComment", i, row, deltas)
  BY DEF Fit, Hand, SameThread, Live
<1> QED BY <1>1, Starts

LEMMA EditCommentStep ==
  ASSUME IInv, UNCHANGED failures, NEW c \in Calls, NEW i \in CommentIds, EditComment(c, i)
  PROVE  IInv'
<1>1. comments[i] \in Comment /\ Live(comments, i)
  BY DEF EditComment, Live, IInv, TypeOK
<1>2. <<>> \in Seq(Delta)
  OBVIOUS
<1>3. Go(c, "saveComment", i, comments[i], <<>>) /\ UNCHANGED <<tables, cache>>
  BY DEF EditComment
<1> QED BY <1>1, <1>2, <1>3, CommentLoaded

LEMMA RemoveCommentStep ==
  ASSUME IInv, UNCHANGED failures, NEW c \in Calls, NEW i \in CommentIds, RemoveComment(c, i)
  PROVE  IInv'
<1>1. PICK row : row = [comments[i] EXCEPT !.isDeleted = TRUE]
  OBVIOUS
<1>2. comments[i] \in Comment /\ Live(comments, i)
  BY DEF RemoveComment, Live, IInv, TypeOK
<1>3. /\ row \in Comment
      /\ row.parentId = comments[i].parentId /\ row.rootId = comments[i].rootId
      /\ row.createdAt = comments[i].createdAt
  BY <1>1, <1>2 DEF Comment
<1>4. <<Down("comments")>> \in Seq(Delta)
  BY UpAndDown DEF Keys
<1>5. Go(c, "saveComment", i, row, <<Down("comments")>>) /\ UNCHANGED <<tables, cache>>
  BY <1>1 DEF RemoveComment
<1> QED BY <1>2, <1>3, <1>4, <1>5, CommentLoaded

LEMMA SaveCommentStep ==
  ASSUME IInv, UNCHANGED failures, NEW c \in Calls, SaveComment(c) PROVE IInv'
<1>1. PICK i, row : i = hand[c][1] /\ row = hand[c][2]
  OBVIOUS
<1>2. CallsTyped /\ i \in CommentIds /\ SameThread(i, row) /\ row \in Comment
  BY <1>1 DEF SaveComment, IInv, CallOK, TypeOK, CallsTyped, SameThread
<1>3. comments' = [comments EXCEPT ![i] = row] /\ UNCHANGED <<reactions, tips, cache>>
  BY <1>1 DEF SaveComment
<1>4. comments' \in [CommentIds -> Comment \cup {None}] /\ Kept /\ Threads'
  BY <1>2, <1>3, CommentWritten
<1>5. CASE todo[c] = <<>>
  <2>1. End(c)
    BY <1>5 DEF SaveComment
  <2> QED BY <1>2, <1>3, <1>4, <2>1, Ends, CommentStep
<1>6. CASE todo[c] # <<>>
  <2>1. pc' = [pc EXCEPT ![c] = "get"] /\ UNCHANGED <<hand, todo, held>>
    BY <1>6 DEF SaveComment
  <2>2. /\ CallsTyped' /\ pc'[c] = "get"
        /\ \A d \in Calls \ {c} : /\ pc'[d] = pc[d] /\ hand'[d] = hand[d]
                                  /\ todo'[d] = todo[d] /\ held'[d] = held[d]
    BY <1>2, <2>1, GoesOn DEF Awaits
  <2>3. SameThread(hand[c][1], hand[c][2])'
    BY <1>1, <1>2, <1>4, <2>1 DEF SameThread, Kept
  <2>4. CallOK(c)'
    BY <1>6, <2>1, <2>2, <2>3 DEF CallOK
  <2> QED BY <1>3, <1>4, <2>2, <2>4, CommentStep
<1> QED BY <1>5, <1>6

LEMMA DecrementRepliesStep ==
  ASSUME IInv, UNCHANGED failures, NEW c \in Calls, DecrementReplies(c) PROVE IInv'
<1>1. PICK i, row : i = hand[c][1] /\ row = hand[c][2]
  OBVIOUS
<1>2. /\ CallsTyped /\ i \in CommentIds /\ SameThread(i, row)
      /\ row \in Comment /\ row.parentId # None
  BY <1>1 DEF DecrementReplies, IInv, CallOK, TypeOK, CallsTyped, SameThread
<1>3. row.parentId \in CommentIds /\ comments[row.parentId] # None
  BY <1>2, ParentThere
<1>4. AddReplies(row.parentId, -1) /\ End(c) /\ UNCHANGED <<reactions, tips, cache>>
  BY <1>1 DEF DecrementReplies
<1>5. comments' \in [CommentIds -> Comment \cup {None}] /\ Kept /\ Threads'
  BY <1>3, <1>4, RepliesAdded
<1> QED BY <1>2, <1>4, <1>5, Ends, CommentStep

--------------------------------------------------------------------------------
(* Reactions and tips *)

\* A step that leaves the comments alone.
LEMMA OtherTables ==
  ASSUME IInv, UNCHANGED comments,
         reactions' \in [ReactionIds -> Reaction \cup {None}],
         tips' \in [TipIds -> TipStatuses \cup {None}],
         cache' \in [Keys -> Nat] \cup {None},
         failures' \in 0..MaxFailures,
         NEW c \in Calls, CallsTyped', CallOK(c)',
         \A d \in Calls \ {c} : /\ pc'[d] = pc[d] /\ hand'[d] = hand[d]
                                /\ todo'[d] = todo[d] /\ held'[d] = held[d]
  PROVE  IInv'
<1>1. TypeOK'
  BY DEF IInv, TypeOK, CallsTyped
<1>2. Kept /\ Threads'
  BY SameComments DEF IInv
<1> QED BY <1>1, <1>2, OneCall

\* A call that is about to save a reaction.
LEMMA ReactionLoaded ==
  ASSUME IInv, UNCHANGED failures, NEW c \in Calls, NEW id \in ReactionIds \cup {None},
         NEW row \in Reaction, NEW deltas \in Seq(Delta),
         Go(c, "saveReaction", id, row, deltas), UNCHANGED <<tables, cache>>
  PROVE  IInv'
<1>1. Fit("saveReaction", id, row, deltas)
  BY DEF Fit, Hand
<1> QED BY <1>1, Starts

LEMMA ReactStep ==
  ASSUME IInv, UNCHANGED failures, NEW c \in Calls, NEW u \in Users, NEW t \in Types,
         React(c, u, t)
  PROVE  IInv'
<1>1. PICK row : row = [creatorId |-> u, type |-> t, isDeleted |-> FALSE]
  OBVIOUS
<1>2. row \in Reaction
  BY <1>1 DEF Reaction
<1>3. <<Up(t)>> \in Seq(Delta)
  BY UpAndDown DEF Keys
<1>4. Go(c, "saveReaction", None, row, <<Up(t)>>) /\ UNCHANGED <<tables, cache>>
  BY <1>1 DEF React
<1> QED BY <1>2, <1>3, <1>4, ReactionLoaded

LEMMA ChangeReactionStep ==
  ASSUME IInv, UNCHANGED failures, NEW c \in Calls, NEW i \in ReactionIds, ChangeReaction(c, i)
  PROVE  IInv'
<1>1. reactions[i] \in Reaction
  BY DEF ChangeReaction, Live, IInv, TypeOK
<1>2. PICK t \in Types :
        /\ Go(c, "saveReaction", i, [reactions[i] EXCEPT !.type = t],
              IF t = reactions[i].type THEN <<>> ELSE <<Down(reactions[i].type), Up(t)>>)
        /\ UNCHANGED <<tables, cache>>
  BY DEF ChangeReaction
<1>3. PICK row, deltas :
        /\ row = [reactions[i] EXCEPT !.type = t]
        /\ deltas = IF t = reactions[i].type THEN <<>> ELSE <<Down(reactions[i].type), Up(t)>>
  OBVIOUS
<1>4. row \in Reaction
  BY <1>1, <1>3 DEF Reaction
<1>5. deltas \in Seq(Delta)
  <2>1. Down(reactions[i].type) \in Delta /\ Up(t) \in Delta
    BY <1>1 DEF Reaction, Delta, Keys, Up, Down
  <2> QED BY <1>3, <2>1
<1>6. Go(c, "saveReaction", i, row, deltas) /\ UNCHANGED <<tables, cache>>
  BY <1>2, <1>3
<1> QED BY <1>4, <1>5, <1>6, ReactionLoaded

LEMMA RemoveReactionStep ==
  ASSUME IInv, UNCHANGED failures, NEW c \in Calls, NEW i \in ReactionIds, RemoveReaction(c, i)
  PROVE  IInv'
<1>1. reactions[i] \in Reaction
  BY DEF RemoveReaction, Live, IInv, TypeOK
<1>2. PICK row, deltas :
        /\ row = [reactions[i] EXCEPT !.isDeleted = TRUE]
        /\ deltas = <<Down(reactions[i].type)>>
  OBVIOUS
<1>3. row \in Reaction
  BY <1>1, <1>2 DEF Reaction
<1>4. deltas \in Seq(Delta)
  BY <1>1, <1>2, UpAndDown DEF Reaction, Keys
<1>5. Go(c, "saveReaction", i, row, deltas) /\ UNCHANGED <<tables, cache>>
  BY <1>2 DEF RemoveReaction
<1> QED BY <1>3, <1>4, <1>5, ReactionLoaded

LEMMA SaveReactionStep ==
  ASSUME IInv, UNCHANGED failures, NEW c \in Calls, SaveReaction(c) PROVE IInv'
<1>1. PICK id, row : id = hand[c][1] /\ row = hand[c][2]
  OBVIOUS
<1>2. /\ CallsTyped /\ id \in ReactionIds \cup {None} /\ row \in Reaction
      /\ pc[c] = "saveReaction" /\ UNCHANGED <<comments, tips, cache>>
  BY <1>1 DEF SaveReaction, IInv, CallOK, TypeOK, CallsTyped
<1>3. /\ tips' \in [TipIds -> TipStatuses \cup {None}]
      /\ cache' \in [Keys -> Nat] \cup {None}
      /\ failures' \in 0..MaxFailures
  BY <1>2 DEF IInv, TypeOK
<1>4. CASE End(c) /\ UNCHANGED reactions
  <2>1. reactions' \in [ReactionIds -> Reaction \cup {None}]
    BY <1>4 DEF IInv, TypeOK
  <2> QED BY <1>2, <1>3, <1>4, <2>1, Ends, OtherTables
<1>5. CASE ~(End(c) /\ UNCHANGED reactions)
  <2>1. PICK i \in IF id = None THEN Free(reactions) ELSE {id} :
          reactions' = [reactions EXCEPT ![i] = row]
    BY <1>1, <1>5 DEF SaveReaction
  <2>2. reactions' \in [ReactionIds -> Reaction \cup {None}]
    BY <1>2, <2>1 DEF IInv, TypeOK
  <2>3. CASE End(c)
    BY <1>2, <1>3, <2>2, <2>3, Ends, OtherTables
  <2>4. CASE todo[c] # <<>> /\ pc' = [pc EXCEPT ![c] = "get"] /\ UNCHANGED <<hand, todo, held>>
    <3>1. /\ CallsTyped' /\ pc'[c] = "get"
          /\ \A d \in Calls \ {c} : /\ pc'[d] = pc[d] /\ hand'[d] = hand[d]
                                    /\ todo'[d] = todo[d] /\ held'[d] = held[d]
      BY <1>2, <2>4, GoesOn DEF Awaits
    <3>2. hand'[c][1] \notin CommentIds
      BY <1>1, <1>2, <2>4, NoneIsApart
    <3>3. CallOK(c)'
      BY <2>4, <3>1, <3>2 DEF CallOK
    <3> QED BY <1>2, <1>3, <2>2, <3>1, <3>3, OtherTables
  <2> QED BY <1>5, <2>3, <2>4 DEF SaveReaction
<1> QED BY <1>4, <1>5

LEMMA TipStep ==
  ASSUME IInv, UNCHANGED failures, NEW c \in Calls, Tip(c) PROVE IInv'
<1>1. "tips" \in Keys /\ <<None, None>> \in Hand
  BY DEF Keys, Hand
<1>2. Fit("saveTip", None, None, <<Up("tips")>>)
  BY <1>1, UpAndDown DEF Fit
<1>3. Go(c, "saveTip", None, None, <<Up("tips")>>) /\ UNCHANGED <<tables, cache>>
  BY DEF Tip
<1> QED BY <1>2, <1>3, Starts

LEMMA SaveTipStep ==
  ASSUME IInv, UNCHANGED failures, NEW c \in Calls, SaveTip(c) PROVE IInv'
<1>1. PICK i \in Free(tips), status \in {"pending", "confirmed"} :
        tips' = [tips EXCEPT ![i] = status]
  BY DEF SaveTip
<1>2. /\ pc[c] = "saveTip" /\ pc' = [pc EXCEPT ![c] = "get"]
      /\ UNCHANGED <<comments, reactions, cache, hand, todo, held>>
      /\ CallsTyped /\ hand[c][1] = None /\ todo[c] # <<>>
  BY DEF SaveTip, IInv, TypeOK, CallsTyped, CallOK
<1>3. /\ tips' \in [TipIds -> TipStatuses \cup {None}]
      /\ reactions' \in [ReactionIds -> Reaction \cup {None}]
      /\ cache' \in [Keys -> Nat] \cup {None}
      /\ failures' \in 0..MaxFailures
  BY <1>1, <1>2 DEF IInv, TypeOK, TipStatuses
<1>4. /\ CallsTyped' /\ pc'[c] = "get"
      /\ \A d \in Calls \ {c} : /\ pc'[d] = pc[d] /\ hand'[d] = hand[d]
                                /\ todo'[d] = todo[d] /\ held'[d] = held[d]
  BY <1>2, GoesOn DEF Awaits
<1>5. CallOK(c)'
  BY <1>2, <1>4, NoneIsApart DEF CallOK
<1> QED BY <1>2, <1>3, <1>4, <1>5, OtherTables

LEMMA UpdateTipStatusStep ==
  ASSUME IInv, UNCHANGED failures, NEW i \in TipIds, UpdateTipStatus(i) PROVE IInv'
<1>1. TypeOK' /\ UNCHANGED <<comments, cvars>>
  BY DEF UpdateTipStatus, IInv, TypeOK, cvars
<1>2. Kept /\ Threads'
  BY <1>1, SameComments DEF IInv
<1>3. ASSUME NEW d \in Calls PROVE CallOK(d)'
  BY <1>1, <1>2, OthersKept DEF IInv, cvars
<1> QED BY <1>1, <1>2, <1>3 DEF IInv

--------------------------------------------------------------------------------
(* The cached counters *)

LEMMA ReadMetricsStep ==
  ASSUME IInv, UNCHANGED failures, NEW c \in Calls, ReadMetrics(c) PROVE IInv'
<1>1. CallsTyped'
  BY DEF ReadMetrics, IInv, TypeOK, CallsTyped, Awaits
<1>2. pc'[c] = "query" /\ held'[c] = [k \in Keys |-> None]
  BY DEF ReadMetrics, IInv, TypeOK
<1>3. CallOK(c)'
  BY <1>2 DEF CallOK
<1>4. \A d \in Calls \ {c} : /\ pc'[d] = pc[d] /\ hand'[d] = hand[d]
                             /\ todo'[d] = todo[d] /\ held'[d] = held[d]
  BY DEF ReadMetrics, IInv, TypeOK
<1>5. UNCHANGED <<tables, cache, failures>>
  BY DEF ReadMetrics
<1> QED BY <1>1, <1>3, <1>4, <1>5, Unwritten

LEMMA QueryStep ==
  ASSUME IInv, UNCHANGED failures, NEW c \in Calls, NEW group \in Groups, Query(c, group)
  PROVE  IInv'
<1>1. pc[c] = "query" /\ held[c] \in [Keys -> Nat \cup {None}]
  BY DEF Query, IInv, CallOK
<1>2. PICK row : row = [k \in Keys |-> IF k \in group THEN Cardinality(Counted(k)) ELSE held[c][k]]
  OBVIOUS
<1>3. row \in [Keys -> Nat \cup {None}]
  BY <1>1, <1>2, CountsAreNumbers
<1>4. held' = [held EXCEPT ![c] = row] /\ UNCHANGED <<tables, cache, pc, hand, todo>>
  BY <1>2 DEF Query, IInv, TypeOK
<1>5. CallsTyped'
  BY <1>3, <1>4 DEF IInv, TypeOK, CallsTyped
<1>6. pc'[c] = "query" /\ held'[c] \in [Keys -> Nat \cup {None}]
  BY <1>1, <1>3, <1>4 DEF IInv, TypeOK
<1>7. CallOK(c)'
  BY <1>6 DEF CallOK
<1>8. \A d \in Calls \ {c} : /\ pc'[d] = pc[d] /\ hand'[d] = hand[d]
                             /\ todo'[d] = todo[d] /\ held'[d] = held[d]
  BY <1>4 DEF IInv, TypeOK
<1> QED BY <1>4, <1>5, <1>7, <1>8, Unwritten

\* A step that writes the cache alone.
LEMMA Cached ==
  ASSUME IInv, UNCHANGED <<tables, failures>>, cache' \in [Keys -> Nat] \cup {None},
         NEW c \in Calls, CallsTyped', CallOK(c)',
         \A d \in Calls \ {c} : /\ pc'[d] = pc[d] /\ hand'[d] = hand[d]
                                /\ todo'[d] = todo[d] /\ held'[d] = held[d]
  PROVE  IInv'
<1>1. /\ UNCHANGED comments
      /\ reactions' \in [ReactionIds -> Reaction \cup {None}]
      /\ tips' \in [TipIds -> TipStatuses \cup {None}]
      /\ failures' \in 0..MaxFailures
  BY DEF IInv, TypeOK, tables
<1> QED BY <1>1, OtherTables

LEMMA StoreMetricsStep ==
  ASSUME IInv, UNCHANGED failures, NEW c \in Calls, StoreMetrics(c) PROVE IInv'
<1>1. CallsTyped /\ End(c) /\ UNCHANGED tables /\ cache' = held[c]
  BY DEF StoreMetrics, IInv, TypeOK, CallsTyped
<1>2. held[c] \in [Keys -> Nat]
  BY DEF StoreMetrics, IInv, CallOK
<1> QED BY <1>1, <1>2, Ends, Cached

LEMMA ChangedTyped ==
  ASSUME NEW metrics \in [Keys -> Nat], NEW d \in Delta
  PROVE  Changed(metrics, d) \in [Keys -> Nat]
  BY DEF Changed, Delta

LEMMA LongTail ==
  ASSUME NEW s \in Seq(Delta), Len(s) > 1
  PROVE  Tail(s) \in Seq(Delta) /\ Tail(s) # <<>>
<1>1. s # <<>> /\ Len(Tail(s)) = Len(s) - 1
  OBVIOUS
<1>2. Tail(s) \in Seq(Delta)
  BY <1>1
<1>3. Len(s) - 1 # 0 /\ Len(<<>>) = 0
  OBVIOUS
<1> QED BY <1>1, <1>2, <1>3

\* Where a call goes after a counter.
LEMMA NextCounterOK ==
  ASSUME IInv, UNCHANGED comments, NEW c \in Calls, pc[c] \in {"get", "set"}, NextCounter(c)
  PROVE  /\ CallsTyped' /\ CallOK(c)'
         /\ \A d \in Calls \ {c} : /\ pc'[d] = pc[d] /\ hand'[d] = hand[d]
                                   /\ todo'[d] = todo[d] /\ held'[d] = held[d]
<1>1. CallsTyped /\ CallOK(c) /\ todo[c] \in Seq(Delta)
  BY DEF IInv, TypeOK, CallsTyped
<1>2. ASSUME hand[c][1] \in CommentIds, hand' = hand
      PROVE  SameThread(hand[c][1], hand[c][2]) /\ SameThread(hand[c][1], hand[c][2])'
  BY <1>1, <1>2 DEF CallOK, SameThread
<1>3. CASE Len(todo[c]) > 1
  <2>1. /\ pc' = [pc EXCEPT ![c] = "get"]
        /\ todo' = [todo EXCEPT ![c] = Tail(@)]
        /\ held' = [held EXCEPT ![c] = None]
        /\ hand' = hand
    BY <1>3 DEF NextCounter
  <2>2. Tail(todo[c]) \in Seq(Delta) /\ Tail(todo[c]) # <<>>
    BY <1>1, <1>3, LongTail
  <2>3. /\ CallsTyped' /\ pc'[c] = "get" /\ todo'[c] # <<>>
        /\ \A d \in Calls \ {c} : /\ pc'[d] = pc[d] /\ hand'[d] = hand[d]
                                  /\ todo'[d] = todo[d] /\ held'[d] = held[d]
    BY <1>1, <2>1, <2>2 DEF CallsTyped, Awaits
  <2> QED BY <1>2, <2>1, <2>3 DEF CallOK
<1>4. CASE ~(Len(todo[c]) > 1) /\ hand[c][1] \in CommentIds /\ hand[c][2].parentId # None
  <2>1. /\ pc' = [pc EXCEPT ![c] = "decrement"]
        /\ todo' = [todo EXCEPT ![c] = <<>>]
        /\ held' = [held EXCEPT ![c] = None]
        /\ hand' = hand
    BY <1>4 DEF NextCounter
  <2>2. /\ CallsTyped' /\ pc'[c] = "decrement"
        /\ \A d \in Calls \ {c} : /\ pc'[d] = pc[d] /\ hand'[d] = hand[d]
                                  /\ todo'[d] = todo[d] /\ held'[d] = held[d]
    BY <1>1, <2>1 DEF CallsTyped, Awaits
  <2> QED BY <1>2, <1>4, <2>1, <2>2 DEF CallOK
<1>5. CASE ~(Len(todo[c]) > 1) /\ ~(hand[c][1] \in CommentIds /\ hand[c][2].parentId # None)
  <2>1. End(c)
    BY <1>5 DEF NextCounter
  <2> QED BY <1>1, <2>1, Ends
<1> QED BY <1>3, <1>4, <1>5

LEMMA GetCounterStep ==
  ASSUME IInv, UNCHANGED failures, NEW c \in Calls, GetCounter(c) PROVE IInv'
<1>1. /\ pc[c] = "get" /\ UNCHANGED <<tables, cache>> /\ UNCHANGED comments
      /\ cache \in [Keys -> Nat] \cup {None} /\ todo[c] \in Seq(Delta) /\ todo[c] # <<>>
      /\ CallsTyped /\ CallOK(c)
  BY DEF GetCounter, IInv, TypeOK, CallsTyped, CallOK, tables
<1>2. CASE cache = None
  <2>1. NextCounter(c)
    BY <1>2 DEF GetCounter
  <2> QED BY <1>1, <2>1, NextCounterOK, Unwritten
<1>3. CASE cache # None
  <2>1. PICK doc : doc = Changed(cache, Head(todo[c]))
    OBVIOUS
  <2>2. doc \in [Keys -> Nat]
    <3>1. Head(todo[c]) \in Delta
      BY <1>1
    <3> QED BY <1>1, <1>3, <2>1, <3>1, ChangedTyped
  <2>3. /\ pc' = [pc EXCEPT ![c] = "set"] /\ held' = [held EXCEPT ![c] = doc]
        /\ UNCHANGED <<hand, todo>>
    BY <1>3, <2>1 DEF GetCounter
  <2>4. doc \in [Keys -> Nat \cup {None}]
    BY <2>2
  <2>5. /\ CallsTyped' /\ pc'[c] = "set" /\ held'[c] = doc
        /\ \A d \in Calls \ {c} : /\ pc'[d] = pc[d] /\ hand'[d] = hand[d]
                                  /\ todo'[d] = todo[d] /\ held'[d] = held[d]
    BY <1>1, <2>3, <2>4 DEF CallsTyped, Awaits
  <2>6. hand[c][1] \in CommentIds => SameThread(hand[c][1], hand[c][2])'
    BY <1>1, <2>3 DEF CallOK, SameThread
  <2>7. CallOK(c)'
    BY <1>1, <2>2, <2>3, <2>5, <2>6 DEF CallOK
  <2> QED BY <1>1, <2>5, <2>7, Unwritten
<1> QED BY <1>2, <1>3

LEMMA SetCounterStep ==
  ASSUME IInv, UNCHANGED failures, NEW c \in Calls, SetCounter(c) PROVE IInv'
<1>1. /\ pc[c] = "set" /\ cache' = held[c] /\ NextCounter(c)
      /\ UNCHANGED tables /\ UNCHANGED comments
  BY DEF SetCounter, tables
<1>2. held[c] \in [Keys -> Nat]
  BY <1>1 DEF IInv, CallOK
<1> QED BY <1>1, <1>2, NextCounterOK, Cached

LEMMA ExpireStep ==
  ASSUME IInv, UNCHANGED failures, Expire PROVE IInv'
<1>1. TypeOK' /\ UNCHANGED <<comments, cvars>>
  BY DEF Expire, IInv, TypeOK, cvars, tables
<1>2. Kept /\ Threads'
  BY <1>1, SameComments DEF IInv
<1>3. ASSUME NEW d \in Calls PROVE CallOK(d)'
  BY <1>1, <1>2, OthersKept DEF IInv, cvars
<1> QED BY <1>1, <1>2, <1>3 DEF IInv

LEMMA FailStep ==
  ASSUME IInv, NEW c \in Calls, Fail(c) PROVE IInv'
<1>1. /\ UNCHANGED comments /\ End(c) /\ CallsTyped
      /\ reactions' \in [ReactionIds -> Reaction \cup {None}]
      /\ tips' \in [TipIds -> TipStatuses \cup {None}]
      /\ cache' \in [Keys -> Nat] \cup {None}
      /\ failures' \in 0..MaxFailures
  BY EngagementAssumption DEF Fail, IInv, TypeOK, CallsTyped, tables
<1> QED BY <1>1, Ends, OtherTables

--------------------------------------------------------------------------------
LEMMA Stutter == ASSUME IInv, UNCHANGED vars PROVE IInv'
<1>1. TypeOK' /\ UNCHANGED <<comments, cvars>>
  BY DEF vars, tables, cvars, IInv, TypeOK
<1>2. Kept /\ Threads'
  BY <1>1, SameComments DEF IInv
<1>3. ASSUME NEW d \in Calls PROVE CallOK(d)'
  BY <1>1, <1>2, OthersKept DEF IInv, cvars
<1> QED BY <1>1, <1>2, <1>3 DEF IInv

LEMMA NextKeeps == ASSUME IInv, Next PROVE IInv'
<1>1. ASSUME NEW c \in Calls, Fail(c) PROVE IInv'
  BY <1>1, FailStep
<1>2. ASSUME UNCHANGED failures, NEW c \in Calls, Request(c) PROVE IInv'
  <2>1. ASSUME CreateComment(c) \/ Tip(c) \/ ReadMetrics(c) PROVE IInv'
    BY <1>2, <2>1, CreateCommentStep, TipStep, ReadMetricsStep
  <2>2. ASSUME NEW i \in CommentIds,
               CreateReply(c, i) \/ EditComment(c, i) \/ RemoveComment(c, i)
        PROVE  IInv'
    BY <1>2, <2>2, CreateReplyStep, EditCommentStep, RemoveCommentStep
  <2>3. ASSUME NEW u \in Users, NEW t \in Types, React(c, u, t) PROVE IInv'
    BY <1>2, <2>3, ReactStep
  <2>4. ASSUME NEW i \in ReactionIds, ChangeReaction(c, i) \/ RemoveReaction(c, i) PROVE IInv'
    BY <1>2, <2>4, ChangeReactionStep, RemoveReactionStep
  <2> QED BY <1>2, <2>1, <2>2, <2>3, <2>4 DEF Request, CommentRequest, ReactionRequest
<1>3. ASSUME UNCHANGED failures, NEW c \in Calls, Step(c) PROVE IInv'
  BY <1>3, IncrementRepliesStep, SaveNewCommentStep, SaveCommentStep, DecrementRepliesStep,
     SaveReactionStep, SaveTipStep, GetCounterStep, SetCounterStep, StoreMetricsStep, QueryStep
         DEF Step
<1>4. ASSUME UNCHANGED failures, NEW i \in TipIds, UpdateTipStatus(i) PROVE IInv'
  BY <1>4, UpdateTipStatusStep
<1>5. ASSUME UNCHANGED failures, Expire PROVE IInv'
  BY <1>5, ExpireStep
<1> QED BY <1>1, <1>2, <1>3, <1>4, <1>5 DEF Next

LEMMA Invariance == Spec => []IInv
<1>1. IInv /\ [Next]_vars => IInv'
  BY NextKeeps, Stutter
<1> QED BY InitHolds, <1>1, PTL DEF Spec

\* Rows, counters and what calls carry are of their types; in particular a
\* cached counter is never negative, whatever calls overlap or fail.
THEOREM TypeCorrect == Spec => []TypeOK
<1>1. IInv => TypeOK
  BY DEF IInv
<1> QED BY <1>1, Invariance, PTL

\* The rootId of a reply is the top of its thread, whatever calls overlap or
\* fail: no save of an entity loaded earlier moves a comment.
THEOREM RepliesRooted == Spec => []ThreadRooted
<1>1. IInv => ThreadRooted
  BY DEF IInv, Threads
<1> QED BY <1>1, Invariance, PTL
--------------------------------------------------------------------------------
(***************************************************************************)
(* The counters, while calls do not overlap.  Neither RepliesCounted nor   *)
(* ReactionsExact speaks of the middle of a call; there Knows says that the*)
(* entity in hand is still the row, as changed by the call, ReplyOK that   *)
(* replyCount is one too high while the call owes it a row or a decrement, *)
(* and MetricOK that a counter is off by what the call has yet to apply.   *)
(***************************************************************************)
Serial == \A c, d \in Calls : c = d

Removed(row) == [row EXCEPT !.isDeleted = TRUE]

\* A change of one counter, or of two different ones.
Shape(deltas) ==
  \/ \E k \in Keys : deltas = <<Up(k)>> \/ deltas = <<Down(k)>>
  \/ \E k, l \in Types : k # l /\ deltas = <<Down(k), Up(l)>>

FitsReaction(id, row, deltas) ==
  \/ id = None /\ ~row.isDeleted /\ deltas = <<Up(row.type)>>
  \/ /\ id \in ReactionIds /\ Live(reactions, id)
     /\ \/ row = Removed(reactions[id]) /\ deltas = <<Down(row.type)>>
        \/ \E t \in Types :
             /\ row = [reactions[id] EXCEPT !.type = t]
             /\ deltas = IF t = reactions[id].type THEN <<>>
                         ELSE <<Down(reactions[id].type), Up(t)>>

Knows(c) ==
  /\ pc[c] \in {"increment", "saveNew"} =>
       ~hand[c][2].isDeleted /\ hand[c][2].replyCount = 0 /\ todo[c] = <<Up("comments")>>
  /\ pc[c] = "saveComment" =>
       /\ Live(comments, hand[c][1])
       /\ \/ hand[c][2] = comments[hand[c][1]] /\ todo[c] = <<>>
          \/ hand[c][2] = Removed(comments[hand[c][1]]) /\ todo[c] = <<Down("comments")>>
  /\ pc[c] = "saveReaction" => FitsReaction(hand[c][1], hand[c][2], todo[c])
  /\ pc[c] \in {"saveTip", "get", "set"} => Shape(todo[c])
  /\ pc[c] = "saveTip" => todo[c] = <<Up("tips")>>

LEMMA Went ==
  ASSUME TypeOK, NEW c \in Calls, NEW at, NEW id, NEW row, NEW deltas, Go(c, at, id, row, deltas)
  PROVE  /\ pc'[c] = at /\ hand'[c][1] = id /\ hand'[c][2] = row /\ todo'[c] = deltas
         /\ held' = held
  BY DEF Go, TypeOK

LEMMA Ended ==
  ASSUME TypeOK, NEW c \in Calls, End(c)
  PROVE  pc'[c] = "idle"
  BY DEF End, TypeOK

\* What is left of the counters of a call has the shape of it.
LEMMA ShapeShrinks ==
  ASSUME NEW s, Shape(s)
  PROVE  /\ s \in Seq(Delta) /\ Len(s) \in {1, 2}
         /\ Len(s) > 1 => Shape(Tail(s)) /\ Len(Tail(s)) = 1
<1>1. ASSUME NEW k \in Keys, s = <<Up(k)>> \/ s = <<Down(k)>>
      PROVE  s \in Seq(Delta) /\ Len(s) = 1
  <2>1. Len(<<Up(k)>>) = 1 /\ Len(<<Down(k)>>) = 1
    OBVIOUS
  <2> QED BY <1>1, <2>1, UpAndDown
<1>2. ASSUME NEW k \in Types, NEW l \in Types, s = <<Down(k), Up(l)>>
      PROVE  s \in Seq(Delta) /\ Len(s) = 2 /\ Tail(s) = <<Up(l)>> /\ l \in Keys
  BY <1>2 DEF Up, Down, Delta, Keys
<1>3. CASE \E k \in Keys : s = <<Up(k)>> \/ s = <<Down(k)>>
  BY <1>1, <1>3
<1>4. ASSUME NEW k \in Types, NEW l \in Types, s = <<Down(k), Up(l)>>
      PROVE  Shape(Tail(s)) /\ Len(Tail(s)) = 1
  <2>1. Tail(s) = <<Up(l)>> /\ l \in Keys
    BY <1>2, <1>4
  <2>2. Len(<<Up(l)>>) = 1
    OBVIOUS
  <2> QED BY <2>1, <2>2 DEF Shape
<1> QED BY <1>1, <1>2, <1>3, <1>4 DEF Shape

LEMMA RequestKnows ==
  ASSUME IInv, NEW c \in Calls, Request(c)
  PROVE  Knows(c)' /\ UNCHANGED <<comments, reactions>>
<1>0. TypeOK
  BY DEF IInv
<1>1. CASE CreateComment(c)
  BY <1>0, <1>1, Went DEF CreateComment, NewComment, Knows, tables
<1>2. ASSUME NEW p \in CommentIds, CreateReply(c, p)
      PROVE  Knows(c)' /\ UNCHANGED <<comments, reactions>>
  <2>1. PICK root : Go(c, "increment", None, NewComment(p, root), <<Up("comments")>>)
    BY <1>2 DEF CreateReply
  <2> QED BY <1>0, <1>2, <2>1, Went DEF CreateReply, NewComment, Knows, tables
<1>3. ASSUME NEW i \in CommentIds, EditComment(c, i)
      PROVE  Knows(c)' /\ UNCHANGED <<comments, reactions>>
  BY <1>0, <1>3, Went DEF EditComment, Knows, Live, tables
<1>4. ASSUME NEW i \in CommentIds, RemoveComment(c, i)
      PROVE  Knows(c)' /\ UNCHANGED <<comments, reactions>>
  <2>1. PICK row : row = Removed(comments[i])
    OBVIOUS
  <2>2. Go(c, "saveComment", i, row, <<Down("comments")>>)
    BY <1>4, <2>1 DEF RemoveComment, Removed
  <2> QED BY <1>0, <1>4, <2>1, <2>2, Went DEF RemoveComment, Knows, Live, tables
<1>5. ASSUME NEW u \in Users, NEW t \in Types, React(c, u, t)
      PROVE  Knows(c)' /\ UNCHANGED <<comments, reactions>>
  BY <1>0, <1>5, Went DEF React, Knows, FitsReaction, tables
<1>6. ASSUME NEW i \in ReactionIds, ChangeReaction(c, i)
      PROVE  Knows(c)' /\ UNCHANGED <<comments, reactions>>
  BY <1>0, <1>6, Went DEF ChangeReaction, Knows, FitsReaction, Live, tables
<1>7. ASSUME NEW i \in ReactionIds, RemoveReaction(c, i)
      PROVE  Knows(c)' /\ UNCHANGED <<comments, reactions>>
  <2>1. Removed(reactions[i]).type = reactions[i].type
    BY <1>0, <1>7 DEF RemoveReaction, Live, TypeOK, Reaction, Removed
  <2>2. PICK row : row = Removed(reactions[i])
    OBVIOUS
  <2>3. Go(c, "saveReaction", i, row, <<Down(row.type)>>)
    BY <1>7, <2>1, <2>2 DEF RemoveReaction, Removed
  <2> QED BY <1>0, <1>7, <2>2, <2>3, Went DEF RemoveReaction, Knows, FitsReaction, Live, tables
<1>8. CASE Tip(c)
  <2>1. "tips" \in Keys
    BY DEF Keys
  <2>2. Knows(c)'
    BY <1>0, <1>8, <2>1, Went DEF Tip, Knows, Shape
  <2> QED BY <1>8, <2>2 DEF Tip, tables
<1>9. CASE ReadMetrics(c)
  <2>1. pc'[c] = "query"
    BY <1>0, <1>9 DEF ReadMetrics, TypeOK
  <2> QED BY <1>9, <2>1 DEF ReadMetrics, Knows, tables
<1> QED BY <1>1, <1>2, <1>3, <1>4, <1>5, <1>6, <1>7, <1>8, <1>9
        DEF Request, CommentRequest, ReactionRequest

LEMMA NextCounterKnows ==
  ASSUME TypeOK, NEW c \in Calls, pc[c] \in {"get", "set"}, Knows(c), NextCounter(c)
  PROVE  Knows(c)'
<1>1. Shape(todo[c]) /\ (Len(todo[c]) > 1 => Shape(Tail(todo[c])))
  BY ShapeShrinks DEF Knows
<1>2. CASE End(c)
  BY <1>2, Ended DEF Knows
<1>3. CASE Len(todo[c]) > 1 /\ pc' = [pc EXCEPT ![c] = "get"]
           /\ todo' = [todo EXCEPT ![c] = Tail(@)]
  BY <1>1, <1>3 DEF Knows, TypeOK
<1>4. CASE pc' = [pc EXCEPT ![c] = "decrement"]
  BY <1>4 DEF Knows, TypeOK
<1> QED BY <1>2, <1>3, <1>4 DEF NextCounter

LEMMA StepKnows ==
  ASSUME IInv, NEW c \in Calls, Knows(c), Step(c) \/ Fail(c)
  PROVE  Knows(c)'
<1>0. TypeOK /\ "comments" \in Keys
  BY DEF IInv, Keys
<1>1. CASE IncrementReplies(c)
  BY <1>0, <1>1 DEF IncrementReplies, Knows, TypeOK
<1>2. CASE SaveNewComment(c) \/ (SaveComment(c) /\ todo[c] # <<>>)
  BY <1>0, <1>2 DEF SaveNewComment, SaveComment, Knows, Shape, TypeOK
<1>3. CASE End(c)
  BY <1>0, <1>3, Ended DEF Knows
<1>4. CASE SaveReaction(c) /\ ~End(c)
  <2>1. pc' = [pc EXCEPT ![c] = "get"] /\ todo' = todo /\ pc[c] = "saveReaction" /\ todo[c] # <<>>
    BY <1>4 DEF SaveReaction
  <2>2. ASSUME NEW r \in Reaction PROVE r.type \in Keys
    BY DEF Reaction, Keys
  <2>3. Shape(todo[c])
    <3>1. hand[c][2] \in Reaction
      BY <2>1 DEF IInv, CallOK
    <3>2. CASE todo[c] = <<Up(hand[c][2].type)>> \/ todo[c] = <<Down(hand[c][2].type)>>
      BY <2>2, <3>1, <3>2 DEF Shape
    <3>3. ASSUME NEW id \in ReactionIds, Live(reactions, id), NEW t \in Types,
                 t # reactions[id].type, todo[c] = <<Down(reactions[id].type), Up(t)>>
          PROVE  Shape(todo[c])
      <4>1. reactions[id].type \in Types
        BY <1>0, <3>3 DEF Live, TypeOK, Reaction
      <4> QED BY <3>3, <4>1 DEF Shape
    <3> QED BY <2>1, <3>2, <3>3 DEF Knows, FitsReaction
  <2> QED BY <1>0, <2>1, <2>3 DEF Knows, TypeOK
<1>5. CASE GetCounter(c) \/ SetCounter(c)
  <2>1. CASE NextCounter(c)
    BY <1>0, <1>5, <2>1, NextCounterKnows DEF GetCounter, SetCounter
  <2>2. CASE pc[c] = "get" /\ pc' = [pc EXCEPT ![c] = "set"] /\ todo' = todo
    BY <1>0, <2>2 DEF Knows, TypeOK
  <2> QED BY <1>5, <2>1, <2>2 DEF GetCounter, SetCounter
<1>6. ASSUME NEW group \in Groups, Query(c, group) PROVE Knows(c)'
  BY <1>6 DEF Query, Knows
<1>8. CASE SaveTip(c)
  BY <1>0, <1>8 DEF SaveTip, Knows, TypeOK
<1>7. CASE StoreMetrics(c) \/ DecrementReplies(c) \/ Fail(c) \/ (SaveComment(c) /\ todo[c] = <<>>)
  BY <1>3, <1>7 DEF Fail, StoreMetrics, DecrementReplies, SaveComment
<1> QED BY <1>1, <1>2, <1>3, <1>4, <1>5, <1>6, <1>7, <1>8 DEF Step

\* replyCount is one ahead of the replies while a call owes p a reply it has
\* counted, or a decrement for one it has removed.
Owes(c, p) ==
  \/ pc[c] = "saveNew" /\ hand[c][2].parentId = p
  \/ /\ pc[c] \in {"get", "set", "decrement"}
     /\ hand[c][1] \in CommentIds /\ hand[c][2].parentId = p

Owed(p) == IF \E c \in Calls : Owes(c, p) THEN 1 ELSE 0
Replies(p) == Cardinality(FindAll(p))

ReplyOK(p) ==
  comments[p] # None =>
    /\ comments[p].replyCount >= Replies(p) + Owed(p)
    /\ failures = 0 => comments[p].replyCount = Replies(p) + Owed(p)

LEMMA RepliesAreNumbers ==
  ASSUME NEW p PROVE IsFiniteSet(FindAll(p)) /\ Replies(p) \in Nat
<1>1. FindAll(p) \subseteq CommentIds
  BY DEF FindAll
<1> QED BY <1>1, FS_Subset, FS_CardinalityType, EngagementAssumption DEF Replies

\* The comments are as they were, and so is what is owed, or less after a failure.
LEMMA SameReplies ==
  ASSUME IInv, UNCHANGED comments, NEW p \in CommentIds, ReplyOK(p),
         Owed(p)' = Owed(p) \/ (failures' # 0 /\ Owed(p)' = 0),
         failures' = 0 => failures = 0
  PROVE  ReplyOK(p)'
<1>1. FindAll(p)' = FindAll(p) /\ Replies(p) \in Nat
      /\ (comments[p] # None => comments[p].replyCount \in Int)
  BY RepliesAreNumbers DEF FindAll, Live, IInv, TypeOK, Comment
<1>2. Replies(p)' = Replies(p) /\ Owed(p) \in {0, 1}
  BY <1>1 DEF Replies, Owed
<1> QED BY <1>1, <1>2 DEF ReplyOK

\* While calls do not overlap, what is owed is what c owes.
LEMMA OneOwes ==
  ASSUME Serial, NEW c \in Calls
  PROVE  \A p : /\ Owed(p) = IF Owes(c, p) THEN 1 ELSE 0
                /\ Owed(p)' = IF Owes(c, p)' THEN 1 ELSE 0
  BY DEF Serial, Owed

LEMMA NoneOwed ==
  ASSUME Serial, NEW c \in Calls, NEW p,
         \/ pc[c] \notin {"saveNew", "get", "set", "decrement"}
         \/ pc[c] # "saveNew" /\ hand[c][1] \notin CommentIds
  PROVE  Owed(p) = 0
  BY OneOwes DEF Owes

LEMMA NoneOwedThen ==
  ASSUME Serial, NEW c \in Calls, NEW p,
         \/ pc'[c] \notin {"saveNew", "get", "set", "decrement"}
         \/ pc'[c] # "saveNew" /\ hand'[c][1] \notin CommentIds
  PROVE  Owed(p)' = 0
  BY OneOwes DEF Owes

LEMMA RequestReplies ==
  ASSUME Serial, IInv, NEW c \in Calls, Request(c), UNCHANGED failures, NEW p \in CommentIds,
         ReplyOK(p)
  PROVE  ReplyOK(p)'
<1>0. TypeOK /\ None \notin CommentIds /\ pc[c] = "idle"
  BY NoneIsApart
     DEF IInv, Request, CommentRequest, ReactionRequest, CreateComment, CreateReply, EditComment,
         RemoveComment, React, ChangeReaction, RemoveReaction, Tip, ReadMetrics
<1>1. UNCHANGED comments
  BY RequestKnows
<1>2. ASSUME CreateComment(c) PROVE ~Owes(c, p)'
  BY <1>0, <1>2, Went DEF CreateComment, NewComment, Owes
<1>3. ASSUME NEW i \in CommentIds, CreateReply(c, i) \/ EditComment(c, i) \/ RemoveComment(c, i)
      PROVE  pc'[c] \in {"increment", "saveComment"}
  BY <1>0, <1>3 DEF CreateReply, EditComment, RemoveComment, Go, TypeOK
<1>4. ASSUME ReactionRequest(c) \/ ReadMetrics(c)
      PROVE  pc'[c] \in {"saveReaction", "query"}
  BY <1>0, <1>4 DEF ReactionRequest, React, ChangeReaction, RemoveReaction, ReadMetrics, Go, TypeOK
<1>5. ASSUME Tip(c) PROVE pc'[c] = "saveTip"
  BY <1>0, <1>5, Went DEF Tip
<1>6. Owed(p) = 0 /\ Owed(p)' = 0
  <2>1. Owed(p)' = 0
    <3>1. CASE CreateComment(c)
      BY <1>2, <3>1, OneOwes
    <3> QED BY <1>3, <1>4, <1>5, <3>1, NoneOwedThen DEF Request, CommentRequest
  <2> QED BY <1>0, <2>1, NoneOwed
<1> QED BY <1>1, <1>6, SameReplies

\* A row of the same parent and replyCount takes the place of a comment;
\* the replies to its parent lose it if it was removed.
LEMMA SaveCommentReplies ==
  ASSUME Serial, IInv, NEW c \in Calls, Knows(c), SaveComment(c), UNCHANGED failures,
         NEW p \in CommentIds, ReplyOK(p)
  PROVE  ReplyOK(p)'
<1> DEFINE id == hand[c][1]
           row == hand[c][2]
<1>1. /\ TypeOK /\ id \in CommentIds /\ Live(comments, id) /\ comments[id] \in Comment
      /\ pc[c] = "saveComment" /\ comments' = [comments EXCEPT ![id] = row]
      /\ row.parentId = comments[id].parentId
      /\ row.replyCount = comments[id].replyCount
      /\ row # None
  BY NoneIsApart DEF SaveComment, IInv, CallOK, SameThread, Knows, Live, TypeOK, Removed, Comment
<1>2. CASE row = comments[id] /\ todo[c] = <<>>
  <2>1. UNCHANGED comments /\ End(c)
    BY <1>1, <1>2 DEF TypeOK, SaveComment
  <2>2. pc'[c] = "idle"
    BY <1>1, <2>1, Ended
  <2> QED BY <1>1, <2>1, <2>2, NoneOwed, NoneOwedThen, SameReplies
<1>3. CASE row = Removed(comments[id]) /\ todo[c] = <<Down("comments")>>
  <2>1. row.isDeleted /\ pc'[c] = "get" /\ hand' = hand
    BY <1>1, <1>3 DEF Removed, Comment, SaveComment, TypeOK
  <2>2. /\ comments'[id] = row
        /\ \A j \in CommentIds : j # id => comments'[j] = comments[j]
    BY <1>1 DEF TypeOK
  <2> HIDE DEF id, row
  <2>3. FindAll(p)' = FindAll(p) \ {id}
    BY <1>1, <2>1, <2>2 DEF FindAll, Live
  <2>4. id \in FindAll(p) <=> row.parentId = p
    BY <1>1 DEF FindAll
  <2>5. Owed(p) = 0
    BY <1>1, NoneOwed
  <2>6. Owed(p)' = IF row.parentId = p THEN 1 ELSE 0
    BY <1>1, <2>1, OneOwes DEF Owes, id, row
  <2>7. Replies(p)' = IF row.parentId = p THEN Replies(p) - 1 ELSE Replies(p)
    BY <2>3, <2>4, RepliesAreNumbers, FS_RemoveElement DEF Replies
  <2>8. Replies(p) \in Nat /\ (comments[p] # None => comments[p].replyCount \in Int)
    BY <1>1, RepliesAreNumbers DEF TypeOK, Comment
  <2>9. (comments'[p] # None <=> comments[p] # None)
        /\ (comments[p] # None => comments'[p].replyCount = comments[p].replyCount)
    BY <1>1, <2>2, NoneIsApart
  <2> QED BY <2>5, <2>6, <2>7, <2>8, <2>9 DEF ReplyOK
<1> QED BY <1>1, <1>2, <1>3 DEF Knows

LEMMA SaveNewReplies ==
  ASSUME Serial, IInv, NEW c \in Calls, Knows(c), SaveNewComment(c), UNCHANGED failures,
         NEW p \in CommentIds, ReplyOK(p)
  PROVE  ReplyOK(p)'
<1>1. PICK row : row = Dated(hand[c][2])
  OBVIOUS
<1>2. PICK id \in Free(comments) : comments' = [comments EXCEPT ![id] = row]
  BY <1>1 DEF SaveNewComment
<1>11. /\ row \in Comment /\ hand[c][2] \in Comment
       /\ row.parentId = hand[c][2].parentId /\ row.rootId = hand[c][2].rootId
       /\ row.isDeleted = hand[c][2].isDeleted /\ row.replyCount = hand[c][2].replyCount
  <2>1. hand[c][2] \in Comment
    BY DEF IInv, CallOK, SaveNewComment
  <2>2. row \in Comment
    BY <1>1, <2>1, DatedTyped
  <2> QED BY <1>1, <2>1, <2>2 DEF Dated, Comment
<1>3. /\ TypeOK /\ id \in CommentIds /\ comments[id] = None /\ row \in Comment /\ row # None
      /\ ~row.isDeleted /\ row.replyCount = 0
      /\ pc[c] = "saveNew" /\ pc'[c] = "get" /\ hand' = hand /\ hand[c][1] = None
  BY <1>2, <1>11, NoneIsApart DEF SaveNewComment, Free, Knows, IInv, CallOK, TypeOK
<1>4. /\ comments'[id] = row
      /\ \A j \in CommentIds : j # id => comments'[j] = comments[j]
  BY <1>2, <1>3 DEF TypeOK
<1>5. FindAll(p)' = IF row.parentId = p THEN FindAll(p) \cup {id} ELSE FindAll(p)
  BY <1>3, <1>4 DEF FindAll, Live
<1>6. id \notin FindAll(p)
  BY <1>3 DEF FindAll, Live
<1>7. Owed(p) = (IF row.parentId = p THEN 1 ELSE 0) /\ Owed(p)' = 0
  BY <1>3, <1>11, OneOwes, NoneIsApart DEF Owes
<1>8. Replies(p)' = (IF row.parentId = p THEN Replies(p) + 1 ELSE Replies(p)) /\ Replies(p) \in Nat
  BY <1>5, <1>6, RepliesAreNumbers, FS_AddElement DEF Replies
<1>9. CASE p # id
  <2>1. comments'[p] = comments[p] /\ (comments[p] # None => comments[p].replyCount \in Int)
    BY <1>3, <1>4, <1>9 DEF TypeOK, Comment
  <2> QED BY <1>7, <1>8, <2>1 DEF ReplyOK
<1>10. CASE p = id
  <2>0. RowRooted(row)
    BY <1>3, <1>11 DEF IInv, CallOK, RowRooted
  <2>1. row.parentId # p
    BY <1>3, <1>10, <2>0, NoneIsApart DEF RowRooted
  <2>2. FindAll(p) = {}
    BY <1>3, <1>10, NoneIsApart DEF IInv, Threads, ThreadRooted, FindAll, Live
  <2>3. Replies(p)' = 0
    BY <1>5, <2>1, <2>2, FS_EmptySet DEF Replies
  <2> QED BY <1>3, <1>4, <1>7, <1>10, <2>3 DEF ReplyOK
<1> QED BY <1>9, <1>10

\* The replyCount of a comment changes; its replies do not.
LEMMA AddedReplies ==
  ASSUME IInv, NEW q \in CommentIds, comments[q] # None, NEW n \in {-1, 1}, AddReplies(q, n),
         NEW p \in CommentIds, ReplyOK(p), UNCHANGED failures,
         Owed(p)' = Owed(p) + (IF p = q THEN n ELSE 0)
  PROVE  ReplyOK(p)'
<1>1. PICK row : row = [comments[q] EXCEPT !.replyCount = @ + n]
  OBVIOUS
<1>2. /\ comments[q] \in Comment /\ row # None /\ row.replyCount = comments[q].replyCount + n
      /\ row.isDeleted = comments[q].isDeleted /\ row.parentId = comments[q].parentId
      /\ row \in Comment
  <2>1. comments[q] \in Comment
    BY DEF IInv, TypeOK
  <2>2. row \in Comment
    BY <1>1, <2>1 DEF Comment
  <2> QED BY <1>1, <2>1, <2>2, NoneIsApart DEF Comment
<1>3. /\ comments'[q] = row
      /\ \A j \in CommentIds : j # q => comments'[j] = comments[j]
  BY <1>1 DEF AddReplies, IInv, TypeOK
<1>4. FindAll(p)' = FindAll(p)
  BY <1>2, <1>3, NoneIsApart DEF FindAll, Live
<1>5. Replies(p)' = Replies(p) /\ Replies(p) \in Nat /\ Owed(p) \in {0, 1}
  BY <1>4, RepliesAreNumbers DEF Replies, Owed
<1>6. comments[p] # None => comments[p].replyCount \in Int
  BY DEF IInv, TypeOK, Comment
<1>7. CASE p = q
  BY <1>2, <1>3, <1>5, <1>6, <1>7 DEF ReplyOK, Comment
<1>8. CASE p # q
  BY <1>3, <1>5, <1>6, <1>8 DEF ReplyOK
<1> QED BY <1>7, <1>8

LEMMA CountReplies ==
  ASSUME Serial, IInv, NEW c \in Calls, IncrementReplies(c)
         \/ DecrementReplies(c), UNCHANGED failures,
         NEW p \in CommentIds, ReplyOK(p)
  PROVE  ReplyOK(p)'
<1>1. PICK q : q = hand[c][2].parentId
  OBVIOUS
<1>2. CASE IncrementReplies(c)
  <2>1. /\ AddReplies(q, 1) /\ pc[c] = "increment" /\ pc'[c] = "saveNew" /\ hand' = hand
        /\ q \in CommentIds /\ comments[q] # None
    BY <1>1, <1>2 DEF IncrementReplies, IInv, TypeOK, CallOK, RowRooted
  <2>2. Owed(p) = 0 /\ Owed(p)' = IF p = q THEN 1 ELSE 0
    BY <1>1, <2>1, OneOwes DEF Owes
  <2> QED BY <2>1, <2>2, AddedReplies
<1>3. CASE DecrementReplies(c)
  <2>1. /\ AddReplies(q, -1) /\ pc[c] = "decrement" /\ End(c)
        /\ hand[c][1] \in CommentIds /\ q \in CommentIds /\ comments[q] # None
    BY <1>1, <1>3, ParentThere DEF DecrementReplies, IInv, CallOK, SameThread
  <2>2. Owed(p) = (IF p = q THEN 1 ELSE 0) /\ Owed(p)' = 0
    BY <1>1, <2>1, OneOwes, Ended DEF Owes, IInv
  <2> QED BY <2>1, <2>2, AddedReplies
<1> QED BY <1>2, <1>3

LEMMA CounterReplies ==
  ASSUME Serial, IInv, NEW c \in Calls,
         GetCounter(c) \/ SetCounter(c) \/ StoreMetrics(c) \/ SaveReaction(c) \/ SaveTip(c)
           \/ \E group \in Groups : Query(c, group),
         UNCHANGED failures, NEW p \in CommentIds, ReplyOK(p)
  PROVE  ReplyOK(p)'
<1>0. TypeOK /\ UNCHANGED comments
  BY DEF IInv, GetCounter, SetCounter, StoreMetrics, SaveReaction, SaveTip, Query, tables
<1>1. CASE GetCounter(c) \/ SetCounter(c)
  <2>1. CASE hand' = hand /\ pc'[c] \in {"get", "set", "decrement"}
    <3>1. Owes(c, p)' = Owes(c, p)
      BY <1>1, <2>1 DEF Owes, GetCounter, SetCounter
    <3> QED BY <1>0, <3>1, OneOwes, SameReplies
  <2>2. CASE NextCounter(c) /\ End(c) /\ ~(hand[c][1] \in CommentIds /\ hand[c][2].parentId # None)
    <3>1. ~Owes(c, p) /\ ~Owes(c, p)'
      BY <1>0, <1>1, <2>2, Ended, NoneIsApart DEF Owes, GetCounter, SetCounter
    <3> QED BY <1>0, <3>1, OneOwes, SameReplies
  <2>3. NextCounter(c) => \/ hand' = hand /\ pc'[c] \in {"get", "set", "decrement"}
                          \/ /\ End(c)
                             /\ ~(hand[c][1] \in CommentIds /\ hand[c][2].parentId # None)
    BY <1>0 DEF NextCounter, TypeOK
  <2>4. NextCounter(c) \/ (hand' = hand /\ pc'[c] \in {"get", "set", "decrement"})
    BY <1>0, <1>1 DEF GetCounter, SetCounter, TypeOK
  <2> QED BY <2>1, <2>2, <2>3, <2>4
<1>2. CASE SaveReaction(c)
  <2>1. /\ pc[c] = "saveReaction"
        /\ pc'[c] = "idle" \/ (pc'[c] = "get" /\ hand'[c][1] \notin CommentIds)
    BY <1>0, <1>2, Ended, NoneIsApart DEF SaveReaction, IInv, CallOK, TypeOK
  <2> QED BY <1>0, <2>1, NoneOwed, NoneOwedThen, SameReplies
<1>3. ASSUME StoreMetrics(c) \/ \E group \in Groups : Query(c, group)
      PROVE  pc[c] = "query" /\ pc'[c] \in {"query", "idle"}
  BY <1>0, <1>3, Ended DEF StoreMetrics, Query
<1>4. CASE StoreMetrics(c) \/ \E group \in Groups : Query(c, group)
  BY <1>0, <1>3, <1>4, NoneOwed, NoneOwedThen, SameReplies
<1>5. CASE SaveTip(c)
  <2>1. pc[c] = "saveTip" /\ pc'[c] = "get" /\ hand'[c][1] \notin CommentIds
    BY <1>0, <1>5, NoneIsApart DEF SaveTip, IInv, CallOK, TypeOK
  <2> QED BY <1>0, <2>1, NoneOwed, NoneOwedThen, SameReplies
<1> QED BY <1>1, <1>2, <1>4, <1>5

--------------------------------------------------------------------------------
(* What calls know and what replyCount is, at every step. *)

RepliesInv ==
  /\ IInv
  /\ \A c \in Calls : Knows(c)
  /\ \A p \in CommentIds : ReplyOK(p)

LEMMA InitReplies == Init => RepliesInv
<1> SUFFICES ASSUME Init PROVE RepliesInv
  OBVIOUS
<1>1. \A c \in Calls : Knows(c)
  BY DEF Init, Knows
<1>2. \A p \in CommentIds : ReplyOK(p)
  BY DEF Init, ReplyOK
<1> QED BY <1>1, <1>2, InitHolds DEF RepliesInv

LEMMA FailReplies ==
  ASSUME Serial, IInv, NEW c \in Calls, Fail(c), NEW p \in CommentIds, ReplyOK(p)
  PROVE  ReplyOK(p)'
<1>1. TypeOK /\ UNCHANGED comments /\ End(c) /\ failures' # 0
  BY EngagementAssumption DEF IInv, TypeOK, Fail, tables
<1>2. Owed(p)' = 0
  BY <1>1, Ended, NoneOwedThen
<1> QED BY <1>1, <1>2, SameReplies

\* A step that leaves comments, reactions and calls alone.
LEMMA ElsewhereReplies ==
  ASSUME IInv, UNCHANGED <<comments, reactions, cvars, failures>>
  PROVE  /\ \A c \in Calls : Knows(c) => Knows(c)'
         /\ \A p \in CommentIds : ReplyOK(p) => ReplyOK(p)'
<1>1. ASSUME NEW c \in Calls, Knows(c) PROVE Knows(c)'
  BY <1>1 DEF Knows, FitsReaction, Live, cvars
<1>2. ASSUME NEW p \in CommentIds, ReplyOK(p) PROVE ReplyOK(p)'
  <2>1. Owed(p)' = Owed(p)
    BY DEF Owed, Owes, cvars
  <2> QED BY <1>2, <2>1, SameReplies
<1> QED BY <1>1, <1>2

LEMMA NextReplies == ASSUME Serial, RepliesInv, [Next]_vars PROVE RepliesInv'
<1>1. IInv /\ IInv'
  BY NextKeeps, Stutter DEF RepliesInv
<1>2. ASSUME NEW c \in Calls, Request(c) \/ Step(c) \/ Fail(c) PROVE \A d \in Calls : Knows(d)'
  <2>1. Knows(c)'
    BY <1>1, <1>2, RequestKnows, StepKnows DEF RepliesInv
  <2> QED BY <2>1 DEF Serial
<1>3. ASSUME NEW c \in Calls, NEW p \in CommentIds,
             (UNCHANGED failures /\ (Request(c) \/ Step(c))) \/ Fail(c)
      PROVE  ReplyOK(p)'
  <2>1. ReplyOK(p) /\ Knows(c)
    BY DEF RepliesInv
  <2>2. CASE Fail(c)
    BY <1>1, <2>1, <2>2, FailReplies
  <2>3. CASE UNCHANGED failures /\ Request(c)
    BY <1>1, <2>1, <2>3, RequestReplies
  <2>4. CASE UNCHANGED failures /\ Step(c)
    BY <1>1, <2>1, <2>4, SaveCommentReplies, SaveNewReplies, CountReplies, CounterReplies DEF Step
  <2> QED BY <1>3, <2>2, <2>3, <2>4
<1>4. ASSUME UNCHANGED <<comments, reactions, cvars, failures>>
      PROVE  (\A c \in Calls : Knows(c)') /\ (\A p \in CommentIds : ReplyOK(p)')
  BY <1>1, <1>4, ElsewhereReplies DEF RepliesInv
<1>5. CASE \E c \in Calls : (UNCHANGED failures /\ (Request(c) \/ Step(c))) \/ Fail(c)
  BY <1>1, <1>2, <1>3, <1>5 DEF RepliesInv
<1>6. CASE UNCHANGED <<comments, reactions, cvars, failures>>
  BY <1>1, <1>4, <1>6 DEF RepliesInv
<1> QED BY <1>5, <1>6 DEF Next, UpdateTipStatus, Expire, vars, tables

\* One call at a time, any of which may fail: replyCount is never below the
\* number of replies, and is that number between calls while none has failed.
THEOREM RepliesCountedAlone == ASSUME Serial PROVE Spec => []RepliesCounted
<1>1. RepliesInv /\ [Next]_vars => RepliesInv'
  BY NextReplies
<1>2. RepliesInv => RepliesCounted
  <2> SUFFICES ASSUME RepliesInv, NEW p \in CommentIds, comments[p] # None
               PROVE  /\ comments[p].replyCount >= Replies(p)
                      /\ Quiet /\ failures = 0 => comments[p].replyCount = Replies(p)
    BY DEF RepliesCounted, Replies
  <2>1. ReplyOK(p) /\ Replies(p) \in Nat /\ comments[p].replyCount \in Int /\ Owed(p) \in {0, 1}
    BY RepliesAreNumbers DEF RepliesInv, IInv, TypeOK, Comment, Owed
  <2>2. Quiet => Owed(p) = 0
    BY DEF Quiet, Owed, Owes
  <2> QED BY <2>1, <2>2 DEF ReplyOK
<1> QED BY InitReplies, <1>1, <1>2, PTL DEF Spec

--------------------------------------------------------------------------------
(* The cached counters: off by what the call has yet to apply to them. *)

Counters == Keys \ {"tips"}
N(k) == Cardinality(Counted(k))

By(d, k) == IF d.key = k THEN d.by ELSE 0
Off(s, k) == IF Len(s) = 2 THEN By(s[1], k) + By(s[2], k)
             ELSE IF Len(s) = 1 THEN By(s[1], k) ELSE 0

CallMetric(c, k) ==
  failures = 0 =>
    /\ pc[c] \notin {"get", "set"} /\ cache # None => cache[k] = N(k)
    /\ pc[c] = "get" /\ cache # None => cache[k] + Off(todo[c], k) = N(k)
    /\ pc[c] = "set" => held[c][k] + Off(Tail(todo[c]), k) = N(k)
    /\ pc[c] = "query" /\ held[c][k] # None => held[c][k] = N(k)

\* The unique index, on the rows: nobody has two reactions of a type.
UniqueReactions ==
  \A i, j \in ReactionIds :
    /\ reactions[i] # None /\ reactions[j] # None
    /\ reactions[i].creatorId = reactions[j].creatorId /\ reactions[i].type = reactions[j].type
    => i = j

MetricsInv ==
  /\ RepliesInv
  /\ UniqueReactions
  /\ \A c \in Calls : \A k \in Counters : CallMetric(c, k)
  /\ Calls = {} => cache = None

LEMMA OffOf ==
  ASSUME NEW k, NEW i \in Keys, NEW j \in Keys
  PROVE  /\ Off(<<>>, k) = 0
         /\ Off(<<Up(i)>>, k) = IF i = k THEN 1 ELSE 0
         /\ Off(<<Down(i)>>, k) = IF i = k THEN -1 ELSE 0
         /\ Off(<<Down(i), Up(j)>>, k) =
              (IF i = k THEN -1 ELSE 0) + (IF j = k THEN 1 ELSE 0)
  BY DEF Off, By, Up, Down

LEMMA CounterKinds ==
  /\ Counters = Types \cup {"comments"} /\ Counters \subseteq Keys
  /\ "comments" \notin Types /\ "tips" \notin Types
  /\ Counted("comments") = {i \in CommentIds : Live(comments, i)}
  /\ \A t \in Types : Counted(t) = {i \in ReactionIds : Live(reactions, i) /\ reactions[i].type = t}
<1>1. /\ "comments" \notin Types /\ "tips" \notin Types
      /\ Counters = Types \cup {"comments"} /\ Counters \subseteq Keys
  BY EngagementAssumption DEF Counters, Keys
<1> QED BY <1>1 DEF Counted

LEMMA CountedFinite ==
  ASSUME NEW k \in Counters
  PROVE  IsFiniteSet(Counted(k)) /\ N(k) \in Nat
<1>1. Counted(k) \subseteq CommentIds \/ Counted(k) \subseteq ReactionIds
  BY CounterKinds
<1> QED BY <1>1, FS_Subset, FS_CardinalityType, EngagementAssumption DEF N

LEMMA SameCount ==
  ASSUME UNCHANGED <<comments, reactions>>, NEW k \in Counters
  PROVE  N(k)' = N(k)
  BY CounterKinds DEF N, Counted, Live

\* A row written: the set has it or has it not.
LEMMA Recount ==
  ASSUME NEW S, IsFiniteSet(S), NEW i, NEW counts \in BOOLEAN
  PROVE  Cardinality(IF counts THEN S \cup {i} ELSE S \ {i})
           = Cardinality(S) + (IF counts THEN 1 ELSE 0) - (IF i \in S THEN 1 ELSE 0)
<1>1. Cardinality(S) \in Nat
  BY FS_CardinalityType
<1>2. CASE counts
  <2>1. Cardinality(S \cup {i}) = IF i \in S THEN Cardinality(S) ELSE Cardinality(S) + 1
    BY FS_AddElement
  <2> QED BY <1>1, <1>2, <2>1
<1>3. CASE ~counts
  <2>1. Cardinality(S \ {i}) = IF i \in S THEN Cardinality(S) - 1 ELSE Cardinality(S)
    BY FS_RemoveElement
  <2> QED BY <1>1, <1>3, <2>1
<1> QED BY <1>2, <1>3

\* A counter applied takes the document as much nearer to the count.
LEMMA Applied ==
  ASSUME NEW s, Shape(s), NEW doc \in [Keys -> Nat], NEW k \in Keys, doc[k] + Off(s, k) \in Nat
  PROVE  Changed(doc, Head(s))[k] + Off(Tail(s), k) = doc[k] + Off(s, k)
<1>1. ASSUME NEW j \in Keys, s = <<Up(j)>> \/ s = <<Down(j)>>
      PROVE  Changed(doc, Head(s))[k] + Off(Tail(s), k) = doc[k] + Off(s, k)
  <2>1. ASSUME NEW x PROVE Tail(<<x>>) = <<>> /\ Head(<<x>>) = x
    OBVIOUS
  <2>2. Off(Tail(s), k) = 0
    <3>1. Tail(s) = <<>>
      BY <1>1, <2>1
    <3> QED BY <1>1, <3>1, OffOf
  <2>3. CASE s = <<Up(j)>>
    <3>1. Head(s) = Up(j) /\ Off(s, k) = IF j = k THEN 1 ELSE 0
      BY <2>1, <2>3, OffOf
    <3> QED BY <2>2, <3>1 DEF Changed, Up
  <2>4. CASE s = <<Down(j)>>
    <3>1. Head(s) = Down(j) /\ Off(s, k) = IF j = k THEN -1 ELSE 0
      BY <2>1, <2>4, OffOf
    <3> QED BY <2>2, <3>1 DEF Changed, Down
  <2> QED BY <1>1, <2>3, <2>4
<1>2. ASSUME NEW i \in Types, NEW j \in Types, i # j, s = <<Down(i), Up(j)>>
      PROVE  Changed(doc, Head(s))[k] + Off(Tail(s), k) = doc[k] + Off(s, k)
  <2>1. Tail(s) = <<Up(j)>> /\ Head(s) = Down(i) /\ i \in Keys /\ j \in Keys
    BY <1>2 DEF Keys
  <2>2. /\ Off(s, k) = (IF i = k THEN -1 ELSE 0) + (IF j = k THEN 1 ELSE 0)
        /\ Off(Tail(s), k) = IF j = k THEN 1 ELSE 0
    BY <1>2, <2>1, OffOf
  <2> QED BY <1>2, <2>1, <2>2 DEF Changed, Down
<1> QED BY <1>1, <1>2 DEF Shape

LEMMA InitMetrics == Init => MetricsInv
  BY InitReplies DEF Init, MetricsInv, UniqueReactions, CallMetric

\* A save of a reaction leaves at most one of a creator and a type.
LEMMA SaveUnique ==
  ASSUME IInv, UniqueReactions, NEW c \in Calls, SaveReaction(c)
  PROVE  UniqueReactions'
<1>1. PICK id, row : id = hand[c][1] /\ row = hand[c][2]
  OBVIOUS
<1>2. None \notin ReactionIds /\ TypeOK
  BY NoneIsApart DEF IInv
<1>3. CASE UNCHANGED reactions
  BY <1>3 DEF UniqueReactions
<1>4. CASE ~UNCHANGED reactions
  <2>1. /\ ~Taken(row.creatorId, row.type, id)
        /\ \E i \in IF id = None THEN Free(reactions) ELSE {id} :
             reactions' = [reactions EXCEPT ![i] = row]
    BY <1>1, <1>4 DEF SaveReaction
  <2>2. PICK i \in IF id = None THEN Free(reactions) ELSE {id} :
             reactions' = [reactions EXCEPT ![i] = row]
    BY <2>1
  <2>3. /\ reactions'[i] = row \/ i \notin ReactionIds
        /\ \A j \in ReactionIds \ {i} : reactions'[j] = reactions[j]
    BY <1>2, <2>2 DEF TypeOK
  <2>4. ASSUME NEW j \in ReactionIds \ {i}, reactions[j] # None,
               reactions[j].creatorId = row.creatorId, reactions[j].type = row.type
        PROVE  FALSE
    <3>1. j # id
      BY <1>2, <2>2, <2>4
    <3> QED BY <2>1, <2>4, <3>1 DEF Taken
  <2> QED BY <2>3, <2>4 DEF UniqueReactions
<1> QED BY <1>3, <1>4

LEMMA UniqueKept ==
  ASSUME IInv, UniqueReactions, [Next]_vars
  PROVE  UniqueReactions'
<1>1. ASSUME NEW c \in Calls, SaveReaction(c) PROVE UniqueReactions'
  BY <1>1, SaveUnique
<1>2. CASE UNCHANGED reactions
  BY <1>2 DEF UniqueReactions
<1>3. ASSUME NEW c \in Calls, Step(c), ~SaveReaction(c) PROVE UNCHANGED reactions
  BY <1>3 DEF Step, IncrementReplies, SaveNewComment, SaveComment, DecrementReplies, SaveTip,
              GetCounter, SetCounter, StoreMetrics, Query, tables
<1>4. ASSUME NEW c \in Calls, Request(c) \/ Fail(c) PROVE UNCHANGED reactions
  BY <1>4, RequestKnows DEF Fail, tables
<1> QED BY <1>1, <1>2, <1>3, <1>4 DEF Next, UpdateTipStatus, Expire, vars, tables

LEMMA RequestMetric ==
  ASSUME IInv, NEW c \in Calls, Request(c), UNCHANGED failures,
         NEW k \in Counters, CallMetric(c, k)
  PROVE  CallMetric(c, k)'
<1>0. TypeOK
  BY DEF IInv
<1>1. UNCHANGED <<comments, reactions>> /\ N(k)' = N(k)
  BY RequestKnows, SameCount
<1>2. pc[c] = "idle" /\ UNCHANGED cache
  BY DEF Request, CommentRequest, ReactionRequest, CreateComment, CreateReply, EditComment,
         RemoveComment, React, ChangeReaction, RemoveReaction, Tip, ReadMetrics, tables
<1>3. CASE Tip(c)
  <2>1. pc'[c] = "saveTip"
    BY <1>0, <1>3, Went DEF Tip
  <2> QED BY <1>1, <1>2, <2>1 DEF CallMetric
<1>4. CASE ReadMetrics(c)
  <2>1. pc'[c] = "query" /\ held'[c][k] = None
    BY <1>0, <1>4, CounterKinds DEF ReadMetrics, TypeOK
  <2> QED BY <1>1, <1>2, <2>1 DEF CallMetric
<1>5. CASE CommentRequest(c) \/ ReactionRequest(c)
  <2>1. pc'[c] \in {"increment", "saveNew", "saveComment", "saveReaction"}
    BY <1>0, <1>5 DEF CommentRequest, ReactionRequest, CreateComment, CreateReply, EditComment,
                      RemoveComment, React, ChangeReaction, RemoveReaction, Go, TypeOK
  <2> QED BY <1>1, <1>2, <2>1 DEF CallMetric
<1> QED BY <1>3, <1>4, <1>5 DEF Request

\* A save counts what the call has yet to apply.
LEMMA Saved ==
  ASSUME NEW c \in Calls, UNCHANGED <<cache, failures>>, NEW k \in Counters, CallMetric(c, k),
         pc[c] \in {"saveNew", "saveComment", "saveReaction", "saveTip"},
         \/ pc'[c] = "get" /\ todo' = todo /\ N(k)' = N(k) + Off(todo[c], k)
         \/ pc'[c] = "idle" /\ N(k)' = N(k)
  PROVE  CallMetric(c, k)'
<1>1. Off(todo[c], k)' = Off(todo'[c], k)
  BY DEF Off, By
<1> QED BY <1>1 DEF CallMetric

LEMMA SaveNewMetric ==
  ASSUME IInv, NEW c \in Calls, Knows(c), SaveNewComment(c), UNCHANGED failures,
         NEW k \in Counters, CallMetric(c, k)
  PROVE  CallMetric(c, k)'
<1>1. PICK row : row = Dated(hand[c][2])
  OBVIOUS
<1>2. PICK id \in Free(comments) : comments' = [comments EXCEPT ![id] = row]
  BY <1>1 DEF SaveNewComment
<1>6. row \in Comment /\ row.isDeleted = hand[c][2].isDeleted
  <2>1. hand[c][2] \in Comment
    BY DEF IInv, CallOK, SaveNewComment
  <2>2. row \in Comment
    BY <1>1, <2>1, DatedTyped
  <2> QED BY <1>1, <2>1, <2>2 DEF Dated, Comment
<1>3. /\ TypeOK /\ id \in CommentIds /\ comments[id] = None /\ row # None /\ ~row.isDeleted
      /\ pc[c] = "saveNew" /\ pc'[c] = "get" /\ todo' = todo /\ todo[c] = <<Up("comments")>>
      /\ UNCHANGED <<reactions, cache>>
  BY <1>2, <1>6, NoneIsApart DEF SaveNewComment, Free, Knows, IInv, CallOK, TypeOK
<1>4. Off(todo[c], k) = IF k = "comments" THEN 1 ELSE 0
  <2>1. "comments" \in Keys
    BY DEF Keys
  <2>2. Off(<<Up("comments")>>, k) = IF k = "comments" THEN 1 ELSE 0
    BY <2>1, OffOf
  <2> QED BY <1>3, <2>2
<1>5. N(k)' = N(k) + Off(todo[c], k)
  <2>1. CASE k = "comments"
    <3>1. Counted(k)' = Counted(k) \cup {id} /\ id \notin Counted(k)
      BY <1>2, <1>3, <2>1 DEF Counted, Live, TypeOK
    <3>2. Cardinality(Counted(k) \cup {id}) = Cardinality(Counted(k)) + 1
      BY <3>1, CountedFinite, FS_AddElement
    <3> QED BY <1>4, <2>1, <3>1, <3>2 DEF N
  <2>2. CASE k # "comments"
    <3>1. N(k)' = N(k)
      BY <1>3, <2>2, CounterKinds DEF N, Counted, Live
    <3> QED BY <1>4, <2>2, <3>1, CountedFinite
  <2> QED BY <2>1, <2>2
<1> QED BY <1>3, <1>5, Saved

LEMMA SaveTipMetric ==
  ASSUME IInv, NEW c \in Calls, Knows(c), SaveTip(c), UNCHANGED failures,
         NEW k \in Counters, CallMetric(c, k)
  PROVE  CallMetric(c, k)'
<1>1. /\ TypeOK /\ pc[c] = "saveTip" /\ pc'[c] = "get" /\ todo' = todo /\ todo[c] = <<Up("tips")>>
      /\ UNCHANGED <<comments, reactions, cache>>
  BY DEF SaveTip, Knows, IInv, TypeOK
<1>2. "tips" \in Keys /\ k # "tips"
  BY DEF Keys, Counters
<1>3. Off(<<Up("tips")>>, k) = 0
  BY <1>2, OffOf
<1>4. N(k)' = N(k) /\ N(k) \in Nat
  BY <1>1, SameCount, CountedFinite
<1> QED BY <1>1, <1>3, <1>4, Saved

LEMMA SaveCommentMetric ==
  ASSUME IInv, NEW c \in Calls, Knows(c), SaveComment(c), UNCHANGED failures,
         NEW k \in Counters, CallMetric(c, k)
  PROVE  CallMetric(c, k)'
<1>1. PICK id, row : id = hand[c][1] /\ row = hand[c][2]
  OBVIOUS
<1>2. /\ TypeOK /\ id \in CommentIds /\ Live(comments, id) /\ comments[id] \in Comment
      /\ pc[c] = "saveComment" /\ comments' = [comments EXCEPT ![id] = row]
      /\ UNCHANGED <<reactions, cache>>
  BY <1>1 DEF SaveComment, IInv, CallOK, Knows, Live, TypeOK
<1>3. CASE row = comments[id] /\ todo[c] = <<>>
  <2>1. UNCHANGED comments /\ End(c)
    BY <1>2, <1>3 DEF TypeOK, SaveComment
  <2> QED BY <1>2, <2>1, Ended, SameCount, Saved
<1>4. CASE row = Removed(comments[id]) /\ todo[c] = <<Down("comments")>>
  <2>1. row.isDeleted /\ pc'[c] = "get" /\ todo' = todo
    BY <1>2, <1>4 DEF Removed, Comment, SaveComment, TypeOK
  <2>2. Off(todo[c], k) = IF k = "comments" THEN -1 ELSE 0
    BY <1>4, CounterKinds, OffOf
  <2>3. N(k)' = N(k) + Off(todo[c], k)
    <3>1. CASE k = "comments"
      <4>1. comments'[id] = row /\ \A j \in CommentIds \ {id} : comments'[j] = comments[j]
        BY <1>2 DEF TypeOK
      <4>2. Counted(k)' = Counted(k) \ {id} /\ id \in Counted(k)
        BY <1>2, <2>1, <3>1, <4>1 DEF Counted, Live
      <4>3. Cardinality(Counted(k) \ {id}) = Cardinality(Counted(k)) - 1
        BY <4>2, CountedFinite, FS_RemoveElement
      <4> QED BY <2>2, <3>1, <4>2, <4>3, CountedFinite DEF N
    <3>2. CASE k # "comments"
      <4>1. N(k)' = N(k)
        BY <1>2, <3>2, CounterKinds DEF N, Counted, Live
      <4> QED BY <2>2, <3>2, <4>1, CountedFinite
    <3> QED BY <3>1, <3>2
  <2> QED BY <1>2, <2>1, <2>3, Saved
<1> QED BY <1>1, <1>2, <1>3, <1>4 DEF Knows

\* Reaction i written: the counter of a type has it, or has it not.
LEMMA ReactionCounted ==
  ASSUME TypeOK, NEW i \in ReactionIds, NEW row, row # None,
         reactions' = [reactions EXCEPT ![i] = row], NEW k \in Types
  PROVE  N(k)' = N(k) + (IF ~row.isDeleted /\ row.type = k THEN 1 ELSE 0)
                      - (IF Live(reactions, i) /\ reactions[i].type = k THEN 1 ELSE 0)
<1>1. reactions'[i] = row /\ \A j \in ReactionIds \ {i} : reactions'[j] = reactions[j]
  BY DEF TypeOK
<1>2. PICK counts \in BOOLEAN : counts <=> (~row.isDeleted /\ row.type = k)
  OBVIOUS
<1>3. Counted(k)' = {j \in ReactionIds : Live(reactions, j) /\ reactions[j].type = k}'
  BY CounterKinds DEF Counted
<1>4. Counted(k)' = IF counts THEN Counted(k) \cup {i} ELSE Counted(k) \ {i}
  BY <1>1, <1>2, <1>3, CounterKinds DEF Live
<1>5. k \in Counters
  BY CounterKinds
<1>6. i \in Counted(k) <=> (Live(reactions, i) /\ reactions[i].type = k)
  BY CounterKinds
<1>7. Cardinality(IF counts THEN Counted(k) \cup {i} ELSE Counted(k) \ {i})
        = N(k) + (IF counts THEN 1 ELSE 0) - (IF i \in Counted(k) THEN 1 ELSE 0)
  BY <1>5, CountedFinite, Recount DEF N
<1> QED BY <1>2, <1>4, <1>6, <1>7 DEF N

\* A reaction written is what the call has yet to apply.
LEMMA ReactionSaved ==
  ASSUME IInv, NEW id \in ReactionIds \cup {None}, NEW row \in Reaction, NEW deltas,
         FitsReaction(id, row, deltas),
         NEW i \in IF id = None THEN Free(reactions) ELSE {id},
         reactions' = [reactions EXCEPT ![i] = row], NEW k \in Types
  PROVE  N(k)' = N(k) + Off(deltas, k)
<1>1. /\ TypeOK /\ row # None /\ row.type \in Types /\ row.type \in Keys /\ None \notin ReactionIds
      /\ i \in ReactionIds
  BY NoneIsApart DEF IInv, TypeOK, Reaction, Keys, Free
<1>2. /\ N(k)' = N(k) + (IF ~row.isDeleted /\ row.type = k THEN 1 ELSE 0)
                      - (IF Live(reactions, i) /\ reactions[i].type = k THEN 1 ELSE 0)
      /\ N(k) \in Nat
  BY <1>1, ReactionCounted, CountedFinite, CounterKinds
<1>3. CASE id = None
  <2>1. ~Live(reactions, i)
    BY <1>3 DEF Free, Live
  <2>2. ~row.isDeleted /\ deltas = <<Up(row.type)>>
    BY <1>1, <1>3 DEF FitsReaction
  <2>3. Off(<<Up(row.type)>>, k) = IF row.type = k THEN 1 ELSE 0
    BY <1>1, OffOf
  <2> QED BY <1>2, <2>1, <2>2, <2>3
<1>4. CASE id # None
  <2>1. i = id /\ Live(reactions, i) /\ reactions[i] \in Reaction
    BY <1>1, <1>4 DEF FitsReaction, Live, TypeOK
  <2>2. CASE row = Removed(reactions[i]) /\ deltas = <<Down(row.type)>>
    <3>1. row.isDeleted /\ row.type = reactions[i].type
      BY <2>1, <2>2 DEF Removed, Reaction
    <3>2. Off(<<Down(row.type)>>, k) = IF row.type = k THEN -1 ELSE 0
      BY <1>1, OffOf
    <3> QED BY <1>2, <2>1, <2>2, <3>1, <3>2
  <2>3. ASSUME NEW t \in Types, row = [reactions[i] EXCEPT !.type = t],
               deltas = IF t = reactions[i].type THEN <<>>
                        ELSE <<Down(reactions[i].type), Up(t)>>
        PROVE  N(k)' = N(k) + Off(deltas, k)
    <3>1. row.type = t /\ row.isDeleted = reactions[i].isDeleted
      BY <2>1, <2>3 DEF Reaction
    <3>2. N(k)' = N(k) + (IF t = k THEN 1 ELSE 0) - (IF reactions[i].type = k THEN 1 ELSE 0)
      BY <1>2, <2>1, <3>1 DEF Live
    <3>3. PICK u \in Types : u = reactions[i].type
      BY <2>1 DEF Reaction
    <3>4. u \in Keys /\ t \in Keys
      BY DEF Keys
    <3>5. /\ Off(<<>>, k) = 0
          /\ Off(<<Down(u), Up(t)>>, k) = (IF u = k THEN -1 ELSE 0) + (IF t = k THEN 1 ELSE 0)
      BY <3>4, OffOf
    <3>6. CASE t = u
      BY <1>2, <2>3, <3>2, <3>3, <3>5, <3>6
    <3>7. CASE t # u
      <4>1. deltas = <<Down(u), Up(t)>>
        BY <2>3, <3>3, <3>7
      <4> QED BY <1>2, <3>2, <3>3, <3>5, <4>1
    <3> QED BY <3>6, <3>7
  <2> QED BY <1>4, <2>1, <2>2, <2>3 DEF FitsReaction
<1> QED BY <1>3, <1>4

LEMMA SaveReactionMetric ==
  ASSUME IInv, NEW c \in Calls, Knows(c), SaveReaction(c), UNCHANGED failures,
         NEW k \in Counters, CallMetric(c, k)
  PROVE  CallMetric(c, k)'
<1>1. PICK id, row : id = hand[c][1] /\ row = hand[c][2]
  OBVIOUS
<1>2. /\ TypeOK /\ pc[c] = "saveReaction" /\ FitsReaction(id, row, todo[c])
      /\ id \in ReactionIds \cup {None} /\ row \in Reaction /\ UNCHANGED <<comments, cache>>
  BY <1>1 DEF SaveReaction, IInv, CallOK, Knows
<1>3. CASE End(c) /\ UNCHANGED reactions
  BY <1>2, <1>3, Ended, SameCount, Saved
<1>4. CASE ~(End(c) /\ UNCHANGED reactions)
  <2>1. PICK i \in IF id = None THEN Free(reactions) ELSE {id} :
          reactions' = [reactions EXCEPT ![i] = row]
    BY <1>1, <1>4 DEF SaveReaction
  <2>2. \/ todo[c] = <<>> /\ pc'[c] = "idle"
        \/ pc'[c] = "get" /\ todo' = todo
    BY <1>1, <1>2, <1>4, Ended DEF SaveReaction, TypeOK
  <2>3. N(k)' = N(k) + Off(todo[c], k) /\ N(k) \in Nat
    <3>1. CASE k \in Types
      BY <1>2, <2>1, <3>1, ReactionSaved, CountedFinite
    <3>2. CASE k = "comments"
      <4>1. N(k)' = N(k)
        BY <1>2, <3>2, CounterKinds DEF N, Counted, Live
      <4>2. Off(todo[c], k) = 0
        <5>1. ASSUME NEW t \in Types, NEW u \in Types
              PROVE  /\ Off(<<>>, k) = 0 /\ Off(<<Up(t)>>, k) = 0 /\ Off(<<Down(t)>>, k) = 0
                     /\ Off(<<Down(u), Up(t)>>, k) = 0
          <6>1. t \in Keys /\ u \in Keys /\ t # k /\ u # k
            BY <3>2, CounterKinds DEF Keys
          <6>2. Off(<<>>, k) = 0 /\ Off(<<Up(t)>>, k) = 0 /\ Off(<<Down(t)>>, k) = 0
            BY <6>1, OffOf
          <6>3. Off(<<Down(u), Up(t)>>, k) = (IF u = k THEN -1 ELSE 0) + (IF t = k THEN 1 ELSE 0)
            BY <6>1, OffOf
          <6> QED BY <6>1, <6>2, <6>3
        <5>2. row.type \in Types /\ \A j \in ReactionIds : Live(reactions, j)
              => reactions[j].type \in Types
          BY <1>2 DEF Reaction, Live, TypeOK
        <5> QED BY <1>2, <5>1, <5>2 DEF FitsReaction
      <4> QED BY <4>1, <4>2, CountedFinite
    <3> QED BY <3>1, <3>2, CounterKinds
  <2>4. Off(<<>>, k) = 0
    BY CounterKinds, OffOf
  <2> QED BY <1>2, <2>2, <2>3, <2>4, Saved
<1> QED BY <1>3, <1>4

\* A change of a replyCount counts nothing.
LEMMA CountMetric ==
  ASSUME IInv, NEW c \in Calls, IncrementReplies(c) \/ DecrementReplies(c), UNCHANGED failures,
         NEW k \in Counters, CallMetric(c, k)
  PROVE  CallMetric(c, k)'
<1>1. TypeOK /\ UNCHANGED <<reactions, cache>>
  BY DEF IInv, IncrementReplies, DecrementReplies
<1>2. PICK q : q = hand[c][2].parentId
  OBVIOUS
<1>3. PICK n \in Int : AddReplies(q, n)
  BY <1>2 DEF IncrementReplies, DecrementReplies
<1>4. \A j \in CommentIds : Live(comments, j)' <=> Live(comments, j)
  <2>1. CASE q \in CommentIds /\ comments[q] # None
    <3>1. PICK row : row = [comments[q] EXCEPT !.replyCount = @ + n]
      OBVIOUS
    <3>2. comments[q] \in Comment
      BY <1>1, <2>1 DEF TypeOK
    <3>3. row \in Comment /\ row.isDeleted = comments[q].isDeleted
      BY <3>1, <3>2 DEF Comment
    <3>4. comments'[q] = row /\ \A j \in CommentIds \ {q} : comments'[j] = comments[j]
      BY <1>1, <1>3, <2>1, <3>1 DEF AddReplies, TypeOK
    <3> QED BY <2>1, <3>3, <3>4, NoneIsApart DEF Live
  <2>2. q \in CommentIds /\ comments[q] # None
    <3>1. hand[c][2] \in Comment /\ hand[c][2].parentId # None
          /\ (RowRooted(hand[c][2]) \/ \E i \in CommentIds : SameThread(i, hand[c][2]))
      BY DEF IInv, CallOK, IncrementReplies, DecrementReplies, SameThread
    <3>2. hand[c][2].parentId \in CommentIds /\ comments[hand[c][2].parentId] # None
      BY <3>1, ParentThere
    <3> QED BY <1>2, <3>2
  <2> QED BY <2>1, <2>2
<1>5. N(k)' = N(k)
  BY <1>1, <1>4, CounterKinds DEF N, Counted, Live
<1>6. /\ pc[c] \notin {"get", "set", "query"}
      /\ pc'[c] \notin {"get", "set", "query"}
  BY <1>1, Ended DEF IncrementReplies, DecrementReplies, TypeOK
<1> QED BY <1>1, <1>5, <1>6 DEF CallMetric

LEMMA NextCounterPlace ==
  ASSUME TypeOK, NEW c \in Calls, NextCounter(c)
  PROVE  \/ Len(todo[c]) > 1 /\ pc'[c] = "get" /\ todo'[c] = Tail(todo[c])
         \/ ~(Len(todo[c]) > 1) /\ pc'[c] \in {"decrement", "idle"}
  BY Ended DEF NextCounter, TypeOK

\* A GET that misses, or the SET of a document, leaves what remains to be applied.
LEMMA CounterMetric ==
  ASSUME IInv, NEW c \in Calls, Knows(c), GetCounter(c) \/ SetCounter(c), UNCHANGED failures,
         NEW k \in Counters, CallMetric(c, k)
  PROVE  CallMetric(c, k)'
<1>1. /\ TypeOK /\ k \in Keys /\ UNCHANGED <<comments, reactions>> /\ N(k) \in Nat
      /\ Shape(todo[c]) /\ N(k)' = N(k) /\ todo[c] \in Seq(Delta) /\ CallOK(c)
  BY CounterKinds, CountedFinite, SameCount DEF IInv, GetCounter, SetCounter, tables, Knows, TypeOK
<1>2. /\ Len(todo[c]) \in {1, 2}
      /\ \A d : Off(d, k)' = Off(d, k)
  BY <1>1, ShapeShrinks DEF Off, By
<1>3. ~(Len(todo[c]) > 1) => Off(Tail(todo[c]), k) = 0
  <2>1. ASSUME Len(todo[c]) = 1 PROVE Len(Tail(todo[c])) = 0
    BY <1>1, <2>1
  <2> QED BY <1>2, <2>1 DEF Off
<1>4. CASE GetCounter(c) /\ cache = None
  <2>1. pc[c] = "get" /\ NextCounter(c) /\ cache' = None
    BY <1>4 DEF GetCounter
  <2>2. pc'[c] \in {"get", "decrement", "idle"}
    BY <1>1, <2>1, NextCounterPlace
  <2> QED BY <2>1, <2>2 DEF CallMetric
<1>5. CASE GetCounter(c) /\ cache # None
  <2>1. /\ pc[c] = "get" /\ pc'[c] = "set" /\ todo' = todo
        /\ held'[c] = Changed(cache, Head(todo[c]))
    BY <1>1, <1>5 DEF GetCounter, TypeOK
  <2>2. cache \in [Keys -> Nat]
    BY <1>1, <1>5 DEF TypeOK
  <2>3. ASSUME failures = 0
        PROVE  Changed(cache, Head(todo[c]))[k] + Off(Tail(todo[c]), k) = N(k)
    <3>1. cache[k] + Off(todo[c], k) = N(k)
      BY <1>5, <2>1, <2>3 DEF CallMetric
    <3> QED BY <1>1, <2>2, <3>1, Applied
  <2>4. Off(Tail(todo[c]), k)' = Off(Tail(todo[c]), k)
    BY <2>1 DEF Off, By
  <2> QED BY <1>1, <2>1, <2>3, <2>4 DEF CallMetric
<1>6. CASE SetCounter(c)
  <2>1. pc[c] = "set" /\ NextCounter(c) /\ cache' = held[c] /\ held[c] \in [Keys -> Nat]
    BY <1>1, <1>6 DEF SetCounter, CallOK
  <2>2. CASE Len(todo[c]) > 1 /\ pc'[c] = "get" /\ todo'[c] = Tail(todo[c])
    <3>1. Off(todo[c], k)' = Off(Tail(todo[c]), k)
      BY <2>2 DEF Off, By
    <3> QED BY <1>1, <2>1, <2>2, <3>1 DEF CallMetric
  <2>3. CASE ~(Len(todo[c]) > 1) /\ pc'[c] \in {"decrement", "idle"}
    BY <1>1, <1>3, <2>1, <2>3 DEF CallMetric
  <2> QED BY <1>1, <2>1, <2>2, <2>3, NextCounterPlace
<1> QED BY <1>4, <1>5, <1>6

LEMMA ReaderMetric ==
  ASSUME IInv, NEW c \in Calls, StoreMetrics(c) \/ \E group \in Groups : Query(c, group),
         UNCHANGED failures, NEW k \in Counters, CallMetric(c, k)
  PROVE  CallMetric(c, k)'
<1>1. /\ TypeOK /\ k \in Keys /\ UNCHANGED <<comments, reactions>> /\ N(k)' = N(k)
      /\ pc[c] = "query"
  BY CounterKinds, SameCount DEF IInv, StoreMetrics, Query, tables
<1>2. CASE StoreMetrics(c)
  <2>1. pc'[c] = "idle" /\ cache' = held[c] /\ held[c][k] # None
    BY <1>1, <1>2, Ended DEF StoreMetrics
  <2> QED BY <1>1, <2>1 DEF CallMetric
<1>3. ASSUME NEW group \in Groups, Query(c, group) PROVE CallMetric(c, k)'
  <2>1. PICK doc : doc = [j \in Keys |-> IF j \in group THEN N(j) ELSE held[c][j]]
    OBVIOUS
  <2>2. held'[c] = doc /\ pc'[c] = "query" /\ cache' = cache
    BY <1>1, <1>3, <2>1 DEF Query, TypeOK, N
  <2>3. held'[c][k] = N(k) \/ held'[c][k] = held[c][k]
    BY <1>1, <2>1, <2>2
  <2> QED BY <1>1, <2>2, <2>3 DEF CallMetric
<1> QED BY <1>2, <1>3

LEMMA NextMetrics == ASSUME Serial, MetricsInv, [Next]_vars PROVE MetricsInv'
<1>1. IInv /\ RepliesInv' /\ UniqueReactions'
  BY NextReplies, UniqueKept DEF MetricsInv, RepliesInv
<1>2. ASSUME NEW c \in Calls, NEW k \in Counters,
             (UNCHANGED failures /\ (Request(c) \/ Step(c))) \/ Fail(c)
      PROVE  CallMetric(c, k)'
  <2>1. CallMetric(c, k) /\ Knows(c)
    BY DEF MetricsInv, RepliesInv
  <2>2. CASE Fail(c)
    <3>1. failures' # 0
      BY <1>1, <2>2, EngagementAssumption DEF Fail, IInv, TypeOK
    <3> QED BY <3>1 DEF CallMetric
  <2>3. CASE UNCHANGED failures /\ Request(c)
    BY <1>1, <2>1, <2>3, RequestMetric
  <2>4. CASE UNCHANGED failures /\ Step(c)
    BY <1>1, <2>1, <2>4, SaveNewMetric, SaveCommentMetric, SaveReactionMetric, CountMetric,
       SaveTipMetric, CounterMetric, ReaderMetric DEF Step
  <2> QED BY <1>2, <2>2, <2>3, <2>4
<1>3. ASSUME UNCHANGED <<comments, reactions, cvars, failures>>, cache' \in {cache, None},
             NEW c \in Calls, NEW k \in Counters
      PROVE  CallMetric(c, k)'
  <2>1. CallMetric(c, k) /\ N(k)' = N(k) /\ \A d : Off(d, k)' = Off(d, k)
    BY <1>3, SameCount DEF MetricsInv, Off, By
  <2>2. Off(todo[c], k)' = Off(todo[c], k) /\ Off(Tail(todo[c]), k)' = Off(Tail(todo[c]), k)
    BY <1>3 DEF Off, By, cvars
  <2> QED BY <1>3, <2>1, <2>2 DEF CallMetric, cvars
<1>4. CASE \E c \in Calls : (UNCHANGED failures /\ (Request(c) \/ Step(c))) \/ Fail(c)
  BY <1>1, <1>2, <1>4 DEF MetricsInv, Serial
<1>5. CASE UNCHANGED <<comments, reactions, cvars, failures>> /\ cache' \in {cache, None}
  BY <1>1, <1>3, <1>5 DEF MetricsInv
<1> QED BY <1>4, <1>5 DEF Next, UpdateTipStatus, Expire, vars, tables

\* Nobody has two reactions of a type: as many users as reactions.
LEMMA UsersCounted ==
  ASSUME TypeOK, UniqueReactions, NEW t \in Types
  PROVE  Cardinality({u \in Users : HasUserReacted(u, t)}) = N(t)
<1> DEFINE S == {i \in ReactionIds : Live(reactions, i) /\ reactions[i].type = t}
           T == {u \in Users : HasUserReacted(u, t)}
           f == [i \in S |-> reactions[i].creatorId]
<1>1. \A i \in S : reactions[i] \in Reaction /\ reactions[i] # None
      /\ reactions[i].creatorId \in Users
  BY DEF TypeOK, Live, Reaction
<1>2. f \in [S -> T]
  BY <1>1 DEF HasUserReacted
<1>3. \A i, j \in S : f[i] = f[j] => i = j
  BY <1>1 DEF UniqueReactions
<1>4. \A u \in T : \E i \in S : f[i] = u
  BY DEF HasUserReacted
<1>5. N(t) = Cardinality(S) /\ IsFiniteSet(S)
  BY CounterKinds, CountedFinite DEF N
<1> HIDE DEF S, T, f
<1>6. f \in Bijection(S, T)
  BY <1>2, <1>3, <1>4 DEF Bijection, Injection, Surjection, IsInjective
<1>7. Cardinality(T) = Cardinality(S)
  BY <1>5, <1>6, FS_Bijection DEF ExistsBijection
<1> QED BY <1>5, <1>7 DEF T

\* One call at a time and none has failed: between calls the cached counter of
\* a type of reaction is what a count of the table gives, and the number of
\* users who have reacted.
THEOREM ReactionsExactAlone == ASSUME Serial PROVE Spec => []ReactionsExact
<1>1. MetricsInv /\ [Next]_vars => MetricsInv'
  BY NextMetrics
<1>2. MetricsInv => ReactionsExact
  <2> SUFFICES ASSUME MetricsInv, Quiet, failures = 0, cache # None, NEW t \in Types
               PROVE  /\ cache[t] = GetReactionsByType(t)
                      /\ cache[t] = Cardinality({u \in Users : HasUserReacted(u, t)})
    BY DEF ReactionsExact
  <2>1. PICK c \in Calls : pc[c] = "idle"
    BY DEF MetricsInv, Quiet
  <2>2. cache[t] = N(t) /\ GetReactionsByType(t) = N(t)
    BY <2>1, CounterKinds DEF MetricsInv, CallMetric, N, GetReactionsByType
  <2> QED BY <2>2, UsersCounted DEF MetricsInv, RepliesInv, IInv
<1> QED BY InitMetrics, <1>1, <1>2, PTL DEF Spec

--------------------------------------------------------------------------------
(* The threads *)

\* What is above a comment is there, and is closed under "parent of".
LEMMA AboveClosed ==
  ASSUME IInv, NEW i \in CommentIds
  PROVE  /\ i \in Above(i) /\ Above(i) \subseteq CommentIds
         /\ \A j \in Above(i) :
              comments[j] # None => comments[j].parentId \in Above(i) \cup {None}
<1>1. \A j \in CommentIds : comments[j] # None => comments[j].parentId \in CommentIds \cup {None}
  BY DEF IInv, TypeOK, Comment
<1> QED BY <1>1, Zenon DEF Above

\* A comment that is its parent's reply has above it what its parent has.
LEMMA AboveParent ==
  ASSUME IInv, NEW i \in CommentIds, comments[i] # None, comments[i].parentId # None
  PROVE  Above(i) = {i} \cup Above(comments[i].parentId)
<1> DEFINE p == comments[i].parentId
           S == {i} \cup Above(p)
<1>1. p \in CommentIds
  BY DEF IInv, Threads, ThreadRooted
<1> HIDE DEF p
<1>2. /\ p \in Above(p) /\ Above(p) \subseteq CommentIds
      /\ \A j \in Above(p) : comments[j] # None => comments[j].parentId \in Above(p) \cup {None}
  BY <1>1, AboveClosed
<1>3. /\ i \in Above(i) /\ Above(i) \subseteq CommentIds
      /\ \A j \in Above(i) : comments[j] # None => comments[j].parentId \in Above(i) \cup {None}
  BY AboveClosed
<1>4. p \in Above(i)
  BY <1>3 DEF p
<1>5. Above(i) \subseteq S
  <2>1. S \in SUBSET CommentIds /\ i \in S
    BY <1>2
  <2>2. \A j \in S : comments[j] # None => comments[j].parentId \in S \cup {None}
    BY <1>2 DEF p
  <2> HIDE DEF S
  <2> QED BY <2>1, <2>2 DEF Above
<1>6. Above(p) \subseteq Above(i)
  <2> DEFINE A == Above(i)
  <2>1. A \in SUBSET CommentIds /\ p \in A
        /\ \A j \in A : comments[j] # None => comments[j].parentId \in A \cup {None}
    BY <1>3, <1>4
  <2> HIDE DEF A
  <2>2. Above(p) \subseteq A
    BY <2>1 DEF Above
  <2> QED BY <2>2 DEF A
<1> QED BY <1>3, <1>5, <1>6 DEF p

\* Nothing is above a comment without a parent.
LEMMA AboveRoot ==
  ASSUME IInv, NEW r \in CommentIds, comments[r].parentId = None
  PROVE  Above(r) = {r}
<1> DEFINE S == {r}
<1>1. S \in SUBSET CommentIds /\ r \in S
      /\ \A j \in S : comments[j] # None => comments[j].parentId \in S \cup {None}
  OBVIOUS
<1> HIDE DEF S
<1>2. Above(r) \subseteq S
  BY <1>1 DEF Above
<1> QED BY <1>2, AboveClosed DEF S

\* The top of the thread a comment is in.
Top(i) == IF comments[i].rootId # None THEN comments[i].rootId ELSE i

\* What is above a comment is in its thread.
LEMMA AboveTop ==
  ASSUME IInv, NEW i \in CommentIds, comments[i] # None
  PROVE  \A j \in Above(i) : comments[j] # None /\ Top(j) = Top(i)
<1> DEFINE S == {j \in CommentIds : comments[j] # None /\ Top(j) = Top(i)}
<1>1. ASSUME NEW j \in S, comments[j].parentId # None PROVE comments[j].parentId \in S
  <2>1. PICK p : p = comments[j].parentId
    OBVIOUS
  <2>2. /\ p \in CommentIds /\ comments[p] # None
        /\ comments[j].rootId = IF comments[p].rootId # None THEN comments[p].rootId ELSE p
    BY <1>1, <2>1 DEF IInv, Threads, ThreadRooted
  <2>3. Top(p) = comments[j].rootId /\ Top(j) = comments[j].rootId
    BY <2>2, NoneIsApart DEF Top
  <2> QED BY <2>1, <2>2, <2>3
<1>2. S \in SUBSET CommentIds /\ i \in S
  OBVIOUS
<1>3. \A j \in S : comments[j] # None => comments[j].parentId \in S \cup {None}
  BY <1>1
<1> HIDE DEF S
<1>4. Above(i) \subseteq S
  BY <1>2, <1>3 DEF Above
<1> QED BY <1>4 DEF S

LEMMA LeastOf ==
  ASSUME NEW T \in SUBSET Nat, T # {}
  PROVE  \E n \in T : \A m \in T : n <= m
<1> DEFINE R == {ss \in Nat \X Nat : ss[1] < ss[2]}
<1>1. R = OpToRel(<, Nat)
  BY DEF OpToRel
<1>2. IsWellFoundedOn(R, Nat)
  BY <1>1, NatLessThanWellFounded
<1>3. \A y, x \in T : y < x => <<y, x>> \in R
  OBVIOUS
<1> HIDE DEF R
<1>4. PICK x \in T : \A y \in T : <<y, x>> \notin R
  BY <1>2, WFMin
<1>5. \A y \in T : y \in Nat /\ ~(y < x)
  BY <1>3, <1>4
<1> QED BY <1>4, <1>5

\* The oldest comment above a comment has no parent, and so is the top of the thread.
LEMMA TopAbove ==
  ASSUME IInv, NEW i \in CommentIds, comments[i] # None
  PROVE  Top(i) \in Above(i)
<1> DEFINE T == {comments[j].createdAt : j \in Above(i)}
<1>1. /\ i \in Above(i) /\ Above(i) \subseteq CommentIds
      /\ \A j \in Above(i) : comments[j] # None => comments[j].parentId \in Above(i) \cup {None}
  BY AboveClosed
<1>2. \A j \in Above(i) : comments[j] # None /\ Top(j) = Top(i) /\ comments[j].createdAt \in Nat
  BY <1>1, AboveTop DEF IInv, TypeOK, Comment
<1>3. \E n \in T : \A m \in T : n <= m
  <2>1. T \in SUBSET Nat /\ T # {}
    BY <1>1, <1>2
  <2> HIDE DEF T
  <2> QED BY <2>1, LeastOf
<1>4. PICK j \in Above(i) : \A k \in Above(i) : comments[j].createdAt <= comments[k].createdAt
  BY <1>3
<1>5. comments[j].parentId = None
  <2> SUFFICES ASSUME comments[j].parentId # None PROVE FALSE
    OBVIOUS
  <2>1. PICK p \in Above(i) : p = comments[j].parentId
    BY <1>1, <1>2
  <2>2. comments[p].createdAt < comments[j].createdAt
    BY <1>1, <1>2, <2>1 DEF IInv, Threads, Younger
  <2> QED BY <1>2, <1>4, <2>1, <2>2
<1>6. Top(j) = j
  BY <1>1, <1>2, <1>5 DEF IInv, Threads, ThreadRooted, Top
<1> QED BY <1>2, <1>6

\* The replies that name a root are the comments below it.
LEMMA ThreadIsBelow ==
  ASSUME IInv, NEW r \in CommentIds, Live(comments, r), comments[r].parentId = None
  PROVE  /\ Thread(r) = Below(r)
         /\ \A i \in Thread(r) : comments[i] # None /\ comments[i].parentId # None
<1>1. comments[r] # None /\ comments[r].rootId = None /\ Top(r) = r
  BY DEF Live, IInv, Threads, ThreadRooted, Top
<1>2. ASSUME NEW i \in CommentIds, Live(comments, i)
      PROVE  comments[i].rootId = r <=> i # r /\ r \in Above(i)
  <2>1. comments[i] # None /\ Top(i) \in Above(i) /\ \A j \in Above(i) : Top(j) = Top(i)
    BY <1>2, AboveTop, TopAbove DEF Live
  <2>2. r # None
    BY NoneIsApart
  <2>3. ASSUME comments[i].rootId = r PROVE i # r /\ r \in Above(i)
    BY <1>1, <2>1, <2>2, <2>3 DEF Top
  <2>4. ASSUME i # r, r \in Above(i) PROVE comments[i].rootId = r
    BY <1>1, <2>1, <2>4 DEF Top
  <2> QED BY <2>3, <2>4
<1>3. Thread(r) = Below(r)
  BY <1>2 DEF Thread, Below
<1>4. ASSUME NEW i \in Thread(r) PROVE comments[i] # None /\ comments[i].parentId # None
  BY NoneIsApart DEF Thread, Live, IInv, Threads, ThreadRooted
<1> QED BY <1>3, <1>4

\* The first page of a thread holds the parents of what it holds.
LEMMA FirstPage ==
  ASSUME IInv, NEW r \in CommentIds, Live(comments, r), comments[r].parentId = None
  PROVE  /\ OnPage(r, 1) = {i \in Thread(r) : Earlier(Thread(r), i) < Limit}
         /\ \A i \in OnPage(r, 1) :
              LET p == comments[i].parentId
              IN p \in CommentIds /\ (Live(comments, p) => p \in OnPage(r, 1) \cup {r})
<1> DEFINE Of(i) == {j \in Thread(r) : comments[j].createdAt < comments[i].createdAt}
<1>1. ASSUME NEW i PROVE IsFiniteSet(Of(i)) /\ Cardinality(Of(i)) \in Nat
  BY FS_Subset, FS_CardinalityType, EngagementAssumption DEF Thread
<1>2. OnPage(r, 1) = {i \in Thread(r) : Earlier(Thread(r), i) < Limit}
  <2>1. ASSUME NEW n \in Nat PROVE n \in (1 - 1) * Limit .. 1 * Limit - 1 <=> n < Limit
    <3>1. (1 - 1) * Limit = 0 /\ 1 * Limit = Limit /\ Limit \in Nat
      BY EngagementAssumption
    <3> QED BY <2>1, <3>1
  <2>2. \A i : Earlier(Thread(r), i) \in Nat
    BY <1>1 DEF Earlier
  <2> QED BY <2>1, <2>2 DEF OnPage
<1>3. ASSUME NEW i \in OnPage(r, 1), NEW p, p = comments[i].parentId
      PROVE  p \in CommentIds /\ (Live(comments, p) => p \in OnPage(r, 1) \cup {r})
  <2>1. /\ i \in Thread(r) /\ i \in CommentIds /\ comments[i].rootId = r
        /\ comments[i] # None /\ p # None
    BY <1>2, <1>3, ThreadIsBelow DEF Thread
  <2>2. /\ p \in CommentIds /\ comments[p] # None
        /\ r = IF comments[p].rootId # None THEN comments[p].rootId ELSE p
    BY <1>3, <2>1 DEF IInv, Threads, ThreadRooted
  <2>3. ASSUME Live(comments, p), p # r PROVE p \in OnPage(r, 1)
    <3>1. p \in Thread(r)
      BY <2>2, <2>3 DEF Thread
    <3>2. /\ comments[p].createdAt < comments[i].createdAt
          /\ comments[p].createdAt \in Nat /\ comments[i].createdAt \in Nat
          /\ \A j \in Thread(r) : comments[j].createdAt \in Nat
      BY <1>3, <2>1, <2>2, NoneIsApart
         DEF IInv, Threads, Younger, TypeOK, Comment, Thread, Live
    <3>3. Of(p) \subseteq Of(i)
      BY <3>2
    <3>4. Cardinality(Of(p)) <= Cardinality(Of(i))
      BY <1>1, <3>3, FS_Subset
    <3>5. Earlier(Thread(r), p) = Cardinality(Of(p)) /\ Earlier(Thread(r), i) = Cardinality(Of(i))
      BY DEF Earlier
    <3>6. Earlier(Thread(r), i) < Limit /\ Limit \in Nat
      BY <1>2, <1>3, EngagementAssumption
    <3> HIDE DEF Of
    <3>7. Earlier(Thread(r), p) < Limit
      BY <1>1, <3>4, <3>5, <3>6
    <3> QED BY <1>2, <3>1, <3>7
  <2> QED BY <2>2, <2>3
<1> QED BY <1>2, <1>3

\* The first page of a thread shows the oldest replies, all those above which
\* nothing was removed and no other, whatever calls overlap or fail: a reply
\* names the top of its thread, and its parent is older.
THEOREM ThreadsComplete == Spec => []ThreadComplete
<1>1. IInv => ThreadComplete
  <2> SUFFICES ASSUME IInv, NEW r \in CommentIds,
                      Live(comments, r), comments[r].parentId = None
               PROVE  Shown(r, 1) = {i \in Below(r) : /\ Earlier(Below(r), i) < Limit
                                                      /\ \A j \in Above(i) : Live(comments, j)}
    BY DEF ThreadComplete
  <2> DEFINE F == OnPage(r, 1)
             Whole(i) == r \in Above(i) /\ \A j \in Above(i) : Live(comments, j)
             All == {i \in CommentIds : Whole(i)}
             W == Shown(r, 1) \cup {r}
  <2>1. /\ F = {i \in Below(r) : Earlier(Below(r), i) < Limit}
        /\ \A i \in F : /\ comments[i].parentId \in CommentIds
                        /\ Live(comments, comments[i].parentId) =>
                             comments[i].parentId \in F \cup {r}
    BY FirstPage, ThreadIsBelow
  <2>2. /\ Above(r) = {r} /\ comments[r] # None /\ None \notin CommentIds
        /\ \A i \in F : i \in CommentIds \ {r} /\ Live(comments, i) /\ comments[i] # None
                         /\ r \in Above(i)
    BY <2>1, AboveRoot, EngagementAssumption DEF Live, Below
  <2>3. \A S \in SUBSET CommentIds :
          r \in S /\ (\A i \in F : comments[i].parentId \in S => i \in S)
              => Shown(r, 1) \subseteq S
    BY DEF Shown
  <2>4. \A i \in F : comments[i].parentId \in W => i \in W
    BY <2>2 DEF Shown
  <2>5. \A i \in Shown(r, 1) : i \in CommentIds \ {r}
    BY DEF Shown
  <2> HIDE DEF F
  \* What is shown is on the page.
  <2>6. Shown(r, 1) \subseteq F
    <3> DEFINE S == F \cup {r}
    <3>1. S \in SUBSET CommentIds /\ r \in S /\ \A i \in F : i \in S
      BY <2>2
    <3>2. Shown(r, 1) \subseteq S
      BY <2>3, <3>1
    <3> QED BY <2>5, <3>2
  \* What is shown has all its ancestors.
  <2>7. ASSUME NEW i \in F, comments[i].parentId \in All PROVE i \in All
    <3>1. Above(i) = {i} \cup Above(comments[i].parentId)
      BY <2>1, <2>2, AboveParent
    <3> QED BY <2>2, <2>7, <3>1
  <2>8. Shown(r, 1) \subseteq All
    <3>1. r \in All /\ All \in SUBSET CommentIds
      BY <2>2
    <3> QED BY <2>3, <2>7, <3>1
  \* What is on the page and has all its ancestors has them on the page, and is
  \* shown: those that are not shown would go on for ever.
  <2>9. ASSUME NEW i \in F, Whole(i) PROVE i \in W
    <3>1. /\ i \in Above(i) /\ Above(i) \subseteq CommentIds
          /\ \A j \in Above(i) : comments[j] # None => comments[j].parentId \in Above(i) \cup {None}
      BY <2>2, AboveClosed
    <3> DEFINE Y == Above(i) \cap (F \cup {r})
               Z == Above(i) \ W
    <3>2. Above(i) \subseteq Y
      <4>1. \A j \in Y : comments[j] # None => comments[j].parentId \in Y \cup {None}
        BY <2>1, <2>9, <3>1
      <4>2. Y \in SUBSET CommentIds /\ i \in Y
        BY <3>1
      <4> HIDE DEF Y
      <4> QED BY <2>2, <4>1, <4>2 DEF Above
    <3>3. \A j \in Z : comments[j] # None => comments[j].parentId \in Z \cup {None}
      BY <2>4, <3>1, <3>2
    <3>4. Z \in SUBSET CommentIds
      BY <3>1
    <3> HIDE DEF Z
    <3>5. i \in Z => Above(i) \subseteq Z
      BY <3>3, <3>4 DEF Above
    <3>6. r \notin Z /\ r \in Above(i)
      BY <2>9 DEF Z
    <3> QED BY <3>1, <3>5, <3>6 DEF Z
  <2> QED BY <2>1, <2>2, <2>5, <2>6, <2>8, <2>9
<1> QED BY <1>1, Invariance, PTL
================================================================================
