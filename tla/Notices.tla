--------------------------------- MODULE Notices ---------------------------------
(***************************************************************************)
(* Who is told of a comment, a reaction or a tip: the calls of             *)
(* notificationService.create that the engagement services make one after  *)
(* the other, once the row is stored.  An error ends them and is caught;   *)
(* the comment, reaction or tip stays.                                     *)
(***************************************************************************)
EXTENDS Naturals, Sequences

LOCAL INSTANCE SequencesExt
LOCAL INSTANCE FiniteSets

\* getContentOwnerId throws.
Throws == "throws"

(***************************************************************************)
(* getContentOwnerId, the same in three services: the creator of a comment *)
(* that exists, removed or not, and nobody for content of other types.  No *)
(* entity of the repository is called "posts", so that its lookup throws.  *)
(***************************************************************************)
ContentOwner(contentType, creator, nobody) ==
  CASE contentType = "comment" -> creator
    [] contentType = "post"    -> Throws
    [] OTHER                   -> nobody

Tell(as, user, except) == IF user \in except THEN <<>> ELSE <<[to |-> user, as |-> as]>>

\* notifyContentOwner and sendTipNotification
OwnerNotices(as, owner, sender, nobody) == Tell(as, owner, {nobody, sender, Throws})

\* Each name counts once, however often it occurs in the text.
DetectMentions(names) == ToSet(names)

\* sendMentionNotifications: the users of those names, as the query orders them.
MentionNotices(users, sender) ==
  FlattenSeq([k \in 1..Len(users) |-> Tell("mention", users[k], {sender})])

\* sendCommentNotifications
CommentNotices(comment, sender, nobody) ==
  IF comment.owner = Throws THEN <<>>
  ELSE Tell("comment", comment.owner, {nobody, sender})
         \o Tell("reply", comment.parentCreator, {nobody, sender, comment.owner})
         \o MentionNotices(comment.mentioned, sender)

\* What has been sent when the k-th call rejects.
Before(k, notices) == SubSeq(notices, 1, k - 1)

--------------------------------------------------------------------------------
(***************************************************************************)
(* For comments of a few users: nobody is told of what they did            *)
(* themselves; whoever owns the content, wrote the parent or is mentioned  *)
(* is told once, and once more if mentioned as well; and when a call       *)
(* fails, nobody is told of a mention unless the owner and the author of   *)
(* the parent have been told.  Of a reaction or a tip the owner is told.   *)
(***************************************************************************)
NoticesReach(People, nobody) ==
  LET Orders == {o \in BoundedSeq(People, Cardinality(People)) : IsInjective(o)}
      Comments ==
        [owner : {ContentOwner(t, c, nobody) : t \in {"comment", "post", "message"},
                                               c \in People \cup {nobody}},
         parentCreator : People \cup {nobody},
         mentioned : Orders]
      To(notices, user, kinds) ==
        Len(SelectSeq(notices, LAMBDA n : n.to = user /\ n.as \in kinds))
  IN \A comment \in Comments, sender \in People :
       LET notices == CommentNotices(comment, sender, nobody)
           first   == {comment.owner, comment.parentCreator} \cap People
       IN /\ \A u \in People :
               /\ To(notices, u, {"comment", "reply"})
                    = IF u \in first \ {sender} /\ comment.owner # Throws THEN 1 ELSE 0
               /\ To(notices, u, {"mention"})
                    = IF u \in DetectMentions(comment.mentioned) \ {sender}
                         /\ comment.owner # Throws THEN 1 ELSE 0
          /\ \A k \in 1..Len(notices), u, v \in People :
               LET sent == Before(k, notices) IN
                 To(sent, v, {"mention"}) > 0 /\ u \in first \ {sender}
                   => To(sent, u, {"comment", "reply"}) = 1
          /\ OwnerNotices("reaction", comment.owner, sender, nobody)
               = IF comment.owner \in People \ {sender}
                 THEN <<[to |-> comment.owner, as |-> "reaction"]>> ELSE <<>>
================================================================================
