--------------------------------- MODULE Messages ---------------------------------
(***************************************************************************)
(* The messages of a chat room with their read receipts and reactions.     *)
(*                                                                         *)
(* getMessage loads a message with its receipts and reactions; save writes *)
(* all columns back, and detaches the receipts and reactions stored since: *)
(* their messageId may not be null, so the transaction is refused.         *)
(*                                                                         *)
(* deletedAt is set together with the content, so a message whose content  *)
(* is "removed" is a deleted one.  Abstracted: the sender, who alone may   *)
(* edit and delete, the day he has for editing, media and other metadata;  *)
(* a user has one reaction.                                                *)
(***************************************************************************)
EXTENDS Service, Paging

CONSTANT MessageIds

Message == [replyTo: MessageIds \cup {None}, content: {"text", "edited", "removed"},
            status: {"sent", "read"}, archived: BOOLEAN]

ASSUME MessagesAssumption == None \notin Message

VARIABLES
  messages,
  readReceipts, reactions,   \* of each message: the users
  raced                      \* history: messages deleted while a call held them as they were

messagesTables == <<messages, readReceipts, reactions, raced>>
messagesVars == <<messagesTables, serviceVars>>

MessagesInit ==
  /\ messages = [m \in MessageIds |-> None]
  /\ readReceipts = [m \in MessageIds |-> {}]
  /\ reactions = [m \in MessageIds |-> {}]
  /\ raced = {}
  /\ ServiceInit

Deleted(m) == messages[m].content = "removed"

\* Mutant of Found: the deleted ones are found as well.
FoundDeleted(m) == messages[m] # None

\* findOne leaves out the deleted ones.
Found(m) == messages[m] # None /\ ~Deleted(m)

\* getMessage
Loaded(m) == [message |-> m, row |-> messages[m],
              receipts |-> readReceipts[m], reactions |-> reactions[m]]

\* save, of a message loaded as such, is refused when rows would be detached.
Detaches(held) ==
  ~(readReceipts[held.message] \subseteq held.receipts /\ reactions[held.message] \subseteq held.reactions)

Save(held) ==
  messages' = IF Detaches(held) THEN messages ELSE [messages EXCEPT ![held.message] = held.row]

\* The message a call holds for a save, as it has loaded it
Copies(c) ==
  CASE pc[c] = "saveMessage" -> {hand[c]}
    [] pc[c] \in {"findReceipt", "insertReceipt"} -> {hand[c].held}
    [] OTHER -> {}

\* Another call has loaded m, and is not deleting it.
HeldByOthers(c, m) ==
  \E d \in Calls \ {c} : \E held \in Copies(d) : held.message = m /\ held.row.content # "removed"

RacedBySave(c) ==
  LET m == hand[c].message IN
    raced' = IF Detaches(hand[c]) \/ hand[c].row.content # "removed" THEN raced
             ELSE IF HeldByOthers(c, m) THEN raced \cup {m} ELSE raced \ {m}

--------------------------------------------------------------------------------
\* createMessage, a reply or not, and createSystemMessage
CreateMessage(c, replyTo) ==
  /\ replyTo # None => Found(replyTo)
  /\ Room(messages, {"insertMessage"})
  /\ Begin(c, "insertMessage", [message |-> replyTo])
  /\ UNCHANGED messagesTables

InsertMessage(c) ==
  /\ pc[c] = "insertMessage"
  /\ \E m \in Unused(messages) :
       messages' = [messages EXCEPT ![m] =
         [replyTo |-> hand[c].message, content |-> "text", status |-> "sent", archived |-> FALSE]]
  /\ End(c)
  /\ UNCHANGED <<readReceipts, reactions, raced>>

\* updateMessage
UpdateMessage(c, m) ==
  /\ Found(m)
  /\ Begin(c, "saveMessage", [Loaded(m) EXCEPT !.row.content = "edited"])
  /\ UNCHANGED messagesTables

\* deleteMessage
DeleteMessage(c, m) ==
  /\ Found(m)
  /\ Begin(c, "saveMessage", [Loaded(m) EXCEPT !.row.content = "removed"])
  /\ UNCHANGED messagesTables

SaveMessage(c) ==
  /\ pc[c] = "saveMessage"
  /\ Save(hand[c]) /\ RacedBySave(c)
  /\ End(c)
  /\ UNCHANGED <<readReceipts, reactions>>

\* markAsRead: the message is loaded, and then a receipt looked for.
MarkAsRead(c, m, u) ==
  /\ Found(m)
  /\ Begin(c, "findReceipt", [message |-> m, user |-> u, held |-> Loaded(m)])
  /\ UNCHANGED messagesTables

\* The status, if it is not read yet.
SaveStatus(c) ==
  IF hand[c].held.row.status = "read" THEN End(c)
  ELSE Go(c, "saveMessage", [hand[c].held EXCEPT !.row.status = "read"])

FindReceipt(c) ==
  /\ pc[c] = "findReceipt"
  /\ LET m == hand[c].message IN
       IF hand[c].user \in readReceipts[m]
       THEN SaveStatus(c)
       ELSE Go(c, "insertReceipt", hand[c])
  /\ UNCHANGED messagesTables

\* The unique index refuses a receipt that has been stored meanwhile.
InsertReceipt(c) ==
  /\ pc[c] = "insertReceipt"
  /\ LET m == hand[c].message IN
       IF hand[c].user \in readReceipts[m]
       THEN End(c) /\ UNCHANGED readReceipts
       ELSE SaveStatus(c) /\ readReceipts' = [readReceipts EXCEPT ![m] = @ \cup {hand[c].user}]
  /\ UNCHANGED <<messages, reactions, raced>>

\* addReaction
AddReaction(c, m, u) ==
  /\ Found(m)
  /\ Begin(c, "findReaction", [message |-> m, user |-> u])
  /\ UNCHANGED messagesTables

FindReaction(c) ==
  /\ pc[c] = "findReaction"
  /\ IF hand[c].user \in reactions[hand[c].message] THEN End(c)
     ELSE Go(c, "insertReaction", hand[c])
  /\ UNCHANGED messagesTables

InsertReaction(c) ==
  /\ pc[c] = "insertReaction"
  /\ reactions' = [reactions EXCEPT ![hand[c].message] = @ \cup {hand[c].user}]
  /\ End(c)
  /\ UNCHANGED <<messages, readReceipts, raced>>

\* removeReaction
RemoveReaction(m, u) ==
  /\ u \in reactions[m]
  /\ reactions' = [reactions EXCEPT ![m] = @ \ {u}]
  /\ UNCHANGED <<messages, readReceipts, raced, serviceVars>>

\* archiveOldMessages: one UPDATE of those that are old enough.
ArchiveOldMessages(old) ==
  /\ old # {} /\ \A m \in old : messages[m] # None /\ ~messages[m].archived
  /\ messages' = [m \in MessageIds |->
       IF m \in old THEN [messages[m] EXCEPT !.archived = TRUE] ELSE messages[m]]
  /\ UNCHANGED <<readReceipts, reactions, raced, serviceVars>>

\* cleanupDeletedMessages: one DELETE of those deleted days ago, before any call
\* in progress; refused when another message is a reply to one of them.
CleanupDeletedMessages(old) ==
  /\ old # {} /\ \A m \in old : messages[m] # None /\ Deleted(m)
  /\ \A c \in Calls : ~Idle(c) => hand[c].message \notin old
  /\ \A m \in Used(messages) \ old : messages[m].replyTo \notin old
  /\ messages' = [m \in MessageIds |-> IF m \in old THEN None ELSE messages[m]]
  /\ readReceipts' = [m \in MessageIds |-> IF m \in old THEN {} ELSE readReceipts[m]]
  /\ reactions' = [m \in MessageIds |-> IF m \in old THEN {} ELSE reactions[m]]
  /\ raced' = raced \ old
  /\ UNCHANGED serviceVars

MessagesFail(c) == Fail(c) /\ UNCHANGED messagesTables

MessagesNext ==
  \/ \E old \in SUBSET MessageIds : ArchiveOldMessages(old) \/ CleanupDeletedMessages(old)
  \/ \E m \in MessageIds, u \in Users : RemoveReaction(m, u)
  \/ \E c \in Calls :
       \/ \E m \in MessageIds :
            \/ UpdateMessage(c, m) \/ DeleteMessage(c, m)
            \/ \E u \in Users : MarkAsRead(c, m, u) \/ AddReaction(c, m, u)
       \/ \E m \in MessageIds \cup {None} : CreateMessage(c, m)
       \/ InsertMessage(c) \/ SaveMessage(c)
       \/ FindReceipt(c) \/ InsertReceipt(c)
       \/ FindReaction(c) \/ InsertReaction(c)
       \/ MessagesFail(c)

MessagesSpec == MessagesInit /\ [][MessagesNext]_messagesVars

--------------------------------------------------------------------------------
(* findMessages, findThreadMessages, searchMessages: at is the time of each  *)
(* message that matches, cursor the time of the last one seen, in            *)
(* milliseconds as it has been printed.                                      *)

FindMessages(at, limit, cursor, descending) ==
  LET order == {mn \in (DOMAIN at) \X (DOMAIN at) :
                  IF descending THEN at[mn[1]] > at[mn[2]] ELSE at[mn[1]] < at[mn[2]]}
      Beyond(m) == IF descending THEN at[m] < cursor ELSE at[m] > cursor
      found == {m \in DOMAIN at : cursor = None \/ Beyond(m)}
  IN {[messages |-> page,
       nextCursor |-> IF page = {} THEN None ELSE Printed(at[LastOf(page, order)])] :
        page \in PagesOf(limit, found, order)}

--------------------------------------------------------------------------------
\* A deleted message comes back only when, as it was deleted, another call held
\* it as it was before, to save it later: no request that comes after the
\* deletion finds it, and what is saved without such a call lets it be.
DeletionHolds ==
  [][\A m \in Used(messages) \ raced :
       Deleted(m) /\ messages'[m] # None => Deleted(m)']_messagesVars

\* Newest first, whoever follows the cursors misses only messages of the same
\* millisecond as the last one of a page; oldest first he misses only those of
\* the very same time as it, but may be shown the last one again.
PagesMissOnlyTies(at, limit) ==
  \A descending \in BOOLEAN, cursor \in {None} \cup {Printed(at[m]) : m \in DOMAIN at} :
    \A page \in FindMessages(at, limit, cursor, descending) : \A m \in DOMAIN at :
      LET next == page.nextCursor IN
        \/ m \in page.messages
        \/ cursor # None /\ (IF descending THEN at[m] >= cursor ELSE at[m] <= cursor)
        \/ IF descending THEN at[m] < next \/ Printed(at[m]) = next
           ELSE at[m] > next \/ \E n \in page.messages : at[n] = at[m]
================================================================================
