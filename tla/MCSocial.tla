--------------------------------- MODULE MCSocial ---------------------------------
(***************************************************************************)
(* Wallets, messages, the activity feed, notifications and the rooms of    *)
(* the WebSocket gateway, checked one after the other: no row of one is    *)
(* read by another, so that the steps of one leave the tables of the       *)
(* others as they are.                                                     *)
(***************************************************************************)
EXTENDS Wallets, Messages, Activity, Notifications, Rooms, TLC

VARIABLE service   \* the one that is at work

vars ==
  <<service, wallets, messagesTables, activityTables, notificationTables, roomVars, serviceVars>>

Init ==
  /\ service \in {"wallets", "messages", "activity", "notifications", "rooms"}
  /\ WalletsInit /\ MessagesInit /\ ActivityInit /\ NotificationsInit /\ RoomsInit

Next ==
  /\ UNCHANGED service
  /\ \/ /\ service = "wallets" /\ WalletsNext
        /\ UNCHANGED <<messagesTables, activityTables, notificationTables, roomVars>>
     \/ /\ service = "messages" /\ MessagesNext
        /\ UNCHANGED <<wallets, activityTables, notificationTables, roomVars>>
     \/ /\ service = "activity" /\ ActivityNext
        /\ UNCHANGED <<wallets, messagesTables, notificationTables, roomVars>>
     \/ /\ service = "notifications" /\ NotificationsNext
        /\ UNCHANGED <<wallets, messagesTables, activityTables, roomVars>>
     \/ /\ service = "rooms" /\ RoomsNext
        /\ UNCHANGED <<wallets, messagesTables, activityTables, notificationTables>>

Spec == Init /\ [][Next]_vars

--------------------------------------------------------------------------------
OfTwo == {uv \in Users \X Users : uv[1] # uv[2]}

Draft(u, isPublic, users) ==
  [actor |-> u, public |-> isPublic, targets |-> users, deleted |-> FALSE]

\* Public ones with no target or with another user, and private ones, which may
\* list their target twice.
MCDrafts ==
  UNION {{Draft(u, TRUE, <<>>), Draft(u, TRUE, <<v>>),
          Draft(u, FALSE, <<v>>), Draft(u, FALSE, <<v, v>>)} : <<u, v>> \in OfTwo}

Begun(table, insert) == Used(table) \cup {c \in Calls : pc[c] = insert}

\* Bound: messages are archived, and there is a second one, for replies, while
\* there are no receipts and reactions,
BusyMessages ==
  \/ \A m \in MessageIds : readReceipts[m] \cup reactions[m] = {}
  \/ /\ Cardinality(Begun(messages, "insertMessage")) = 1
     /\ \A m \in Used(messages) : ~messages[m].archived

\* and an activity is followed by a second one, for the pages of a feed, or by a
\* failure while calls do not overlap.  Times differ for the pages, for which
\* items are read and nothing is private or deleted.
BusyFeed ==
  LET created == Cardinality(Begun(activities, "insertActivity")) IN
    created > 0 =>
      /\ (failures > 0 \/ ended # {} \/ ~apart) => \A i \in DOMAIN items : items[i].at = 0
      /\ created > 1 \/ failures > 0 => apart
      /\ created = 1 => \A i \in DOMAIN items : ~items[i].read
      /\ created > 1 => /\ failures = 0 /\ ended = {}
                        /\ \A a \in Used(activities) : activities[a].public /\ ~activities[a].deleted
                        /\ Cardinality(Begun(subscriptions, "insertFollow")) <= 1

\* Of the channels other than in-app, one is in use.
BusyChannels ==
  Cardinality({preferences[p].channel : p \in Used(preferences)} \ {"in-app"}) <= 1

\* Nothing more happens in a room once an announcement was lost or crossed
\* another.  While a notice is about, the users stay and are connected once;
\* otherwise one of them may come back, and announcements follow each other.
\* At most two things are on their way to Redis.
BusyRoom ==
  LET used == DOMAIN home
      busy == {c \in Calls : ~Idle(c)}
      sending == {i \in Instances : outgoing[i] # <<>>}
      Queued(n) == \A i \in Instances : Len(channel[i]) <= n
  IN service = "rooms" =>
       /\ muddled = {} /\ failures = 0
       /\ Cardinality(busy) + Cardinality(sending) <= 2
       /\ IF \E n \in Notices : ~UnheardOf(n)
          THEN /\ used \subseteq Connected /\ hidden = {}
               /\ Cardinality(used) <= IF busy = {} THEN 2 ELSE 1
               /\ Queued(2 - Cardinality(sending))
          ELSE /\ Cardinality(used) <= IF hidden = {} THEN 3 ELSE 2
               /\ Queued(IF Cardinality(used) = 3 THEN 1 ELSE 2 - Cardinality(sending))
               /\ Cardinality(sending) + Cardinality(busy) <= 1

\* Tables of different services have the same keys, which keeps the group small.
Symmetry == UNION {Permutations(S) : S \in {Users, Calls, MessageIds}}

\* Three messages at any times of three milliseconds, in pages of one or two.
ASSUME MessagePages ==
  \A at \in [1..3 -> 0..(3 * Millisecond - 1)], limit \in 1..2 : PagesMissOnlyTies(at, limit)
================================================================================
