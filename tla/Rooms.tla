---------------------------------- MODULE Rooms ----------------------------------
(***************************************************************************)
(* One room of the WebSocket gateway of websockets-impl.  A server         *)
(* instance adds the sockets that join to the room's members and publishes *)
(* what is said there on one Redis channel; every instance receives the    *)
(* channel in its order and emits to its own members.                      *)
(*                                                                         *)
(* A client that reconnects is another connection of its user.  Assumed of *)
(* the client, as docs/websockets-api.md:222 has it: it keeps what it      *)
(* heard last, of each user, since it joined, and takes "offline" for      *)
(* having gone.  Assumed of Redis: the PUBLISH commands of an instance     *)
(* arrive in their order, and each instance emits to its own sockets only. *)
(* Abstracted: the throttling of requests, the heartbeats, whose timeout   *)
(* is one of the causes of HandleDisconnect, and the statuses of presence  *)
(* but "offline", which say nothing of who is in the room.                 *)
(***************************************************************************)
EXTENDS Service, Sequences

CONSTANTS
  Instances,
  Devices,       \* bound: the connections of a user, in turn or at once
  Notices,       \* messages, typing indicators and receipts: those told apart at once
  Events         \* bound: PUBLISH commands of an instance under way

ASSUME RoomsAssumption ==
  /\ Events \in Nat
  /\ None \notin Users
  /\ "closed" \notin Instances

VARIABLES
  home,       \* the instance of each connection there was, or "closed"
  outgoing,   \* the PUBLISH commands of each instance under way
  channel,    \* what each instance is still to receive
  heard,      \* the members, and what each of them heard last
  muddled,    \* history: the users of whom announcements were lost or crossed
  hidden      \* history: those who called themselves offline and have said no more

roomVars == <<home, outgoing, channel, heard, muddled, hidden>>

Connections == Users \X Devices
User(s) == s[1]

\* A member's view: the notice that came last, and who has come or gone.
Silence == [last |-> None, here |-> [u \in Users |-> None]]

RoomsInit ==
  /\ home = <<>>
  /\ outgoing = [i \in Instances |-> <<>>]
  /\ channel = [i \in Instances |-> <<>>]
  /\ heard = <<>>
  /\ muddled = {} /\ hidden = {}
  /\ ServiceInit

Connected == {s \in DOMAIN home : home[s] \in Instances}
members   == DOMAIN heard
Here(u) == {s \in Connected : User(s) = u}

\* Disconnections and statuses that still wait for the presence service, and
\* what is said of a user's coming and going that Redis has not taken yet.
Leaving(u) == {c \in Calls : pc[c] = "setOffline" /\ hand[c].user = u}
Hiding(u)  == {c \in Calls : pc[c] = "setPresence" /\ hand[c].user = u}
Unsettled(u) ==
  \/ Here(u) # {} \/ Leaving(u) # {} \/ Hiding(u) # {}
  \/ \E i \in Instances : \E k \in 1..Len(outgoing[i]) : outgoing[i][k].user = u

With(f, s, x) == [t \in {s} \cup DOMAIN f |-> IF t \in DOMAIN f THEN f[t] ELSE x]
Without(s) == [t \in members \ {s} |-> heard[t]]

\* Nothing is awaited between a request and its PUBLISH.
BroadcastMessage(i, event) ==
  /\ Len(outgoing[i]) < Events
  /\ outgoing' = [outgoing EXCEPT ![i] = Append(@, event)]

Joined(u) == [user |-> u, here |-> TRUE]
Left(u)   == [user |-> u, here |-> FALSE]
Notice(n) == [user |-> None, notice |-> n]

UnderWay(event) ==
  \E i \in Instances, queue \in {outgoing, channel} :
    \E k \in 1..Len(queue[i]) : queue[i][k] = event

UnheardOf(n) == (\A t \in members : heard[t].last # n) /\ ~UnderWay(Notice(n))

--------------------------------------------------------------------------------
(***************************************************************************)
(* The requests of a connection.  Who sends to a room need not be in it.   *)
(* Joining and leaving are announced when they are done, by a broadcast    *)
(* that is not awaited; so is a status, which the user chooses, when the   *)
(* presence service has answered.  What the service fails to do it keeps   *)
(* to itself.                                                              *)
(***************************************************************************)
HandleMessage(s) ==
  /\ s \in Connected
  /\ \E n \in Notices : UnheardOf(n) /\ BroadcastMessage(home[s], Notice(n))
  /\ UNCHANGED <<home, channel, heard, muddled, hidden, serviceVars>>

\* An announcement follows those before it, but not a status on its way.
SaidMore(u) == IF Hiding(u) = {} THEN hidden \ {u} ELSE hidden

HandleJoinRoom(s) ==
  /\ s \in Connected
  /\ heard' = With(heard, s, Silence)
  /\ BroadcastMessage(home[s], Joined(User(s)))
  /\ hidden' = SaidMore(User(s))
  /\ UNCHANGED <<home, channel, muddled, serviceVars>>

\* Mutant of HandleLeaveRoom: leaves as a disconnection does, without a word.
LeaveSilently(s) ==
  /\ s \in Connected
  /\ heard' = Without(s)
  /\ UNCHANGED <<home, outgoing, channel, muddled, hidden, serviceVars>>

HandleLeaveRoom(s) ==
  /\ s \in Connected
  /\ heard' = Without(s)
  /\ BroadcastMessage(home[s], Left(User(s)))
  /\ hidden' = SaidMore(User(s))
  /\ UNCHANGED <<home, channel, muddled, serviceVars>>

\* What a typing indicator says is a notice like another.
HandleTypingIndicator(s) == HandleMessage(s)

\* recordDeliveryReceipt tells everyone, as it knows no sender, and the handler
\* then tells the room.
HandleReadReceipt(c, s) ==
  /\ s \in Connected
  /\ \E n \in Notices : UnheardOf(n) /\ BroadcastMessage(home[s], Notice(n))
  /\ Begin(c, "recordReceipt", [user |-> User(s), at |-> home[s]])
  /\ UNCHANGED <<home, channel, heard, muddled, hidden>>

TellRoom(c) ==
  /\ pc[c] = "recordReceipt"
  /\ \E n \in Notices : UnheardOf(n) /\ BroadcastMessage(hand[c].at, Notice(n))
  /\ End(c)
  /\ UNCHANGED <<home, channel, heard, muddled, hidden>>

HandlePresenceUpdate(c, s) ==
  /\ s \in Connected
  /\ Begin(c, "setPresence", [user |-> User(s), at |-> home[s]])
  /\ hidden' = hidden \cup {User(s)}
  /\ UNCHANGED <<home, outgoing, channel, heard, muddled>>

\* A request that its guard lets pass when the connection has closed is handled
\* all the same, and announced, though nobody joins or leaves any more.
HandleLate(s, i) ==
  /\ s \in DOMAIN home \ Connected
  /\ \E event \in {Joined(User(s)), Left(User(s))} \cup {Notice(n) : n \in Notices} :
       /\ event.user = None => UnheardOf(event.notice)
       /\ BroadcastMessage(i, event)
       /\ muddled' = muddled \cup ({event.user} \cap Users)
  /\ UNCHANGED <<home, channel, heard, hidden, serviceVars>>

--------------------------------------------------------------------------------
(***************************************************************************)
(* Connections come and go.  A socket that closes has left its rooms; that *)
(* its user is gone is broadcast when it was the user's last one on the    *)
(* instance and the presence service has answered.                         *)
(***************************************************************************)
HandleConnection(s, i) ==
  /\ s \notin DOMAIN home
  /\ home' = With(home, s, i)
  /\ muddled' = IF Unsettled(User(s)) THEN muddled \cup {User(s)} ELSE muddled
  /\ UNCHANGED <<outgoing, channel, heard, hidden, serviceVars>>

HandleDisconnect(c, s) ==
  /\ s \in Connected
  /\ home' = [home EXCEPT ![s] = "closed"]
  /\ heard' = Without(s)
  /\ IF \E t \in Here(User(s)) \ {s} : home[t] = home[s]
     THEN UNCHANGED serviceVars
     ELSE Begin(c, "setOffline", [user |-> User(s), at |-> home[s]])
  /\ UNCHANGED <<outgoing, channel, muddled, hidden>>

\* broadcastPresenceUpdate: the user is gone, or says so.
BroadcastOffline(c) ==
  /\ pc[c] \in {"setOffline", "setPresence"}
  /\ BroadcastMessage(hand[c].at, Left(hand[c].user))
  /\ End(c)
  /\ UNCHANGED <<home, channel, heard, muddled, hidden>>

--------------------------------------------------------------------------------
\* Redis takes an instance's first command and tells every instance, or the
\* command fails and nothing tries it again.
Publish(i) ==
  /\ outgoing[i] # <<>>
  /\ channel' = [j \in Instances |-> Append(channel[j], Head(outgoing[i]))]
  /\ outgoing' = [outgoing EXCEPT ![i] = Tail(@)]
  /\ UNCHANGED <<home, heard, muddled, hidden, serviceVars>>

PublishFails(i) ==
  /\ outgoing[i] # <<>>
  /\ outgoing' = [outgoing EXCEPT ![i] = Tail(@)]
  /\ muddled' = muddled \cup ({Head(outgoing[i]).user} \cap Users)
  /\ Reject(CHOOSE c \in Calls : TRUE)
  /\ UNCHANGED <<home, channel, heard, hidden, pc, hand>>

Hears(view, event) ==
  IF event.user = None THEN [view EXCEPT !.last = event.notice]
                       ELSE [view EXCEPT !.here[event.user] = event.here]

\* Mutant of HandleRedisMessage: what came last is emitted first.
HandleLatestFirst(i) ==
  /\ channel[i] # <<>>
  /\ LET n == Len(channel[i]) IN
       /\ heard' = [s \in members |-> IF home[s] = i
                                       THEN Hears(heard[s], channel[i][n]) ELSE heard[s]]
       /\ channel' = [channel EXCEPT ![i] = SubSeq(@, 1, n - 1)]
  /\ UNCHANGED <<home, outgoing, muddled, hidden, serviceVars>>

\* handleRedisMessage: emits to the members on this instance.
HandleRedisMessage(i) ==
  /\ channel[i] # <<>>
  /\ heard' = [s \in members |-> IF home[s] = i
                                  THEN Hears(heard[s], Head(channel[i])) ELSE heard[s]]
  /\ channel' = [channel EXCEPT ![i] = Tail(@)]
  /\ UNCHANGED <<home, outgoing, muddled, hidden, serviceVars>>

RoomsNext ==
  \/ \E s \in Connections :
       \/ HandleMessage(s) \/ HandleJoinRoom(s) \/ HandleLeaveRoom(s) \/ HandleTypingIndicator(s)
       \/ \E i \in Instances : HandleConnection(s, i) \/ HandleLate(s, i)
       \/ \E c \in Calls : \/ HandleReadReceipt(c, s) \/ HandlePresenceUpdate(c, s)
                          \/ HandleDisconnect(c, s)
  \/ \E c \in Calls : TellRoom(c) \/ BroadcastOffline(c)
  \/ \E i \in Instances : Publish(i) \/ PublishFails(i) \/ HandleRedisMessage(i)

RoomsSpec == RoomsInit /\ [][RoomsNext]_<<roomVars, serviceVars>>

--------------------------------------------------------------------------------
\* Nothing is under way that this connection is still to hear.
HasHeardAll(s) ==
  /\ \A i \in Instances : outgoing[i] = <<>>
  /\ channel[home[s]] = <<>>
  /\ \A c \in Calls : Idle(c)

(***************************************************************************)
(* Members who have heard all there is agree on the last message of the    *)
(* room, and on what every user did last: instances do not emit in         *)
(* different orders.  One who joined later may not have heard yet.         *)
(* Violated if an instance emitted to its own sockets before the channel   *)
(* brings its message round.                                               *)
(***************************************************************************)
MembersAgree ==
  \A s, t \in members :
    HasHeardAll(s) /\ HasHeardAll(t) =>
      LET Same(a, b) == None \in {a, b} \/ a = b IN
        /\ Same(heard[s].last, heard[t].last)
        /\ \A u \in Users : Same(heard[s].here[u], heard[t].here[u])

(***************************************************************************)
(* What a member heard last of a user's coming and going is the truth: the *)
(* user has a connection in the room or has none.  Or it is what the user  *)
(* said: one who called himself offline is taken to have gone until he     *)
(* joins or leaves a room again.  Except of a user who was connected       *)
(* twice, or came back while the server was still taking leave of the      *)
(* connection before, or whose announcement was lost or came after the     *)
(* connection had closed.                                                  *)
(***************************************************************************)
RosterTrue ==
  \A s \in members, u \in Users \ muddled :
    HasHeardAll(s) /\ heard[s].here[u] # None =>
      \/ heard[s].here[u] = (Here(u) \cap members # {})
      \/ u \in hidden /\ ~heard[s].here[u]
================================================================================
