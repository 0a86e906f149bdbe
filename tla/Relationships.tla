----------------------------- MODULE Relationships -----------------------------
(***************************************************************************)
(* What the connection service promises two users: at most one link        *)
(* between them, asked for and ended by one of the two, decided only by    *)
(* the one who was asked, and no link while either blocks the other.       *)
(* Every operation is one step, taken for a user the service is working    *)
(* for at that moment: who that is comes and goes with the requests.       *)
(***************************************************************************)
CONSTANTS Users, NoLink

Pairs == {{u, v} : u, v \in Users}
Link  == [from: Users, type: {"friendship", "follow"},
          status: {"pending", "accepted", "rejected"}]

VARIABLES
  link,    \* the link of each pair of users, or NoLink
  blocks,  \* who blocks whom
  acting   \* the users whose requests are being served

vars == <<link, blocks, acting>>

TypeOK ==
  /\ link \in [Pairs -> Link \cup {NoLink}]
  /\ blocks \subseteq Users \X Users
  /\ acting \subseteq Users

Init == link = [p \in Pairs |-> NoLink] /\ blocks = {} /\ acting = {}

\* Requests arrive and are over; no link changes by that.
Turn == acting' \in SUBSET Users /\ UNCHANGED <<link, blocks>>

\* The link of u and another user is set, for u.
Set(u, v, l) ==
  /\ u \in acting
  /\ link' = [link EXCEPT ![{u, v}] = l]
  /\ UNCHANGED <<blocks, acting>>

Ask(u, v) ==
  /\ u # v /\ link[{u, v}] = NoLink
  /\ Set(u, v, [from |-> u, type |-> "friendship", status |-> "pending"])

Follow(u, v) ==
  /\ u # v /\ link[{u, v}] = NoLink
  /\ Set(u, v, [from |-> u, type |-> "follow", status |-> "accepted"])

\* u answers the pending request of the other user of the pair, v.
Answer(u, v, s) ==
  /\ u # v /\ link[{u, v}] # NoLink
  /\ link[{u, v}].from = v /\ link[{u, v}].status = "pending"
  /\ Set(u, v, [link[{u, v}] EXCEPT !.status = s])

Part(u, v) == link[{u, v}] # NoLink /\ Set(u, v, NoLink)

Block(u, v) ==
  /\ u \in acting /\ u # v /\ <<u, v>> \notin blocks
  /\ blocks' = blocks \cup {<<u, v>>}
  /\ link' = [link EXCEPT ![{u, v}] = NoLink]
  /\ UNCHANGED acting

Unblock(u, v) ==
  /\ u \in acting /\ <<u, v>> \in blocks
  /\ blocks' = blocks \ {<<u, v>>}
  /\ UNCHANGED <<link, acting>>

\* Links are only made between users that do not block each other.
Blocked(u, v) == <<u, v>> \in blocks \/ <<v, u>> \in blocks

Next ==
  \/ Turn
  \/ \E u, v \in Users :
       \/ ~Blocked(u, v) /\ (Ask(u, v) \/ Follow(u, v))
       \/ \E s \in {"accepted", "rejected"} : Answer(u, v, s)
       \/ Part(u, v)
       \/ Block(u, v)
       \/ Unblock(u, v)

Spec == Init /\ [][Next]_vars
================================================================================
