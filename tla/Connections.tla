------------------------------ MODULE Connections ------------------------------
(***************************************************************************)
(* Friend requests, follows and blocks: ConnectionService with its two     *)
(* repositories.  Every public method is an asynchronous call; other calls *)
(* run at each of its awaits, and no method opens a transaction.  A call   *)
(* is therefore a process whose steps are the awaits that read or write    *)
(* the database.  The checks a method makes before its first read, and the *)
(* branches that throw before any write, leave the state alone: a call     *)
(* that would take one is a step that is not enabled, and a call that      *)
(* throws later goes back to "idle".                                       *)
(*                                                                         *)
(* Abstracted: names, messages and notification texts; connection.strength *)
(* and isFavorite (written by their own single-column updates, read by no  *)
(* guard); user accounts, which neither appear nor disappear here.         *)
(***************************************************************************)
EXTENDS Naturals, FiniteSets

CONSTANTS
  Users,
  Calls,     \* concurrent requests in the server
  RowIds,    \* primary keys the run may hand out; bounds the rows ever created
  NoRow,     \* no connection row held by a call
  NoArg,     \* arguments of an idle call
  MayFail    \* may an await reject (database, Redis, notification service)?

Types    == {"friendship", "follow"}
Statuses == {"pending", "accepted", "rejected"}

Connection == [id: RowIds, requesterId: Users, addresseeId: Users,
               type: Types, status: Statuses]

ASSUME ConnectionsAssumption ==
  /\ MayFail \in BOOLEAN
  /\ NoRow \notin Connection \cup [from: Users, type: Types, status: Statuses]

VARIABLES
  connections,  \* the "connections" table
  issued,       \* primary keys handed out so far; a uuid is never reused
  blocks,       \* the "blocks" table: pairs <<userId, blockedId>>
  pc,           \* the await each call has reached
  arg           \* what each call carries across its awaits

vars == <<connections, issued, blocks, pc, arg>>

PCs == {"idle", "findBetween", "insert", "findById", "setStatus", "notify",
        "insertBlock", "findToRemove", "delete", "deleteBlock", "flush1", "flush2"}

(***************************************************************************)
(* by is the user the call acts for, pair the two users whose cache it     *)
(* invalidates at the end, want the requested type or status, row the row  *)
(* it read last.                                                           *)
(***************************************************************************)
Arg == [by: Users, pair: Users \X Users, want: Types \cup Statuses \cup {"remove", "block"},
        row: Connection \cup {NoRow}]

\* Queries of the two repositories.
\* Mutant of Between: only the direction asked for.
BetweenOneWay(u, v) == {r \in connections : r.requesterId = u /\ r.addresseeId = v}
Between(u, v) == {r \in connections : {r.requesterId, r.addresseeId} = {u, v}}
IsBlocked(u, v) == <<u, v>> \in blocks \/ <<v, u>> \in blocks
IsParty(u, r) == u \in {r.requesterId, r.addresseeId}
Ends(r) == <<r.requesterId, r.addresseeId>>

\* UPDATE ... SET status WHERE id: no effect when the row is gone.
UpdateStatus(id, s) ==
  {IF r.id = id THEN [r EXCEPT !.status = s] ELSE r : r \in connections}

Init ==
  /\ connections = {} /\ issued = {} /\ blocks = {}
  /\ pc = [c \in Calls |-> "idle"]
  /\ arg = [c \in Calls |-> NoArg]

Goto(c, label) == pc' = [pc EXCEPT ![c] = label]

\* A call reaches its first write with its arguments bound.
Begin(c, label, by, pair, want, row) ==
  /\ pc[c] = "idle"
  /\ Goto(c, label)
  /\ arg' = [arg EXCEPT ![c] = [by |-> by, pair |-> pair, want |-> want, row |-> row]]
  /\ UNCHANGED <<connections, issued, blocks>>

\* The call returns or throws.
Finish(c) ==
  /\ Goto(c, "idle")
  /\ arg' = [arg EXCEPT ![c] = NoArg]

\* Bound of the model: a create call starts only while a key is left for it.
RoomForRow ==
  Cardinality({c \in Calls : pc[c] \in {"findBetween", "insert"}}) < Cardinality(RowIds \ issued)

(***************************************************************************)
(* createConnection.  The block check is the first await that reads state. *)
(***************************************************************************)
CreateConnection(c, u, o, type) ==
  /\ u # o
  /\ RoomForRow
  /\ ~IsBlocked(u, o)
  /\ Begin(c, "findBetween", u, <<u, o>>, type, NoRow)

\* No row between the two users: go on to insert one.
FindNone(c) ==
  /\ pc[c] = "findBetween"
  /\ Between(arg[c].pair[1], arg[c].pair[2]) = {}
  /\ Goto(c, "insert")
  /\ UNCHANGED <<connections, issued, blocks, arg>>

\* findOne returned row r, one of those between the two users.
FindExisting(c, r) ==
  /\ pc[c] = "findBetween"
  /\ r \in Between(arg[c].pair[1], arg[c].pair[2])
  /\ IF r.requesterId = arg[c].pair[2] /\ r.status = "pending" /\ arg[c].want = "friendship"
     THEN /\ Goto(c, "findById")
          /\ arg' = [arg EXCEPT ![c].row = r]
     ELSE Finish(c)
  /\ UNCHANGED <<connections, issued, blocks>>

\* acceptConnection called on the pending request of the other user: the row
\* is read again, and may be gone or decided by now.
AutoAccept(c) ==
  /\ pc[c] = "findById"
  /\ \/ \E r \in connections :
          /\ r.id = arg[c].row.id /\ r.status = "pending" /\ r.addresseeId = arg[c].by
          /\ Goto(c, "setStatus")
          /\ arg' = [arg EXCEPT ![c] = [by |-> @.by, pair |-> Ends(r),
                                        want |-> "accepted", row |-> r]]
     \/ /\ ~\E r \in connections :
             r.id = arg[c].row.id /\ r.status = "pending" /\ r.addresseeId = arg[c].by
        /\ Finish(c)
  /\ UNCHANGED <<connections, issued, blocks>>

\* The index on (requesterId, addresseeId) is unique per direction only.
Insert(c) ==
  /\ pc[c] = "insert"
  /\ LET u == arg[c].pair[1]
         o == arg[c].pair[2]
     IN IF \E r \in connections : Ends(r) = <<u, o>>
        THEN Finish(c) /\ UNCHANGED <<connections, issued>>
        ELSE \E id \in RowIds \ issued :
               /\ connections' = connections \cup
                    {[id |-> id, requesterId |-> u, addresseeId |-> o, type |-> arg[c].want,
                      status |-> IF arg[c].want = "follow" THEN "accepted" ELSE "pending"]}
               /\ issued' = issued \cup {id}
               /\ Goto(c, "notify") /\ UNCHANGED arg
  /\ UNCHANGED blocks

\* Mutant of Decide: the addressee check left out.
DecideAsParty(c, u, r, s) ==
  /\ r \in connections
  /\ IsParty(u, r)
  /\ r.status = "pending"
  /\ Begin(c, "setStatus", u, Ends(r), s, r)

(***************************************************************************)
(* acceptConnection, rejectConnection and updateConnection with a status:  *)
(* findById with the checks on what it returned, then the write.           *)
(***************************************************************************)
Decide(c, u, r, s) ==
  /\ r \in connections
  /\ r.addresseeId = u
  /\ r.status = "pending"
  /\ Begin(c, "setStatus", u, Ends(r), s, r)

\* Mutant of SetStatus: the entity that was read is saved, as a new row if need be.
SetStatusBySave(c) ==
  /\ pc[c] = "setStatus"
  /\ connections' = {r \in connections : r.id # arg[c].row.id}
                     \cup {[arg[c].row EXCEPT !.status = arg[c].want]}
  /\ Goto(c, IF arg[c].want = "accepted" THEN "notify" ELSE "flush1")
  /\ UNCHANGED <<issued, blocks, arg>>

SetStatus(c) ==
  /\ pc[c] = "setStatus"
  /\ connections' = UpdateStatus(arg[c].row.id, arg[c].want)
  /\ Goto(c, IF arg[c].want = "accepted" THEN "notify" ELSE "flush1")
  /\ UNCHANGED <<issued, blocks, arg>>

\* notificationService.create (external): nothing here depends on it.
Notify(c) ==
  /\ pc[c] = "notify"
  /\ Goto(c, "flush1")
  /\ UNCHANGED <<connections, issued, blocks, arg>>

RemoveConnection(c, u, r) ==
  /\ r \in connections
  /\ IsParty(u, r)
  /\ Begin(c, "delete", u, Ends(r), "remove", r)

Delete(c) ==
  /\ pc[c] = "delete"
  /\ connections' = {r \in connections : r.id # arg[c].row.id}
  /\ Goto(c, "flush1")
  /\ UNCHANGED <<issued, blocks, arg>>

(***************************************************************************)
(* blockUser: insert the block, then look for one row and remove it.       *)
(***************************************************************************)
BlockUser(c, u, o) ==
  /\ u # o
  /\ <<u, o>> \notin blocks
  /\ Begin(c, "insertBlock", u, <<u, o>>, "block", NoRow)

\* Mutant of InsertBlock: the removal of the connection is forgotten.
InsertBlockOnly(c) ==
  /\ pc[c] = "insertBlock"
  /\ IF arg[c].pair \in blocks
     THEN Finish(c) /\ UNCHANGED blocks
     ELSE blocks' = blocks \cup {arg[c].pair} /\ Goto(c, "flush1") /\ UNCHANGED arg
  /\ UNCHANGED <<connections, issued>>

InsertBlock(c) ==
  /\ pc[c] = "insertBlock"
  /\ IF arg[c].pair \in blocks
     THEN Finish(c) /\ UNCHANGED blocks
     ELSE blocks' = blocks \cup {arg[c].pair} /\ Goto(c, "findToRemove") /\ UNCHANGED arg
  /\ UNCHANGED <<connections, issued>>

\* Mutant of FindToRemove: only a row the blocking user asked for.
FindOwnToRemove(c) ==
  /\ pc[c] = "findToRemove"
  /\ LET found == {r \in connections : Ends(r) = arg[c].pair}
     IN \/ \E r \in found : Goto(c, "delete") /\ arg' = [arg EXCEPT ![c].row = r]
        \/ found = {} /\ Goto(c, "flush1") /\ UNCHANGED arg
  /\ UNCHANGED <<connections, issued, blocks>>

FindToRemove(c) ==
  /\ pc[c] = "findToRemove"
  /\ LET found == Between(arg[c].pair[1], arg[c].pair[2])
     IN \/ \E r \in found : Goto(c, "delete") /\ arg' = [arg EXCEPT ![c].row = r]
        \/ found = {} /\ Goto(c, "flush1") /\ UNCHANGED arg
  /\ UNCHANGED <<connections, issued, blocks>>

UnblockUser(c, u, o) ==
  /\ <<u, o>> \in blocks
  /\ Begin(c, "deleteBlock", u, <<u, o>>, "block", NoRow)

DeleteBlock(c) ==
  /\ pc[c] = "deleteBlock"
  /\ blocks' = blocks \ {arg[c].pair}
  /\ Goto(c, "flush1")
  /\ UNCHANGED <<connections, issued, arg>>

(***************************************************************************)
(* invalidateConnectionCache, once for each user of the pair.  The cache   *)
(* itself is a variable of ConnectionCache.                                *)
(***************************************************************************)
Flush1(c) ==
  /\ pc[c] = "flush1"
  /\ Goto(c, "flush2")
  /\ UNCHANGED <<connections, issued, blocks, arg>>

Flush2(c) ==
  /\ pc[c] = "flush2"
  /\ Finish(c)
  /\ UNCHANGED <<connections, issued, blocks>>

\* An await rejects: the call ends where it stands, what it wrote stays.
Fail(c) ==
  /\ MayFail
  /\ pc[c] # "idle"
  /\ Finish(c)
  /\ UNCHANGED <<connections, issued, blocks>>

\* The steps of a call that has begun, without those on the cache.
DbStep(c) ==
  \/ FindNone(c)
  \/ \E r \in connections : FindExisting(c, r)
  \/ AutoAccept(c)
  \/ Insert(c)
  \/ SetStatus(c)
  \/ Notify(c)
  \/ Delete(c)
  \/ InsertBlock(c)
  \/ FindToRemove(c)
  \/ DeleteBlock(c)

Request(c) ==
  \/ \E u, o \in Users, t \in Types : CreateConnection(c, u, o, t)
  \/ \E u \in Users, r \in connections, s \in Statuses : Decide(c, u, r, s)
  \/ \E u \in Users, r \in connections : RemoveConnection(c, u, r)
  \/ \E u, o \in Users : BlockUser(c, u, o)
  \/ \E u, o \in Users : UnblockUser(c, u, o)

CallStep(c) == DbStep(c) \/ Flush1(c) \/ Flush2(c)

Next == \E c \in Calls : Request(c) \/ CallStep(c) \/ Fail(c)

\* A started call runs on: the event loop serves every settled await.
Spec     == Init /\ [][Next]_vars
FairSpec == Spec /\ \A c \in Calls : WF_vars(CallStep(c))
--------------------------------------------------------------------------------
TypeOK ==
  /\ connections \subseteq Connection
  /\ issued \subseteq RowIds
  /\ blocks \subseteq Users \X Users
  /\ pc \in [Calls -> PCs]
  /\ arg \in [Calls -> Arg \cup {NoArg}]

(***************************************************************************)
(* A follow is accepted from its insertion to its removal: no pending      *)
(* decision, however stale the row it was taken on, lands on a follow.     *)
(***************************************************************************)
FollowStaysAccepted ==
  \A r \in connections : r.type = "follow" => r.status = "accepted"

(***************************************************************************)
(* A change of status of a row is the write of a call made for the row's   *)
(* addressee, on a friend request: neither the requester nor a third user  *)
(* accepts or rejects, whichever of the four methods the call went through.*)
(***************************************************************************)
AddresseeDecides ==
  [][\A r \in connections, s \in connections' :
       r.id = s.id /\ r.status # s.status =>
         /\ r.type = "friendship"
         /\ \E c \in Calls : pc[c] = "setStatus" /\ pc'[c] # "setStatus"
                             /\ arg[c].by = r.addresseeId]_vars

(***************************************************************************)
(* A removed connection does not come back: a decision or a removal that   *)
(* read the row before it was deleted does not write it again.             *)
(***************************************************************************)
Ids(S) == {r.id : r \in S}
NoResurrection ==
  [][\A id \in issued : id \in Ids(connections') => id \in Ids(connections)]_vars

(***************************************************************************)
(* At most one row for two users in a direction, and none from a user to   *)
(* itself: what the unique index and the CHECK of the entity demand.       *)
(***************************************************************************)
IndexUnique ==
  \A r, s \in connections : r.id = s.id \/ Ends(r) = Ends(s) => r = s

(***************************************************************************)
(* The promise of Relationships: the link of a pair is its row, hidden     *)
(* from the moment one of the two blocks the other, and every change of a  *)
(* link or of a block is the write of a call of the user entitled to it.   *)
(***************************************************************************)
LinkOf(p) ==
  IF \E u, v \in p : u # v /\ ~IsBlocked(u, v) /\ Between(u, v) # {}
  THEN LET r == CHOOSE r \in connections : {r.requesterId, r.addresseeId} = p
       IN [from |-> r.requesterId, type |-> r.type, status |-> r.status]
  ELSE NoRow

Links == [p \in {{u, v} : u, v \in Users} |-> LinkOf(p)]

\* The users whose calls are under way.
ActingUsers == {arg[c].by : c \in {d \in Calls : pc[d] # "idle"}}

Promise ==
  INSTANCE Relationships WITH link <- Links, NoLink <- NoRow, acting <- ActingUsers
ImplementsRelationships == Promise!Spec

(***************************************************************************)
(* The properties below are meant by the code and hold when calls do not   *)
(* overlap.                                                                *)
(***************************************************************************)
\* createConnection refuses a second row between two users (either way).
OneRowPerPair ==
  \A r, s \in connections :
    {r.requesterId, r.addresseeId} = {s.requesterId, s.addresseeId} => r = s

\* Two users with a block between them have no row, but while the blockUser
\* call that inserted the block is still to remove it.
Severing(u, v) ==
  \E c \in Calls : /\ pc[c] \in {"findToRemove", "delete"}
                   /\ {arg[c].pair[1], arg[c].pair[2]} = {u, v}
BlockSevers ==
  \A u, v \in Users : IsBlocked(u, v) /\ Between(u, v) # {} => Severing(u, v)

\* A block ends in separation: the row goes, or the block is lifted.
BlockEventuallySevers ==
  \A u, v \in Users : IsBlocked(u, v) ~> (Between(u, v) = {} \/ ~IsBlocked(u, v))
================================================================================
