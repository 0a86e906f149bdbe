---------------------------- MODULE ConnectionCache ----------------------------
(***************************************************************************)
(* The Redis cache in front of Connections.  A cached reader (getFriends,  *)
(* getFollowers, ... , getMutualConnections) asks the cache, on a miss     *)
(* reads the database, and stores what it read for an hour; each mutating  *)
(* call ends by deleting the keys of its two users.  Between the reader's  *)
(* database read and its SET, and between a call's write and its DEL, any  *)
(* other step may run.                                                     *)
(*                                                                         *)
(* A key is <<u>> for friends:u, which stands for the views that are keyed *)
(* by one user and read by one query, and <<u, v>> for                     *)
(* mutual_connections:u:v.  KEYS and DEL of one pattern are one step: a    *)
(* key set between them is as if set before or after both.                 *)
(***************************************************************************)
EXTENDS Connections, Sequences

CONSTANTS
  Readers,   \* concurrent cached reads
  Views,     \* the keys that are read: a subset of Keys
  Miss,      \* no cached value
  NoRead     \* an idle reader

Keys == {<<u>> : u \in Users} \cup {<<u, v>> : u, v \in Users}

ASSUME ConnectionCacheAssumption == Views \subseteq Keys

VARIABLES
  cache,   \* what Redis holds under each key
  fill,    \* the read each reader is in
  lost     \* users with a key that a failed call was to invalidate

cvars == <<connections, issued, blocks, pc, arg, cache, fill, lost>>
dbvars == <<connections, issued, blocks>>

\* raced: an invalidation of the key's user fell inside the read.  It is
\* history, like lost: no step of the code depends on them.
Entry == [rows: SUBSET Connection, raced: BOOLEAN]
Fill  == [key: Views, at: {"second", "set"}, rows: SUBSET Connection, raced: BOOLEAN]

\* findFriends
FriendRows(u) ==
  {r \in connections : r.type = "friendship" /\ r.status = "accepted" /\ IsParty(u, r)}
Friends(u) == {v \in Users \ {u} : \E r \in FriendRows(u) : IsParty(v, r)}

\* The rows of u's friends that are also friends of v.
Shared(rows, u, v) == {r \in rows : \E w \in Friends(v) : w # u /\ IsParty(w, r)}

CInit ==
  /\ Init
  /\ cache = [k \in Views |-> Miss]
  /\ fill = [d \in Readers |-> NoRead]
  /\ lost = {}

\* GET misses, and the first query runs.
StartRead(d, k) ==
  /\ fill[d] = NoRead
  /\ cache[k] = Miss
  /\ fill' = [fill EXCEPT ![d] =
       [key |-> k, at |-> IF Len(k) = 1 THEN "set" ELSE "second",
        rows |-> FriendRows(k[1]), raced |-> FALSE]]
  /\ UNCHANGED <<dbvars, pc, arg, cache, lost>>

\* getMutualConnections reads the friends of the other user.
SecondRead(d) ==
  /\ fill[d] # NoRead
  /\ fill[d].at = "second"
  /\ fill' = [fill EXCEPT ![d].at = "set",
                          ![d].rows = Shared(@, fill[d].key[1], fill[d].key[2])]
  /\ UNCHANGED <<dbvars, pc, arg, cache, lost>>

SetCache(d) ==
  /\ fill[d] # NoRead
  /\ fill[d].at = "set"
  /\ cache' = [cache EXCEPT ![fill[d].key] = [rows |-> fill[d].rows, raced |-> fill[d].raced]]
  /\ fill' = [fill EXCEPT ![d] = NoRead]
  /\ UNCHANGED <<dbvars, pc, arg, lost>>

\* CACHE_TTL runs out.
Expire(k) ==
  /\ cache[k] # Miss
  /\ cache' = [cache EXCEPT ![k] = Miss]
  /\ UNCHANGED <<dbvars, pc, arg, fill, lost>>

\* invalidateConnectionCache(u): the patterns name u first.
Invalidate(u) ==
  /\ cache' = [k \in Views |-> IF k[1] = u THEN Miss ELSE cache[k]]
  /\ fill' = [d \in Readers |->
       IF fill[d] # NoRead /\ fill[d].key[1] = u THEN [fill[d] EXCEPT !.raced = TRUE]
       ELSE fill[d]]
  /\ lost' = lost \ {u}

\* Mutant of Flush: only the first user's keys are deleted.
FlushRequester(c) ==
  \/ Flush1(c) /\ Invalidate(arg[c].pair[1])
  \/ Flush2(c) /\ UNCHANGED <<cache, fill, lost>>

Flush(c) ==
  \/ Flush1(c) /\ Invalidate(arg[c].pair[1])
  \/ Flush2(c) /\ Invalidate(arg[c].pair[2])

\* A call has written a row of u and is still to invalidate u.
DirtyBy(c, u) ==
  \/ pc[c] \in {"notify", "flush1"} /\ u \in {arg[c].pair[1], arg[c].pair[2]}
  \/ pc[c] = "flush2" /\ u = arg[c].pair[2]

\* The write stays, the invalidation never comes.
CFail(c) ==
  /\ Fail(c)
  /\ lost' = lost \cup {u \in Users : DirtyBy(c, u) /\ \E k \in Views : k[1] = u}
  /\ UNCHANGED <<cache, fill>>

CNext ==
  \/ \E c \in Calls : (Request(c) \/ DbStep(c)) /\ UNCHANGED <<cache, fill, lost>>
  \/ \E c \in Calls : Flush(c) \/ CFail(c)
  \/ \E d \in Readers, k \in Views : StartRead(d, k)
  \/ \E d \in Readers : SecondRead(d) \/ SetCache(d)
  \/ \E k \in Views : Expire(k)

CSpec == CInit /\ [][CNext]_cvars
--------------------------------------------------------------------------------
(***************************************************************************)
(* The cached friends of a user are those of the database, and a cached    *)
(* list of mutual friends shows no row that is no longer a friendship of   *)
(* its first user, unless a call that changed them is on its way to the    *)
(* invalidation or failed on it, or the value was read before an           *)
(* invalidation and stored after it.  It needs every writer to invalidate  *)
(* both ends of the row it wrote, after the write.                         *)
(***************************************************************************)
StaleOnlyByRace ==
  \A k \in Views :
    cache[k] # Miss /\ ~cache[k].raced /\ k[1] \notin lost
      /\ ~(\E c \in Calls : DirtyBy(c, k[1])) =>
      IF Len(k) = 1 THEN cache[k].rows = FriendRows(k[1])
                    ELSE cache[k].rows \subseteq FriendRows(k[1])

================================================================================
