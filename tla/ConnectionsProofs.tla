--------------------------- MODULE ConnectionsProofs ---------------------------
(***************************************************************************)
(* Safety of Connections for every number of users, overlapping calls and  *)
(* rows, failing awaits included.                                          *)
(*                                                                         *)
(* FollowStaysAccepted and AddresseeDecides are not inductive: a call at   *)
(* "setStatus" writes a status it decided on from a row read earlier.      *)
(* IInv adds what such a call still knows of the row when it writes: its   *)
(* key is never given to another row, and a row keeps its type and its     *)
(* ends while it lives.                                                    *)
(***************************************************************************)
EXTENDS ConnectionCache, TLAPS

\* What a call carries, by the await it has reached.
Carries(c) ==
  /\ pc[c] # "idle" => arg[c] \in Arg
  /\ pc[c] \in {"findBetween", "insert"} =>
       arg[c].want \in Types /\ arg[c].pair[1] # arg[c].pair[2]
  /\ pc[c] = "findById" => arg[c].row \in Connection
  /\ pc[c] = "setStatus" =>
       /\ arg[c].want \in Statuses
       /\ arg[c].row \in Connection
       /\ arg[c].row.id \in issued
       /\ \A r \in connections : r.id = arg[c].row.id =>
            r.type = "friendship" /\ r.addresseeId = arg[c].by

IInv ==
  /\ TypeOK
  /\ IndexUnique
  /\ FollowStaysAccepted
  /\ \A r \in connections : r.id \in issued
  /\ \A c \in Calls : Carries(c)

\* UpdateStatus changes the status of one row and nothing else.
LEMMA UpdateStatusRows ==
  ASSUME TypeOK, NEW id \in RowIds, NEW s \in Statuses
  PROVE  \A t \in UpdateStatus(id, s) :
           \E r \in connections :
             /\ t = IF r.id = id THEN [r EXCEPT !.status = s] ELSE r
             /\ t \in Connection
             /\ t.id = r.id /\ t.requesterId = r.requesterId
             /\ t.addresseeId = r.addresseeId /\ t.type = r.type
             /\ t.status = IF r.id = id THEN s ELSE r.status
BY DEF UpdateStatus, TypeOK, Connection

LEMMA InitInv == Init => IInv
BY ConnectionsAssumption
   DEF Init, IInv, TypeOK, IndexUnique, FollowStaysAccepted, Carries, PCs

\* A step that binds or drops the arguments of one call and leaves the tables
\* alone keeps IInv if that call's own part of it holds afterwards.
LEMMA CallOnly ==
  ASSUME IInv, NEW c \in Calls, NEW label \in PCs, NEW a \in Arg \cup {NoArg},
         pc' = [pc EXCEPT ![c] = label], arg' = [arg EXCEPT ![c] = a],
         UNCHANGED <<connections, issued, blocks>>, Carries(c)'
  PROVE  IInv'
<1>1. TypeOK' /\ IndexUnique' /\ FollowStaysAccepted' /\ (\A r \in connections : r.id \in issued)'
  BY DEF IInv, TypeOK, IndexUnique, FollowStaysAccepted, Ends
<1>2. ASSUME NEW d \in Calls, d # c PROVE Carries(d)'
  <2>1. pc'[d] = pc[d] /\ arg'[d] = arg[d]
    BY <1>2 DEF IInv, TypeOK
  <2>2. Carries(d)
    BY DEF IInv
  <2>. QED
    BY <2>1, <2>2 DEF Carries
<1>. QED
  BY <1>1, <1>2 DEF IInv

LEMMA BeginInv ==
  ASSUME IInv, NEW c \in Calls, NEW label \in PCs, NEW by \in Users,
         NEW pair \in Users \X Users,
         NEW want \in Types \cup Statuses \cup {"remove", "block"},
         NEW row \in Connection \cup {NoRow},
         Begin(c, label, by, pair, want, row),
         label \in {"findBetween", "insert"} => want \in Types /\ pair[1] # pair[2],
         label # "findById",
         label = "setStatus" => want \in Statuses /\ row \in connections
                                /\ row.status = "pending" /\ row.addresseeId = by
  PROVE  IInv'
<1> DEFINE a == [by |-> by, pair |-> pair, want |-> want, row |-> row]
<1>1. a \in Arg
  BY DEF Arg
<1>2. arg'[c] = a /\ pc'[c] = label /\ arg' = [arg EXCEPT ![c] = a]
  BY DEF Begin, Goto, IInv, TypeOK
<1>3. row \in connections => row \in Connection /\ row.id \in issued
  BY DEF IInv, TypeOK
<1>4. label = "setStatus" => row.type = "friendship"
  BY <1>3 DEF IInv, FollowStaysAccepted, Connection, Types
<1>5. label = "setStatus" =>
        \A r \in connections : r.id = row.id => r.type = "friendship" /\ r.addresseeId = by
  BY <1>4 DEF IInv, IndexUnique
<1>6. Carries(c)'
  <2> HIDE DEF a
  <2>1. a.by = by /\ a.pair = pair /\ a.want = want /\ a.row = row
    BY DEF a
  <2>2. connections' = connections /\ issued' = issued
    BY DEF Begin
  <2>. QED
    BY <1>1, <1>2, <1>3, <1>5, <2>1, <2>2 DEF Carries
<1>. QED
  BY <1>1, <1>2, <1>6, CallOnly DEF Begin, Goto

LEMMA FinishInv ==
  ASSUME IInv, NEW c \in Calls, Finish(c), UNCHANGED <<connections, issued, blocks>>
  PROVE  IInv'
<1>1. pc'[c] = "idle"
  BY DEF Finish, Goto, IInv, TypeOK
<1>2. Carries(c)'
  BY <1>1 DEF Carries
<1>. QED
  BY <1>2, CallOnly DEF Finish, Goto, PCs

\* The requests: each begins a call with arguments that satisfy Carries.
LEMMA RequestInv ==
  ASSUME IInv, NEW c \in Calls, Request(c)
  PROVE  IInv'
<1>1. ASSUME NEW u \in Users, NEW o \in Users, NEW t \in Types, CreateConnection(c, u, o, t)
      PROVE  IInv'
  <2>1. <<u, o>>[1] # <<u, o>>[2]
    BY <1>1 DEF CreateConnection
  <2>. QED
    BY <1>1, <2>1, BeginInv DEF CreateConnection, PCs, Types
<1>2. ASSUME NEW u \in Users, NEW r \in connections, NEW s \in Statuses, Decide(c, u, r, s)
      PROVE  IInv'
  <2>1. r \in Connection /\ Ends(r) \in Users \X Users
    BY DEF IInv, TypeOK, Connection, Ends
  <2>. QED
    BY <1>2, <2>1, BeginInv DEF Decide, PCs
<1>3. ASSUME NEW u \in Users, NEW r \in connections, RemoveConnection(c, u, r)
      PROVE  IInv'
  <2>1. r \in Connection /\ Ends(r) \in Users \X Users
    BY DEF IInv, TypeOK, Connection, Ends
  <2>. QED
    BY <1>3, <2>1, BeginInv DEF RemoveConnection, PCs
<1>4. ASSUME NEW u \in Users, NEW o \in Users, BlockUser(c, u, o) \/ UnblockUser(c, u, o)
      PROVE  IInv'
  BY <1>4, BeginInv DEF BlockUser, UnblockUser, PCs
<1>. QED
  BY <1>1, <1>2, <1>3, <1>4 DEF Request

\* A step of a call that only moves it on.
LEMMA MoveInv ==
  ASSUME IInv, NEW c \in Calls, NEW label \in PCs, pc[c] # "idle",
         label \notin {"findBetween", "insert", "findById", "setStatus"},
         Goto(c, label), UNCHANGED <<connections, issued, blocks, arg>>
  PROVE  IInv'
<1>1. pc'[c] = label /\ arg[c] \in Arg /\ arg' = [arg EXCEPT ![c] = arg[c]]
  BY DEF Goto, IInv, TypeOK, Carries
<1>2. Carries(c)'
  BY <1>1 DEF Carries
<1>. QED
  BY <1>1, <1>2, CallOnly DEF Goto

LEMMA FindInv ==
  ASSUME IInv, NEW c \in Calls,
         FindNone(c) \/ \E r \in connections : FindExisting(c, r)
  PROVE  IInv'
<1>1. CASE FindNone(c)
  <2>1. pc'[c] = "insert" /\ arg[c] \in Arg /\ arg' = [arg EXCEPT ![c] = arg[c]]
    BY <1>1 DEF FindNone, Goto, IInv, TypeOK, Carries
  <2>2. Carries(c)'
    BY <1>1, <2>1 DEF FindNone, IInv, Carries
  <2>. QED
    BY <1>1, <2>1, <2>2, CallOnly DEF FindNone, Goto, PCs
<1>2. ASSUME NEW r \in connections, FindExisting(c, r)
      PROVE  IInv'
  <2>1. CASE Finish(c)
    BY <1>2, <2>1, FinishInv DEF FindExisting
  <2>2. CASE Goto(c, "findById") /\ arg' = [arg EXCEPT ![c].row = r]
    <3> DEFINE a == [arg[c] EXCEPT !.row = r]
    <3>1. r \in Connection /\ arg[c] \in Arg
      BY <1>2 DEF FindExisting, IInv, TypeOK, Carries
    <3>2. a \in Arg /\ a.row = r /\ arg' = [arg EXCEPT ![c] = a]
      BY <2>2, <3>1 DEF Arg
    <3>3. pc'[c] = "findById" /\ arg'[c] = a
      BY <2>2, <3>2 DEF Goto, IInv, TypeOK
    <3>4. Carries(c)'
      BY <3>1, <3>2, <3>3 DEF Carries
    <3>. QED
      BY <1>2, <2>2, <3>2, <3>4, CallOnly DEF FindExisting, Goto, PCs
  <2>. QED
    BY <1>2, <2>1, <2>2 DEF FindExisting
<1>. QED
  BY <1>1, <1>2

LEMMA AutoAcceptInv ==
  ASSUME IInv, NEW c \in Calls, AutoAccept(c)
  PROVE  IInv'
<1>1. CASE Finish(c)
  BY <1>1, FinishInv DEF AutoAccept
<1>2. ASSUME NEW r \in connections,
             r.id = arg[c].row.id, r.status = "pending", r.addresseeId = arg[c].by,
             Goto(c, "setStatus"),
             arg' = [arg EXCEPT ![c] = [by |-> @.by, pair |-> Ends(r),
                                        want |-> "accepted", row |-> r]]
      PROVE  IInv'
  <2> DEFINE a == [by |-> arg[c].by, pair |-> Ends(r), want |-> "accepted", row |-> r]
  <2>1. r \in Connection /\ r.id \in issued /\ arg[c] \in Arg
    BY DEF AutoAccept, IInv, TypeOK, Carries
  <2>2. a \in Arg /\ arg' = [arg EXCEPT ![c] = a]
    BY <1>2, <2>1 DEF Arg, Connection, Ends, Statuses
  <2>3. \A s \in connections : s.id = r.id => s.type = "friendship" /\ s.addresseeId = arg[c].by
    BY <1>2, <2>1 DEF IInv, IndexUnique, FollowStaysAccepted, Connection, Types
  <2>4. pc'[c] = "setStatus" /\ arg'[c] = a /\ connections' = connections /\ issued' = issued
    BY <1>2, <2>2 DEF Goto, IInv, TypeOK, AutoAccept
  <2>5. Carries(c)'
    BY <2>1, <2>2, <2>3, <2>4 DEF Carries, Statuses
  <2>. QED
    BY <1>2, <2>2, <2>5, CallOnly DEF AutoAccept, Goto, PCs
<1>. QED
  BY <1>1, <1>2 DEF AutoAccept

\* The new row takes a fresh key and a direction that no row has.
LEMMA InsertInv ==
  ASSUME IInv, NEW c \in Calls, Insert(c)
  PROVE  IInv'
<1> DEFINE u == arg[c].pair[1]
           o == arg[c].pair[2]
<1>1. CASE Finish(c) /\ UNCHANGED <<connections, issued>>
  BY <1>1, FinishInv DEF Insert
<1>2. ASSUME NEW id \in RowIds \ issued,
             ~\E r \in connections : Ends(r) = <<u, o>>,
             connections' = connections \cup
               {[id |-> id, requesterId |-> u, addresseeId |-> o, type |-> arg[c].want,
                 status |-> IF arg[c].want = "follow" THEN "accepted" ELSE "pending"]},
             issued' = issued \cup {id},
             Goto(c, "notify"), UNCHANGED arg
      PROVE  IInv'
  <2> DEFINE new == [id |-> id, requesterId |-> u, addresseeId |-> o, type |-> arg[c].want,
                     status |-> IF arg[c].want = "follow" THEN "accepted" ELSE "pending"]
  <2>1. /\ arg[c] \in Arg /\ arg[c].want \in Types
        /\ u \in Users /\ o \in Users /\ pc[c] = "insert"
    BY DEF Insert, IInv, Carries, Arg
  <2>2. /\ new \in Connection /\ new.id = id /\ Ends(new) = <<u, o>>
        /\ new.type = "follow" => new.status = "accepted"
    BY <2>1 DEF Connection, Statuses, Ends
  <2> HIDE DEF new
  <2>3. connections' = connections \cup {new} /\ blocks' = blocks
    BY <1>2 DEF new, Insert
  <2>4. TypeOK'
    BY <1>2, <2>2, <2>3 DEF IInv, TypeOK, Goto, PCs
  <2>5. IndexUnique'
    BY <1>2, <2>2, <2>3 DEF IInv, IndexUnique, Ends
  <2>6. FollowStaysAccepted' /\ \A r \in connections' : r.id \in issued'
    BY <1>2, <2>2, <2>3 DEF IInv, FollowStaysAccepted
  <2>7. ASSUME NEW d \in Calls PROVE Carries(d)'
    <3>1. Carries(d)
      BY DEF IInv
    <3>2. pc'[d] = IF d = c THEN "notify" ELSE pc[d]
      BY <1>2 DEF Goto, IInv, TypeOK
    <3>. QED
      BY <1>2, <2>1, <2>2, <2>3, <3>1, <3>2 DEF Carries
  <2>. QED
    BY <2>4, <2>5, <2>6, <2>7 DEF IInv
<1>. QED
  BY <1>1, <1>2 DEF Insert

\* A stale decision falls on the row it was taken on, or on nothing.
LEMMA SetStatusInv ==
  ASSUME IInv, NEW c \in Calls, SetStatus(c)
  PROVE  IInv'
<1> DEFINE id == arg[c].row.id
           s == arg[c].want
<1>1. /\ pc[c] = "setStatus" /\ id \in RowIds /\ s \in Statuses /\ arg[c] \in Arg
      /\ \A r \in connections : r.id = id => r.type = "friendship"
      /\ connections' = UpdateStatus(id, s)
      /\ UNCHANGED <<issued, blocks, arg>>
  BY DEF SetStatus, IInv, Carries, Connection
<1> HIDE DEF id, s
<1>2. \A t \in connections' : \E r \in connections :
        /\ t = IF r.id = id THEN [r EXCEPT !.status = s] ELSE r
        /\ t \in Connection /\ t.id = r.id /\ Ends(t) = Ends(r)
        /\ t.addresseeId = r.addresseeId /\ t.type = r.type
        /\ t.status = IF r.id = id THEN s ELSE r.status
  BY <1>1, UpdateStatusRows DEF IInv, Ends
<1>3. pc' = [pc EXCEPT ![c] = IF s = "accepted" THEN "notify" ELSE "flush1"]
  BY DEF SetStatus, Goto, s
<1>4. TypeOK'
  BY <1>1, <1>2, <1>3 DEF IInv, TypeOK, PCs
<1>5. IndexUnique'
  <2>1. \A r, t \in connections : r.id = t.id \/ Ends(r) = Ends(t) => r = t
    BY DEF IInv, IndexUnique
  <2>. QED
    BY <1>2, <2>1 DEF IndexUnique, Ends
<1>6. FollowStaysAccepted'
  BY <1>1, <1>2 DEF IInv, FollowStaysAccepted
<1>7. \A r \in connections' : r.id \in issued'
  BY <1>1, <1>2 DEF IInv
<1>8. ASSUME NEW d \in Calls PROVE Carries(d)'
  <2>1. Carries(d)
    BY DEF IInv
  <2>2. pc'[d] = IF d = c THEN pc'[c] ELSE pc[d]
    BY <1>3 DEF IInv, TypeOK
  <2>3. pc'[c] \in {"notify", "flush1"}
    BY <1>3 DEF IInv, TypeOK
  <2>. QED
    BY <1>1, <1>2, <2>1, <2>2, <2>3 DEF Carries
<1>. QED
  BY <1>4, <1>5, <1>6, <1>7, <1>8 DEF IInv

LEMMA DeleteInv ==
  ASSUME IInv, NEW c \in Calls, Delete(c)
  PROVE  IInv'
<1>1. connections' \subseteq connections /\ UNCHANGED <<issued, blocks, arg>>
  BY DEF Delete
<1>2. pc' = [pc EXCEPT ![c] = "flush1"] /\ pc[c] = "delete"
  BY DEF Delete, Goto
<1>3. TypeOK' /\ IndexUnique' /\ FollowStaysAccepted' /\ \A r \in connections' : r.id \in issued'
  BY <1>1, <1>2 DEF IInv, TypeOK, IndexUnique, FollowStaysAccepted, Ends, PCs
<1>4. ASSUME NEW d \in Calls PROVE Carries(d)'
  <2>1. Carries(d) /\ pc'[d] = IF d = c THEN "flush1" ELSE pc[d]
    BY <1>2 DEF IInv, TypeOK
  <2>. QED
    BY <1>1, <1>2, <2>1 DEF Carries
<1>. QED
  BY <1>3, <1>4 DEF IInv

LEMMA BlockInv ==
  ASSUME IInv, NEW c \in Calls, InsertBlock(c) \/ DeleteBlock(c)
  PROVE  IInv'
<1>1. CASE Finish(c) /\ UNCHANGED blocks /\ InsertBlock(c)
  BY <1>1, FinishInv DEF InsertBlock
<1>2. CASE \E label \in {"findToRemove", "flush1"} :
             /\ Goto(c, label) /\ UNCHANGED <<connections, issued, arg>>
             /\ pc[c] # "idle" /\ blocks' \subseteq blocks \cup {arg[c].pair}
  <2>1. PICK label \in {"findToRemove", "flush1"} :
             /\ Goto(c, label) /\ UNCHANGED <<connections, issued, arg>>
             /\ pc[c] # "idle" /\ blocks' \subseteq blocks \cup {arg[c].pair}
    BY <1>2
  <2>2. arg[c].pair \in Users \X Users /\ arg[c] \in Arg
    BY <2>1 DEF IInv, Carries, Arg
  <2>3. TypeOK' /\ IndexUnique' /\ FollowStaysAccepted' /\ \A r \in connections' : r.id \in issued'
    BY <2>1, <2>2 DEF IInv, TypeOK, IndexUnique, FollowStaysAccepted, Ends, PCs, Goto
  <2>4. ASSUME NEW d \in Calls PROVE Carries(d)'
    <3>1. Carries(d) /\ pc'[d] = IF d = c THEN label ELSE pc[d]
      BY <2>1 DEF IInv, TypeOK, Goto
    <3>. QED
      BY <2>1, <2>2, <3>1 DEF Carries
  <2>. QED
    BY <2>3, <2>4 DEF IInv
<1>. QED
  BY <1>1, <1>2 DEF InsertBlock, DeleteBlock

LEMMA FindToRemoveInv ==
  ASSUME IInv, NEW c \in Calls, FindToRemove(c)
  PROVE  IInv'
<1>1. CASE Goto(c, "flush1") /\ UNCHANGED arg
  BY <1>1, MoveInv DEF FindToRemove, PCs
<1>2. ASSUME NEW r \in connections, Goto(c, "delete"), arg' = [arg EXCEPT ![c].row = r]
      PROVE  IInv'
  <2> DEFINE a == [arg[c] EXCEPT !.row = r]
  <2>1. r \in Connection /\ arg[c] \in Arg
    BY DEF FindToRemove, IInv, TypeOK, Carries
  <2>2. a \in Arg /\ arg' = [arg EXCEPT ![c] = a]
    BY <1>2, <2>1 DEF Arg
  <2>3. pc'[c] = "delete" /\ arg'[c] = a
    BY <1>2, <2>2 DEF Goto, IInv, TypeOK
  <2>4. Carries(c)'
    BY <2>2, <2>3 DEF Carries
  <2>. QED
    BY <1>2, <2>2, <2>4, CallOnly DEF FindToRemove, Goto, PCs
<1>. QED
  BY <1>1, <1>2 DEF FindToRemove, Between

LEMMA CallStepInv ==
  ASSUME IInv, NEW c \in Calls, CallStep(c)
  PROVE  IInv'
<1>1. CASE Notify(c) \/ Flush1(c)
  BY <1>1, MoveInv DEF Notify, Flush1, PCs
<1>2. CASE Flush2(c)
  BY <1>2, FinishInv DEF Flush2
<1>. QED
  BY <1>1, <1>2, FindInv, AutoAcceptInv, InsertInv, SetStatusInv, DeleteInv, BlockInv,
     FindToRemoveInv DEF CallStep, DbStep

LEMMA NextInv == IInv /\ [Next]_vars => IInv'
<1>. SUFFICES ASSUME IInv, [Next]_vars PROVE IInv'
  OBVIOUS
<1>1. ASSUME NEW c \in Calls, Fail(c) PROVE IInv'
  BY <1>1, FinishInv DEF Fail
<1>2. CASE UNCHANGED vars
  BY <1>2 DEF vars, IInv, TypeOK, IndexUnique, FollowStaysAccepted, Ends, Carries
<1>. QED
  BY <1>1, <1>2, RequestInv, CallStepInv DEF Next

THEOREM Invariance == Spec => []IInv
BY InitInv, NextInv, PTL DEF Spec

\* The variables keep their types.
THEOREM TypeCorrect == Spec => []TypeOK
<1>1. IInv => TypeOK
  BY DEF IInv
<1>. QED
  BY <1>1, Invariance, PTL

\* One row per direction and key, whatever calls overlap or fail.
THEOREM UniqueRows == Spec => []IndexUnique
<1>1. IInv => IndexUnique
  BY DEF IInv
<1>. QED
  BY <1>1, Invariance, PTL

\* No decision, stale or not, changes the status of a follow.
THEOREM FollowsAccepted == Spec => []FollowStaysAccepted
<1>1. IInv => FollowStaysAccepted
  BY DEF IInv
<1>. QED
  BY <1>1, Invariance, PTL

\* How a step can change the table: only SetStatus changes the status of a
\* row that stays, and only Insert adds a key, a fresh one.
LEMMA TableSteps ==
  ASSUME IInv, [Next]_vars
  PROVE  \/ connections' \subseteq connections
         \/ \E c \in Calls : SetStatus(c)
         \/ \E new : /\ connections' = connections \cup {new}
                     /\ new.id \notin issued
<1>1. ASSUME NEW c \in Calls, Insert(c), ~(connections' \subseteq connections)
      PROVE  \E new : connections' = connections \cup {new} /\ new.id \notin issued
  <2>1. PICK id \in RowIds \ issued :
          connections' = connections \cup
            {[id |-> id, requesterId |-> arg[c].pair[1], addresseeId |-> arg[c].pair[2],
              type |-> arg[c].want,
              status |-> IF arg[c].want = "follow" THEN "accepted" ELSE "pending"]}
    BY <1>1 DEF Insert
  <2> DEFINE new == [id |-> id, requesterId |-> arg[c].pair[1], addresseeId |-> arg[c].pair[2],
                     type |-> arg[c].want,
                     status |-> IF arg[c].want = "follow" THEN "accepted" ELSE "pending"]
  <2>2. new.id = id /\ connections' = connections \cup {new}
    BY <2>1
  <2>. QED
    BY <2>1, <2>2
<1>2. ASSUME NEW c \in Calls, Request(c) PROVE connections' = connections
  BY <1>2 DEF Request, CreateConnection, Decide, RemoveConnection, BlockUser, UnblockUser, Begin
<1>3. ASSUME NEW c \in Calls, CallStep(c), ~Insert(c), ~SetStatus(c)
      PROVE  connections' \subseteq connections
  BY <1>3 DEF CallStep, DbStep, FindNone, FindExisting, AutoAccept, Notify, Delete, InsertBlock,
              FindToRemove, DeleteBlock, Flush1, Flush2
<1>4. CASE UNCHANGED vars \/ \E c \in Calls : Fail(c)
  BY <1>4 DEF vars, Fail
<1>. QED
  BY <1>1, <1>2, <1>3, <1>4 DEF Next

\* The rows after SetStatus(c), seen from the rows before.
LEMMA SetStatusRows ==
  ASSUME IInv, NEW c \in Calls, SetStatus(c)
  PROVE  \A t \in connections' : \E r \in connections :
           t.id = r.id /\ (r.id = arg[c].row.id \/ t = r)
<1>1. arg[c].row.id \in RowIds /\ arg[c].want \in Statuses
  BY DEF SetStatus, IInv, Carries, Connection
<1>2. connections' = UpdateStatus(arg[c].row.id, arg[c].want)
  BY DEF SetStatus
<1>. QED
  BY <1>1, <1>2, UpdateStatusRows DEF IInv

\* Only the addressee of a friend request decides it.
THEOREM OnlyAddresseeDecides == Spec => AddresseeDecides
<1> DEFINE A == \A r \in connections, s \in connections' :
                  r.id = s.id /\ r.status # s.status =>
                    /\ r.type = "friendship"
                    /\ \E c \in Calls : pc[c] = "setStatus" /\ pc'[c] # "setStatus"
                                        /\ arg[c].by = r.addresseeId
<1>1. IInv /\ [Next]_vars => A
  <2> SUFFICES ASSUME IInv, [Next]_vars, NEW r \in connections, NEW s \in connections',
                      r.id = s.id, r.status # s.status
               PROVE  /\ r.type = "friendship"
                      /\ \E c \in Calls : pc[c] = "setStatus" /\ pc'[c] # "setStatus"
                                          /\ arg[c].by = r.addresseeId
    OBVIOUS
  <2>1. r.id \in issued /\ \A t \in connections : t.id = r.id => t = r
    BY DEF IInv, IndexUnique
  <2>2. CASE connections' \subseteq connections
    BY <2>1, <2>2
  <2>3. ASSUME NEW new, connections' = connections \cup {new}, new.id \notin issued
        PROVE  FALSE
    BY <2>1, <2>3
  <2>4. ASSUME NEW c \in Calls, SetStatus(c)
        PROVE  /\ r.type = "friendship" /\ pc[c] = "setStatus" /\ pc'[c] # "setStatus"
               /\ arg[c].by = r.addresseeId
    <3>1. r.id = arg[c].row.id
      BY <2>1, <2>4, SetStatusRows
    <3>2. pc[c] = "setStatus" /\ pc'[c] # "setStatus"
      BY <2>4 DEF SetStatus, Goto, IInv, TypeOK
    <3>. QED
      BY <3>1, <3>2 DEF IInv, Carries
  <2>. QED
    BY <2>2, <2>3, <2>4, TableSteps
<1>. QED
  BY <1>1, Invariance, PTL DEF Spec, AddresseeDecides

\* What has been removed stays removed.
THEOREM RemovedForGood == Spec => NoResurrection
<1> DEFINE A == \A id \in issued : id \in Ids(connections') => id \in Ids(connections)
<1>1. IInv /\ [Next]_vars => A
  <2> SUFFICES ASSUME IInv, [Next]_vars, NEW id \in issued, NEW t \in connections', t.id = id
               PROVE  \E r \in connections : r.id = id
    BY DEF Ids
  <2>1. ASSUME NEW c \in Calls, SetStatus(c) PROVE \E r \in connections : r.id = id
    BY <2>1, SetStatusRows
  <2>. QED
    BY <2>1, TableSteps
<1>. QED
  BY <1>1, Invariance, PTL DEF Spec, NoResurrection

--------------------------------------------------------------------------------
(***************************************************************************)
(* What holds while calls do not overlap: one row for two users, none      *)
(* between two that block each other, and the promise of Relationships.    *)
(* None of it is inductive: a call acts on what it has found some awaits   *)
(* before, so that SInv says that it is still so.                          *)
(***************************************************************************)
Serial == \A c, d \in Calls : c = d

\* What the call in progress has found, and no other has changed since.
StillTrue(c) ==
  /\ pc[c] \in {"findBetween", "insert"} => ~IsBlocked(arg[c].pair[1], arg[c].pair[2])
  /\ pc[c] = "insert" => Between(arg[c].pair[1], arg[c].pair[2]) = {}
  /\ pc[c] = "setStatus" => arg[c].row \in connections /\ arg[c].row.status = "pending"
  /\ pc[c] = "delete" => arg[c].row \in Between(arg[c].pair[1], arg[c].pair[2])
  /\ pc[c] = "insertBlock" => arg[c].pair[1] # arg[c].pair[2]

SInv ==
  /\ IInv
  /\ OneRowPerPair
  /\ \A r \in connections : r.requesterId # r.addresseeId
  /\ MayFail \/ BlockSevers
  /\ \A c \in Calls : StillTrue(c)

LEMMA InitSInv == Init => SInv
BY InitInv DEF Init, SInv, OneRowPerPair, BlockSevers, StillTrue, IsBlocked, Between

\* A step of the one call that leaves the tables alone.  It must not be one on
\* its way to remove a row on account of a block.
LEMMA TablesSame ==
  ASSUME Serial, SInv, NEW c \in Calls, IInv', UNCHANGED <<connections, blocks>>,
         pc[c] \notin {"findToRemove", "delete"}, StillTrue(c)'
  PROVE  SInv'
<1>1. MayFail \/ BlockSevers'
  <2> SUFFICES ASSUME ~MayFail, NEW u \in Users, NEW v \in Users,
                      IsBlocked(u, v), Between(u, v) # {}
               PROVE  FALSE
    BY DEF BlockSevers, IsBlocked, Between
  <2>1. PICK d \in Calls : pc[d] \in {"findToRemove", "delete"}
    BY DEF SInv, BlockSevers, Severing
  <2> QED BY <2>1 DEF Serial
<1>2. \A d \in Calls : StillTrue(d)'
  BY DEF Serial
<1> QED BY <1>1, <1>2 DEF SInv, OneRowPerPair

LEMMA RequestSInv ==
  ASSUME Serial, SInv, NEW c \in Calls, Request(c)
  PROVE  SInv'
<1>1. IInv' /\ pc[c] = "idle" /\ UNCHANGED <<connections, blocks>>
  BY RequestInv
     DEF SInv, Request, CreateConnection, Decide, RemoveConnection, BlockUser, UnblockUser, Begin
<1>2. ASSUME NEW label \in PCs, NEW by, NEW pair \in Users \X Users, NEW want, NEW row,
             Begin(c, label, by, pair, want, row),
             label = "findBetween" => ~IsBlocked(pair[1], pair[2]),
             label = "setStatus" => row \in connections /\ row.status = "pending",
             label = "delete" => row \in Between(pair[1], pair[2]),
             label = "insertBlock" => pair[1] # pair[2],
             label # "insert"
      PROVE  StillTrue(c)'
  <2>1. pc'[c] = label /\ arg'[c] = [by |-> by, pair |-> pair, want |-> want, row |-> row]
    BY <1>2 DEF Begin, Goto, SInv, IInv, TypeOK
  <2>2. arg'[c].pair = pair /\ arg'[c].row = row
    BY <2>1
  <2> QED BY <1>1, <1>2, <2>1, <2>2 DEF StillTrue, IsBlocked, Between
<1>3. StillTrue(c)'
  <2>1. ASSUME NEW u \in Users, NEW o \in Users, NEW t \in Types, CreateConnection(c, u, o, t)
        PROVE  StillTrue(c)'
    BY <2>1, <1>2 DEF CreateConnection, PCs
  <2>2. \A r \in connections : Ends(r) \in Users \X Users /\ r \in Between(Ends(r)[1], Ends(r)[2])
    BY DEF SInv, IInv, TypeOK, Connection, Ends, Between
  <2>3. ASSUME NEW u \in Users, NEW r \in connections, NEW s \in Statuses, Decide(c, u, r, s)
        PROVE  StillTrue(c)'
    BY <2>2, <2>3, <1>2 DEF Decide, PCs
  <2>4. ASSUME NEW u \in Users, NEW r \in connections, RemoveConnection(c, u, r)
        PROVE  StillTrue(c)'
    BY <2>2, <2>4, <1>2 DEF RemoveConnection, PCs
  <2>5. ASSUME NEW u \in Users, NEW o \in Users, BlockUser(c, u, o)
        PROVE  StillTrue(c)'
    BY <2>5, <1>2 DEF BlockUser, PCs
  <2>6. ASSUME NEW u \in Users, NEW o \in Users, UnblockUser(c, u, o)
        PROVE  StillTrue(c)'
    BY <2>6, <1>2 DEF UnblockUser, PCs
  <2> QED BY <2>1, <2>3, <2>4, <2>5, <2>6 DEF Request
<1> QED BY <1>1, <1>3, TablesSame

\* A call that moves on without the tables, to an await where it need not know
\* anything of them.
LEMMA MoveSInv ==
  ASSUME Serial, SInv, NEW c \in Calls, IInv', UNCHANGED <<connections, blocks>>,
         pc[c] \notin {"findToRemove", "delete"},
         NEW label \in {"idle", "findById", "notify", "flush1", "flush2"}, Goto(c, label)
  PROVE  SInv'
<1>1. pc'[c] = label
  BY DEF Goto, SInv, IInv, TypeOK
<1>2. StillTrue(c)'
  BY <1>1 DEF StillTrue
<1> QED BY <1>2, TablesSame

LEMMA FindSInv ==
  ASSUME Serial, SInv, NEW c \in Calls,
         FindNone(c) \/ (\E r \in connections : FindExisting(c, r)) \/ AutoAccept(c)
  PROVE  SInv'
<1>1. IInv' /\ UNCHANGED <<connections, blocks>> /\ pc[c] \in {"findBetween", "findById"}
  BY FindInv, AutoAcceptInv DEF SInv, FindNone, FindExisting, AutoAccept
<1>2. CASE FindNone(c)
  <2>1. pc'[c] = "insert" /\ arg' = arg
    BY <1>2 DEF FindNone, Goto, SInv, IInv, TypeOK
  <2>2. StillTrue(c)'
    BY <1>1, <1>2, <2>1 DEF FindNone, SInv, StillTrue, IsBlocked, Between
  <2> QED BY <1>1, <2>2, TablesSame
<1>3. CASE \E label \in {"idle", "findById"} : Goto(c, label)
  BY <1>1, <1>3, MoveSInv
<1>4. ASSUME NEW r \in connections, r.status = "pending", Goto(c, "setStatus"),
             arg' = [arg EXCEPT ![c] = [by |-> @.by, pair |-> Ends(r),
                                        want |-> "accepted", row |-> r]]
      PROVE  SInv'
  <2>1. pc'[c] = "setStatus" /\ arg'[c].row = r
    BY <1>4 DEF Goto, SInv, IInv, TypeOK
  <2>2. StillTrue(c)'
    BY <1>1, <1>4, <2>1 DEF StillTrue
  <2> QED BY <1>1, <2>2, TablesSame
<1> QED BY <1>2, <1>3, <1>4 DEF FindExisting, AutoAccept, Finish

\* The new row is the only one between two users who do not block each other.
LEMMA InsertSInv ==
  ASSUME Serial, SInv, NEW c \in Calls, Insert(c)
  PROVE  SInv'
<1> DEFINE u == arg[c].pair[1]
           o == arg[c].pair[2]
<1>1. IInv' /\ pc[c] = "insert" /\ blocks' = blocks
  BY InsertInv DEF SInv, Insert
<1>2. CASE Finish(c) /\ UNCHANGED connections
  BY <1>1, <1>2, MoveSInv DEF Finish
<1>3. ASSUME NEW new, connections' = connections \cup {new}, Ends(new) = <<u, o>>, Goto(c, "notify")
      PROVE  SInv'
  <2>1. /\ new.requesterId = u /\ new.addresseeId = o /\ u # o
        /\ Between(u, o) = {} /\ ~IsBlocked(u, o)
    BY <1>1, <1>3 DEF Ends, SInv, IInv, Carries, StillTrue
  <2> HIDE DEF u, o
  <2>2. OneRowPerPair'
    BY <1>3, <2>1 DEF SInv, OneRowPerPair, Between
  <2>3. (\A r \in connections : r.requesterId # r.addresseeId)'
    BY <1>3, <2>1 DEF SInv
  <2>4. MayFail \/ BlockSevers'
    <3> SUFFICES ASSUME ~MayFail, NEW v \in Users, NEW w \in Users,
                        IsBlocked(v, w), Between(v, w)' # {}
                 PROVE  FALSE
      BY <1>1 DEF BlockSevers, IsBlocked
    <3>1. CASE {v, w} = {u, o}
      BY <2>1, <3>1 DEF IsBlocked
    <3>2. CASE {v, w} # {u, o}
      <4>1. Between(v, w) # {}
        BY <1>3, <2>1, <3>2 DEF Between
      <4> QED BY <1>1, <4>1 DEF SInv, BlockSevers, Severing, Serial
    <3> QED BY <3>1, <3>2
  <2>5. pc'[c] = "notify"
    BY <1>3 DEF Goto, SInv, IInv, TypeOK
  <2>6. \A d \in Calls : StillTrue(d)'
    BY <2>5 DEF Serial, StillTrue
  <2> QED BY <1>1, <2>2, <2>3, <2>4, <2>6 DEF SInv
<1>4. ASSUME NEW id \in RowIds,
             connections' = connections \cup
               {[id |-> id, requesterId |-> u, addresseeId |-> o, type |-> arg[c].want,
                 status |-> IF arg[c].want = "follow" THEN "accepted" ELSE "pending"]},
             Goto(c, "notify")
      PROVE  SInv'
  <2> DEFINE new == [id |-> id, requesterId |-> u, addresseeId |-> o, type |-> arg[c].want,
                     status |-> IF arg[c].want = "follow" THEN "accepted" ELSE "pending"]
  <2>1. Ends(new) = <<u, o>>
    BY DEF Ends
  <2> QED BY <1>3, <1>4, <2>1
<1> QED BY <1>2, <1>4 DEF Insert

LEMMA SetStatusSInv ==
  ASSUME Serial, SInv, NEW c \in Calls, SetStatus(c)
  PROVE  SInv'
<1>1. IInv' /\ pc[c] = "setStatus" /\ blocks' = blocks
  BY SetStatusInv DEF SInv, SetStatus
<1>2. \A t \in connections' : \E r \in connections :
        t.id = r.id /\ t.requesterId = r.requesterId /\ t.addresseeId = r.addresseeId
  <2>1. arg[c].row.id \in RowIds /\ arg[c].want \in Statuses
    BY <1>1 DEF SInv, IInv, Carries, Connection
  <2> QED BY <2>1, UpdateStatusRows DEF SetStatus, SInv, IInv
<1>3. OneRowPerPair'
  BY <1>1, <1>2 DEF SInv, IInv, IndexUnique, OneRowPerPair
<1>4. (\A r \in connections : r.requesterId # r.addresseeId)'
  BY <1>2 DEF SInv
<1>5. \A v, w \in Users : Between(v, w)' # {} => Between(v, w) # {}
  BY <1>2 DEF Between
<1>6. MayFail \/ BlockSevers'
  BY <1>1, <1>5 DEF SInv, BlockSevers, Severing, IsBlocked, Serial
<1>7. pc'[c] \in {"notify", "flush1"}
  BY DEF SetStatus, Goto, SInv, IInv, TypeOK
<1>8. \A d \in Calls : StillTrue(d)'
  BY <1>7 DEF Serial, StillTrue
<1> QED BY <1>1, <1>3, <1>4, <1>6, <1>8 DEF SInv

\* The row that is deleted is the one between the two users of the call.
LEMMA DeleteSInv ==
  ASSUME Serial, SInv, NEW c \in Calls, Delete(c)
  PROVE  /\ SInv'
         /\ connections' = connections \ {arg[c].row}
         /\ arg[c].row \in Between(arg[c].pair[1], arg[c].pair[2])
         /\ Between(arg[c].pair[1], arg[c].pair[2])' = {}
<1> DEFINE u == arg[c].pair[1]
           o == arg[c].pair[2]
<1>1. IInv' /\ pc[c] = "delete" /\ blocks' = blocks /\ arg' = arg
  BY DeleteInv DEF SInv, Delete
<1>2. arg[c].row \in Between(u, o)
  BY <1>1 DEF SInv, StillTrue
<1>3. connections' = connections \ {arg[c].row}
  BY <1>2 DEF Delete, SInv, IInv, IndexUnique, Between
<1>4. Between(u, o)' = {}
  BY <1>1, <1>2, <1>3 DEF SInv, OneRowPerPair, Between
<1>5. OneRowPerPair' /\ (\A r \in connections : r.requesterId # r.addresseeId)'
  BY <1>3 DEF SInv, OneRowPerPair
<1>6. MayFail \/ BlockSevers'
  <2> SUFFICES ASSUME ~MayFail, NEW v \in Users, NEW w \in Users,
                      IsBlocked(v, w), Between(v, w)' # {}
               PROVE  FALSE
    BY <1>1 DEF BlockSevers, IsBlocked
  <2>1. Between(v, w) # {}
    BY <1>3 DEF Between
  <2>2. {u, o} = {v, w}
    BY <2>1 DEF SInv, BlockSevers, Severing, Serial
  <2> QED BY <1>1, <1>4, <2>2 DEF Between
<1>7. pc'[c] = "flush1"
  BY DEF Delete, Goto, SInv, IInv, TypeOK
<1>8. \A d \in Calls : StillTrue(d)'
  BY <1>7 DEF Serial, StillTrue
<1>9. SInv'
  BY <1>1, <1>5, <1>6, <1>8 DEF SInv
<1> QED BY <1>2, <1>3, <1>4, <1>9

\* A block is inserted with the call that severs its users, or lifted.
LEMMA BlockSInv ==
  ASSUME Serial, SInv, NEW c \in Calls, InsertBlock(c) \/ DeleteBlock(c)
  PROVE  SInv'
<1>1. IInv' /\ connections' = connections /\ pc[c] \in {"insertBlock", "deleteBlock"}
  BY BlockInv DEF SInv, InsertBlock, DeleteBlock
<1>2. CASE Finish(c) /\ UNCHANGED blocks
  BY <1>1, <1>2, MoveSInv DEF Finish
<1>3. CASE blocks' = blocks \cup {arg[c].pair} /\ Goto(c, "findToRemove") /\ UNCHANGED arg
  <2>1. pc'[c] = "findToRemove"
    BY <1>3 DEF Goto, SInv, IInv, TypeOK
  <2>2. MayFail \/ BlockSevers'
    <3> SUFFICES ASSUME ~MayFail, NEW v \in Users, NEW w \in Users,
                        IsBlocked(v, w)', Between(v, w) # {}
                 PROVE  Severing(v, w)'
      BY <1>1 DEF BlockSevers, Between
    <3>1. ~IsBlocked(v, w)
      BY <1>1 DEF SInv, BlockSevers, Severing, Serial
    <3>2. arg[c].pair \in {<<v, w>>, <<w, v>>}
      BY <1>3, <3>1 DEF IsBlocked
    <3> QED BY <1>3, <2>1, <3>2 DEF Severing
  <2>3. \A d \in Calls : StillTrue(d)'
    BY <2>1 DEF Serial, StillTrue
  <2> QED BY <1>1, <2>2, <2>3 DEF SInv, OneRowPerPair
<1>4. CASE DeleteBlock(c)
  <2>1. pc'[c] = "flush1" /\ blocks' = blocks \ {arg[c].pair}
    BY <1>4 DEF DeleteBlock, Goto, SInv, IInv, TypeOK
  <2>2. MayFail \/ BlockSevers'
    BY <1>1, <2>1 DEF SInv, BlockSevers, Severing, IsBlocked, Between, Serial
  <2>3. \A d \in Calls : StillTrue(d)'
    BY <2>1 DEF Serial, StillTrue
  <2> QED BY <1>1, <2>2, <2>3 DEF SInv, OneRowPerPair
<1> QED BY <1>2, <1>3, <1>4 DEF InsertBlock

\* It severs the users of its block, and finds the row between them if any.
LEMMA FindToRemoveSInv ==
  ASSUME Serial, SInv, NEW c \in Calls, FindToRemove(c)
  PROVE  SInv'
<1> DEFINE u == arg[c].pair[1]
           o == arg[c].pair[2]
<1>1. /\ IInv' /\ UNCHANGED <<connections, blocks>> /\ pc[c] = "findToRemove"
      /\ arg[c] \in Arg
  BY FindToRemoveInv DEF SInv, FindToRemove, IInv, Carries
<1>2. ASSUME NEW v \in Users, NEW w \in Users, ~MayFail, IsBlocked(v, w), Between(v, w) # {}
      PROVE  {u, o} = {v, w}
  BY <1>2 DEF SInv, BlockSevers, Severing, Serial
<1>3. ASSUME NEW r \in Between(u, o), Goto(c, "delete"), arg' = [arg EXCEPT ![c].row = r]
      PROVE  SInv'
  <2>1. pc'[c] = "delete" /\ arg'[c].row = r /\ arg'[c].pair = arg[c].pair
    BY <1>1, <1>3 DEF Goto, SInv, IInv, TypeOK, Arg
  <2>2. StillTrue(c)'
    BY <1>1, <2>1 DEF StillTrue, Between
  <2>3. MayFail \/ BlockSevers'
    <3> SUFFICES ASSUME ~MayFail, NEW v \in Users, NEW w \in Users,
                        IsBlocked(v, w), Between(v, w) # {}
                 PROVE  Severing(v, w)'
      BY <1>1 DEF BlockSevers, IsBlocked, Between
    <3>1. {u, o} = {v, w}
      BY <1>2
    <3> QED BY <2>1, <3>1 DEF Severing
  <2> QED BY <1>1, <2>2, <2>3 DEF SInv, OneRowPerPair, Serial
<1>4. CASE Between(u, o) = {} /\ Goto(c, "flush1") /\ UNCHANGED arg
  <2>1. pc'[c] = "flush1"
    BY <1>4 DEF Goto, SInv, IInv, TypeOK
  <2>2. MayFail \/ BlockSevers'
    <3> SUFFICES ASSUME ~MayFail, NEW v \in Users, NEW w \in Users,
                        IsBlocked(v, w), Between(v, w) # {}
                 PROVE  FALSE
      BY <1>1 DEF BlockSevers, IsBlocked, Between
    <3> QED BY <1>2, <1>4 DEF Between
  <2>3. \A d \in Calls : StillTrue(d)'
    BY <2>1 DEF Serial, StillTrue
  <2> QED BY <1>1, <2>2, <2>3 DEF SInv, OneRowPerPair
<1> QED BY <1>3, <1>4 DEF FindToRemove, Between

LEMMA FailSInv ==
  ASSUME Serial, SInv, NEW c \in Calls, Fail(c)
  PROVE  SInv'
<1>1. IInv' /\ UNCHANGED <<connections, blocks>> /\ MayFail /\ pc'[c] = "idle"
  BY FinishInv DEF Fail, SInv, Finish, Goto, IInv, TypeOK
<1> QED BY <1>1 DEF SInv, OneRowPerPair, StillTrue, Serial

LEMMA NextSInv == Serial /\ SInv /\ [Next]_vars => SInv'
<1> SUFFICES ASSUME Serial, SInv, [Next]_vars PROVE SInv'
  OBVIOUS
<1>1. CASE UNCHANGED vars
  <2>1. IInv' /\ OneRowPerPair' /\ (\A r \in connections : r.requesterId # r.addresseeId)'
    BY <1>1, NextInv DEF SInv, vars, OneRowPerPair
  <2>2. MayFail \/ BlockSevers'
    BY <1>1 DEF SInv, vars, BlockSevers, Severing, IsBlocked, Between
  <2>3. (\A c \in Calls : StillTrue(c))'
    BY <1>1 DEF SInv, vars, StillTrue, IsBlocked, Between
  <2> QED BY <2>1, <2>2, <2>3 DEF SInv
<1>2. ASSUME NEW c \in Calls, Notify(c) \/ Flush1(c) \/ Flush2(c) PROVE SInv'
  <2>1. IInv' /\ UNCHANGED <<connections, blocks>> /\ pc[c] \in {"notify", "flush1", "flush2"}
    BY <1>2, CallStepInv DEF SInv, CallStep, DbStep, Notify, Flush1, Flush2
  <2> QED BY <1>2, <2>1, MoveSInv DEF Notify, Flush1, Flush2, Finish
<1> QED BY <1>1, <1>2, RequestSInv, FindSInv, InsertSInv, SetStatusSInv, DeleteSInv, BlockSInv,
           FindToRemoveSInv, FailSInv DEF Next, CallStep, DbStep

LEMMA SerialInvariance == ASSUME Serial PROVE Spec => []SInv
<1>1. SInv /\ [Next]_vars => SInv'
  BY NextSInv
<1> QED BY <1>1, InitSInv, PTL DEF Spec

\* Calls that do not overlap never leave two rows between two users, in
\* whichever direction and whichever awaits fail.
THEOREM OneRowAlone == ASSUME Serial PROVE Spec => []OneRowPerPair
<1>1. SInv => OneRowPerPair
  BY DEF SInv
<1> QED BY <1>1, SerialInvariance, PTL

\* If no await fails either, two users with a block between them have no row,
\* except while the call that inserted the block is about to remove it.
THEOREM BlockSeversAlone == ASSUME Serial, ~MayFail PROVE Spec => []BlockSevers
<1>1. SInv => BlockSevers
  BY DEF SInv
<1> QED BY <1>1, SerialInvariance, PTL

--------------------------------------------------------------------------------
(***************************************************************************)
(* The refinement.  The link of two users who do not block each other is   *)
(* their row; a step of Connections is one of Relationships on the link of *)
(* the pair it writes, and leaves the links of all other pairs alone.      *)
(***************************************************************************)
\* The call acts for the first of the two users it carries, once it has come
\* to write their row or a block; a removal, for either.
ActsFor(c) ==
  /\ pc[c] \in {"findBetween", "insert", "insertBlock", "findToRemove", "deleteBlock"} =>
       arg[c].by = arg[c].pair[1]
  /\ pc[c] = "delete" => arg[c].by \in {arg[c].pair[1], arg[c].pair[2]}

AllAct == \A c \in Calls : ActsFor(c)

LEMMA BeginActs ==
  ASSUME IInv, NEW c \in Calls, NEW label \in PCs, NEW by, NEW pair, NEW want, NEW row,
         Begin(c, label, by, pair, want, row),
         label # "delete" => by = pair[1] \/ label = "setStatus",
         label = "delete" => by \in {pair[1], pair[2]}
  PROVE  ActsFor(c)'
<1>1. pc'[c] = label /\ arg'[c] = [by |-> by, pair |-> pair, want |-> want, row |-> row]
  BY DEF Begin, Goto, IInv, TypeOK
<1> QED BY <1>1 DEF ActsFor

LEMMA RequestActs ==
  ASSUME IInv, NEW c \in Calls, Request(c)
  PROVE  ActsFor(c)'
<1>1. ASSUME NEW u \in Users, NEW o \in Users, NEW t \in Types, CreateConnection(c, u, o, t)
      PROVE  ActsFor(c)'
  BY <1>1, BeginActs DEF CreateConnection, PCs
<1>2. ASSUME NEW u \in Users, NEW r \in connections, NEW s \in Statuses, Decide(c, u, r, s)
      PROVE  ActsFor(c)'
  BY <1>2, BeginActs DEF Decide, PCs
<1>3. ASSUME NEW u \in Users, NEW r \in connections, RemoveConnection(c, u, r)
      PROVE  ActsFor(c)'
  <2>1. Ends(r)[1] = r.requesterId /\ Ends(r)[2] = r.addresseeId
    BY DEF Ends
  <2>2. Begin(c, "delete", u, Ends(r), "remove", r) /\ u \in {Ends(r)[1], Ends(r)[2]}
    BY <1>3, <2>1 DEF RemoveConnection, IsParty
  <2> QED BY <2>2, BeginActs DEF PCs
<1>4. ASSUME NEW u \in Users, NEW o \in Users, BlockUser(c, u, o) \/ UnblockUser(c, u, o)
      PROVE  ActsFor(c)'
  BY <1>4, BeginActs DEF BlockUser, UnblockUser, PCs
<1> QED BY <1>1, <1>2, <1>3, <1>4 DEF Request

\* A step of a call that has begun keeps the user it acts for and the pair.
LEMMA StepActs ==
  ASSUME IInv, NEW c \in Calls, ActsFor(c), CallStep(c) \/ Fail(c)
  PROVE  ActsFor(c)'
<1>1. CASE Finish(c)
  <2>1. pc'[c] = "idle"
    BY <1>1 DEF Finish, Goto, IInv, TypeOK
  <2> QED BY <2>1 DEF ActsFor
<1>2. CASE FindNone(c)
  <2>1. pc[c] = "findBetween" /\ pc'[c] = "insert" /\ arg' = arg
    BY <1>2 DEF FindNone, Goto, IInv, TypeOK
  <2> QED BY <2>1 DEF ActsFor
<1>3. CASE \E label \in {"findById", "setStatus", "notify", "flush1", "flush2"} : Goto(c, label)
  <2>1. pc'[c] \in {"findById", "setStatus", "notify", "flush1", "flush2"}
    BY <1>3 DEF Goto, IInv, TypeOK
  <2> QED BY <2>1 DEF ActsFor
<1>4. CASE InsertBlock(c) /\ Goto(c, "findToRemove") /\ UNCHANGED arg
  <2>1. pc[c] = "insertBlock" /\ pc'[c] = "findToRemove" /\ arg' = arg
    BY <1>4 DEF InsertBlock, Goto, IInv, TypeOK
  <2> QED BY <2>1 DEF ActsFor
<1>5. ASSUME NEW r, FindToRemove(c), Goto(c, "delete"), arg' = [arg EXCEPT ![c].row = r]
      PROVE  ActsFor(c)'
  <2>1. pc[c] = "findToRemove" /\ pc'[c] = "delete" /\ arg[c] \in Arg
    BY <1>5 DEF FindToRemove, Goto, IInv, TypeOK, Carries
  <2>2. arg'[c].by = arg[c].by /\ arg'[c].pair = arg[c].pair
    BY <1>5, <2>1 DEF IInv, TypeOK, Arg
  <2> QED BY <2>1, <2>2 DEF ActsFor
<1>6. CASE (\E r \in connections : FindExisting(c, r)) \/ AutoAccept(c)
  BY <1>1, <1>3, <1>6 DEF FindExisting, AutoAccept
<1>7. CASE Insert(c) \/ SetStatus(c) \/ Notify(c) \/ Delete(c) \/ DeleteBlock(c)
  BY <1>1, <1>3, <1>7 DEF Insert, SetStatus, Notify, Delete, DeleteBlock
<1>8. CASE InsertBlock(c)
  BY <1>1, <1>4, <1>8 DEF InsertBlock
<1>9. CASE FindToRemove(c)
  BY <1>3, <1>5, <1>9 DEF FindToRemove
<1>10. CASE Flush1(c) \/ Flush2(c) \/ Fail(c)
  BY <1>1, <1>3, <1>10 DEF Flush1, Flush2, Fail
<1> QED BY <1>2, <1>6, <1>7, <1>8, <1>9, <1>10 DEF CallStep, DbStep

\* A step of a call leaves the arguments of the others alone.
LEMMA OthersAct ==
  ASSUME IInv, NEW c \in Calls, Request(c) \/ CallStep(c) \/ Fail(c),
         NEW d \in Calls, d # c, ActsFor(d)
  PROVE  ActsFor(d)'
<1>1. pc'[d] = pc[d]
  BY DEF IInv, TypeOK, Goto, Finish, Begin, Request, CreateConnection, Decide, RemoveConnection,
         BlockUser, UnblockUser, CallStep, DbStep, FindNone, FindExisting, AutoAccept, Insert,
         SetStatus, Notify, Delete, InsertBlock, FindToRemove, DeleteBlock, Flush1, Flush2, Fail
<1>2. arg'[d] = arg[d]
  BY DEF IInv, TypeOK, Goto, Finish, Begin, Request, CreateConnection, Decide, RemoveConnection,
         BlockUser, UnblockUser, CallStep, DbStep, FindNone, FindExisting, AutoAccept, Insert,
         SetStatus, Notify, Delete, InsertBlock, FindToRemove, DeleteBlock, Flush1, Flush2, Fail
<1> QED BY <1>1, <1>2 DEF ActsFor

LEMMA ActorInvariance == Spec => []AllAct
<1>1. Init => AllAct
  BY DEF Init, AllAct, ActsFor
<1>2. IInv /\ AllAct /\ [Next]_vars => AllAct'
  <2> SUFFICES ASSUME IInv, AllAct, [Next]_vars PROVE AllAct'
    OBVIOUS
  <2>1. CASE UNCHANGED vars
    BY <2>1 DEF AllAct, ActsFor, vars
  <2>2. ASSUME NEW c \in Calls, Request(c) \/ CallStep(c) \/ Fail(c)
        PROVE  AllAct'
    BY <2>2, RequestActs, StepActs, OthersAct DEF AllAct
  <2> QED BY <2>1, <2>2 DEF Next
<1> QED BY <1>1, <1>2, Invariance, PTL DEF Spec

View(r) == [from |-> r.requesterId, type |-> r.type, status |-> r.status]

LinkIsRow ==
  \A u, v \in Users : ~IsBlocked(u, v) =>
    \A r \in Between(u, v) : LinkOf({u, v}) = View(r) /\ View(r) # NoRow /\ u # v

LinkHidden ==
  \A u, v \in Users :
    u = v \/ IsBlocked(u, v) \/ Between(u, v) = {} => LinkOf({u, v}) = NoRow

LEMMA RowLinked == SInv => LinkIsRow
<1> SUFFICES ASSUME SInv, NEW u \in Users, NEW v \in Users, ~IsBlocked(u, v),
                    NEW r \in Between(u, v)
             PROVE  LinkOf({u, v}) = View(r) /\ View(r) # NoRow /\ u # v
  BY DEF LinkIsRow
<1>1. r \in Connection /\ u # v /\ r \in connections /\ {r.requesterId, r.addresseeId} = {u, v}
  BY DEF SInv, IInv, TypeOK, Between
<1>2. \A s \in connections : {s.requesterId, s.addresseeId} = {u, v} => s = r
  BY <1>1 DEF SInv, OneRowPerPair
<1>3. (CHOOSE s \in connections : {s.requesterId, s.addresseeId} = {u, v}) = r
  BY <1>1, <1>2
<1>4. \E x, y \in {u, v} : x # y /\ ~IsBlocked(x, y) /\ Between(x, y) # {}
  BY <1>1
<1>5. LinkOf({u, v}) = View(r)
  BY <1>3, <1>4 DEF LinkOf, View
<1>6. View(r) # NoRow
  BY <1>1, ConnectionsAssumption DEF View, Connection
<1> QED BY <1>1, <1>5, <1>6

LEMMA NoneLinked == LinkHidden
<1> SUFFICES ASSUME NEW u \in Users, NEW v \in Users, u = v \/ IsBlocked(u, v) \/ Between(u, v) = {}
             PROVE  LinkOf({u, v}) = NoRow
  BY DEF LinkHidden
<1>1. ~ \E x, y \in {u, v} : x # y /\ ~IsBlocked(x, y) /\ Between(x, y) # {}
  BY DEF IsBlocked, Between
<1> QED BY <1>1 DEF LinkOf

\* Both of them before and after a step
LEMMA Linked ==
  ASSUME SInv, SInv'
  PROVE  LinkIsRow /\ LinkHidden /\ LinkIsRow' /\ LinkHidden'
<1>1. (SInv => LinkIsRow)'
  BY RowLinked, PTL
<1>2. LinkHidden'
  BY NoneLinked, PTL
<1> QED BY <1>1, <1>2, RowLinked, NoneLinked

\* A pair has the link it had when its rows and blocks are the ones it had.
LEMMA SameLink ==
  ASSUME SInv, SInv', NEW u \in Users, NEW v \in Users,
         Between(u, v)' = Between(u, v), IsBlocked(u, v)' = IsBlocked(u, v)
  PROVE  LinkOf({u, v})' = LinkOf({u, v})
<1>1. CASE IsBlocked(u, v) \/ Between(u, v) = {}
  BY <1>1, Linked DEF LinkHidden
<1>2. ASSUME ~IsBlocked(u, v), NEW r \in Between(u, v)
      PROVE  LinkOf({u, v})' = LinkOf({u, v})
  <2>1. LinkOf({u, v}) = View(r)
    BY <1>2, Linked DEF LinkIsRow
  <2>2. r \in Between(u, v)' /\ ~IsBlocked(u, v)'
    BY <1>2
  <2>3. LinkOf({u, v})' = View(r)'
    BY <2>2, Linked DEF LinkIsRow
  <2> QED BY <2>1, <2>3 DEF View
<1> QED BY <1>1, <1>2

\* One link is set, or none.
LEMMA OneLink ==
  ASSUME NEW u \in Users, NEW v \in Users, NEW l, LinkOf({u, v})' = l,
         \A w, x \in Users : {w, x} # {u, v} => LinkOf({w, x})' = LinkOf({w, x})
  PROVE  Links' = [Links EXCEPT ![{u, v}] = l]
<1> DEFINE Ps == {{w, x} : w, x \in Users}
<1>1. ASSUME NEW q \in Ps
      PROVE  LinkOf(q)' = IF q = {u, v} THEN l ELSE LinkOf(q)
  OBVIOUS
<1>2. {u, v} \in Ps
  OBVIOUS
<1>3. Links = [q \in Ps |-> LinkOf(q)] /\ Links' = [q \in Ps |-> LinkOf(q)']
  BY DEF Links
<1> HIDE DEF Ps
<1> QED BY <1>1, <1>2, <1>3

LEMMA NoLinkSet ==
  ASSUME \A u, v \in Users : LinkOf({u, v})' = LinkOf({u, v})
  PROVE  Links' = Links
<1>1. ASSUME NEW q \in {{u, v} : u, v \in Users}
      PROVE  LinkOf(q)' = LinkOf(q)
  OBVIOUS
<1> QED BY <1>1 DEF Links

\* A step as Relationships sees it
Seen == Promise!Next \/ UNCHANGED <<Links, blocks, ActingUsers>>

\* A call under way is one of a user who acts, and goes on acting while it is.
LEMMA CallerActs ==
  ASSUME IInv, NEW c \in Calls, pc[c] # "idle"
  PROVE  arg[c].by \in ActingUsers
BY DEF ActingUsers

LEMMA SameActing ==
  ASSUME IInv, NEW c \in Calls, pc[c] # "idle", NEW label \in PCs, label # "idle",
         Goto(c, label), UNCHANGED arg
  PROVE  UNCHANGED ActingUsers
<1>1. {d \in Calls : pc[d] # "idle"}' = {d \in Calls : pc[d] # "idle"}
  BY DEF Goto, IInv, TypeOK
<1> QED BY <1>1 DEF ActingUsers

LEMMA ActingAfter ==
  ASSUME SInv'
  PROVE  ActingUsers' \in SUBSET Users
BY DEF SInv, IInv, Carries, Arg, ActingUsers

LEMMA TablesSameSeen ==
  ASSUME SInv, SInv', UNCHANGED <<connections, blocks>>
  PROVE  Seen
<1>1. \A u, v \in Users : Between(u, v)' = Between(u, v) /\ IsBlocked(u, v)' = IsBlocked(u, v)
  BY DEF Between, IsBlocked
<1>2. Links' = Links
  BY <1>1, SameLink, NoLinkSet
<1>3. ActingUsers' \in SUBSET Users
  BY ActingAfter
<1> QED BY <1>2, <1>3 DEF Seen, Promise!Next, Promise!Turn

LEMMA InsertSeen ==
  ASSUME Serial, SInv, SInv', AllAct, NEW c \in Calls, Insert(c)
  PROVE  Seen
<1>1. PICK u \in Users, o \in Users, type \in Types :
        u = arg[c].pair[1] /\ o = arg[c].pair[2] /\ type = arg[c].want
  BY DEF Insert, SInv, IInv, Carries, Arg
<1>2. u # o /\ ~IsBlocked(u, o) /\ Between(u, o) = {} /\ blocks' = blocks
  BY <1>1 DEF Insert, SInv, IInv, Carries, StillTrue
<1> DEFINE status == IF type = "follow" THEN "accepted" ELSE "pending"
           link == [from |-> u, type |-> type, status |-> status]
<1>3. ASSUME NEW id \in RowIds,
             connections' = connections \cup
               {[id |-> id, requesterId |-> u, addresseeId |-> o, type |-> type,
                 status |-> status]},
             Goto(c, "notify"), UNCHANGED arg
      PROVE  Seen
  <2> DEFINE new == [id |-> id, requesterId |-> u, addresseeId |-> o, type |-> type,
                     status |-> status]
  <2>1. new \in Between(u, o)' /\ View(new) = link /\ ~IsBlocked(u, o)'
    BY <1>2, <1>3 DEF Between, View, IsBlocked
  <2>2. LinkOf({u, o})' = link
    BY <2>1, Linked DEF LinkIsRow, View
  <2>3. ASSUME NEW w \in Users, NEW x \in Users, {w, x} # {u, o}
        PROVE  LinkOf({w, x})' = LinkOf({w, x})
    <3>1. Between(w, x)' = Between(w, x) /\ IsBlocked(w, x)' = IsBlocked(w, x)
      BY <1>2, <1>3, <2>3 DEF Between, IsBlocked
    <3> QED BY <3>1, SameLink
  <2>4. Links' = [Links EXCEPT ![{u, o}] = link]
    BY <2>2, <2>3, OneLink
  <2>5. Links[{u, o}] = NoRow
    BY <1>2, Linked DEF LinkHidden, Links
  <2>a. u \in ActingUsers /\ UNCHANGED ActingUsers
    BY <1>1, <1>3, CallerActs, SameActing DEF AllAct, ActsFor, Insert, SInv, PCs
  <2>6. Promise!Ask(u, o) \/ Promise!Follow(u, o)
    <3>1. CASE type = "friendship"
      BY <1>2, <2>4, <2>5, <2>a, <3>1 DEF Promise!Ask, Promise!Set, Links
    <3>2. CASE type = "follow"
      BY <1>2, <2>4, <2>5, <2>a, <3>2 DEF Promise!Follow, Promise!Set, Links
    <3> QED BY <3>1, <3>2 DEF Types
  <2>7. ~Promise!Blocked(u, o)
    BY <1>2 DEF Promise!Blocked, IsBlocked
  <2> QED BY <2>6, <2>7 DEF Seen, Promise!Next
<1>4. CASE UNCHANGED connections
  BY <1>2, <1>4, TablesSameSeen
<1> QED BY <1>1, <1>3, <1>4 DEF Insert

\* The row a decision is about is still there, pending: it is answered.
LEMMA SetStatusSeen ==
  ASSUME Serial, ~MayFail, SInv, SInv', NEW c \in Calls, SetStatus(c)
  PROVE  Seen
<1>1. PICK row \in connections, s \in Statuses :
        row = arg[c].row /\ s = arg[c].want /\ row.status = "pending"
  BY DEF SetStatus, SInv, IInv, Carries, StillTrue
<1>2. PICK u \in Users, v \in Users : u = row.requesterId /\ v = row.addresseeId
  BY <1>1 DEF SInv, IInv, TypeOK, Connection
<1>3. PICK new, link : new = [row EXCEPT !.status = s] /\ link = View(new)
  OBVIOUS
<1>4. /\ row \in Connection /\ u # v /\ blocks' = blocks
      /\ new.requesterId = u /\ new.addresseeId = v
      /\ link = [from |-> u, type |-> row.type, status |-> s]
      /\ View(row) = [from |-> u, type |-> row.type, status |-> "pending"]
  BY <1>1, <1>2, <1>3 DEF SInv, IInv, TypeOK, SetStatus, Connection, View
<1>5. connections' = (connections \ {row}) \cup {new}
  BY <1>1, <1>3 DEF SetStatus, UpdateStatus, SInv, IInv, IndexUnique
<1>6. row \in Between(u, v) /\ new \in Between(u, v)'
  BY <1>1, <1>2, <1>4, <1>5 DEF Between
<1>7. ~IsBlocked(u, v) /\ ~IsBlocked(u, v)'
  BY <1>4, <1>6 DEF SInv, BlockSevers, Severing, Serial, SetStatus, IsBlocked
<1>8. LinkOf({u, v}) = View(row) /\ LinkOf({u, v})' = link /\ View(row) # NoRow
  <2>1. LinkOf({u, v})' = View(new)'
    BY <1>6, <1>7, Linked DEF LinkIsRow
  <2> QED BY <2>1, <1>3, <1>6, <1>7, Linked DEF LinkIsRow, View
<1>9. ASSUME NEW w \in Users, NEW x \in Users, {w, x} # {u, v}
      PROVE  LinkOf({w, x})' = LinkOf({w, x})
  <2>1. Between(w, x)' = Between(w, x) /\ IsBlocked(w, x)' = IsBlocked(w, x)
    BY <1>2, <1>4, <1>5, <1>9 DEF Between, IsBlocked
  <2> QED BY <2>1, SameLink
<1>10. CASE s = "pending"
  <2>1. \A w, x \in Users : LinkOf({w, x})' = LinkOf({w, x})
    BY <1>4, <1>8, <1>9, <1>10
  <2>2. Links' = Links /\ ActingUsers' \in SUBSET Users
    BY <2>1, NoLinkSet, ActingAfter
  <2> QED BY <1>4, <2>2 DEF Seen, Promise!Next, Promise!Turn
<1>11. CASE s \in {"accepted", "rejected"}
  <2>1. Links' = [Links EXCEPT ![{u, v}] = link]
    <3>1. LinkOf({u, v})' = link
      BY <1>8
    <3>2. \A w, x \in Users : {w, x} # {u, v} => LinkOf({w, x})' = LinkOf({w, x})
      BY <1>9
    <3> QED BY <3>1, <3>2, OneLink, Zenon
  <2>2. Links[{u, v}] = [from |-> u, type |-> row.type, status |-> "pending"]
    BY <1>4, <1>8 DEF Links
  <2>3. link = [Links[{u, v}] EXCEPT !.status = s]
    BY <1>4, <2>2
  <2>4. Links[{u, v}] # NoRow /\ Links[{u, v}].from = u /\ Links[{u, v}].status = "pending"
    BY <1>4, <1>8, <2>2
  <2>a. v \in ActingUsers /\ UNCHANGED ActingUsers
    <3>1. pc[c] = "setStatus" /\ arg[c].by = v
      BY <1>1, <1>2 DEF SetStatus, SInv, IInv, Carries
    <3>2. \E label \in {"notify", "flush1"} : Goto(c, label)
      BY DEF SetStatus
    <3> QED BY <3>1, <3>2, CallerActs, SameActing DEF SInv, SetStatus, PCs
  <2>b. {v, u} = {u, v}
    OBVIOUS
  <2>5. Promise!Answer(v, u, s)
    BY <1>4, <2>1, <2>3, <2>4, <2>a, <2>b DEF Promise!Answer, Promise!Set
  <2> QED BY <1>11, <2>5 DEF Seen, Promise!Next
<1> QED BY <1>10, <1>11 DEF Statuses

\* The users of a removed row part, unless a block has hidden it already.
LEMMA DeleteSeen ==
  ASSUME Serial, SInv, SInv', AllAct, NEW c \in Calls, Delete(c)
  PROVE  Seen
<1>1. PICK u \in Users, v \in Users : u = arg[c].pair[1] /\ v = arg[c].pair[2]
  BY DEF Delete, SInv, IInv, Carries, Arg
<1>2. PICK row \in Between(u, v) : row = arg[c].row
  BY <1>1, DeleteSInv
<1>3. connections' = connections \ {row} /\ Between(u, v)' = {} /\ blocks' = blocks
  <2>1. arg' = arg /\ blocks' = blocks
    BY DEF Delete
  <2> QED BY <1>1, <1>2, <2>1, DeleteSInv DEF Between
<1>4. LinkOf({u, v})' = NoRow
  BY <1>3, Linked DEF LinkHidden
<1>5. ASSUME NEW w \in Users, NEW x \in Users, {w, x} # {u, v}
      PROVE  LinkOf({w, x})' = LinkOf({w, x})
  <2>1. Between(w, x)' = Between(w, x) /\ IsBlocked(w, x)' = IsBlocked(w, x)
    BY <1>2, <1>3, <1>5 DEF Between, IsBlocked
  <2> QED BY <2>1, SameLink
<1>6. arg[c].by \in ActingUsers /\ UNCHANGED ActingUsers
  BY CallerActs, SameActing DEF Delete, SInv, PCs
<1>7. CASE IsBlocked(u, v)
  <2>1. LinkOf({u, v}) = NoRow
    BY <1>7, Linked DEF LinkHidden
  <2>2. \A w, x \in Users : LinkOf({w, x})' = LinkOf({w, x})
    BY <1>4, <1>5, <2>1
  <2> QED BY <1>3, <1>6, <2>2, NoLinkSet DEF Seen
<1>8. CASE ~IsBlocked(u, v)
  <2>1. LinkOf({u, v}) # NoRow
    BY <1>8, Linked DEF LinkIsRow
  <2>2. Links' = [Links EXCEPT ![{u, v}] = NoRow]
    BY <1>4, <1>5, OneLink
  <2>3. Links[{u, v}] # NoRow
    BY <2>1 DEF Links
  <2>4. arg[c].by \in {u, v}
    BY <1>1 DEF Delete, AllAct, ActsFor
  <2>5. {u, v} = {v, u}
    OBVIOUS
  <2>6. CASE arg[c].by = u
    <3>1. Promise!Part(u, v)
      BY <1>3, <1>6, <2>2, <2>3, <2>6 DEF Promise!Part, Promise!Set, Links
    <3> QED BY <3>1 DEF Seen, Promise!Next
  <2>7. CASE arg[c].by = v
    <3>1. Links' = [Links EXCEPT ![{v, u}] = NoRow] /\ Links[{v, u}] # NoRow
      BY <2>2, <2>3, <2>5
    <3>2. Promise!Part(v, u)
      BY <1>3, <1>6, <2>7, <3>1, Zenon DEF Promise!Part, Promise!Set
    <3> QED BY <3>2 DEF Seen, Promise!Next
  <2> QED BY <2>4, <2>6, <2>7
<1> QED BY <1>7, <1>8

\* A block hides the link of its users, and lifting one brings none back.
LEMMA InsertBlockSeen ==
  ASSUME Serial, SInv, SInv', AllAct, NEW c \in Calls, InsertBlock(c)
  PROVE  Seen
<1>1. PICK u \in Users, v \in Users : arg[c].pair = <<u, v>>
  BY DEF InsertBlock, SInv, IInv, Carries, Arg
<1>2. connections' = connections /\ u # v
  BY <1>1 DEF InsertBlock, SInv, StillTrue
<1>3. CASE blocks' = blocks
  BY <1>2, <1>3, TablesSameSeen
<1>4. CASE /\ <<u, v>> \notin blocks /\ blocks' = blocks \cup {<<u, v>>}
           /\ Goto(c, "findToRemove") /\ UNCHANGED arg
  <2>1. IsBlocked(u, v)'
    BY <1>4 DEF IsBlocked
  <2>2. LinkOf({u, v})' = NoRow
    BY <2>1, Linked DEF LinkHidden
  <2>3. ASSUME NEW w \in Users, NEW x \in Users, {w, x} # {u, v}
        PROVE  LinkOf({w, x})' = LinkOf({w, x})
    <3>1. Between(w, x)' = Between(w, x) /\ IsBlocked(w, x)' = IsBlocked(w, x)
      BY <1>2, <1>4, <2>3 DEF Between, IsBlocked
    <3> QED BY <3>1, SameLink
  <2>4. Links' = [Links EXCEPT ![{u, v}] = NoRow]
    BY <2>2, <2>3, OneLink
  <2>5. Promise!Block(u, v)
    <3>1. arg[c].by = u /\ pc[c] = "insertBlock"
      BY <1>1 DEF InsertBlock, AllAct, ActsFor
    <3>2. u \in ActingUsers /\ UNCHANGED ActingUsers
      BY <1>4, <3>1, CallerActs, SameActing DEF SInv, PCs
    <3> QED BY <1>2, <1>4, <2>4, <3>2 DEF Promise!Block, Links
  <2> QED BY <2>5 DEF Seen, Promise!Next
<1> QED BY <1>1, <1>3, <1>4 DEF InsertBlock

LEMMA DeleteBlockSeen ==
  ASSUME Serial, ~MayFail, SInv, SInv', AllAct, NEW c \in Calls, DeleteBlock(c)
  PROVE  Seen
<1>1. PICK u \in Users, v \in Users : arg[c].pair = <<u, v>>
  BY DEF DeleteBlock, SInv, IInv, Carries, Arg
<1>2. connections' = connections /\ blocks' = blocks \ {<<u, v>>} /\ pc[c] = "deleteBlock"
  BY <1>1 DEF DeleteBlock
<1>3. CASE <<u, v>> \notin blocks
  BY <1>2, <1>3, TablesSameSeen
<1>4. CASE <<u, v>> \in blocks
  <2>1. IsBlocked(u, v) /\ ~Severing(u, v)
    BY <1>2, <1>4 DEF IsBlocked, Severing, Serial
  <2>a. Between(u, v) = {} /\ Between(u, v)' = {}
    BY <1>2, <2>1 DEF SInv, BlockSevers, Between
  <2>2. LinkOf({u, v}) = NoRow /\ LinkOf({u, v})' = NoRow
    BY <2>a, Linked DEF LinkHidden
  <2>3. ASSUME NEW w \in Users, NEW x \in Users
        PROVE  LinkOf({w, x})' = LinkOf({w, x})
    <3>1. CASE {w, x} = {u, v}
      BY <2>2, <3>1
    <3>2. CASE {w, x} # {u, v}
      <4>1. Between(w, x)' = Between(w, x) /\ IsBlocked(w, x)' = IsBlocked(w, x)
        BY <1>2, <3>2 DEF Between, IsBlocked
      <4> QED BY <4>1, SameLink
    <3> QED BY <3>1, <3>2
  <2>4. Links' = Links
    BY <2>3, NoLinkSet
  <2>5. Promise!Unblock(u, v)
    <3>1. arg[c].by = u
      BY <1>1, <1>2 DEF AllAct, ActsFor
    <3>2. u \in ActingUsers /\ UNCHANGED ActingUsers
      BY <1>2, <3>1, CallerActs, SameActing DEF DeleteBlock, SInv, PCs
    <3> QED BY <1>2, <1>4, <2>4, <3>2 DEF Promise!Unblock, Links
  <2> QED BY <2>5 DEF Seen, Promise!Next
<1> QED BY <1>3, <1>4

LEMMA StepSeen ==
  ASSUME Serial, ~MayFail, SInv, SInv', AllAct, [Next]_vars
  PROVE  Seen
<1>1. CASE UNCHANGED vars
  BY <1>1, TablesSameSeen DEF vars
<1>2. ASSUME NEW c \in Calls,
             Request(c) \/ Fail(c) \/ FindNone(c) \/ (\E r \in connections : FindExisting(c, r))
               \/ AutoAccept(c) \/ Notify(c) \/ FindToRemove(c) \/ Flush1(c) \/ Flush2(c)
      PROVE  Seen
  <2>1. UNCHANGED <<connections, blocks>>
    BY <1>2 DEF Request, CreateConnection, Decide, RemoveConnection, BlockUser, UnblockUser, Begin,
                Fail, FindNone, FindExisting, AutoAccept, Notify, FindToRemove, Flush1, Flush2
  <2> QED BY <2>1, TablesSameSeen
<1> QED BY <1>1, <1>2, InsertSeen, SetStatusSeen, DeleteSeen, InsertBlockSeen, DeleteBlockSeen
        DEF Next, CallStep, DbStep

\* The connection service keeps the promise of Relationships, for any number
\* of users and of rows, while calls do not overlap and no await fails.
THEOREM PromiseKept == ASSUME Serial, ~MayFail PROVE Spec => ImplementsRelationships
<1>1. Init => Promise!Init
  <2> SUFFICES ASSUME Init PROVE Promise!Init
    OBVIOUS
  <2>1. \A u, v \in Users : LinkOf({u, v}) = NoRow
    BY NoneLinked DEF Init, LinkHidden, Between
  <2>2. ASSUME NEW p \in {{u, v} : u, v \in Users}
        PROVE  LinkOf(p) = NoRow
    BY <2>1
  <2>3. Links = [p \in {{u, v} : u, v \in Users} |-> NoRow]
    BY <2>2 DEF Links
  <2>4. ActingUsers = {}
    BY DEF Init, ActingUsers
  <2> QED BY <2>3, <2>4 DEF Init, Promise!Init, Promise!Pairs
<1>2. SInv /\ SInv' /\ AllAct /\ [Next]_vars => [Promise!Next]_(Promise!vars)
  BY StepSeen DEF Seen, Promise!vars, Links
<1> QED BY <1>1, <1>2, SerialInvariance, ActorInvariance, PTL
        DEF Spec, ImplementsRelationships, Promise!Spec

--------------------------------------------------------------------------------
(***************************************************************************)
(* The cache, for any number of overlapping and failing calls and readers. *)
(* A row is written only by a call that carries its two users to the       *)
(* invalidation, however stale the row it read (EndsKnown); and what holds *)
(* of a stored value holds already of the value a reader is to store       *)
(* (Fresh).                                                                *)
(***************************************************************************)
Users2(p) == {p[1], p[2]}

EndsKnown(c) ==
  pc[c] \in {"setStatus", "delete"} =>
    /\ arg[c].row.id \in issued
    /\ \A r \in connections : r.id = arg[c].row.id => Users2(Ends(r)) = Users2(arg[c].pair)

\* A row keeps its two users while it lives, and its key is never reissued.
LEMMA RowsKeepEnds ==
  ASSUME IInv, [Next]_vars
  PROVE  /\ issued \subseteq issued'
         /\ \A t \in connections' : t.id \in issued =>
              \E r \in connections : r.id = t.id /\ Ends(r) = Ends(t)
<1>1. issued \subseteq issued'
  BY DEF Next, vars, Request, CreateConnection, Decide, RemoveConnection, BlockUser, UnblockUser,
         Begin, CallStep, DbStep, FindNone, FindExisting, AutoAccept, Insert, SetStatus, Notify,
         Delete, InsertBlock, FindToRemove, DeleteBlock, Flush1, Flush2, Fail
<1>2. ASSUME NEW c \in Calls, SetStatus(c), NEW t \in connections'
      PROVE  \E r \in connections : r.id = t.id /\ Ends(r) = Ends(t)
  <2>1. arg[c].row.id \in RowIds /\ arg[c].want \in Statuses
    BY <1>2 DEF SetStatus, IInv, Carries, Connection
  <2>2. connections' = UpdateStatus(arg[c].row.id, arg[c].want)
    BY <1>2 DEF SetStatus
  <2> QED BY <2>1, <2>2, UpdateStatusRows DEF IInv, Ends
<1> QED BY <1>1, <1>2, TableSteps DEF Ends

\* A call that does not go to a write of a row knows what it knew.
LEMMA EndsKnownStays ==
  ASSUME IInv, [Next]_vars, NEW c \in Calls, EndsKnown(c),
         \/ pc'[c] = pc[c] /\ arg'[c] = arg[c]
         \/ pc'[c] \notin {"setStatus", "delete"}
  PROVE  EndsKnown(c)'
BY RowsKeepEnds DEF EndsKnown

LEMMA EndsStep ==
  ASSUME IInv, [Next]_vars, \A c \in Calls : EndsKnown(c)
  PROVE  \A c \in Calls : EndsKnown(c)'
<1> SUFFICES ASSUME NEW c \in Calls PROVE EndsKnown(c)'
  OBVIOUS
<1>1. CASE pc'[c] = pc[c] /\ arg'[c] = arg[c]
  BY <1>1, EndsKnownStays
<1>2. ASSUME NEW r \in connections, connections' = connections, issued' = issued,
             arg'[c].row = r, Users2(arg'[c].pair) = Users2(Ends(r))
      PROVE  EndsKnown(c)'
  BY <1>2 DEF EndsKnown, Ends, IInv, IndexUnique
<1>3. ASSUME NEW d \in Calls, d # c, Request(d) \/ CallStep(d) \/ Fail(d)
      PROVE  pc'[c] = pc[c] /\ arg'[c] = arg[c]
  BY <1>3 DEF Request, CreateConnection, Decide, RemoveConnection, BlockUser, UnblockUser, Begin,
              Goto, Finish, CallStep, DbStep, FindNone, FindExisting, AutoAccept, Insert, SetStatus,
              Notify, Delete, InsertBlock, FindToRemove, DeleteBlock, Flush1, Flush2, Fail,
              IInv, TypeOK
<1>4. CASE Request(c)
  <2>1. ASSUME NEW u \in Users, NEW o \in Users,
               (\E t \in Types : CreateConnection(c, u, o, t)) \/ BlockUser(c, u, o)
                 \/ UnblockUser(c, u, o)
        PROVE  pc'[c] \notin {"setStatus", "delete"}
    BY <2>1 DEF CreateConnection, BlockUser, UnblockUser, Begin, Goto, IInv, TypeOK
  <2>2. ASSUME NEW u \in Users, NEW r \in connections,
               (\E s \in Statuses : Decide(c, u, r, s)) \/ RemoveConnection(c, u, r)
        PROVE  EndsKnown(c)'
    <3>1. arg'[c].row = r /\ arg'[c].pair = Ends(r) /\ connections' = connections
          /\ issued' = issued
      BY <2>2 DEF Decide, RemoveConnection, Begin, IInv, TypeOK
    <3> QED BY <3>1, <1>2
  <2> QED BY <1>4, <2>1, <2>2, EndsKnownStays DEF Request
<1>5. CASE AutoAccept(c)
  <2>1. ASSUME NEW r \in connections, Goto(c, "setStatus"),
               arg' = [arg EXCEPT ![c] = [by |-> @.by, pair |-> Ends(r),
                                          want |-> "accepted", row |-> r]]
        PROVE  EndsKnown(c)'
    <3>1. arg'[c].row = r /\ arg'[c].pair = Ends(r)
      BY <2>1 DEF IInv, TypeOK
    <3> QED BY <3>1, <1>2, <1>5 DEF AutoAccept
  <2>2. CASE Finish(c)
    <3>1. pc'[c] = "idle"
      BY <2>2 DEF Finish, Goto, IInv, TypeOK
    <3> QED BY <3>1, EndsKnownStays
  <2> QED BY <1>5, <2>1, <2>2 DEF AutoAccept
<1>6. CASE FindToRemove(c)
  <2>1. ASSUME NEW r \in Between(arg[c].pair[1], arg[c].pair[2]),
               arg' = [arg EXCEPT ![c].row = r]
        PROVE  EndsKnown(c)'
    <3>1. arg[c] \in Arg
      BY <1>6 DEF FindToRemove, IInv, Carries
    <3>2. arg'[c].row = r /\ arg'[c].pair = arg[c].pair
      BY <2>1, <3>1 DEF IInv, TypeOK, Arg
    <3>3. r \in connections /\ Users2(Ends(r)) = Users2(arg[c].pair)
      BY DEF Between, Users2, Ends
    <3> QED BY <3>2, <3>3, <1>2, <1>6 DEF FindToRemove
  <2>2. CASE Goto(c, "flush1")
    <3>1. pc'[c] = "flush1"
      BY <2>2 DEF Goto, IInv, TypeOK
    <3> QED BY <3>1, EndsKnownStays
  <2> QED BY <1>6, <2>1, <2>2 DEF FindToRemove
<1>7. CASE (CallStep(c) \/ Fail(c)) /\ ~AutoAccept(c) /\ ~FindToRemove(c)
  <2>1. pc'[c] \notin {"setStatus", "delete"}
    BY <1>7 DEF CallStep, DbStep, FindNone, FindExisting, Insert, SetStatus, Notify, Delete,
                InsertBlock, DeleteBlock, Flush1, Flush2, Fail, Goto, Finish, IInv, TypeOK
  <2> QED BY <2>1, EndsKnownStays
<1> QED BY <1>1, <1>3, <1>4, <1>5, <1>6, <1>7 DEF Next, vars

\* Some call has written a row of u and is still to invalidate u.
Dirty(u) == \E c \in Calls : DirtyBy(c, u)

\* The friends of u change only by a write of a call that carries u.
LEMMA FriendRowsKept ==
  ASSUME IInv, [Next]_vars, \A c \in Calls : EndsKnown(c), NEW u,
         \A c \in Calls : SetStatus(c) \/ Delete(c) => u \notin Users2(arg[c].pair)
  PROVE  FriendRows(u)' = FriendRows(u)
<1>1. CASE UNCHANGED connections
  BY <1>1 DEF FriendRows, IsParty
<1>2. ASSUME NEW c \in Calls, Insert(c) PROVE FriendRows(u)' = FriendRows(u)
  <2>1. arg[c].want \in Types
    BY <1>2 DEF Insert, IInv, Carries
  <2>2. CASE UNCHANGED connections
    BY <2>2 DEF FriendRows, IsParty
  <2>3. ASSUME NEW id \in RowIds,
               connections' = connections \cup
                 {[id |-> id, requesterId |-> arg[c].pair[1], addresseeId |-> arg[c].pair[2],
                   type |-> arg[c].want,
                   status |-> IF arg[c].want = "follow" THEN "accepted" ELSE "pending"]}
        PROVE  FriendRows(u)' = FriendRows(u)
    BY <2>1, <2>3 DEF FriendRows, IsParty, Types
  <2> QED BY <1>2, <2>2, <2>3 DEF Insert
<1>3. ASSUME NEW c \in Calls, SetStatus(c) PROVE FriendRows(u)' = FriendRows(u)
  <2>1. \A r \in connections : r.id = arg[c].row.id => ~IsParty(u, r)
    BY <1>3 DEF EndsKnown, SetStatus, Users2, Ends, IsParty
  <2>2. connections' = {IF r.id = arg[c].row.id THEN [r EXCEPT !.status = arg[c].want] ELSE r :
                          r \in connections}
    BY <1>3 DEF SetStatus, UpdateStatus
  <2>3. \A r \in connections : LET s == [r EXCEPT !.status = arg[c].want]
                               IN  IsParty(u, s) <=> IsParty(u, r)
    BY DEF IInv, TypeOK, Connection, IsParty
  <2> QED BY <2>1, <2>2, <2>3 DEF FriendRows
<1>4. ASSUME NEW c \in Calls, Delete(c) PROVE FriendRows(u)' = FriendRows(u)
  BY <1>4 DEF Delete, EndsKnown, Users2, Ends, IsParty, FriendRows
<1>5. ASSUME NEW c \in Calls,
             Request(c) \/ Flush1(c) \/ Flush2(c) \/ Fail(c)
               \/ (DbStep(c) /\ ~Insert(c) /\ ~SetStatus(c) /\ ~Delete(c))
      PROVE  UNCHANGED connections
  BY <1>5 DEF Request, CreateConnection, Decide, RemoveConnection, BlockUser, UnblockUser, Begin,
              DbStep, FindNone, FindExisting, AutoAccept, Notify, InsertBlock, FindToRemove,
              DeleteBlock, Flush1, Flush2, Fail
<1> QED BY <1>1, <1>2, <1>3, <1>4, <1>5 DEF Next, CallStep, vars

\* The writer of a row is dirty for both users of the row.
LEMMA WriterDirty ==
  ASSUME IInv, NEW c \in Calls, SetStatus(c) \/ Delete(c), NEW u \in Users2(arg[c].pair)
  PROVE  DirtyBy(c, u)'
BY DEF SetStatus, Delete, Goto, IInv, TypeOK, DirtyBy, Users2

\* It stays so until it invalidates that user, or fails.
LEMMA DirtyStays ==
  ASSUME IInv, NEW c \in Calls, NEW u, DirtyBy(c, u), NEW d \in Calls,
         Request(d) \/ CallStep(d) \/ (d # c /\ Fail(d)),
         d = c => /\ pc[c] = "flush1" => u # arg[c].pair[1]
                  /\ pc[c] = "flush2" => u # arg[c].pair[2]
  PROVE  DirtyBy(c, u)'
<1>1. pc[c] \in {"notify", "flush1", "flush2"}
  BY DEF DirtyBy
<1>2. ASSUME d = c
      PROVE  DirtyBy(c, u)'
  <2>1. Notify(c) \/ Flush1(c) \/ Flush2(c)
    BY <1>1, <1>2 DEF Request, CreateConnection, Decide, RemoveConnection, BlockUser, UnblockUser,
         Begin, CallStep, DbStep, FindNone, FindExisting, AutoAccept, Insert, SetStatus, Delete,
         InsertBlock, FindToRemove, DeleteBlock
  <2> QED BY <1>2, <2>1 DEF Notify, Flush1, Flush2, Goto, Finish, DirtyBy, IInv, TypeOK
<1>3. CASE d # c
  <2>1. pc'[c] = pc[c] /\ arg'[c] = arg[c]
    BY <1>3 DEF Request, CreateConnection, Decide, RemoveConnection, BlockUser, UnblockUser,
       Begin, Goto, Finish, CallStep, DbStep, FindNone, FindExisting, AutoAccept, Insert,
       SetStatus, Notify, Delete, InsertBlock, FindToRemove, DeleteBlock, Flush1, Flush2, Fail,
       IInv, TypeOK
  <2> QED BY <2>1 DEF DirtyBy
<1> QED BY <1>2, <1>3

\* What a reader has of key k, or the cache, is no staler than StaleOnlyByRace says.
Fresh(k, rows, raced) ==
  \/ raced
  \/ k[1] \in lost
  \/ Dirty(k[1])
  \/ IF Len(k) = 1 THEN rows = FriendRows(k[1]) ELSE rows \subseteq FriendRows(k[1])

CInv ==
  /\ IInv
  /\ \A c \in Calls : EndsKnown(c)
  /\ cache = [k \in Views |-> cache[k]]
  /\ fill \in [Readers -> Fill \cup {NoRead}]
  /\ \A k \in Views : cache[k] # Miss => Fresh(k, cache[k].rows, cache[k].raced)
  /\ \A d \in Readers : fill[d] # NoRead =>
       /\ Fresh(fill[d].key, fill[d].rows, fill[d].raced)
       /\ fill[d].at = "second" => Len(fill[d].key) # 1

LEMMA CNextNext == [CNext]_cvars => [Next]_vars
BY DEF CNext, Next, Flush, CFail, CallStep, StartRead, SecondRead, SetCache, Expire, dbvars, cvars,
     vars

LEMMA InitCInv == CInit => CInv
<1> SUFFICES ASSUME CInit PROVE CInv
  OBVIOUS
<1>1. IInv /\ \A c \in Calls : EndsKnown(c)
  BY InitInv DEF CInit, Init, EndsKnown
<1> QED BY <1>1 DEF CInit, CInv

\* A step that does not invalidate the keys of u
Spares(u) ==
  \/ \E c \in Calls : (Request(c) \/ DbStep(c)) /\ UNCHANGED <<cache, fill, lost>>
  \/ \E c \in Calls : CFail(c)
  \/ \E c \in Calls : \/ Flush1(c) /\ u # arg[c].pair[1] /\ lost' = lost \ {arg[c].pair[1]}
                      \/ Flush2(c) /\ u # arg[c].pair[2] /\ lost' = lost \ {arg[c].pair[2]}
  \/ UNCHANGED <<dbvars, pc, arg, lost>>

\* It leaves a value of u as fresh as it was.
LEMMA FreshKept ==
  ASSUME CInv, NEW k \in Views, Spares(k[1]), NEW rows, NEW raced, Fresh(k, rows, raced)
  PROVE  Fresh(k, rows, raced)'
<1> DEFINE u == k[1]
<1>0. [Next]_vars /\ u \in Users /\ IInv
  <2>1. [Next]_vars
    BY DEF Spares, Next, CallStep, CFail, vars, dbvars
  <2> QED BY <2>1, ConnectionCacheAssumption DEF Keys, CInv
<1>1. ASSUME u \in lost PROVE u \in lost'
  BY <1>1 DEF Spares, CFail
<1>2. ASSUME Dirty(u) PROVE Dirty(u)' \/ u \in lost'
  <2>1. PICK c \in Calls : DirtyBy(c, u)
    BY <1>2 DEF Dirty
  <2>2. CASE DirtyBy(c, u)'
    BY <2>2 DEF Dirty
  <2>3. ASSUME NEW d \in Calls, Request(d) \/ DbStep(d) \/ (CFail(d) /\ d # c)
        PROVE  DirtyBy(c, u)'
    <3>1. d = c => pc[c] \notin {"flush1", "flush2"}
      BY <2>3 DEF Request, CreateConnection, Decide, RemoveConnection, BlockUser, UnblockUser,
         Begin, DbStep, FindNone, FindExisting, AutoAccept, Insert, SetStatus, Notify, Delete,
         InsertBlock, FindToRemove, DeleteBlock
    <3> QED BY <1>0, <2>1, <2>3, <3>1, DirtyStays DEF CallStep, CFail
  <2>4. ASSUME NEW d \in Calls, \/ Flush1(d) /\ u # arg[d].pair[1]
                                \/ Flush2(d) /\ u # arg[d].pair[2]
        PROVE  DirtyBy(c, u)'
    BY <1>0, <2>1, <2>4, DirtyStays DEF CallStep, Flush1, Flush2
  <2>5. CASE CFail(c)
    BY <1>0, <2>1, <2>5 DEF CFail
  <2>6. CASE UNCHANGED <<pc, arg>>
    BY <2>1, <2>6 DEF DirtyBy, Dirty
  <2> QED BY <2>2, <2>3, <2>4, <2>5, <2>6 DEF Spares
<1>3. CASE FriendRows(u)' = FriendRows(u)
  BY <1>1, <1>2, <1>3 DEF Fresh
<1>4. ASSUME NEW c \in Calls, SetStatus(c) \/ Delete(c), u \in Users2(arg[c].pair)
      PROVE  Fresh(k, rows, raced)'
  <2>1. DirtyBy(c, u)'
    BY <1>0, <1>4, WriterDirty
  <2> QED BY <2>1 DEF Fresh, Dirty
<1> QED BY <1>0, <1>3, <1>4, FriendRowsKept DEF CInv


\* The two parts of CInv that a step of a call or of a reader may disturb.
CacheFresh == \A k \in Views : cache[k] # Miss => Fresh(k, cache[k].rows, cache[k].raced)
FillFresh(d) ==
  fill[d] # NoRead => /\ Fresh(fill[d].key, fill[d].rows, fill[d].raced)
                      /\ fill[d].at = "second" => Len(fill[d].key) # 1

LEMMA SparingKeeps ==
  ASSUME CInv, \A u \in Users : Spares(u)
  PROVE  /\ UNCHANGED cache => CacheFresh'
         /\ \A d \in Readers : fill'[d] = fill[d] => FillFresh(d)'
         /\ \A k \in Views : \A rows, raced : Fresh(k, rows, raced) => Fresh(k, rows, raced)'
<1>1. \A k \in Views : \A rows, raced : Fresh(k, rows, raced) => Fresh(k, rows, raced)'
  <2>1. \A k \in Views : k[1] \in Users
    BY ConnectionCacheAssumption DEF Keys
  <2> QED BY <2>1, FreshKept
<1>2. ASSUME UNCHANGED cache PROVE CacheFresh'
  BY <1>1, <1>2 DEF CInv, CacheFresh
<1>3. ASSUME NEW d \in Readers, fill'[d] = fill[d], fill[d] # NoRead PROVE FillFresh(d)'
  <2>1. fill[d] \in Fill /\ fill[d].key \in Views
    BY <1>3 DEF CInv, Fill
  <2> QED BY <1>1, <1>3, <2>1 DEF CInv, FillFresh
<1>4. ASSUME NEW d \in Readers, fill'[d] = fill[d], fill[d] = NoRead PROVE FillFresh(d)'
  BY <1>4 DEF FillFresh
<1> QED BY <1>1, <1>2, <1>3, <1>4

LEMMA FlushKeeps ==
  ASSUME CInv, NEW c \in Calls, Flush(c)
  PROVE  /\ cache' = [k \in Views |-> cache'[k]]
         /\ fill' \in [Readers -> Fill \cup {NoRead}]
         /\ CacheFresh'
         /\ \A d \in Readers : FillFresh(d)'
<1>1. PICK w : /\ Invalidate(w)
               /\ \/ Flush1(c) /\ w = arg[c].pair[1]
                  \/ Flush2(c) /\ w = arg[c].pair[2]
  BY DEF Flush
<1>2. ASSUME NEW k \in Views, k[1] # w, NEW rows, NEW raced, Fresh(k, rows, raced)
      PROVE  Fresh(k, rows, raced)'
  <2>1. lost' = lost \ {w}
    BY <1>1 DEF Invalidate
  <2>2. Spares(k[1])
    <3>1. CASE Flush1(c) /\ w = arg[c].pair[1]
      BY <1>2, <2>1, <3>1 DEF Spares
    <3>2. CASE Flush2(c) /\ w = arg[c].pair[2]
      BY <1>2, <2>1, <3>2 DEF Spares
    <3> QED BY <1>1, <3>1, <3>2
  <2> QED BY <1>2, <2>2, FreshKept
<1>3. CacheFresh'
  <2> SUFFICES ASSUME NEW k \in Views, cache'[k] # Miss
               PROVE  Fresh(k, cache[k].rows, cache[k].raced)'
    BY DEF CacheFresh
  <2>1. k[1] # w /\ cache'[k] = cache[k]
    BY <1>1 DEF Invalidate
  <2> QED BY <1>2, <2>1 DEF CInv
<1>4. ASSUME NEW d \in Readers
      PROVE  fill'[d] \in Fill \cup {NoRead} /\ FillFresh(d)'
  <2>1. CASE fill[d] = NoRead
    BY <1>1, <2>1 DEF Invalidate, FillFresh
  <2>2. CASE fill[d] # NoRead /\ fill[d].key[1] # w
    <3>1. fill'[d] = fill[d] /\ fill[d] \in Fill /\ fill[d].key \in Views
      BY <1>1, <2>2 DEF Invalidate, CInv, Fill
    <3> QED BY <1>2, <2>2, <3>1 DEF CInv, FillFresh
  <2>3. CASE fill[d] # NoRead /\ fill[d].key[1] = w
    <3>1. fill'[d] = [fill[d] EXCEPT !.raced = TRUE] /\ fill[d] \in Fill
      BY <1>1, <2>3 DEF Invalidate, CInv
    <3>2. fill'[d] \in Fill /\ fill'[d].raced /\ fill'[d].at = fill[d].at
          /\ fill'[d].key = fill[d].key
      BY <3>1 DEF Fill
    <3> QED BY <2>3, <3>2 DEF CInv, FillFresh, Fresh
  <2> QED BY <2>1, <2>2, <2>3
<1>5. DOMAIN fill' = Readers /\ fill' = [d \in Readers |-> fill'[d]]
  BY <1>1 DEF Invalidate
<1>6. cache' = [k \in Views |-> cache'[k]]
  BY <1>1 DEF Invalidate
<1> QED BY <1>3, <1>4, <1>5, <1>6

LEMMA ReaderKeeps ==
  ASSUME CInv, NEW d \in Readers,
         (\E k \in Views : StartRead(d, k)) \/ SecondRead(d) \/ SetCache(d)
  PROVE  /\ cache' = [k \in Views |-> cache'[k]]
         /\ fill' \in [Readers -> Fill \cup {NoRead}]
         /\ CacheFresh'
         /\ \A e \in Readers : FillFresh(e)'
<1>1. \A u \in Users : Spares(u)
  BY DEF Spares, StartRead, SecondRead, SetCache
<1>3. /\ UNCHANGED cache => CacheFresh'
      /\ \A e \in Readers : fill'[e] = fill[e] => FillFresh(e)'
      /\ \A k \in Views : \A rows, raced : Fresh(k, rows, raced) => Fresh(k, rows, raced)'
  BY <1>1, SparingKeeps
<1>4. ASSUME NEW new \in Fill, fill' = [fill EXCEPT ![d] = new], UNCHANGED cache,
             Fresh(new.key, new.rows, new.raced), new.at = "second" => Len(new.key) # 1
      PROVE  /\ cache' = [k \in Views |-> cache'[k]]
             /\ fill' \in [Readers -> Fill \cup {NoRead}]
             /\ CacheFresh'
             /\ \A e \in Readers : FillFresh(e)'
  <2>1. fill'[d] = new /\ \A e \in Readers : e # d => fill'[e] = fill[e]
    BY <1>4 DEF CInv
  <2>2. new.key \in Views
    BY DEF Fill
  <2>3. FillFresh(d)'
    BY <1>3, <1>4, <2>1, <2>2 DEF FillFresh
  <2>4. fill' \in [Readers -> Fill \cup {NoRead}] /\ cache' = [k \in Views |-> cache'[k]]
    BY <1>4 DEF CInv
  <2> QED BY <1>3, <1>4, <2>1, <2>3, <2>4
<1>5. ASSUME NEW k \in Views, StartRead(d, k)
      PROVE  \E new \in Fill : /\ fill' = [fill EXCEPT ![d] = new] /\ UNCHANGED cache
                               /\ Fresh(new.key, new.rows, new.raced)
                               /\ new.at = "second" => Len(new.key) # 1
  <2> DEFINE new == [key |-> k, at |-> IF Len(k) = 1 THEN "set" ELSE "second",
                     rows |-> FriendRows(k[1]), raced |-> FALSE]
  <2>1. FriendRows(k[1]) \subseteq Connection
    BY DEF FriendRows, CInv, IInv, TypeOK
  <2>2. new \in Fill
    BY <2>1 DEF Fill
  <2>3. Fresh(new.key, new.rows, new.raced)
    BY DEF Fresh
  <2> QED BY <1>5, <2>2, <2>3 DEF StartRead
<1>6. ASSUME SecondRead(d)
      PROVE  \E new \in Fill : /\ fill' = [fill EXCEPT ![d] = new] /\ UNCHANGED cache
                               /\ Fresh(new.key, new.rows, new.raced)
                               /\ new.at = "second" => Len(new.key) # 1
  <2> DEFINE rows == Shared(fill[d].rows, fill[d].key[1], fill[d].key[2])
             new == [fill[d] EXCEPT !.at = "set", !.rows = rows]
  <2>1. fill[d] \in Fill /\ fill[d].at = "second" /\ Len(fill[d].key) # 1 /\ fill[d] # NoRead
    BY <1>6 DEF SecondRead, CInv
  <2>2. rows \subseteq fill[d].rows
    BY DEF Shared
  <2>3. new \in Fill /\ new.key = fill[d].key /\ new.rows = rows /\ new.raced = fill[d].raced
          /\ new.at = "set"
    BY <2>1, <2>2 DEF Fill
  <2>4. Fresh(fill[d].key, fill[d].rows, fill[d].raced)
    BY <2>1 DEF CInv
  <2>5. Fresh(fill[d].key, rows, fill[d].raced)
    BY <2>1, <2>2, <2>4 DEF Fresh
  <2> QED BY <1>6, <2>3, <2>5 DEF SecondRead
<1>7. ASSUME SetCache(d)
      PROVE  /\ cache' = [k \in Views |-> cache'[k]]
             /\ fill' \in [Readers -> Fill \cup {NoRead}]
             /\ CacheFresh'
             /\ \A e \in Readers : FillFresh(e)'
  <2>1. fill[d] \in Fill /\ fill[d].key \in Views /\ fill[d] # NoRead
    BY <1>7 DEF SetCache, CInv, Fill
  <2>2. Fresh(fill[d].key, fill[d].rows, fill[d].raced)
    BY <2>1 DEF CInv
  <2>3. ASSUME NEW k \in Views, cache'[k] # Miss
        PROVE  Fresh(k, cache[k].rows, cache[k].raced)'
    <3>1. CASE k = fill[d].key
      <4>1. cache'[k] = [rows |-> fill[d].rows, raced |-> fill[d].raced]
        BY <1>7, <2>1, <3>1 DEF SetCache, CInv
      <4>2. cache'[k].rows = fill[d].rows /\ cache'[k].raced = fill[d].raced
        BY <4>1
      <4> QED BY <1>3, <2>2, <3>1, <4>2
    <3>2. CASE k # fill[d].key
      <4>1. cache'[k] = cache[k]
        BY <1>7, <2>1, <3>2 DEF SetCache, CInv
      <4> QED BY <1>3, <2>3, <4>1 DEF CInv
    <3> QED BY <3>1, <3>2
  <2>4. fill' \in [Readers -> Fill \cup {NoRead}] /\ cache' = [k \in Views |-> cache'[k]]
    BY <1>7, <2>1 DEF SetCache, CInv
  <2>5. ASSUME NEW e \in Readers PROVE FillFresh(e)'
    <3>1. CASE e = d
      BY <1>7, <3>1 DEF SetCache, CInv, FillFresh
    <3>2. CASE e # d
      BY <1>3, <1>7, <3>2 DEF SetCache, CInv
    <3> QED BY <3>1, <3>2
  <2> QED BY <2>3, <2>4, <2>5 DEF CacheFresh
<1> QED BY <1>4, <1>5, <1>6, <1>7

LEMMA CNextCInv == CInv /\ [CNext]_cvars => CInv'
<1> SUFFICES ASSUME CInv, [CNext]_cvars PROVE CInv'
  OBVIOUS
<1>1. IInv' /\ (\A c \in Calls : EndsKnown(c)')
  BY CNextNext, NextInv, EndsStep DEF CInv
<1> DEFINE Rest == /\ cache' = [k \in Views |-> cache'[k]]
                   /\ fill' \in [Readers -> Fill \cup {NoRead}]
                   /\ CacheFresh'
                   /\ \A d \in Readers : FillFresh(d)'
<1>2. ASSUME UNCHANGED <<cache, fill>>, \A u \in Users : Spares(u)
      PROVE  Rest
  BY <1>2, SparingKeeps DEF CInv
<1>3. ASSUME NEW c \in Calls, Flush(c) PROVE Rest
  BY <1>3, FlushKeeps
<1>4. ASSUME NEW d \in Readers, (\E k \in Views : StartRead(d, k)) \/ SecondRead(d) \/ SetCache(d)
      PROVE  Rest
  BY <1>4, ReaderKeeps
<1>5. ASSUME NEW k \in Views, Expire(k) PROVE Rest
  <2>1. \A u \in Users : Spares(u)
    BY <1>5 DEF Expire, Spares
  <2>2. \A l \in Views : cache'[l] # Miss => cache'[l] = cache[l] /\ cache[l] # Miss
    BY <1>5 DEF Expire, CInv
  <2>3. CacheFresh'
    BY <2>1, <2>2, SparingKeeps DEF CInv, CacheFresh
  <2>4. UNCHANGED fill /\ cache' = [l \in Views |-> cache'[l]]
    BY <1>5 DEF Expire, CInv
  <2> QED BY <2>1, <2>3, <2>4, SparingKeeps DEF CInv
<1>6. ASSUME \/ \E c \in Calls : (Request(c) \/ DbStep(c)) /\ UNCHANGED <<cache, fill, lost>>
             \/ \E c \in Calls : CFail(c)
             \/ UNCHANGED cvars
      PROVE  Rest
  <2>1. UNCHANGED <<cache, fill>> /\ \A u \in Users : Spares(u)
    BY <1>6 DEF CFail, cvars, Spares, dbvars
  <2> QED BY <1>2, <2>1
<1> HIDE DEF Rest
<1> QED
  <2>1. Rest
    BY <1>2, <1>3, <1>4, <1>5, <1>6 DEF CNext
  <2> QED BY <1>1, <2>1 DEF Rest, CInv, CacheFresh, FillFresh

LEMMA CacheInvariance == CSpec => []CInv
BY InitCInv, CNextCInv, PTL DEF CSpec

\* A cached list of friends is out of date only while a writer is still to
\* invalidate it, or after one failed to, or if it was read before an
\* invalidation and stored after it.
THEOREM StaleOnlyIfRaced == CSpec => []StaleOnlyByRace
<1>1. CInv => StaleOnlyByRace
  BY DEF CInv, Fresh, Dirty, StaleOnlyByRace
<1> QED BY <1>1, CacheInvariance, PTL

================================================================================
