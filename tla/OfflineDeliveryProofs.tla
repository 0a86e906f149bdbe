------------------------- MODULE OfflineDeliveryProofs -------------------------
(***************************************************************************)
(* Safety of OfflineDelivery for any number of sockets, instances,         *)
(* messages and attempts, refused completions included.                    *)
(*                                                                         *)
(* AtMostTwice is not inductive: it does not say which of the two ways a   *)
(* socket can receive a message are still open.  Bound counts them: the    *)
(* hand-over to a socket is open until its handleConnection is done, the   *)
(* PUBLISH of a message until its call or the worker that holds its job    *)
(* has made it, and a PUBLISH that is made again was counted in unsure.    *)
(***************************************************************************)
EXTENDS OfflineDelivery, TLAPS

Statuses == {"none", "online", "away", "offline"}

TypeOK ==
  /\ up \subseteq Sockets
  /\ opening \in [Sockets -> {"new", "presence", "fetch", "emit", "done"}]
  /\ leaving \subseteq Sockets
  /\ presence \in Statuses
  /\ ghost \in BOOLEAN
  /\ call \in [Msgs -> {"none", "send", "queue", "done"}]
  /\ job \in [Msgs -> {"none", "waiting", "active", "completed", "failed"}]
  /\ failures \in [Msgs -> Nat]
  /\ run \in [Msgs -> {"idle", "recheck", "publish", "drop"}]
  /\ mine \in [Sockets -> SUBSET Msgs]
  /\ copies \in [Msgs -> [Sockets -> Nat]]
  /\ unsure \in [Msgs -> Nat]
  /\ why \in [Msgs -> SUBSET Causes]

\* The PUBLISH of m is still to come, or never comes.
Unsent(m) == call[m] # "done" \/ job[m] = "waiting" \/ run[m] # "idle"

Bound(m, s) ==
  copies[m][s] <=
    (IF opening[s] = "done" THEN 1 ELSE 0) + (IF Unsent(m) THEN 0 ELSE 1) + unsure[m]

\* A job exists for a message whose call is done, and a worker holds it
\* while it is active or was completed by a connecting socket.
JobOK(m) ==
  /\ job[m] # "none" => call[m] = "done"
  /\ run[m] # "idle" => job[m] \in {"active", "completed"}
  /\ job[m] = "active" => run[m] # "idle"

MineOK(s) == mine[s] # {} => opening[s] = "emit" /\ \A m \in mine[s] : job[m] # "none"

IInv ==
  /\ TypeOK
  /\ \A m \in Msgs : JobOK(m)
  /\ \A s \in Sockets : MineOK(s)
  /\ \A m \in Msgs, s \in Sockets : Bound(m, s)
  /\ GoneIsOffline
  /\ Accounted

LEMMA InitInv == Init => IInv
<1> SUFFICES ASSUME Init PROVE IInv
  OBVIOUS
<1>1. TypeOK
  BY DEF Init, TypeOK, Statuses
<1>2. \A m \in Msgs, s \in Sockets : Bound(m, s)
  BY DEF Init, Bound, Unsent
<1>3. GoneIsOffline /\ Accounted
  BY DEF Init, GoneIsOffline, Accounted, Pending
<1> QED BY <1>1, <1>2, <1>3 DEF Init, IInv, JobOK, MineOK

\* The steps of a socket before the hand-over, and those on the presence:
\* no message, call or job is touched.
LEMMA SocketInv ==
  ASSUME IInv, UNCHANGED <<call, qvars, mvars>>, TypeOK', GoneIsOffline',
         \A s \in Sockets : MineOK(s)',
         \A s \in Sockets : opening[s] = "done" => opening'[s] = "done"
  PROVE  IInv'
<1>1. \A m \in Msgs, s \in Sockets : Bound(m, s)'
  <2> SUFFICES ASSUME NEW m \in Msgs, NEW s \in Sockets PROVE Bound(m, s)'
    OBVIOUS
  <2>1. copies[m][s] \in Nat /\ unsure[m] \in Nat /\ Bound(m, s)
    BY DEF IInv, TypeOK
  <2> QED BY <2>1 DEF Bound, Unsent, qvars, mvars
<1>2. (\A m \in Msgs : JobOK(m))' /\ Accounted'
  BY DEF IInv, JobOK, Accounted, Pending, Got, qvars, mvars
<1> QED BY <1>1, <1>2 DEF IInv

LEMMA ConnectInv ==
  ASSUME IInv, NEW s \in Sockets, Connect(s) \/ SetOnline(s) \/ Fetch(s)
  PROVE  IInv'
<1>1. TypeOK' /\ GoneIsOffline' /\ UNCHANGED <<call, qvars, mvars>>
  <2>1. CASE Connect(s)
    <3>1. up' # {}
      BY <2>1 DEF Connect
    <3>2. TypeOK'
      BY <2>1 DEF Connect, pvars, qvars, mvars, IInv, TypeOK
    <3> QED BY <2>1, <3>1, <3>2 DEF Connect, GoneIsOffline
  <2>2. CASE SetOnline(s)
    <3>1. \/ presence' = "online" /\ ghost' = (s \notin up)
          \/ UNCHANGED <<presence, ghost>>
      BY <2>2 DEF SetOnline, Store, pvars
    <3> QED BY <2>2, <3>1 DEF SetOnline, qvars, mvars, IInv, TypeOK, GoneIsOffline, Statuses
  <2>3. CASE Fetch(s)
    BY <2>3 DEF Fetch, Queued, pvars, qvars, mvars, IInv, TypeOK, GoneIsOffline, Statuses
  <2> QED BY <2>1, <2>2, <2>3
<1>2. \A t \in Sockets : MineOK(t)' /\ (opening[t] = "done" => opening'[t] = "done")
  <2>1. CASE Connect(s) \/ SetOnline(s)
    BY <2>1 DEF Connect, SetOnline, qvars, IInv, TypeOK, MineOK
  <2>2. CASE Fetch(s)
    BY <2>2 DEF Fetch, Queued, qvars, IInv, TypeOK, MineOK
  <2> QED BY <2>1, <2>2
<1> QED BY <1>1, <1>2, SocketInv

\* The last socket of all is the last of its instance, and has "offline" to
\* write; what is written for a socket that is still there leaves a socket
\* there, and what is written for one that is gone is late.
LEMMA PresenceInv ==
  ASSUME IInv, NEW s \in Sockets,
         \/ Disconnect(s) \/ SetOffline(s) \/ Heartbeat(s)
         \/ \E p \in Choices : SetPresence(s, p)
  PROVE  IInv'
<1>1. CASE Disconnect(s)
  <2>1. up' = {} => leaving' # {}
    BY <1>1 DEF Disconnect
  <2>2. TypeOK'
    BY <1>1 DEF Disconnect, pvars, qvars, mvars, IInv, TypeOK
  <2>3. GoneIsOffline'
    BY <1>1, <2>1 DEF Disconnect, GoneIsOffline
  <2> QED BY <1>1, <2>2, <2>3, SocketInv DEF Disconnect, qvars, IInv, MineOK
<1>2. CASE SetOffline(s)
  <2>1. \/ presence' = "offline" /\ ghost' = FALSE
        \/ ghost' = TRUE /\ UNCHANGED presence
    BY <1>2 DEF SetOffline
  <2>2. TypeOK'
    BY <1>2, <2>1 DEF SetOffline, qvars, mvars, IInv, TypeOK, Statuses
  <2>3. GoneIsOffline'
    BY <1>2, <2>1 DEF GoneIsOffline
  <2> QED BY <1>2, <2>2, <2>3, SocketInv DEF SetOffline, qvars, IInv, MineOK
<1>3. CASE Heartbeat(s) \/ \E p \in Choices : SetPresence(s, p)
  <2>1. PICK p \in Choices : SetPresence(s, p)
    BY <1>3 DEF Heartbeat, Choices
  <2>2. \/ presence' = p /\ ghost' = (p # "offline" /\ s \notin up)
        \/ UNCHANGED <<presence, ghost>>
    BY <2>1 DEF SetPresence, Store, pvars
  <2>3. TypeOK'
    BY <2>1, <2>2 DEF SetPresence, Choices, cvars, qvars, mvars, IInv, TypeOK, Statuses
  <2>4. GoneIsOffline'
    BY <2>1, <2>2 DEF SetPresence, cvars, IInv, GoneIsOffline
  <2> QED BY <2>1, <2>3, <2>4, SocketInv DEF SetPresence, cvars, qvars, IInv, MineOK
<1> QED BY <1>1, <1>2, <1>3

LEMMA ExpireInv == IInv /\ Expire => IInv'
<1> SUFFICES ASSUME IInv, Expire PROVE IInv'
  OBVIOUS
<1>1. TypeOK' /\ GoneIsOffline'
  BY DEF Expire, cvars, qvars, mvars, IInv, TypeOK, GoneIsOffline, Statuses
<1>2. \A t \in Sockets : MineOK(t)'
  BY DEF Expire, cvars, qvars, IInv, MineOK
<1> QED BY <1>1, <1>2, SocketInv DEF Expire, cvars, qvars

\* handleConnection ends: the hand-over to the socket is used up.
LEMMA HandOverInv ==
  ASSUME IInv, NEW s \in Sockets, HandOver(s)
  PROVE  IInv'
<1>1. PICK S \in SUBSET mine[s] :
        /\ Completed(S)
        /\ \/ (\E c \in {"nobody", "withheld"} : Blame(S, c)) /\ UNCHANGED copies
           \/ /\ why' = why
              /\ S = mine[s]
              /\ copies' = [m \in Msgs |-> IF m \in S THEN [copies[m] EXCEPT ![s] = @ + 1]
                                           ELSE copies[m]]
  BY DEF HandOver
<1>2. /\ S \subseteq Msgs /\ opening[s] = "emit" /\ opening' = [opening EXCEPT ![s] = "done"]
      /\ mine' = [mine EXCEPT ![s] = {}]
      /\ UNCHANGED <<up, leaving, presence, ghost, call, failures, run, unsure>>
  BY DEF HandOver, pvars, IInv, TypeOK
<1>3. \A m \in Msgs : job'[m] = IF m \in S THEN "completed" ELSE job[m]
  BY <1>1 DEF Completed
<1>4. \A m \in S : call[m] = "done"
  BY <1>1 DEF IInv, MineOK, JobOK, TypeOK
<1>5. ASSUME NEW m \in Msgs
      PROVE  /\ copies'[m] \in [Sockets -> Nat]
             /\ \A t \in Sockets : /\ t # s => copies'[m][t] = copies[m][t]
                                   /\ copies'[m][s] <= copies[m][s] + 1
                                   /\ copies[m][t] <= copies'[m][t]
  <2>1. copies[m] \in [Sockets -> Nat]
    BY DEF IInv, TypeOK
  <2>2. copies'[m] = copies[m] \/ copies'[m] = [copies[m] EXCEPT ![s] = @ + 1]
    BY <1>1 DEF IInv, TypeOK
  <2> QED BY <2>1, <2>2
<1>6. copies' = [m \in Msgs |-> copies'[m]]
  BY <1>1 DEF IInv, TypeOK
<1>7. TypeOK'
  <2>1. job' \in [Msgs -> {"none", "waiting", "active", "completed", "failed"}]
    BY <1>1 DEF Completed, IInv, TypeOK
  <2>2. why' \in [Msgs -> SUBSET Causes]
    <3>1. why \in [Msgs -> SUBSET Causes]
      BY DEF IInv, TypeOK
    <3>2. CASE \E c \in {"nobody", "withheld"} : Blame(S, c)
      <4>1. PICK c \in Causes : Blame(S, c)
        BY <3>2 DEF Causes
      <4> QED BY <3>1, <4>1 DEF Blame
    <3> QED BY <1>1, <3>1, <3>2
  <2> QED BY <1>2, <1>5, <1>6, <2>1, <2>2 DEF IInv, TypeOK
<1>8. \A m \in Msgs : JobOK(m)'
  BY <1>2, <1>3, <1>4 DEF IInv, JobOK
<1>9. \A t \in Sockets : MineOK(t)'
  BY <1>2, <1>3 DEF IInv, TypeOK, MineOK
<1>10. \A m \in Msgs, t \in Sockets : Bound(m, t)'
  <2> SUFFICES ASSUME NEW m \in Msgs, NEW t \in Sockets PROVE Bound(m, t)'
    OBVIOUS
  <2>1. Bound(m, t) /\ copies[m][t] \in Nat /\ copies'[m][t] \in Nat /\ unsure[m] \in Nat
    BY <1>7 DEF IInv, TypeOK
  <2>2. Unsent(m)' => Unsent(m)
    BY <1>2, <1>3, <1>4 DEF Unsent
  <2>3. CASE t = s
    BY <1>2, <1>5, <2>1, <2>2, <2>3 DEF Bound, IInv, TypeOK
  <2>4. CASE t # s
    BY <1>2, <1>5, <2>1, <2>2, <2>4 DEF Bound, IInv, TypeOK
  <2> QED BY <2>3, <2>4
<1>11. Accounted'
  <2> SUFFICES ASSUME NEW m \in Msgs
               PROVE  (Pending(m) \/ Got(m) \/ job[m] = "failed" \/ why[m] # {})'
    BY DEF Accounted
  <2>1. CASE m \in S
    <3>1. CASE \E c \in {"nobody", "withheld"} : Blame(S, c)
      BY <2>1, <3>1 DEF Blame
    <3>2. CASE copies' = [n \in Msgs |-> IF n \in S THEN [copies[n] EXCEPT ![s] = @ + 1]
                                         ELSE copies[n]]
      <4>1. copies'[m][s] = copies[m][s] + 1 /\ copies[m][s] \in Nat
        BY <2>1, <3>2 DEF IInv, TypeOK
      <4> QED BY <4>1 DEF Got
    <3> QED BY <1>1, <3>1, <3>2
  <2>2. CASE m \notin S
    <3>1. job'[m] = job[m] /\ call'[m] = call[m] /\ why[m] \subseteq why'[m]
      BY <1>1, <1>2, <1>3, <2>2 DEF Blame
    <3>2. Got(m) => Got(m)'
      <4> SUFFICES ASSUME NEW t \in Sockets, copies[m][t] > 0 PROVE copies'[m][t] > 0
        BY DEF Got
      <4>1. copies[m][t] \in Nat /\ copies'[m][t] \in Nat /\ copies[m][t] <= copies'[m][t]
        BY <1>5, <1>7 DEF IInv, TypeOK
      <4> QED BY <4>1
    <3> QED BY <3>1, <3>2 DEF IInv, Accounted, Pending
  <2> QED BY <2>1, <2>2
<1>12. GoneIsOffline'
  BY <1>2 DEF IInv, GoneIsOffline
<1> QED BY <1>7, <1>8, <1>9, <1>10, <1>11, <1>12 DEF IInv

\* A step on one message leaves the others alone.
LEMMA MessageInv ==
  ASSUME IInv, NEW m \in Msgs, UNCHANGED <<cvars, pvars>>, TypeOK',
         \A n \in Msgs : n # m => /\ call'[n] = call[n] /\ job'[n] = job[n] /\ run'[n] = run[n]
                                 /\ copies'[n] = copies[n] /\ unsure'[n] = unsure[n]
                                 /\ why'[n] = why[n],
         JobOK(m)', job[m] # "none" => job'[m] # "none",
         (Pending(m) \/ Got(m) \/ job[m] = "failed" \/ why[m] # {})',
         \A s \in Sockets : Bound(m, s)'
  PROVE  IInv'
<1>1. \A n \in Msgs : JobOK(n)'
  BY DEF IInv, JobOK
<1>2. \A s \in Sockets : MineOK(s)'
  BY DEF IInv, MineOK, cvars, TypeOK
<1>3. \A n \in Msgs, s \in Sockets : Bound(n, s)'
  <2> SUFFICES ASSUME NEW n \in Msgs, NEW s \in Sockets, n # m PROVE Bound(n, s)'
    OBVIOUS
  <2> QED BY DEF IInv, Bound, Unsent, cvars
<1>4. Accounted'
  <2>1. ASSUME NEW n \in Msgs, n # m
        PROVE  (Pending(n) \/ Got(n) \/ job[n] = "failed" \/ why[n] # {})'
    BY <2>1 DEF IInv, Accounted, Pending, Got
  <2> QED BY <2>1 DEF Accounted
<1>5. GoneIsOffline'
  BY DEF IInv, GoneIsOffline, cvars, pvars
<1> QED BY <1>1, <1>2, <1>3, <1>4, <1>5 DEF IInv

\* An accident of m
LEMMA BlameOnce ==
  ASSUME TypeOK, NEW m \in Msgs, NEW c \in Causes, Blame({m}, c)
  PROVE  /\ why' \in [Msgs -> SUBSET Causes]
         /\ \A n \in Msgs : n # m => why'[n] = why[n]
         /\ why'[m] # {}
BY DEF Blame, TypeOK

\* PUBLISH of m: at most one copy more for each socket; someone got it, or
\* it is noted that nobody was there.
LEMMA EmitOnce ==
  ASSUME TypeOK, NEW m \in Msgs, Emit(m)
  PROVE  /\ copies' \in [Msgs -> [Sockets -> Nat]]
         /\ why' \in [Msgs -> SUBSET Causes]
         /\ \A n \in Msgs : n # m => copies'[n] = copies[n] /\ why'[n] = why[n]
         /\ \A s \in Sockets : copies'[m][s] <= copies[m][s] + 1
         /\ Got(m)' \/ why'[m] # {}
<1>1. CASE up = {}
  <2>1. Blame({m}, "nobody") /\ UNCHANGED copies
    BY <1>1 DEF Emit
  <2>2. \A s \in Sockets : copies'[m][s] <= copies[m][s] + 1
    BY <2>1 DEF TypeOK
  <2>3. /\ why' \in [Msgs -> SUBSET Causes] /\ why'[m] # {}
        /\ \A n \in Msgs : n # m => why'[n] = why[n]
    BY <2>1, BlameOnce DEF Causes
  <2> QED BY <2>1, <2>2, <2>3 DEF TypeOK
<1>2. CASE up # {}
  <2>1. copies' = [copies EXCEPT ![m] = [s \in Sockets |-> IF s \in up THEN copies[m][s] + 1
                                                           ELSE copies[m][s]]]
    BY <1>2 DEF Emit
  <2>2. why' = why
    BY <1>2 DEF Emit
  <2>3. \A s \in Sockets : copies[m][s] \in Nat
    BY DEF TypeOK
  <2>4. PICK s \in up : s \in Sockets
    BY <1>2 DEF TypeOK
  <2>5. copies'[m][s] = copies[m][s] + 1
    BY <2>1, <2>4 DEF TypeOK
  <2> QED BY <2>1, <2>2, <2>3, <2>4, <2>5 DEF TypeOK, Got
<1> QED BY <1>1, <1>2

\* The calls of publish
LEMMA CallInv ==
  ASSUME IInv, NEW m \in Msgs, Publish(m) \/ Send(m) \/ Enqueue(m)
  PROVE  IInv'
<1>1. \A s \in Sockets : Bound(m, s) /\ copies[m][s] \in Nat /\ unsure[m] \in Nat
  BY DEF IInv, TypeOK
<1>2. CASE Publish(m)
  <2>1. PICK c \in {"send", "queue"} : call' = [call EXCEPT ![m] = c]
    BY <1>2 DEF Publish
  <2>2. call[m] = "none" /\ UNCHANGED <<cvars, pvars, qvars, mvars>>
    BY <1>2 DEF Publish
  <2>3. TypeOK'
    BY <2>1, <2>2 DEF cvars, pvars, qvars, mvars, IInv, TypeOK
  <2>4. call[m] # "done" /\ call'[m] # "done"
    BY <2>1, <2>2 DEF IInv, TypeOK
  <2>5. JobOK(m)' /\ \A s \in Sockets : Bound(m, s)'
    BY <1>1, <2>2, <2>4 DEF cvars, qvars, mvars, IInv, JobOK, Bound, Unsent
  <2>6. \A n \in Msgs : n # m => call'[n] = call[n]
    BY <2>1 DEF IInv, TypeOK
  <2> QED BY <2>2, <2>3, <2>4, <2>5, <2>6, MessageInv DEF qvars, mvars, Pending
<1>3. CASE Send(m)
  <2>1. call[m] = "send" /\ call' = [call EXCEPT ![m] = "done"]
        /\ UNCHANGED <<cvars, pvars, qvars, unsure>>
    BY <1>3 DEF Send
  <2>2. /\ copies' \in [Msgs -> [Sockets -> Nat]]
        /\ why' \in [Msgs -> SUBSET Causes]
        /\ \A n \in Msgs : n # m => copies'[n] = copies[n] /\ why'[n] = why[n]
        /\ \A s \in Sockets : copies'[m][s] <= copies[m][s] + 1
        /\ Got(m)' \/ why'[m] # {}
    <3>1. CASE Emit(m)
      BY <3>1, EmitOnce DEF IInv
    <3>2. CASE Blame({m}, "unpublished") /\ UNCHANGED copies
      <4>1. \A s \in Sockets : copies'[m][s] <= copies[m][s] + 1
        BY <1>1, <3>2
      <4>2. /\ why' \in [Msgs -> SUBSET Causes] /\ why'[m] # {}
            /\ \A n \in Msgs : n # m => why'[n] = why[n]
        BY <3>2, BlameOnce DEF Causes, IInv
      <4> QED BY <3>2, <4>1, <4>2 DEF IInv, TypeOK
    <3> QED BY <1>3, <3>1, <3>2 DEF Send
  <2>3. TypeOK'
    BY <2>1, <2>2 DEF cvars, pvars, qvars, IInv, TypeOK
  <2>4. job[m] = "none" /\ run[m] = "idle"
    BY <2>1 DEF IInv, JobOK, TypeOK
  <2>5. JobOK(m)'
    BY <2>1, <2>4 DEF qvars, JobOK
  <2>6. ASSUME NEW s \in Sockets PROVE Bound(m, s)'
    <3>1. copies'[m][s] \in Nat /\ copies'[m][s] <= copies[m][s] + 1
      BY <2>2
    <3>2. Unsent(m) /\ ~Unsent(m)'
      BY <2>1, <2>3, <2>4 DEF Unsent, qvars, IInv, TypeOK
    <3> QED BY <1>1, <2>1, <3>1, <3>2 DEF Bound, cvars
  <2>7. \A n \in Msgs : n # m => call'[n] = call[n]
    BY <2>1 DEF IInv, TypeOK
  <2> QED BY <2>1, <2>2, <2>3, <2>4, <2>5, <2>6, <2>7, MessageInv DEF qvars
<1>4. CASE Enqueue(m)
  <2>1. call[m] = "queue" /\ call' = [call EXCEPT ![m] = "done"]
        /\ UNCHANGED <<cvars, pvars, failures, run, copies, unsure>>
    BY <1>4 DEF Enqueue
  <2>2. /\ job' \in [Msgs -> {"none", "waiting", "active", "completed", "failed"}]
        /\ why' \in [Msgs -> SUBSET Causes]
        /\ \A n \in Msgs : n # m => job'[n] = job[n] /\ why'[n] = why[n]
        /\ job'[m] = "waiting" \/ (job'[m] = job[m] /\ why'[m] # {})
    <3>1. CASE job' = [job EXCEPT ![m] = "waiting"] /\ UNCHANGED why
      BY <3>1 DEF IInv, TypeOK
    <3>2. CASE Blame({m}, "unqueued") /\ UNCHANGED job
      BY <3>2, BlameOnce DEF Causes, IInv, TypeOK
    <3> QED BY <1>4, <3>1, <3>2 DEF Enqueue
  <2>3. TypeOK' /\ call'[m] = "done" /\ \A n \in Msgs : n # m => call'[n] = call[n]
    BY <2>1, <2>2 DEF cvars, pvars, IInv, TypeOK
  <2>4. run[m] = "idle" /\ run' = run /\ job[m] = "none"
    BY <2>1 DEF IInv, JobOK, TypeOK
  <2>5. JobOK(m)' /\ Unsent(m) /\ (Pending(m)' \/ why'[m] # {})
    BY <2>1, <2>2, <2>3, <2>4 DEF JobOK, Pending, Unsent
  <2>6. \A s \in Sockets : Bound(m, s)'
    BY <1>1, <2>1, <2>5 DEF cvars, Bound
  <2> QED BY <2>1, <2>2, <2>3, <2>4, <2>5, <2>6, MessageInv
<1> QED BY <1>2, <1>3, <1>4

\* A failed attempt of m
LEMMA RequeuedOnce ==
  ASSUME TypeOK, NEW m \in Msgs, Requeued(m)
  PROVE  /\ failures' \in [Msgs -> Nat]
         /\ job' \in [Msgs -> {"none", "waiting", "active", "completed", "failed"}]
         /\ \A n \in Msgs : n # m => job'[n] = job[n]
         /\ IF job[m] = "completed" THEN job'[m] = "completed"
            ELSE job'[m] \in {"waiting", "failed"}
<1>1. failures[m] + 1 \in Nat
  BY DEF TypeOK
<1> QED BY <1>1 DEF Requeued, TypeOK

\* The steps of a worker
LEMMA WorkerInv ==
  ASSUME IInv, NEW m \in Msgs, WorkerStep(m)
  PROVE  IInv'
<1>1. \A s \in Sockets : Bound(m, s) /\ copies[m][s] \in Nat /\ unsure[m] \in Nat
  BY DEF IInv, TypeOK
<1>2. CASE Take(m)
  <2>1. job[m] = "waiting" /\ UNCHANGED <<cvars, pvars, call, mvars>>
    BY <1>2 DEF Take
  <2>2. run[m] = "idle" /\ call[m] = "done"
    BY <2>1 DEF IInv, JobOK, TypeOK
  <2>3. /\ failures' \in [Msgs -> Nat]
        /\ job' \in [Msgs -> {"none", "waiting", "active", "completed", "failed"}]
        /\ run' \in [Msgs -> {"idle", "recheck", "publish", "drop"}]
        /\ \A n \in Msgs : n # m => job'[n] = job[n] /\ run'[n] = run[n]
        /\ \/ job'[m] = "active" /\ run'[m] = "recheck"
           \/ job'[m] \in {"waiting", "failed"} /\ run'[m] = "idle"
    <3>1. CASE /\ job' = [job EXCEPT ![m] = "active"]
               /\ run' = [run EXCEPT ![m] = "recheck"]
               /\ UNCHANGED failures
      BY <3>1 DEF IInv, TypeOK
    <3>2. CASE Requeued(m) /\ UNCHANGED run
      BY <2>1, <2>2, <3>2, RequeuedOnce DEF IInv, TypeOK
    <3> QED BY <1>2, <3>1, <3>2 DEF Take
  <2>4. TypeOK'
    BY <2>1, <2>3 DEF cvars, pvars, mvars, IInv, TypeOK
  <2>5. JobOK(m)' /\ Unsent(m) /\ (Pending(m) \/ Got(m) \/ job[m] = "failed" \/ why[m] # {})'
    BY <2>1, <2>2, <2>3 DEF JobOK, Pending, Unsent
  <2>6. \A s \in Sockets : Bound(m, s)'
    BY <1>1, <2>1, <2>5 DEF cvars, mvars, Bound
  <2> QED BY <2>1, <2>3, <2>4, <2>5, <2>6, MessageInv DEF mvars
<1>3. CASE Recheck(m)
  <2>1. PICK r \in {"publish", "drop"} : run' = [run EXCEPT ![m] = r]
    BY <1>3 DEF Recheck
  <2>2. run[m] = "recheck" /\ UNCHANGED <<cvars, pvars, call, job, failures, mvars>>
    BY <1>3 DEF Recheck
  <2>3. TypeOK'
    BY <2>1, <2>2 DEF cvars, pvars, mvars, IInv, TypeOK
  <2>4. run'[m] # "idle" /\ \A n \in Msgs : n # m => run'[n] = run[n]
    BY <2>1 DEF IInv, TypeOK
  <2>5. JobOK(m)' /\ Unsent(m) /\ Unsent(m)'
    BY <2>2, <2>4 DEF JobOK, Unsent, IInv
  <2>6. (Pending(m) \/ Got(m) \/ job[m] = "failed" \/ why[m] # {})'
    BY <2>2 DEF IInv, Accounted, Pending, Got, mvars
  <2>7. \A s \in Sockets : Bound(m, s)'
    BY <1>1, <2>2, <2>5 DEF cvars, mvars, Bound
  <2> QED BY <2>2, <2>3, <2>4, <2>5, <2>6, <2>7, MessageInv DEF mvars
<1>4. CASE Finish(m)
  <2>1. /\ run[m] # "idle" /\ run' = [run EXCEPT ![m] = "idle"]
        /\ job' = [job EXCEPT ![m] = "completed"]
        /\ UNCHANGED <<cvars, pvars, call, failures, unsure>>
    BY <1>4 DEF Finish, Completed, IInv, TypeOK
  <2>2. call[m] = "done" /\ job'[m] = "completed" /\ run'[m] = "idle"
    BY <2>1 DEF IInv, JobOK, TypeOK
  <2>3. /\ copies' \in [Msgs -> [Sockets -> Nat]]
        /\ why' \in [Msgs -> SUBSET Causes]
        /\ \A n \in Msgs : n # m => copies'[n] = copies[n] /\ why'[n] = why[n]
        /\ \A s \in Sockets : copies'[m][s] <= copies[m][s] + 1
        /\ Got(m)' \/ why'[m] # {}
    <3>1. CASE Emit(m)
      BY <3>1, EmitOnce DEF IInv
    <3>2. CASE Blame({m}, "ignored") /\ UNCHANGED copies
      BY <1>1, <3>2, BlameOnce DEF Causes, IInv, TypeOK
    <3> QED BY <1>4, <3>1, <3>2 DEF Finish
  <2>4. TypeOK'
    BY <2>1, <2>3 DEF cvars, pvars, IInv, TypeOK
  <2>5. JobOK(m)' /\ Unsent(m)
    BY <2>1, <2>2 DEF JobOK, Unsent
  <2>6. ASSUME NEW s \in Sockets PROVE Bound(m, s)'
    <3>1. copies'[m][s] \in Nat /\ copies'[m][s] <= copies[m][s] + 1
      BY <2>3
    <3>2. ~Unsent(m)'
      BY <2>1, <2>2 DEF Unsent
    <3> QED BY <1>1, <2>1, <2>5, <3>1, <3>2 DEF Bound, cvars
  <2>7. \A n \in Msgs : n # m => job'[n] = job[n] /\ run'[n] = run[n]
    BY <2>1 DEF IInv, TypeOK
  <2> QED BY <2>1, <2>2, <2>3, <2>4, <2>5, <2>6, <2>7, MessageInv
<1>5. CASE FinishFails(m)
  <2>1. /\ run[m] = "publish" /\ run' = [run EXCEPT ![m] = "idle"] /\ Requeued(m)
        /\ UNCHANGED <<cvars, pvars, call>>
    BY <1>5 DEF FinishFails
  <2>2. call[m] = "done" /\ job[m] \in {"active", "completed"} /\ run'[m] = "idle"
    BY <2>1 DEF IInv, JobOK, TypeOK
  <2>3. /\ copies' \in [Msgs -> [Sockets -> Nat]] /\ unsure' \in [Msgs -> Nat]
        /\ why' \in [Msgs -> SUBSET Causes]
        /\ \A n \in Msgs : n # m => /\ copies'[n] = copies[n] /\ why'[n] = why[n]
                                    /\ unsure'[n] = unsure[n]
        /\ \/ UNCHANGED <<copies, unsure, why>>
           \/ /\ unsure'[m] = unsure[m] + 1 /\ (Got(m)' \/ why'[m] # {})
              /\ \A s \in Sockets : copies'[m][s] <= copies[m][s] + 1
    <3>1. CASE UNCHANGED mvars
      BY <3>1 DEF mvars, IInv, TypeOK
    <3>2. CASE Emit(m) /\ unsure' = [unsure EXCEPT ![m] = @ + 1]
      BY <1>1, <3>2, EmitOnce DEF IInv, TypeOK
    <3> QED BY <1>5, <3>1, <3>2 DEF FinishFails
  <2>4. /\ failures' \in [Msgs -> Nat]
        /\ job' \in [Msgs -> {"none", "waiting", "active", "completed", "failed"}]
        /\ \A n \in Msgs : n # m => job'[n] = job[n] /\ run'[n] = run[n]
        /\ job'[m] \in {"waiting", "failed"} \/ (job[m] = "completed" /\ job'[m] = "completed")
    BY <2>1, RequeuedOnce DEF IInv, TypeOK
  <2>5. TypeOK'
    BY <2>1, <2>3, <2>4 DEF cvars, pvars, IInv, TypeOK
  <2>6. JobOK(m)' /\ Unsent(m)
    BY <2>1, <2>2, <2>4 DEF JobOK, Unsent
  <2>7. (Pending(m) \/ Got(m) \/ job[m] = "failed" \/ why[m] # {})'
    <3>1. CASE job'[m] \in {"waiting", "failed"}
      BY <3>1 DEF Pending
    <3>2. CASE job[m] = "completed" /\ UNCHANGED <<copies, unsure, why>>
      BY <2>2, <3>2 DEF IInv, Accounted, Pending, Got
    <3> QED BY <2>3, <2>4, <3>1, <3>2
  <2>8. ASSUME NEW s \in Sockets PROVE Bound(m, s)'
    <3>1. copies'[m][s] \in Nat /\ unsure'[m] \in Nat
      BY <2>5 DEF TypeOK
    <3> QED BY <1>1, <2>1, <2>3, <2>6, <3>1 DEF Bound, cvars
  <2> QED BY <2>1, <2>2, <2>3, <2>4, <2>5, <2>6, <2>7, <2>8, MessageInv
<1> QED BY <1>2, <1>3, <1>4, <1>5 DEF WorkerStep

LEMMA NextInv == IInv /\ [Next]_vars => IInv'
<1> SUFFICES ASSUME IInv, [Next]_vars PROVE IInv'
  OBVIOUS
<1>1. CASE UNCHANGED vars
  <2>1. TypeOK' /\ GoneIsOffline' /\ \A s \in Sockets : MineOK(s)'
    BY <1>1 DEF vars, cvars, pvars, qvars, mvars, IInv, TypeOK, GoneIsOffline, MineOK
  <2> QED BY <1>1, <2>1, SocketInv DEF vars, cvars, qvars
<1> QED BY <1>1, ConnectInv, PresenceInv, ExpireInv, HandOverInv, CallInv, WorkerInv DEF Next, SocketStep

THEOREM Invariance == Spec => []IInv
BY InitInv, NextInv, PTL DEF Spec

\* However many instances count their own sockets, a user without any is not
\* left online but for a late or refused write.
THEOREM GoneAlwaysOffline == Spec => []GoneIsOffline
<1>1. IInv => GoneIsOffline
  BY DEF IInv
<1> QED BY <1>1, Invariance, PTL

\* However jobs are retried, handed over and completed behind a worker's back,
\* no socket receives a message a third time, but for a PUBLISH made again
\* because its success was reported as a failure.
THEOREM TwiceAtMost == Spec => []AtMostTwice
<1>1. IInv => AtMostTwice
  <2> SUFFICES ASSUME IInv, NEW m \in Msgs, NEW s \in Sockets
               PROVE  copies[m][s] <= 2 + unsure[m]
    BY DEF AtMostTwice
  <2>1. Bound(m, s) /\ copies[m][s] \in Nat /\ unsure[m] \in Nat
    BY DEF IInv, TypeOK
  <2> QED BY <2>1 DEF Bound
<1> QED BY <1>1, Invariance, PTL

\* No message disappears between its queue, its retries and a hand-over but by
\* an accident that has a name.
THEOREM AllAccounted == Spec => []Accounted
<1>1. IInv => Accounted
  BY DEF IInv
<1> QED BY <1>1, Invariance, PTL

================================================================================
