---------------------------- MODULE OfflineDelivery ----------------------------
(***************************************************************************)
(* WebsocketsGateway, WebsocketsService, PresenceService and the Bull      *)
(* queue websocket-messages, for one user.  The user's sockets come and go *)
(* on several server instances; services publish messages for the user;    *)
(* a message for a user whose presence is not "online" becomes a job that  *)
(* retries, and a connecting socket is handed what is still queued.        *)
(*                                                                         *)
(* The user's presence is one Redis key all instances share; the map from  *)
(* users to sockets is local to each instance.  A socket id is used once:  *)
(* a client that reconnects is another socket.                             *)
(*                                                                         *)
(* updateUserPresence and isUserOnline catch what Redis throws: a failed  *)
(* SET is as if it had not been asked for, a failed GET reads as "not      *)
(* online".  Handlers of a socket may run on after its disconnection.      *)
(*                                                                         *)
(* Assumed: the socket is authenticated.  Abstracted: the heartbeat timer, *)
(* which is one of the causes of Disconnect; the SET of the presence key   *)
(* and its EXPIRE are one step; "busy", which every guard treats as        *)
(* "away"; rooms and what is broadcast to them, which module Rooms has.    *)
(***************************************************************************)
EXTENDS Naturals, FiniteSets

CONSTANTS
  Instances,
  Sockets,
  Home,       \* the instance each socket connects to
  Msgs,       \* messages for the user, by messageId
  Attempts,   \* attempts of a job; 3 in the code
  MayFail     \* may a command to Redis, the queue's included, be refused?

ASSUME OfflineDeliveryAssumption ==
  /\ Home \in [Sockets -> Instances]
  /\ Attempts \in Nat \ {0}
  /\ MayFail \in BOOLEAN

VARIABLES
  up,         \* sockets connected: in the user's room and in userSocketMap
  opening,    \* how far handleConnection is for each socket
  leaving,    \* sockets whose handleDisconnect has still to write "offline"
  presence,   \* status under user:presence:<user>, "none" when absent
  call,       \* how far the publish call of each message is
  job,        \* state of the job of each message
  failures,   \* failed attempts of each job
  run,        \* how far a worker is with each job
  mine,       \* jobs a connecting socket found
  copies,     \* copies of each message each socket received
  unsure,     \* PUBLISHes of each message carried out and reported as failed
  why,        \* what befell each message: history, read by properties only
  ghost       \* history: the key was last written for a socket already gone,
              \* or the "offline" that was to replace it was refused

cvars == <<up, opening, leaving, mine>>
pvars == <<presence, ghost>>
qvars == <<job, failures, run>>
mvars == <<copies, unsure, why>>
vars == <<cvars, pvars, call, qvars, mvars>>

Choices == {"online", "away", "offline"}

\* Emitted with nobody there; an add ignored under the id of a known job;
\* an add refused; a PUBLISH refused; completed and not handed over.
Causes == {"nobody", "ignored", "unqueued", "unpublished", "withheld"}

Init ==
  /\ up = {}
  /\ opening = [s \in Sockets |-> "new"]
  /\ leaving = {}
  /\ presence = "none"
  /\ call = [m \in Msgs |-> "none"]
  /\ job = [m \in Msgs |-> "none"]
  /\ failures = [m \in Msgs |-> 0]
  /\ run = [m \in Msgs |-> "idle"]
  /\ mine = [s \in Sockets |-> {}]
  /\ copies = [m \in Msgs |-> [s \in Sockets |-> 0]]
  /\ unsure = [m \in Msgs |-> 0]
  /\ why = [m \in Msgs |-> {}]
  /\ ghost = FALSE

\* updateUserPresence for socket s
Store(s, p) ==
  \/ presence' = p /\ ghost' = (p # "offline" /\ s \notin up)
  \/ MayFail /\ UNCHANGED pvars

\* What isUserOnline may answer
SaysOnline == presence = "online"
SaysOffline == presence # "online" \/ MayFail

(***************************************************************************)
(* handleConnection.  Maps and room; the presence; then getJobs; then the  *)
(* completion of what was found and the emission to the socket.  Nothing   *)
(* asks again whether the socket is still there.                           *)
(***************************************************************************)
Connect(s) ==
  /\ opening[s] = "new"
  /\ up' = up \cup {s}
  /\ opening' = [opening EXCEPT ![s] = "presence"]
  /\ UNCHANGED <<leaving, mine, pvars, call, qvars, mvars>>

SetOnline(s) ==
  /\ opening[s] = "presence"
  /\ Store(s, "online")
  /\ opening' = [opening EXCEPT ![s] = "fetch"]
  /\ UNCHANGED <<up, leaving, mine, call, qvars, mvars>>

\* getJobs waiting, delayed and active
Queued == {m \in Msgs : job[m] \in {"waiting", "active"}}

Fetch(s) ==
  /\ opening[s] = "fetch"
  /\ \/ mine' = [mine EXCEPT ![s] = Queued]
     \/ MayFail /\ UNCHANGED mine
  /\ opening' = [opening EXCEPT ![s] = "emit"]
  /\ UNCHANGED <<up, leaving, pvars, call, qvars, mvars>>

\* A job is completed whatever a worker is doing with it.
Completed(S) == job' = [m \in Msgs |-> IF m \in S THEN "completed" ELSE job[m]]

Blame(S, cause) == why' = [m \in Msgs |-> IF m \in S THEN why[m] \cup {cause} ELSE why[m]]

\* moveToCompleted succeeded on all of mine[s], or was refused for one of
\* them: then the messages are not returned, though others are completed.
HandOver(s) ==
  /\ opening[s] = "emit"
  /\ \/ /\ Completed(mine[s])
        /\ IF s \in up
           THEN /\ copies' = [m \in Msgs |-> IF m \in mine[s]
                                             THEN [copies[m] EXCEPT ![s] = @ + 1]
                                             ELSE copies[m]]
                /\ UNCHANGED why
           ELSE Blame(mine[s], "nobody") /\ UNCHANGED copies
     \/ /\ MayFail
        /\ \E S \in SUBSET mine[s] : S # mine[s] /\ Completed(S) /\ Blame(S, "withheld")
        /\ UNCHANGED copies
  /\ opening' = [opening EXCEPT ![s] = "done"]
  /\ mine' = [mine EXCEPT ![s] = {}]
  /\ UNCHANGED <<up, leaving, pvars, call, failures, run, unsure>>

\* Mutant of Disconnect: the leaving socket still counts.
DisconnectCountsSelf(s) ==
  /\ s \in up
  /\ up' = up \ {s}
  /\ leaving' = IF {t \in up : Home[t] = Home[s]} = {} THEN leaving \cup {s} ELSE leaving
  /\ UNCHANGED <<opening, mine, pvars, call, qvars, mvars>>

\* handleDisconnect.  The last socket on this instance, as userSocketMap
\* counts them, has the presence to write.
Disconnect(s) ==
  /\ s \in up
  /\ up' = up \ {s}
  /\ leaving' = IF {t \in up' : Home[t] = Home[s]} = {} THEN leaving \cup {s} ELSE leaving
  /\ UNCHANGED <<opening, mine, pvars, call, qvars, mvars>>

SetOffline(s) ==
  /\ s \in leaving
  /\ leaving' = leaving \ {s}
  /\ \/ presence' = "offline" /\ ghost' = FALSE
     \/ MayFail /\ ghost' = TRUE /\ UNCHANGED presence
  /\ UNCHANGED <<up, opening, mine, call, qvars, mvars>>

\* presenceUpdate and heartbeat, which says "online".  The guards of a
\* handler are awaited: its SET may come after the socket has gone.
SetPresence(s, p) ==
  /\ opening[s] # "new"
  /\ Store(s, p)
  /\ UNCHANGED <<cvars, call, qvars, mvars>>

Heartbeat(s) == SetPresence(s, "online")

\* "away" is stored without an expiry.
Expire ==
  /\ presence \in {"online", "offline"}
  /\ presence' = "none"
  /\ UNCHANGED <<cvars, ghost, call, qvars, mvars>>

(***************************************************************************)
(* WebsocketsService.publish of a message for the user: isUserOnline, then *)
(* the queue or the channel.                                               *)
(***************************************************************************)
Publish(m) ==
  /\ call[m] = "none"
  /\ \/ SaysOnline /\ call' = [call EXCEPT ![m] = "send"]
     \/ SaysOffline /\ call' = [call EXCEPT ![m] = "queue"]
  /\ UNCHANGED <<cvars, pvars, qvars, mvars>>

\* PUBLISH: every instance emits to its own sockets in the user's room.
Emit(m) ==
  IF up = {}
  THEN Blame({m}, "nobody") /\ UNCHANGED copies
  ELSE /\ copies' = [copies EXCEPT ![m] =
            [s \in Sockets |-> IF s \in up THEN @[s] + 1 ELSE @[s]]]
       /\ UNCHANGED why

\* Refused, the error is rethrown to whoever called publish.
Send(m) ==
  /\ call[m] = "send"
  /\ \/ Emit(m)
     \/ MayFail /\ Blame({m}, "unpublished") /\ UNCHANGED copies
  /\ call' = [call EXCEPT ![m] = "done"]
  /\ UNCHANGED <<cvars, pvars, qvars, unsure>>

\* Mutant of Enqueue: one job id for all messages of the user.
EnqueueByUser(m) ==
  /\ call[m] = "queue"
  /\ job' = IF \E n \in Msgs : job[n] # "none" THEN job ELSE [job EXCEPT ![m] = "waiting"]
  /\ call' = [call EXCEPT ![m] = "done"]
  /\ UNCHANGED <<cvars, pvars, failures, run, mvars>>

\* queueMessageForOfflineUser, which catches a refused add: its caller goes
\* on as if the message were queued.
Enqueue(m) ==
  /\ call[m] = "queue"
  /\ \/ job' = [job EXCEPT ![m] = "waiting"] /\ UNCHANGED why
     \/ MayFail /\ Blame({m}, "unqueued") /\ UNCHANGED job
  /\ call' = [call EXCEPT ![m] = "done"]
  /\ UNCHANGED <<cvars, pvars, failures, run, copies, unsure>>

(***************************************************************************)
(* processOfflineMessage: isUserOnline; if so publish, which asks again.   *)
(* The queue ignores an add under the id of a job it knows, so the second  *)
(* answer "offline" queues nothing and the job ends as done.               *)
(***************************************************************************)
Requeued(m) ==
  /\ failures' = [failures EXCEPT ![m] = @ + 1]
  /\ job' = [job EXCEPT ![m] = IF @ = "completed" THEN @
                               ELSE IF failures[m] + 1 < Attempts THEN "waiting" ELSE "failed"]

\* Mutant of Take: attempts are not counted.
TakeUncounted(m) ==
  /\ job[m] = "waiting"
  /\ SaysOnline
  /\ job' = [job EXCEPT ![m] = "active"]
  /\ run' = [run EXCEPT ![m] = "recheck"]
  /\ UNCHANGED <<cvars, pvars, call, failures, mvars>>

Take(m) ==
  /\ job[m] = "waiting"
  /\ Cardinality({n \in Msgs : run[n] # "idle"}) < Cardinality(Instances)
  /\ \/ /\ SaysOnline
        /\ job' = [job EXCEPT ![m] = "active"]
        /\ run' = [run EXCEPT ![m] = "recheck"]
        /\ UNCHANGED failures
     \/ SaysOffline /\ Requeued(m) /\ UNCHANGED run
  /\ UNCHANGED <<cvars, pvars, call, mvars>>

Recheck(m) ==
  /\ run[m] = "recheck"
  /\ \/ SaysOnline /\ run' = [run EXCEPT ![m] = "publish"]
     \/ SaysOffline /\ run' = [run EXCEPT ![m] = "drop"]
  /\ UNCHANGED <<cvars, pvars, call, job, failures, mvars>>

\* Mutant of Finish: the job is queued again after its delivery.
FinishAgain(m) ==
  /\ \/ run[m] = "publish" /\ Emit(m)
     \/ run[m] = "drop" /\ Blame({m}, "ignored") /\ UNCHANGED copies
  /\ run' = [run EXCEPT ![m] = "idle"]
  /\ job' = [job EXCEPT ![m] = "waiting"]
  /\ UNCHANGED <<cvars, pvars, call, failures, unsure>>

Finish(m) ==
  /\ \/ run[m] = "publish" /\ Emit(m)
     \/ run[m] = "drop" /\ Blame({m}, "ignored") /\ UNCHANGED copies
  /\ run' = [run EXCEPT ![m] = "idle"]
  /\ Completed({m})
  /\ UNCHANGED <<cvars, pvars, call, failures, unsure>>

\* publish throws: PUBLISH was refused, or its answer was lost.  The job is
\* tried again.
FinishFails(m) ==
  /\ MayFail
  /\ run[m] = "publish"
  /\ \/ UNCHANGED mvars
     \/ Emit(m) /\ unsure' = [unsure EXCEPT ![m] = @ + 1]
  /\ run' = [run EXCEPT ![m] = "idle"]
  /\ Requeued(m)
  /\ UNCHANGED <<cvars, pvars, call>>

SocketStep(s) ==
  \/ Connect(s) \/ SetOnline(s) \/ Fetch(s) \/ HandOver(s)
  \/ Disconnect(s) \/ SetOffline(s) \/ Heartbeat(s) \/ \E p \in Choices : SetPresence(s, p)

WorkerStep(m) == Take(m) \/ Recheck(m) \/ Finish(m) \/ FinishFails(m)

Next ==
  \/ \E s \in Sockets : SocketStep(s)
  \/ Expire
  \/ \E m \in Msgs : Publish(m) \/ Send(m) \/ Enqueue(m) \/ WorkerStep(m)

Spec == Init /\ [][Next]_vars

\* Handlers and calls that began run on, and Bull hands out waiting jobs.
FairSpec ==
  /\ Spec
  /\ \A m \in Msgs : WF_vars(Send(m) \/ Enqueue(m) \/ WorkerStep(m))
  /\ \A s \in Sockets : WF_vars(SetOnline(s) \/ Fetch(s) \/ HandOver(s))
--------------------------------------------------------------------------------
Got(m) == \E s \in Sockets : copies[m][s] > 0
Pending(m) == call[m] # "done" \/ job[m] \in {"waiting", "active"}

(***************************************************************************)
(* Once a user's sockets are gone from all instances the shared key does   *)
(* not go on saying that the user is there, though each instance counts    *)
(* its own sockets only: unless a disconnection has its "offline" still to *)
(* write, or the key was last written late, by a handler of a socket       *)
(* already gone, or that "offline" was refused.                            *)
(***************************************************************************)
GoneIsOffline ==
  up = {} /\ presence \in {"online", "away"} => ghost \/ leaving # {}

(***************************************************************************)
(* No socket receives a message more than twice, once when it connects and *)
(* once from the channel, and once more for each PUBLISH that was carried  *)
(* out and reported as failed, which is tried again.  Queueing again and   *)
(* the hand-over behind a worker's back do not add up to more.             *)
(***************************************************************************)
AtMostTwice == \A m \in Msgs, s \in Sockets : copies[m][s] <= 2 + unsure[m]

(***************************************************************************)
(* A message for which nothing is pending reached a socket, is among the   *)
(* failed jobs, or met one of the named accidents: it was emitted with no  *)
(* socket there, refused by the queue or by PUBLISH, dropped by a worker   *)
(* that saw the user online and then not, or completed for a connecting    *)
(* socket and withheld from it.                                            *)
(***************************************************************************)
Accounted == \A m \in Msgs : Pending(m) \/ Got(m) \/ job[m] = "failed" \/ why[m] # {}

\* Every message handed to publish is settled: the attempts of its job run
\* out or end in a delivery.
EverySettles == \A m \in Msgs : call[m] # "none" ~> ~Pending(m)


================================================================================
