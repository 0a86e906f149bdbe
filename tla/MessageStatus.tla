----------------------------- MODULE MessageStatus -----------------------------
(***************************************************************************)
(* Delivery status of one message: its recipients ask for "delivered" or   *)
(* "read", the request becomes a job of the Bull queue status-updates, a   *)
(* worker reads the recipient's row, writes the status, appends to the     *)
(* history and tells the sender's sockets.  Sockets of the sender come and *)
(* go; a connecting one is sent the current statuses.                      *)
(*                                                                         *)
(* Workers are the processors of the server instances (one job at a time   *)
(* each).  Bull hands jobs out in the order of arrival, but a failed job   *)
(* comes back after its backoff, behind any number of younger ones: a      *)
(* worker takes any waiting job.                                           *)
(*                                                                         *)
(* Abstracted: the 24-hour window of the synchronisation (everything here  *)
(* happens inside it) and timestamps.                                      *)
(***************************************************************************)
EXTENDS Naturals, Sequences

CONSTANTS
  Recipients,
  Sockets,      \* sockets of the sender
  Workers,
  MaxJobs,      \* bound: jobs queued in a run
  Attempts,     \* attempts of a job; 3 in the code
  MayFail,      \* may a database access of a worker fail?
  None          \* no row, no job, nothing seen

Statuses == {"sent", "delivered", "read"}

Job  == [id: 1..MaxJobs, to: Recipients, status: Statuses, failures: 0..Attempts]
Work == [job: Job, at: {"save", "history", "notify"}, previous: Statuses]
Seen == [Recipients -> Statuses \cup {None}]

ASSUME MessageStatusAssumption ==
  /\ MaxJobs \in Nat /\ Attempts \in Nat \ {0}
  /\ MayFail \in BOOLEAN
  /\ None \notin Statuses \cup Work

VARIABLES
  row,       \* status column of each recipient's row, None before it exists
  history,   \* status_updates of each recipient: sequence of <<previous, new>>
  jobs,      \* waiting and delayed jobs
  dead,      \* jobs that used up their attempts
  added,     \* number of jobs ever queued; names them
  work,      \* the job each worker runs, and how far it is
  online,    \* sockets in the sender's room
  tracked,   \* does connectedUsers hold the sender?
  sync,      \* the rows a connecting socket's synchronisation has read
  view       \* the last status each socket was sent for each recipient

vars == <<row, history, jobs, dead, added, work, online, tracked, sync, view>>
dbvars == <<row, history>>
qvars == <<jobs, dead, added>>
svars == <<online, tracked, sync, view>>

\* "sent" < "delivered" < "read"
Downgrade(from, to) ==
  \/ from = "read" /\ to \in {"delivered", "sent"}
  \/ from = "delivered" /\ to = "sent"

Init ==
  /\ row = [r \in Recipients |-> None]
  /\ history = [r \in Recipients |-> <<>>]
  /\ jobs = {} /\ dead = {} /\ added = 0
  /\ work = [w \in Workers |-> None]
  /\ online = {} /\ tracked = FALSE
  /\ sync = [s \in Sockets |-> None]
  /\ view = [s \in Sockets |-> [r \in Recipients |-> None]]

\* updateMessageStatus
Queue(r, s) ==
  /\ added < MaxJobs
  /\ added' = added + 1
  /\ jobs' = jobs \cup {[id |-> added + 1, to |-> r, status |-> s, failures |-> 0]}
  /\ UNCHANGED <<dead, work>>

\* createMessage, for one of its recipients: the row, then the "sent" job.
CreateRecipient(r) ==
  /\ row[r] = None
  /\ row' = [row EXCEPT ![r] = "sent"]
  /\ Queue(r, "sent")
  /\ UNCHANGED <<history, svars>>

\* POST /status/:messageId and the socket event status:read.  Neither looks
\* whether the user has a row for the message, or has one already.
Update(r, s) ==
  /\ Queue(r, s)
  /\ UNCHANGED <<dbvars, svars>>

(***************************************************************************)
(* processStatusUpdate.  findOne and the downgrade check on what it read.  *)
(***************************************************************************)
Take(w, j) ==
  /\ work[w] = None
  /\ row[j.to] # None
  /\ jobs' = jobs \ {j}
  /\ work' = IF Downgrade(row[j.to], j.status) THEN work
             ELSE [work EXCEPT ![w] = [job |-> j, at |-> "save", previous |-> row[j.to]]]
  /\ UNCHANGED <<dbvars, dead, added, svars>>

\* Bull queues a job that failed again until its last attempt.
Retry(j, rest) ==
  LET again == [j EXCEPT !.failures = @ + 1]
  IN IF again.failures < Attempts
     THEN jobs' = rest \cup {again} /\ UNCHANGED dead
     ELSE jobs' = rest /\ dead' = dead \cup {again}

\* "Message recipient record not found": the handler throws.
NotFound(w, j) ==
  /\ work[w] = None
  /\ row[j.to] = None
  /\ Retry(j, jobs \ {j})
  /\ UNCHANGED <<dbvars, added, work, svars>>

Working(w, at) == work[w] # None /\ work[w].at = at

SaveRow(w) ==
  /\ Working(w, "save")
  /\ row' = [row EXCEPT ![work[w].job.to] = work[w].job.status]
  /\ work' = [work EXCEPT ![w].at = "history"]
  /\ UNCHANGED <<history, qvars, svars>>

SaveHistory(w) ==
  /\ Working(w, "history")
  /\ history' = [history EXCEPT ![work[w].job.to] =
                   Append(@, <<work[w].previous, work[w].job.status>>)]
  /\ work' = [work EXCEPT ![w].at = "notify"]
  /\ UNCHANGED <<row, qvars, svars>>

\* Mutant of Notify: the sender is told before the write as well.
NotifyAtOnce(w) ==
  /\ work[w] # None
  /\ view' = [s \in Sockets |-> IF tracked /\ s \in online
                                THEN [view[s] EXCEPT ![work[w].job.to] = work[w].job.status]
                                ELSE view[s]]
  /\ work' = IF work[w].at = "notify" THEN [work EXCEPT ![w] = None] ELSE work
  /\ UNCHANGED <<dbvars, qvars, online, tracked, sync>>

\* sendStatusUpdate to the sender's room, if isUserConnected.
Notify(w) ==
  /\ Working(w, "notify")
  /\ view' = [s \in Sockets |-> IF tracked /\ s \in online
                                THEN [view[s] EXCEPT ![work[w].job.to] = work[w].job.status]
                                ELSE view[s]]
  /\ work' = [work EXCEPT ![w] = None]
  /\ UNCHANGED <<dbvars, qvars, online, tracked, sync>>

\* Mutant of Fail: the handler swallows the error.
FailSilently(w) ==
  /\ MayFail
  /\ work[w] # None
  /\ work' = [work EXCEPT ![w] = None]
  /\ UNCHANGED <<dbvars, qvars, svars>>

\* A database access of the handler fails, and the handler throws.
Fail(w) ==
  /\ MayFail
  /\ work[w] # None
  /\ Retry(work[w].job, jobs)
  /\ work' = [work EXCEPT ![w] = None]
  /\ UNCHANGED <<dbvars, added, svars>>

(***************************************************************************)
(* StatusGateway.  handleConnection: into the map and the room, then the   *)
(* query of syncStatusUpdatesForUser, then its emission to the room.       *)
(***************************************************************************)
Connect(s) ==
  /\ s \notin online /\ sync[s] = None
  /\ online' = online \cup {s}
  /\ tracked' = TRUE
  /\ sync' = [sync EXCEPT ![s] = row]
  /\ UNCHANGED <<dbvars, qvars, work, view>>

SyncEmit(s) ==
  /\ sync[s] # None
  /\ view' = [t \in Sockets |->
                IF t \in online
                THEN [r \in Recipients |-> IF sync[s][r] = None THEN view[t][r] ELSE sync[s][r]]
                ELSE view[t]]
  /\ sync' = [sync EXCEPT ![s] = None]
  /\ UNCHANGED <<dbvars, qvars, work, online, tracked>>

\* handleDisconnect forgets the user, whichever of its sockets went away.
Disconnect(s) ==
  /\ s \in online
  /\ online' = online \ {s}
  /\ tracked' = FALSE
  /\ view' = [view EXCEPT ![s] = [r \in Recipients |-> None]]
  /\ UNCHANGED <<dbvars, qvars, work, sync>>

WorkerStep(w) ==
  \/ \E j \in jobs : Take(w, j) \/ NotFound(w, j)
  \/ SaveRow(w) \/ SaveHistory(w) \/ Notify(w)

Next ==
  \/ \E r \in Recipients : CreateRecipient(r)
  \/ \E r \in Recipients, s \in Statuses : Update(r, s)
  \/ \E w \in Workers : WorkerStep(w) \/ Fail(w)
  \/ \E s \in Sockets : Connect(s) \/ SyncEmit(s) \/ Disconnect(s)

Spec == Init /\ [][Next]_vars

\* Bull's workers take waiting jobs as long as there are any.
FairSpec == Spec /\ \A w \in Workers : WF_vars(WorkerStep(w))
--------------------------------------------------------------------------------
TypeOK ==
  /\ row \in Seen
  /\ history \in [Recipients -> Seq(Statuses \X Statuses)]
  /\ jobs \subseteq Job /\ dead \subseteq Job
  /\ added \in 0..MaxJobs
  /\ work \in [Workers -> Work \cup {None}]
  /\ online \subseteq Sockets /\ tracked \in BOOLEAN
  /\ sync \in [Sockets -> Seen \cup {None}]
  /\ view \in [Sockets -> Seen]

(***************************************************************************)
(* A status a row shows beyond "sent" has its history record, or a job     *)
(* still owes it, or the job failed for good: what is written is never     *)
(* forgotten on the way between the two tables.                            *)
(***************************************************************************)
Recorded(r, s) == \E i \in 1..Len(history[r]) : history[r][i][2] = s
Owes(j, r, s) == j.to = r /\ j.status = s
RecordedOrOwed ==
  \A r \in Recipients :
    row[r] \in {"delivered", "read"} =>
      \/ Recorded(r, row[r])
      \/ \E j \in jobs \cup dead : Owes(j, r, row[r])
      \/ \E w \in Workers : work[w] # None /\ Owes(work[w].job, r, row[r])

(***************************************************************************)
(* A row never goes back from read to delivered or sent: "Don't process    *)
(* status downgrades".  True while one worker runs the queue.              *)
(***************************************************************************)
NeverDowngraded == [][\A r \in Recipients : ~Downgrade(row[r], row'[r])]_vars

(***************************************************************************)
(* No socket of the sender shows a status ahead of the row: the sender is  *)
(* told after the write, and rows do not go back.                          *)
(***************************************************************************)
SenderNeverAhead ==
  \A s \in Sockets, r \in Recipients :
    view[s][r] # None => ~Downgrade(view[s][r], row[r])

\* A recipient's request to mark the message read ends with the row at
\* "read" or the job among the dead ones.
ReadIsServed ==
  \A r \in Recipients :
    (\E j \in jobs : j.to = r /\ j.status = "read")
      ~> (row[r] = "read" \/ \E j \in dead : j.to = r /\ j.status = "read")
================================================================================
