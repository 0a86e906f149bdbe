-------------------------- MODULE MessageStatusProofs --------------------------
(***************************************************************************)
(* Safety of MessageStatus for any number of recipients, sockets, jobs and *)
(* attempts.  The first part holds for any number of workers.  The second  *)
(* is about one worker, the only writer of a row once it exists: what it   *)
(* read is still there when it writes.                                     *)
(***************************************************************************)
EXTENDS MessageStatus, TLAPS

\* A job in a queue or with a worker has an attempt left, and a worker that
\* goes on to notify has written the history record.
AttemptLeft ==
  /\ \A j \in jobs : j.failures < Attempts
  /\ \A w \in Workers : work[w] # None => work[w].job.failures < Attempts
RecordedBeforeNotify ==
  \A w \in Workers : Working(w, "notify") => Recorded(work[w].job.to, work[w].job.status)
IInv == TypeOK /\ RecordedOrOwed /\ AttemptLeft /\ RecordedBeforeNotify

LEMMA InitInv == Init => IInv
<1> SUFFICES ASSUME Init PROVE IInv
  OBVIOUS
<1>1. row \in Seen /\ \A r \in Recipients : row[r] = None
  BY DEF Init, Seen
<1>2. history \in [Recipients -> Seq(Statuses \X Statuses)]
  <2>1. <<>> \in Seq(Statuses \X Statuses)
    OBVIOUS
  <2>. QED BY <2>1 DEF Init
<1>3. jobs = {} /\ dead = {} /\ added \in 0..MaxJobs
  BY MessageStatusAssumption DEF Init
<1>4. work \in [Workers -> Work \cup {None}] /\ \A w \in Workers : work[w] = None
  BY DEF Init
<1>5. sync \in [Sockets -> Seen \cup {None}]
  BY DEF Init
<1>6. view \in [Sockets -> Seen]
  <2>1. [r \in Recipients |-> None] \in Seen
    BY DEF Seen
  <2>. QED BY <2>1 DEF Init
<1>7. online \subseteq Sockets /\ tracked \in BOOLEAN
  BY DEF Init
<1>8. TypeOK
  BY <1>1, <1>2, <1>3, <1>4, <1>5, <1>6, <1>7 DEF TypeOK
<1>9. RecordedOrOwed
  BY <1>1, MessageStatusAssumption DEF RecordedOrOwed, Statuses
<1>10. AttemptLeft /\ RecordedBeforeNotify
  BY <1>3, <1>4 DEF AttemptLeft, RecordedBeforeNotify, Working
<1>. QED BY <1>8, <1>9, <1>10 DEF IInv

LEMMA QueueInv ==
  ASSUME IInv, NEW r \in Recipients, NEW s \in Statuses, Queue(r, s),
         row' \in Seen, UNCHANGED <<history, svars>>,
         \A t \in Recipients : row'[t] = row[t] \/ row'[t] = "sent"
  PROVE  IInv'
<1> DEFINE new == [id |-> added + 1, to |-> r, status |-> s, failures |-> 0]
<1>1. new \in Job /\ added' \in 0..MaxJobs /\ new.failures < Attempts
  BY MessageStatusAssumption DEF Queue, IInv, TypeOK, Job
<1>2. jobs' = jobs \cup {new} /\ dead' = dead /\ work' = work /\ history' = history
  BY DEF Queue
<1>. HIDE DEF new
<1>3. TypeOK'
  BY <1>1, <1>2 DEF IInv, TypeOK, svars
<1>4. RecordedOrOwed'
  BY <1>2 DEF IInv, RecordedOrOwed, Recorded, Owes
<1>5. AttemptLeft'
  BY <1>1, <1>2 DEF IInv, AttemptLeft
<1>6. RecordedBeforeNotify'
  BY <1>2 DEF IInv, RecordedBeforeNotify, Working, Recorded
<1>. QED
  BY <1>3, <1>4, <1>5, <1>6 DEF IInv

LEMMA TakeInv == ASSUME IInv, NEW w \in Workers, NEW j \in jobs, Take(w, j) PROVE IInv'
<1>1. CASE Downgrade(row[j.to], j.status)
  <2>1. jobs' = jobs \ {j} /\ UNCHANGED <<dbvars, dead, added, work, svars>>
    BY <1>1 DEF Take
  <2>2. j \in Job
    BY DEF IInv, TypeOK
  <2>3. \A r \in Recipients : row[r] \in {"delivered", "read"} => ~Owes(j, r, row[r])
    BY <1>1 DEF Owes, Downgrade
  <2>4. TypeOK'
    BY <2>1 DEF IInv, TypeOK, dbvars, svars
  <2>5. RecordedOrOwed'
    BY <2>1, <2>3 DEF IInv, RecordedOrOwed, Recorded, Owes, dbvars
  <2>6. AttemptLeft' /\ RecordedBeforeNotify'
    BY <2>1 DEF IInv, AttemptLeft, RecordedBeforeNotify, Working, Recorded, dbvars
  <2>. QED BY <2>4, <2>5, <2>6 DEF IInv
<1>2. CASE ~Downgrade(row[j.to], j.status)
  <2> DEFINE now == [job |-> j, at |-> "save", previous |-> row[j.to]]
  <2>1. /\ jobs' = jobs \ {j} /\ work[w] = None /\ work' = [work EXCEPT ![w] = now]
        /\ UNCHANGED <<dbvars, dead, added, svars>>
    BY <1>2 DEF Take
  <2>2. j \in Job /\ j.to \in Recipients
    BY DEF IInv, TypeOK, Job
  <2>3. row[j.to] \in Statuses
    BY <2>2 DEF Take, IInv, TypeOK, Seen
  <2>4. now \in Work /\ now # None /\ now.job = j /\ now.at = "save"
    BY <2>2, <2>3, MessageStatusAssumption DEF Work
  <2>. HIDE DEF now
  <2>5. TypeOK'
    BY <2>1, <2>4 DEF IInv, TypeOK, dbvars, svars
  <2>6. /\ work'[w] = now
        /\ \A v \in Workers : v # w => work'[v] = work[v]
    BY <2>1 DEF IInv, TypeOK
  <2>7. RecordedOrOwed'
    BY <2>1, <2>4, <2>6 DEF IInv, RecordedOrOwed, Recorded, Owes, dbvars
  <2>8. AttemptLeft'
    BY <2>1, <2>4, <2>6 DEF IInv, AttemptLeft
  <2>9. RecordedBeforeNotify'
    BY <2>1, <2>4, <2>6 DEF IInv, RecordedBeforeNotify, Working, Recorded, dbvars
  <2>. QED BY <2>5, <2>7, <2>8, <2>9 DEF IInv
<1>. QED BY <1>1, <1>2

LEMMA WorkTyped ==
  ASSUME IInv, NEW w \in Workers, work[w] # None
  PROVE  /\ work[w] \in Work /\ work[w].job \in Job
         /\ work[w].job.to \in Recipients /\ work[w].job.status \in Statuses
         /\ work[w].previous \in Statuses
         /\ \A a \in {"save", "history", "notify"} :
              [work[w] EXCEPT !.at = a] \in Work /\ [work[w] EXCEPT !.at = a] # None
BY MessageStatusAssumption DEF IInv, TypeOK, Work, Job

LEMMA SaveRowInv == ASSUME IInv, NEW w \in Workers, SaveRow(w) PROVE IInv'
<1> DEFINE job == work[w].job
<1> DEFINE now == [work[w] EXCEPT !.at = "history"]
<1>1. work[w] # None /\ work[w].at = "save"
  BY DEF SaveRow, Working
<1>2. /\ row' = [row EXCEPT ![job.to] = job.status]
      /\ work' = [work EXCEPT ![w] = now] /\ UNCHANGED <<history, qvars, svars>>
  BY DEF SaveRow
<1>3. /\ work[w] \in Work /\ job.to \in Recipients /\ job.status \in Statuses
      /\ now \in Work /\ now # None /\ now.job = job /\ now.at = "history"
  BY <1>1, WorkTyped DEF Work
<1>. HIDE DEF now
<1>4. work'[w] = now /\ \A v \in Workers : v # w => work'[v] = work[v]
  BY <1>2 DEF IInv, TypeOK
<1>5. /\ row'[job.to] = job.status
      /\ \A r \in Recipients : r # job.to => row'[r] = row[r]
  BY <1>2, <1>3 DEF IInv, TypeOK, Seen
<1>6. TypeOK'
  <2>1. row' \in Seen
    BY <1>2, <1>3 DEF IInv, TypeOK, Seen
  <2>2. work' \in [Workers -> Work \cup {None}]
    BY <1>2, <1>3 DEF IInv, TypeOK
  <2>. QED BY <1>2, <2>1, <2>2 DEF IInv, TypeOK, qvars, svars
<1>7. RecordedOrOwed'
  BY <1>1, <1>2, <1>3, <1>4, <1>5 DEF IInv, RecordedOrOwed, Recorded, Owes, qvars
<1>8. AttemptLeft'
  BY <1>1, <1>2, <1>3, <1>4 DEF IInv, AttemptLeft, qvars
<1>9. RecordedBeforeNotify'
  BY <1>1, <1>2, <1>3, <1>4 DEF IInv, RecordedBeforeNotify, Working, Recorded
<1>. QED BY <1>6, <1>7, <1>8, <1>9 DEF IInv

LEMMA SaveHistoryInv == ASSUME IInv, NEW w \in Workers, SaveHistory(w) PROVE IInv'
<1> DEFINE job == work[w].job
<1> DEFINE rec == <<work[w].previous, job.status>>
<1> DEFINE now == [work[w] EXCEPT !.at = "notify"]
<1>1. work[w] # None
  BY DEF SaveHistory, Working
<1>2. /\ history' = [history EXCEPT ![job.to] = Append(@, rec)]
      /\ work' = [work EXCEPT ![w] = now] /\ UNCHANGED <<row, qvars, svars>>
  BY DEF SaveHistory
<1>3. /\ work[w] \in Work /\ job.to \in Recipients /\ job.status \in Statuses
      /\ rec \in Statuses \X Statuses /\ rec[2] = job.status
      /\ now \in Work /\ now # None /\ now.job = job
  BY <1>1, WorkTyped DEF Work
<1>. HIDE DEF now, rec
<1>4. work'[w] = now /\ \A v \in Workers : v # w => work'[v] = work[v]
  BY <1>2 DEF IInv, TypeOK
<1>5. /\ history'[job.to] = Append(history[job.to], rec)
      /\ \A r \in Recipients : r # job.to => history'[r] = history[r]
  BY <1>2, <1>3 DEF IInv, TypeOK
<1>6. history[job.to] \in Seq(Statuses \X Statuses)
  BY <1>3 DEF IInv, TypeOK
<1>7. TypeOK'
  <2>1. history' \in [Recipients -> Seq(Statuses \X Statuses)]
    <3>1. Append(history[job.to], rec) \in Seq(Statuses \X Statuses)
      BY <1>3, <1>6
    <3>. QED BY <1>2, <3>1 DEF IInv, TypeOK
  <2>2. work' \in [Workers -> Work \cup {None}]
    BY <1>2, <1>3 DEF IInv, TypeOK
  <2>. QED BY <1>2, <2>1, <2>2 DEF IInv, TypeOK, qvars, svars
<1>8. \A r \in Recipients, s \in Statuses : Recorded(r, s) => Recorded(r, s)'
  <2> SUFFICES ASSUME NEW r \in Recipients, NEW s \in Statuses, Recorded(r, s)
               PROVE  Recorded(r, s)'
    OBVIOUS
  <2>1. CASE r # job.to
    BY <1>5, <2>1 DEF Recorded
  <2>2. CASE r = job.to
    <3>1. PICK i \in 1..Len(history[r]) : history[r][i][2] = s
      BY DEF Recorded
    <3>2. i \in 1..Len(Append(history[r], rec)) /\ Append(history[r], rec)[i] = history[r][i]
      BY <1>6, <2>2, <3>1
    <3>. QED BY <1>5, <2>2, <3>1, <3>2 DEF Recorded
  <2>. QED BY <2>1, <2>2
<1>9. \E i \in 1..Len(history'[job.to]) : history'[job.to][i][2] = job.status
  <2> DEFINE h == history[job.to]
  <2>1. Len(h) + 1 \in 1..Len(Append(h, rec)) /\ Append(h, rec)[Len(h) + 1] = rec
    BY <1>6
  <2>. QED BY <2>1, <1>3, <1>5
<1>10. RecordedOrOwed'
  <2>1. \A r \in Recipients : row[r] \in {"delivered", "read"} => row[r] \in Statuses
    BY DEF Statuses
  <2>2. \A v \in Workers, r \in Recipients :
          /\ work[v] # None => work'[v] # None
          /\ Owes(work[v].job, r, row[r]) => Owes(work'[v].job, r, row[r])
    BY <1>3, <1>4 DEF Owes
  <2>. QED BY <1>2, <1>8, <2>1, <2>2 DEF IInv, RecordedOrOwed, Owes, qvars
<1>11. AttemptLeft'
  BY <1>1, <1>2, <1>3, <1>4 DEF IInv, AttemptLeft, qvars
<1>12. RecordedBeforeNotify'
  <2> SUFFICES ASSUME NEW v \in Workers, Working(v, "notify")'
               PROVE  Recorded(work[v].job.to, work[v].job.status)'
    BY DEF RecordedBeforeNotify
  <2>1. CASE v = w
    BY <1>3, <1>4, <1>9, <2>1 DEF Recorded
  <2>2. CASE v # w
    <3>1. work'[v] = work[v] /\ Working(v, "notify")
      BY <1>4, <2>2 DEF Working
    <3>2. Recorded(work[v].job.to, work[v].job.status)
      BY <3>1 DEF IInv, RecordedBeforeNotify
    <3>3. work[v].job.to \in Recipients /\ work[v].job.status \in Statuses
      BY <3>1, WorkTyped DEF Working
    <3>. QED BY <1>8, <3>1, <3>2, <3>3 DEF Recorded
  <2>. QED BY <2>1, <2>2
<1>. QED BY <1>7, <1>10, <1>11, <1>12 DEF IInv

\* A worker that leaves the notify step has recorded what its job asked for.
LEMMA NotifyInv == ASSUME IInv, NEW w \in Workers, Notify(w) PROVE IInv'
<1> DEFINE job == work[w].job
<1>1. work[w] # None /\ work[w].at = "notify" /\ Recorded(job.to, job.status)
  BY DEF Notify, Working, IInv, RecordedBeforeNotify
<1>2. /\ work' = [work EXCEPT ![w] = None]
      /\ UNCHANGED <<dbvars, qvars, online, tracked, sync>>
  BY DEF Notify
<1>3. job.to \in Recipients /\ job.status \in Statuses
  BY <1>1, WorkTyped
<1>4. work'[w] = None /\ \A v \in Workers : v # w => work'[v] = work[v]
  BY <1>2 DEF IInv, TypeOK
<1>5. view' \in [Sockets -> Seen]
  <2>1. \A s \in Sockets : [view[s] EXCEPT ![job.to] = job.status] \in Seen
    BY <1>3 DEF IInv, TypeOK, Seen
  <2>. QED BY <2>1 DEF Notify, IInv, TypeOK
<1>6. TypeOK'
  <2>1. work' \in [Workers -> Work \cup {None}]
    BY <1>2 DEF IInv, TypeOK
  <2>. QED BY <1>2, <1>5, <2>1 DEF IInv, TypeOK, dbvars, qvars
<1>7. RecordedOrOwed'
  BY <1>1, <1>2, <1>3, <1>4 DEF IInv, RecordedOrOwed, Recorded, Owes, dbvars, qvars
<1>8. AttemptLeft' /\ RecordedBeforeNotify'
  BY <1>2, <1>4 DEF IInv, AttemptLeft, RecordedBeforeNotify, Working, Recorded, dbvars, qvars
<1>. QED BY <1>6, <1>7, <1>8 DEF IInv

LEMMA FailInv == ASSUME IInv, NEW w \in Workers, Fail(w) PROVE IInv'
<1> DEFINE job == work[w].job
<1> DEFINE again == [job EXCEPT !.failures = @ + 1]
<1>1. work[w] # None
  BY DEF Fail
<1>2. job \in Job /\ job.failures < Attempts
  BY <1>1, WorkTyped DEF IInv, AttemptLeft
<1>3. /\ again \in Job /\ again.to = job.to /\ again.status = job.status
      /\ again.failures = job.failures + 1
  BY <1>2, MessageStatusAssumption DEF Job
<1>4. /\ work' = [work EXCEPT ![w] = None] /\ UNCHANGED <<dbvars, added, svars>>
      /\ \/ again.failures < Attempts /\ jobs' = jobs \cup {again} /\ dead' = dead
         \/ dead' = dead \cup {again} /\ jobs' = jobs
  BY DEF Fail, Retry
<1>. HIDE DEF again
<1>5. work'[w] = None /\ \A v \in Workers : v # w => work'[v] = work[v]
  BY <1>4 DEF IInv, TypeOK
<1>6. TypeOK'
  <2>1. work' \in [Workers -> Work \cup {None}]
    BY <1>4 DEF IInv, TypeOK
  <2>2. jobs' \subseteq Job /\ dead' \subseteq Job
    BY <1>3, <1>4 DEF IInv, TypeOK
  <2>. QED BY <1>4, <2>1, <2>2 DEF IInv, TypeOK, dbvars, svars
<1>7. RecordedOrOwed'
  <2>1. again \in jobs' \cup dead' /\ jobs \cup dead \subseteq jobs' \cup dead'
    BY <1>4
  <2>2. \A r \in Recipients, s \in Statuses : Owes(job, r, s) => Owes(again, r, s)
    BY <1>3 DEF Owes
  <2>3. \A r \in Recipients : row[r] \in {"delivered", "read"} => row[r] \in Statuses
    BY DEF Statuses
  <2>. QED BY <1>4, <1>5, <2>1, <2>2, <2>3 DEF IInv, RecordedOrOwed, Recorded, Owes, dbvars
<1>8. AttemptLeft'
  BY <1>4, <1>5 DEF IInv, AttemptLeft
<1>9. RecordedBeforeNotify'
  BY <1>4, <1>5 DEF IInv, RecordedBeforeNotify, Working, Recorded, dbvars
<1>. QED BY <1>6, <1>7, <1>8, <1>9 DEF IInv

\* A job that finds no row owes no record, and goes back to the queue.
LEMMA NotFoundInv ==
  ASSUME IInv, NEW w \in Workers, NEW j \in jobs, NotFound(w, j)
  PROVE  IInv'
<1> DEFINE again == [j EXCEPT !.failures = @ + 1]
<1>1. j \in Job /\ j.failures < Attempts /\ row[j.to] = None
  BY DEF IInv, TypeOK, AttemptLeft, NotFound
<1>2. again \in Job /\ again.to = j.to
  BY <1>1, MessageStatusAssumption DEF Job
<1>3. /\ UNCHANGED <<dbvars, added, work, svars>>
      /\ \/ again.failures < Attempts /\ jobs' = (jobs \ {j}) \cup {again} /\ dead' = dead
         \/ dead' = dead \cup {again} /\ jobs' = jobs \ {j}
  BY DEF NotFound, Retry
<1>. HIDE DEF again
<1>4. TypeOK'
  BY <1>2, <1>3 DEF IInv, TypeOK, dbvars, svars
<1>5. \A r \in Recipients : row[r] \in {"delivered", "read"} => ~Owes(j, r, row[r])
  BY <1>1, MessageStatusAssumption DEF Owes, Statuses
<1>6. RecordedOrOwed'
  BY <1>3, <1>5 DEF IInv, RecordedOrOwed, Recorded, Owes, dbvars
<1>7. AttemptLeft'
  BY <1>3 DEF IInv, AttemptLeft
<1>8. RecordedBeforeNotify'
  BY <1>3 DEF IInv, RecordedBeforeNotify, Working, Recorded, dbvars
<1>. QED BY <1>4, <1>6, <1>7, <1>8 DEF IInv

\* The sockets of the sender touch nothing a job depends on.
LEMMA SocketInv ==
  ASSUME IInv, UNCHANGED <<dbvars, qvars, work>>,
         online' \subseteq Sockets, tracked' \in BOOLEAN,
         sync' \in [Sockets -> Seen \cup {None}], view' \in [Sockets -> Seen]
  PROVE  IInv'
<1>1. TypeOK'
  BY DEF IInv, TypeOK, dbvars, qvars
<1>2. RecordedOrOwed'
  BY DEF IInv, RecordedOrOwed, Recorded, Owes, dbvars, qvars
<1>3. AttemptLeft' /\ RecordedBeforeNotify'
  BY DEF IInv, AttemptLeft, RecordedBeforeNotify, Working, Recorded, dbvars, qvars
<1>. QED BY <1>1, <1>2, <1>3 DEF IInv

LEMMA SocketTypes ==
  ASSUME IInv, NEW s \in Sockets, Connect(s) \/ SyncEmit(s) \/ Disconnect(s)
  PROVE  /\ online' \subseteq Sockets /\ tracked' \in BOOLEAN
         /\ sync' \in [Sockets -> Seen \cup {None}] /\ view' \in [Sockets -> Seen]
<1>1. CASE Connect(s)
  BY <1>1 DEF Connect, IInv, TypeOK
<1>2. CASE SyncEmit(s)
  <2>1. sync[s] \in Seen
    BY <1>2 DEF SyncEmit, IInv, TypeOK
  <2>2. \A t \in Sockets :
          [r \in Recipients |-> IF sync[s][r] = None THEN view[t][r] ELSE sync[s][r]] \in Seen
    BY <2>1 DEF IInv, TypeOK, Seen
  <2>3. view' \in [Sockets -> Seen]
    BY <1>2, <2>2 DEF SyncEmit, IInv, TypeOK
  <2>4. sync' \in [Sockets -> Seen \cup {None}]
    BY <1>2 DEF SyncEmit, IInv, TypeOK
  <2>. QED BY <1>2, <2>3, <2>4 DEF SyncEmit, IInv, TypeOK
<1>3. CASE Disconnect(s)
  <2>1. [r \in Recipients |-> None] \in Seen
    BY DEF Seen
  <2>2. view' \in [Sockets -> Seen]
    BY <1>3, <2>1 DEF Disconnect, IInv, TypeOK
  <2>. QED BY <1>3, <2>2 DEF Disconnect, IInv, TypeOK
<1>. QED BY <1>1, <1>2, <1>3

LEMMA NextInv == IInv /\ [Next]_vars => IInv'
<1> SUFFICES ASSUME IInv, [Next]_vars PROVE IInv'
  OBVIOUS
<1>1. ASSUME NEW r \in Recipients, CreateRecipient(r) PROVE IInv'
  <2>1. row' \in Seen /\ \A t \in Recipients : row'[t] = row[t] \/ row'[t] = "sent"
    BY <1>1 DEF CreateRecipient, IInv, TypeOK, Seen, Statuses
  <2>. QED BY <1>1, <2>1, QueueInv DEF CreateRecipient, Statuses
<1>2. ASSUME NEW r \in Recipients, NEW s \in Statuses, Update(r, s) PROVE IInv'
  BY <1>2, QueueInv DEF Update, dbvars, IInv, TypeOK
<1>3. ASSUME NEW w \in Workers, WorkerStep(w) \/ Fail(w) PROVE IInv'
  BY <1>3, TakeInv, NotFoundInv, SaveRowInv, SaveHistoryInv, NotifyInv, FailInv DEF WorkerStep
<1>4. ASSUME NEW s \in Sockets, Connect(s) \/ SyncEmit(s) \/ Disconnect(s) PROVE IInv'
  <2>1. UNCHANGED <<dbvars, qvars, work>>
    BY <1>4 DEF Connect, SyncEmit, Disconnect
  <2>. QED BY <1>4, <2>1, SocketTypes, SocketInv
<1>5. CASE UNCHANGED vars
  <2>1. UNCHANGED <<dbvars, qvars, work, svars>>
    BY <1>5 DEF vars, dbvars, qvars, svars
  <2>. QED BY <2>1, SocketInv DEF svars, IInv, TypeOK
<1>. QED BY <1>1, <1>2, <1>3, <1>4, <1>5 DEF Next

(***************************************************************************)
(* The inductive invariant, for any number of workers.                     *)
(***************************************************************************)
THEOREM Invariance == Spec => []IInv
BY InitInv, NextInv, PTL DEF Spec

\* Types, queue attempts included: no job carries more failures than it has
\* attempts.
THEOREM TypeCorrect == Spec => []TypeOK
<1>1. IInv => TypeOK
  BY DEF IInv
<1>. QED BY <1>1, Invariance, PTL

\* processStatusUpdate loses no history record silently: what a row shows is
\* recorded, or owed by a job, or its job failed for good.
THEOREM NothingForgotten == Spec => []RecordedOrOwed
<1>1. IInv => RecordedOrOwed
  BY DEF IInv
<1>. QED BY <1>1, Invariance, PTL
--------------------------------------------------------------------------------
(***************************************************************************)
(* One worker.  Between its findOne and its save nobody else writes the    *)
(* row, so the downgrade check still holds when the write lands; what a    *)
(* socket was or is about to be sent is a status the row had.              *)
(***************************************************************************)
OneWorker == \E w : Workers = {w}

Behind(v, s) == v # None => s # None /\ ~Downgrade(v, s)
WorkFits ==
  \A w \in Workers : work[w] # None =>
    /\ row[work[w].job.to] # None
    /\ IF work[w].at = "save"
       THEN row[work[w].job.to] = work[w].previous
            /\ ~Downgrade(work[w].previous, work[w].job.status)
       ELSE row[work[w].job.to] = work[w].job.status
SocketsBehind ==
  /\ \A s \in Sockets, r \in Recipients : Behind(view[s][r], row[r])
  /\ \A s \in Sockets, r \in Recipients : sync[s] # None => Behind(sync[s][r], row[r])
SInv == WorkFits /\ SocketsBehind

LEMMA SInit == Init => SInv
<1> SUFFICES ASSUME Init PROVE SInv
  OBVIOUS
<1>1. WorkFits
  BY DEF Init, WorkFits
<1>2. SocketsBehind
  BY DEF Init, SocketsBehind, Behind
<1>. QED BY <1>1, <1>2 DEF SInv

\* "sent", "delivered", "read" are in order: a row that does not go back
\* stays ahead of what was ahead of it.
LEMMA BehindStays ==
  ASSUME NEW v, NEW s \in Statuses \cup {None}, NEW t \in Statuses,
         Behind(v, s), s = None \/ ~Downgrade(s, t)
  PROVE  Behind(v, t)
BY MessageStatusAssumption DEF Behind, Downgrade, Statuses

LEMMA Forward ==
  ASSUME IInv, SocketsBehind, UNCHANGED svars, row' \in Seen,
         \A r \in Recipients : row'[r] = row[r] \/ (row'[r] # None /\ ~Downgrade(row[r], row'[r]))
  PROVE  SocketsBehind'
<1>1. \A r \in Recipients : row[r] \in Statuses \cup {None} /\ row'[r] \in Statuses \cup {None}
  BY DEF IInv, TypeOK, Seen
<1>2. \A r \in Recipients : \A v : Behind(v, row[r]) => Behind(v, row'[r])
  <2> SUFFICES ASSUME NEW r \in Recipients, NEW v, Behind(v, row[r]), row'[r] # row[r]
               PROVE  Behind(v, row'[r])
    OBVIOUS
  <2>. QED BY <1>1, BehindStays
<1>. QED BY <1>2 DEF SocketsBehind, svars

LEMMA SNext == OneWorker /\ IInv /\ SInv /\ [Next]_vars => SInv'
<1> SUFFICES ASSUME OneWorker, IInv, SInv, [Next]_vars PROVE SInv'
  OBVIOUS
<1>0. PICK w \in Workers : Workers = {w}
  BY DEF OneWorker
<1> DEFINE job == work[w].job
<1>t. row \in Seen /\ work[w] # None => job.to \in Recipients /\ job.status \in Statuses
  BY WorkTyped
<1>1. ASSUME NEW r \in Recipients, CreateRecipient(r) PROVE SInv'
  <2>1. /\ row[r] = None /\ row' = [row EXCEPT ![r] = "sent"]
        /\ UNCHANGED <<work, history, svars>>
    BY <1>1 DEF CreateRecipient, Queue
  <2>2. row' \in Seen /\ \A t \in Recipients : row'[t] = row[t] \/ (t = r /\ row'[t] = "sent")
    BY <2>1 DEF IInv, TypeOK, Seen, Statuses
  <2>3. ~Downgrade(None, "sent") /\ "sent" # None
    BY MessageStatusAssumption DEF Downgrade, Statuses
  <2>4. WorkFits'
    BY <1>0, <1>t, <2>1, <2>2, WorkTyped DEF SInv, WorkFits
  <2>5. SocketsBehind'
    BY <2>1, <2>2, <2>3, Forward DEF SInv
  <2>. QED BY <2>4, <2>5 DEF SInv
<1>2. ASSUME NEW r \in Recipients, NEW s \in Statuses, Update(r, s) PROVE SInv'
  BY <1>2 DEF Update, Queue, dbvars, svars, SInv, WorkFits, SocketsBehind
<1>3. ASSUME NEW j \in jobs, Take(w, j) PROVE SInv'
  <2>1. work[w] = None /\ row[j.to] # None /\ UNCHANGED <<dbvars, svars>>
    BY <1>3 DEF Take
  <2>2. \/ work' = work
        \/ /\ ~Downgrade(row[j.to], j.status)
           /\ work'[w] = [job |-> j, at |-> "save", previous |-> row[j.to]]
    BY <1>3 DEF Take, IInv, TypeOK
  <2>3. WorkFits'
    BY <1>0, <2>1, <2>2 DEF WorkFits, dbvars
  <2>. QED BY <2>1, <2>3 DEF SInv, SocketsBehind, dbvars, svars
<1>4. CASE SaveRow(w)
  <2>1. /\ work[w] # None /\ work[w].at = "save"
        /\ row' = [row EXCEPT ![job.to] = job.status]
        /\ work' = [work EXCEPT ![w].at = "history"] /\ UNCHANGED svars
    BY <1>4 DEF SaveRow, Working
  <2>2. /\ job.to \in Recipients /\ job.status \in Statuses /\ job.status # None
        /\ work[w] \in Work
    BY <2>1, WorkTyped, MessageStatusAssumption
  <2>3. ~Downgrade(row[job.to], job.status)
    BY <2>1 DEF SInv, WorkFits
  <2>4. row' \in Seen /\ \A t \in Recipients : row'[t] = row[t]
        \/ (t = job.to /\ row'[t] = job.status)
    BY <2>1, <2>2 DEF IInv, TypeOK, Seen
  <2>5. SocketsBehind'
    BY <2>1, <2>2, <2>3, <2>4, Forward DEF SInv
  <2>6. work'[w] = [work[w] EXCEPT !.at = "history"] /\ row'[job.to] = job.status
    BY <2>1, <2>2 DEF IInv, TypeOK, Seen
  <2>7. work'[w].job = job /\ work'[w].at = "history"
    BY <2>2, <2>6 DEF Work
  <2>8. WorkFits'
    BY <1>0, <2>2, <2>6, <2>7 DEF WorkFits
  <2>. QED BY <2>5, <2>8 DEF SInv
<1>5. CASE SaveHistory(w)
  <2>1. /\ work[w] # None /\ work[w].at = "history"
        /\ work' = [work EXCEPT ![w].at = "notify"] /\ UNCHANGED <<row, svars>>
    BY <1>5 DEF SaveHistory, Working
  <2>2. work[w] \in Work
    BY <2>1, WorkTyped
  <2>3. work'[w].job = job /\ work'[w].at = "notify"
    BY <2>1, <2>2 DEF IInv, TypeOK, Work
  <2>4. WorkFits'
    BY <1>0, <2>1, <2>3 DEF SInv, WorkFits
  <2>. QED BY <2>1, <2>4 DEF SInv, SocketsBehind, svars
<1>6. CASE Notify(w)
  <2>1. /\ work[w] # None /\ work[w].at = "notify"
        /\ work' = [work EXCEPT ![w] = None] /\ UNCHANGED <<row, sync>>
    BY <1>6 DEF Notify, Working, dbvars
  <2>2. job.to \in Recipients /\ job.status \in Statuses
    BY <2>1, WorkTyped
  <2>3. row[job.to] = job.status
    BY <2>1 DEF SInv, WorkFits
  <2>4. \A s \in Sockets, r \in Recipients :
          view'[s][r] = view[s][r] \/ (r = job.to /\ view'[s][r] = job.status)
    BY <1>6, <2>2 DEF Notify, IInv, TypeOK, Seen
  <2>5. Behind(job.status, job.status)
    BY <2>2 DEF Behind, Downgrade, Statuses
  <2>6. SocketsBehind'
    BY <2>1, <2>3, <2>4, <2>5 DEF SInv, SocketsBehind
  <2>7. WorkFits'
    BY <1>0, <2>1 DEF WorkFits, IInv, TypeOK
  <2>. QED BY <2>6, <2>7 DEF SInv
<1>7. CASE Fail(w)
  <2>1. work' = [work EXCEPT ![w] = None] /\ UNCHANGED <<row, svars>>
    BY <1>7 DEF Fail, dbvars
  <2>2. WorkFits'
    BY <1>0, <2>1 DEF WorkFits, IInv, TypeOK
  <2>. QED BY <2>1, <2>2 DEF SInv, SocketsBehind, svars
<1>8. ASSUME NEW s \in Sockets, Connect(s) PROVE SInv'
  <2>1. UNCHANGED <<row, work, view>> /\ sync' = [sync EXCEPT ![s] = row]
    BY <1>8 DEF Connect, dbvars
  <2>2. \A r \in Recipients : Behind(row[r], row[r])
    BY DEF IInv, TypeOK, Seen, Behind, Downgrade, Statuses
  <2>3. \A t \in Sockets : sync'[t] = sync[t] \/ sync'[t] = row
    BY <2>1 DEF IInv, TypeOK
  <2>4. SocketsBehind'
    BY <2>1, <2>2, <2>3 DEF SInv, SocketsBehind
  <2>. QED BY <2>1, <2>4 DEF SInv, WorkFits
<1>9. ASSUME NEW s \in Sockets, SyncEmit(s) PROVE SInv'
  <2>1. UNCHANGED <<row, work>> /\ sync[s] # None /\ sync' = [sync EXCEPT ![s] = None]
    BY <1>9 DEF SyncEmit, dbvars
  <2>2. \A t \in Sockets, r \in Recipients :
          view'[t][r] = view[t][r] \/ view'[t][r] = sync[s][r]
    BY <1>9 DEF SyncEmit, IInv, TypeOK, Seen
  <2>3. \A t \in Sockets : sync'[t] = sync[t] \/ sync'[t] = None
    BY <2>1 DEF IInv, TypeOK
  <2>4. SocketsBehind'
    BY <2>1, <2>2, <2>3 DEF SInv, SocketsBehind
  <2>. QED BY <2>1, <2>4 DEF SInv, WorkFits
<1>10. ASSUME NEW s \in Sockets, Disconnect(s) PROVE SInv'
  <2>1. UNCHANGED <<row, work, sync>>
    BY <1>10 DEF Disconnect, dbvars
  <2>2. \A t \in Sockets, r \in Recipients : view'[t][r] = view[t][r] \/ view'[t][r] = None
    BY <1>10 DEF Disconnect, IInv, TypeOK
  <2>3. SocketsBehind'
    BY <2>1, <2>2 DEF SInv, SocketsBehind, Behind
  <2>. QED BY <2>1, <2>3 DEF SInv, WorkFits
<1>11. ASSUME NEW j \in jobs, NotFound(w, j) PROVE SInv'
  BY <1>11 DEF NotFound, SInv, WorkFits, SocketsBehind, dbvars, svars
<1>12. CASE UNCHANGED vars
  BY <1>12 DEF vars, SInv, WorkFits, SocketsBehind
<1>. QED
  BY <1>0, <1>1, <1>2, <1>3, <1>4, <1>5, <1>6, <1>7, <1>8, <1>9, <1>10, <1>11,
     <1>12 DEF Next, WorkerStep

LEMMA OneWorkerInvariance == ASSUME OneWorker PROVE Spec => [](IInv /\ SInv)
BY InitInv, NextInv, SInit, SNext, PTL DEF Spec

\* One worker: what the sender's sockets show, the row has reached.
THEOREM SenderBehind == ASSUME OneWorker PROVE Spec => []SenderNeverAhead
<1>1. SInv => SenderNeverAhead
  BY DEF SInv, SocketsBehind, Behind, SenderNeverAhead
<1>. QED BY <1>1, OneWorkerInvariance, PTL

\* One worker: a row never goes back.
THEOREM NoDowngrade == ASSUME OneWorker PROVE Spec => NeverDowngraded
<1>1. IInv /\ SInv /\ [Next]_vars => [\A r \in Recipients : ~Downgrade(row[r], row'[r])]_vars
  <2> SUFFICES ASSUME IInv, SInv, Next, NEW r \in Recipients PROVE ~Downgrade(row[r], row'[r])
    OBVIOUS
  <2>1. ~Downgrade(row[r], row[r]) /\ row[r] \in Statuses \cup {None}
    BY DEF IInv, TypeOK, Seen, Downgrade
  <2>2. ASSUME NEW t \in Recipients, CreateRecipient(t) PROVE ~Downgrade(row[r], row'[r])
    <3>1. ~Downgrade(None, "sent")
      BY MessageStatusAssumption DEF Downgrade, Statuses
    <3>. QED BY <2>1, <2>2, <3>1 DEF CreateRecipient, IInv, TypeOK, Seen
  <2>3. ASSUME NEW w \in Workers, SaveRow(w) PROVE ~Downgrade(row[r], row'[r])
    <3>1. work[w] # None /\ ~Downgrade(row[work[w].job.to], work[w].job.status)
      BY <2>3 DEF SaveRow, Working, SInv, WorkFits
    <3>. QED BY <2>1, <2>3, <3>1 DEF SaveRow, IInv, TypeOK, Seen
  <2>4. CASE row' = row
    BY <2>1, <2>4
  <2>. QED
    BY <2>2, <2>3, <2>4
       DEF Next, WorkerStep, Update, Take, NotFound, SaveHistory, Notify, Fail, Connect, SyncEmit,
           Disconnect, dbvars
<1>. QED BY <1>1, OneWorkerInvariance, PTL DEF Spec, NeverDowngraded
================================================================================
