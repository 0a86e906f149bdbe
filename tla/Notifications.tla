------------------------------ MODULE Notifications ------------------------------
(***************************************************************************)
(* The notifications of a user (notifications/).  One is stored, and a job *)
(* queued for each channel its recipient has enabled.  A job stores a      *)
(* delivery, sends, and saves what came of it; if that fails the delivery  *)
(* is saved as failed and the error thrown on, so that the queue tries the *)
(* job again, which stores another delivery.                               *)
(*                                                                         *)
(* In-app is an event that the gateway passes to the recipient's sockets;  *)
(* the email service has no sendEmail, so that the call throws; push,      *)
(* webhook and blockchain are placeholders that always succeed.  The name  *)
(* of a channel is any string: one that the processor does not know        *)
(* throws.  Abstracted: the types, templates and contents.  Nothing        *)
(* removes a notification, a channel or a template, so that reading them   *)
(* is part of the step that comes after.                                   *)
(***************************************************************************)
EXTENDS Service, Sequences

CONSTANTS NotificationIds, PreferenceIds

\* Push stands for the placeholders, sms for the names that are not known.
Channels == {"in-app", "email", "push", "sms"}

Preference   == [user: Users, channel: Channels, enabled: BOOLEAN]
Notification == [user: Users, status: {"unread", "read"}]
Delivery     == [status: {"pending", "delivered", "sent", "failed"}, attempts: Nat]
DeliveryJob  == [channel: Channels, status: {"waiting", "active", "completed", "failed"},
                 attempt: Nat, rows: Seq(Delivery), shown: Nat]

ASSUME NotificationsAssumption ==
  /\ None \notin PreferenceIds
  /\ None \notin Preference /\ None \notin Notification /\ None \notin DeliveryJob

VARIABLES
  preferences,     \* user, type and channel have no unique index
  notifications,
  deliveryJobs     \* by notification and preference, None that of the default

notificationTables == <<preferences, notifications, deliveryJobs>>
notificationVars == <<notificationTables, serviceVars>>

NotificationsInit ==
  /\ preferences = [p \in PreferenceIds |-> None]
  /\ notifications = [n \in NotificationIds |-> None]
  /\ deliveryJobs = [j \in NotificationIds \X (PreferenceIds \cup {None}) |-> None]
  /\ ServiceInit

--------------------------------------------------------------------------------
(* PreferenceService *)

\* updatePreference: the row of the channel, if there is one, or a new one.
PreferencesFor(u, ch) ==
  {p \in Used(preferences) : preferences[p].user = u /\ preferences[p].channel = ch}

\* Mutant of UpdatePreference: a new row every time.
AddPreference(c, u, ch, enabled) ==
  /\ Room(preferences, {"insertPreference"})
  /\ Begin(c, "insertPreference", [user |-> u, channel |-> ch, enabled |-> enabled])
  /\ UNCHANGED notificationTables

UpdatePreference(c, u, ch, enabled) ==
  /\ \/ \E p \in PreferencesFor(u, ch) :
          Begin(c, "savePreference", [id |-> p, enabled |-> enabled])
     \/ /\ PreferencesFor(u, ch) = {}
        /\ Room(preferences, {"insertPreference"})
        /\ Begin(c, "insertPreference", [user |-> u, channel |-> ch, enabled |-> enabled])
  /\ UNCHANGED notificationTables

InsertPreference(c) ==
  /\ pc[c] = "insertPreference"
  /\ \E p \in Unused(preferences) : preferences' = [preferences EXCEPT ![p] = hand[c]]
  /\ End(c)
  /\ UNCHANGED <<notifications, deliveryJobs>>

SavePreference(c) ==
  /\ pc[c] = "savePreference"
  /\ preferences' = [preferences EXCEPT ![hand[c].id].enabled = hand[c].enabled]
  /\ End(c)
  /\ UNCHANGED <<notifications, deliveryJobs>>

--------------------------------------------------------------------------------
(* NotificationService *)

\* getUserPreferences
GetUserPreferences(u) ==
  {p \in Used(preferences) : preferences[p].user = u /\ preferences[p].enabled}

\* createNotification: the channels enabled, or the default when there are none,
\* be it that the user has disabled them all.
CreateNotification(c, u) ==
  /\ Room(notifications, {"insertNotification"})
  /\ LET found == GetUserPreferences(u) IN
       Begin(c, "insertNotification", [user |-> u, todo |-> IF found = {} THEN {None} ELSE found])
  /\ UNCHANGED notificationTables

InsertNotification(c) ==
  /\ pc[c] = "insertNotification"
  /\ \E n \in Unused(notifications) :
       /\ notifications' = [notifications EXCEPT ![n] = [user |-> hand[c].user, status |-> "unread"]]
       /\ Go(c, "scheduleDelivery", [notification |-> n, todo |-> hand[c].todo])
  /\ UNCHANGED <<preferences, deliveryJobs>>

\* scheduleDelivery, of one channel after the other
ScheduleDelivery(c) ==
  /\ pc[c] = "scheduleDelivery"
  /\ \E p \in hand[c].todo :
       /\ deliveryJobs' = [deliveryJobs EXCEPT ![<<hand[c].notification, p>>] =
            [channel |-> IF p = None THEN "in-app" ELSE preferences[p].channel,
             status |-> "waiting", attempt |-> 0, rows |-> <<>>, shown |-> 0]]
       /\ IF hand[c].todo = {p} THEN End(c) ELSE Go(c, "scheduleDelivery", [hand[c] EXCEPT !.todo = @ \ {p}])
  /\ UNCHANGED <<preferences, notifications>>

\* markAsRead, by the recipient
ReadNotification(n) ==
  /\ notifications[n] # None
  /\ notifications' = [notifications EXCEPT ![n].status = "read"]
  /\ UNCHANGED <<preferences, deliveryJobs, serviceVars>>

--------------------------------------------------------------------------------
(* NotificationProcessor.deliverNotification, a job of the queue *)

Tries == 3

Started(job) == [job EXCEPT !.status = "active", !.attempt = @ + 1]

StartDelivery(c, j) ==
  /\ deliveryJobs[j] # None /\ deliveryJobs[j].status = "waiting"
  /\ deliveryJobs' = [deliveryJobs EXCEPT ![j] = Started(@)]
  /\ Begin(c, "insertDelivery", [job |-> j])
  /\ UNCHANGED <<preferences, notifications>>

\* The outcome of sending, and how often the recipient is shown the notification
Throws(ch) == ch \in {"email", "sms"}
Outcome(ch) == CASE ch = "in-app" -> "delivered" [] Throws(ch) -> "failed" [] OTHER -> "sent"
Shown(ch) == IF ch = "in-app" THEN 1 ELSE 0

\* The new row, and what is done until its next save: the message is sent.
Sent(job) == [job EXCEPT !.rows = Append(@, [status |-> "pending", attempts |-> 0]),
                         !.shown = @ + Shown(job.channel)]

InsertDelivery(c) ==
  /\ pc[c] = "insertDelivery"
  /\ LET j == hand[c].job
         ch == deliveryJobs[j].channel
     IN /\ deliveryJobs' = [deliveryJobs EXCEPT ![j] = Sent(@)]
        /\ Go(c, IF Outcome(ch) = "failed" THEN "saveFailed" ELSE "saveDelivery",
              [job |-> j, row |-> [status |-> Outcome(ch), attempts |-> 1]])
  /\ UNCHANGED <<preferences, notifications>>

\* The row that is saved is the attempt's own, the last of the job's.
Saved(job, row) == [job EXCEPT !.rows[Len(job.rows)] = row]

SaveDelivery(c) ==
  /\ pc[c] = "saveDelivery"
  /\ LET j == hand[c].job IN
       deliveryJobs' = [deliveryJobs EXCEPT ![j] = [Saved(@, hand[c].row) EXCEPT !.status = "completed"]]
  /\ End(c)
  /\ UNCHANGED <<preferences, notifications>>

\* Bull: a job that has failed is tried again, until its tries are used up.
Retried(job) == [job EXCEPT !.status = IF job.attempt < Tries THEN "waiting" ELSE "failed"]

\* Mutant of Caught: the attempts are those of the job.
CaughtByJob(job, row) == IF job.attempt < Tries THEN Retried(job) ELSE [job EXCEPT !.status = "completed"]

\* After three attempts, as the row has it, the error is not thrown on; but each
\* row is an attempt's own.
Caught(job, row) == IF row.attempts < Tries THEN Retried(job) ELSE [job EXCEPT !.status = "completed"]

SaveFailed(c) ==
  /\ pc[c] = "saveFailed"
  /\ LET j == hand[c].job IN
       deliveryJobs' = [deliveryJobs EXCEPT ![j] = Caught(Saved(@, hand[c].row), hand[c].row)]
  /\ End(c)
  /\ UNCHANGED <<preferences, notifications>>

\* The save of what was sent fails and is caught: the row's attempts go up twice.
SaveDeliveryFails(c) ==
  /\ pc[c] = "saveDelivery"
  /\ pc' = [pc EXCEPT ![c] = "saveFailed"]
  /\ hand' = [hand EXCEPT ![c].row = [status |-> "failed", attempts |-> @.attempts + 1]]
  /\ Reject(c)
  /\ UNCHANGED notificationTables

\* What fails outside the try, or in the catch, fails the job.
DeliveryFails(c) ==
  /\ pc[c] \in {"insertDelivery", "saveFailed"}
  /\ deliveryJobs' = [deliveryJobs EXCEPT ![hand[c].job] = Retried(@)]
  /\ Fail(c)
  /\ UNCHANGED <<preferences, notifications>>

NotificationsFail(c) ==
  /\ pc[c] \in {"insertPreference", "savePreference", "insertNotification", "scheduleDelivery"}
  /\ Fail(c)
  /\ UNCHANGED notificationTables

NotificationsNext ==
  \/ \E n \in NotificationIds : ReadNotification(n)
  \/ \E c \in Calls :
       \/ \E u \in Users :
            \/ CreateNotification(c, u)
            \/ \E ch \in Channels, enabled \in BOOLEAN : UpdatePreference(c, u, ch, enabled)
       \/ \E j \in DOMAIN deliveryJobs : StartDelivery(c, j)
       \/ InsertPreference(c) \/ SavePreference(c)
       \/ InsertNotification(c) \/ ScheduleDelivery(c)
       \/ InsertDelivery(c) \/ SaveDelivery(c) \/ SaveFailed(c)
       \/ SaveDeliveryFails(c) \/ DeliveryFails(c) \/ NotificationsFail(c)

NotificationsSpec == NotificationsInit /\ [][NotificationsNext]_notificationVars

--------------------------------------------------------------------------------
JobsOf(n) == {j \in DOMAIN deliveryJobs : j[1] = n /\ deliveryJobs[j] # None}

\* Of one job, the recipient is shown a notification a second time only when an
\* operation has failed (the save after the event).  He has two jobs for one
\* channel only when calls have overlapped: two updates of his preference that
\* found no row insert one each.
NotifiedOnce ==
  \A n \in NotificationIds, j, k \in DOMAIN deliveryJobs :
    j \in JobsOf(n) /\ k \in JobsOf(n) =>
      /\ deliveryJobs[j].shown > 1 => failures > 0
      /\ j # k /\ deliveryJobs[j].channel = deliveryJobs[k].channel => ~apart

\* A job that ends well has a delivery that says so.  One that is given up has
\* been tried three times, and unless an operation failed its channel throws (an
\* email, or a channel that is not known): a failed row for each try, none of
\* which remembers the ones before.
DeliveryRecorded ==
  \A j \in DOMAIN deliveryJobs :
    deliveryJobs[j] # None =>
      LET job == deliveryJobs[j] IN
        /\ job.status = "completed" =>
             \E i \in DOMAIN job.rows :
               job.rows[i].status = Outcome(job.channel) /\ Outcome(job.channel) # "failed"
        /\ job.status = "failed" /\ failures = 0 =>
             /\ Throws(job.channel)
             /\ job.rows = [i \in 1..Tries |-> [status |-> "failed", attempts |-> 1]]
================================================================================
