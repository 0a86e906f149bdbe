# Verification of the Gasless Gossip server

TLA+ models, model-checking runs and machine-checked proofs for the NestJS
backend in this repository. Paths below are relative to the repository's `src/`
directory. A module is checked with
`tlc -config <run>.cfg <module>.tla` and proved with `tlapm <module>.tla`;
`PROJECT.json` says which run uses which module, which lines of the code each
definition stands for, which hazards were found, and which property catches
each.

The server is a set of TypeScript services over PostgreSQL (TypeORM), Redis,
Bull queues and socket.io. No service takes a lock and few open a transaction, so
that the order of awaits is what matters: **every model treats a request as a
process whose steps are its awaits**, other requests run in between, and (where a
run allows it) any await may reject, which leaves behind what was written before
it.

Several source files do not compile as they stand: lost backticks in log lines
(`starknet-tipping/`), imports of files that have another name (`messages/`
imports `message-read.entity`, the file is `message-read-status.entity.ts`),
`fraud-detection.util.ts` and `social-factor.service.ts` cut off after their
last function. Their control flow is unambiguous, and only control flow is
modelled. Where it is not (`chats/`), nothing is.

## 1. Inventory

| Component (directory) | State | Operations | What is hard about it | Correctness |
|---|---|---|---|---|
| Connections (`connection/`) | `connections`, `blocks` tables; a unique index per direction | request, follow, accept, reject, update, remove, block, unblock | checks and writes in separate awaits; crossing requests; block is an insert, a find and a delete | one row per pair; every change the act of a user entitled to it; a block separates; nothing removed comes back |
| Connection cache (same service) | Redis keys `friends:u`, `mutual_connections:u:v`, ... with a TTL | cached readers, invalidation at the end of each mutation | a value read before and stored after an invalidation; calls that die before it; keys that name two users | stale values are explained by one of these |
| Message status (`status/`) | recipient rows, history rows, Bull queue `status-updates`, map of connected senders | update, worker, history, synchronisation of a connecting socket | retries come back behind younger jobs; emission after another write | written statuses are recorded; a sender is not told of a status ahead of the row; reads are served |
| Gateway: presence and offline queue (`websockets-impl/`) | presence keys in Redis, per-instance socket map, Bull queue `websocket-messages` | connect, disconnect, presence, heartbeat, publish, worker, hand-over to a new socket | presence shared and sockets local; handlers that run on after their socket has gone; commands whose refusal is swallowed; a job completed while a worker runs it | a user who is gone does not stay online; at most two copies; every message is settled and accounted for |
| Gateway: rooms (same gateway) | socket.io rooms per instance, one Redis channel | join, leave, message, typing, receipt, own status, disconnect | several instances; announcements un-awaited or after an await; one user on two devices | members agree on what came last; what is said of who is there is true |
| Starknet tipping (`starknet-tipping/`) | map of transactions in memory; the chain | submit, status check, cron job, callback, restart | late answers, overlapping checks, lost answers, restarts | told what is true, and once; settled stays settled but for a check that answers late; nothing stays pending |
| Engagement (`engagement-module/`) | comments, reactions, tips; a JSON document of counters in the cache | comment, reply, edit, remove, react, change, tip, read metrics, notify | denormalised `rootId` and `replyCount`; GET/SET of a whole document; whole-entity saves | the first page of a thread loses no reply; the reaction counters agree with the table; whoever is concerned is told once |
| Moderation (`moderation/`) | penalties, appeals, reports, filter rules; content inside foreign transactions | issue, revoke, clean up, appeal, review, report, filter | a review spans three transactions; whole-entity saves; a filter inside another save | an approved appeal revokes; a penalty in force restricts; content that the filter saw and a rule matches is reported |
| Wallet management (`wallet-management/`) | wallets; the address is unique | create, verify, revoke, set primary | two updates for one promise; a count before an insert | a user who has wallets has a primary one, and not a revoked one |
| Messages (`messages/`) | messages, read receipts, reactions | create, edit, delete, read, react, archive, clean up, page | an entity saved with relations loaded earlier; soft deletion by a column others write back; cursors | a deleted message does not come back; pages miss nothing but ties |
| Activity feed (`activity/`) | activities, subscriptions, feed items, Bull queue | create, distribute, follow, read feed | a transaction per half of a distribution and a retry of both; rows without a unique index; an OR without parentheses | everyone gets the item; an ended follow is ended; pages miss nothing but ties |
| Notifications (`notifications/`) | preferences, notifications, deliveries, Bull queue | prefer, create, schedule, deliver, retry | each retry opens a new delivery; the save after the sending; duplicate preferences | told once; a finished delivery is recorded |
| Reputation (`reputation/`) | reputations, verifications, badges, history | calculate, change settings, verify, check badges, guard | copies read some awaits before are saved whole; score and level are written by different calls | the guard admits who has earned it; a verification marks its user; awards stand |
| Discovery (`services/`, `job/`) | recommendations, trending topics, Bull queue | refresh, dismiss, calculate, decay | branches of an attempt run into the next; unique index; a decimal column is a string in memory; rows read by one run and saved after another's | refreshes end; dismissals hold; a run decays a topic once |
| Jobs and guards of connections, message, notification and token jobs, first wallets, transfers, authentication, chat gateway, chat rooms, first WebSocket gateway, signatures, libsodium, end-to-end encryption, audit and trail systems, users | plain records or none | record access, cryptography, placeholders | section 6 | not modelled |

How they interact: HTTP controllers and gateways call the services directly;
`status/`, `websockets-impl/`, `activity/`, `notifications/` and the discovery
jobs hand work to Bull queues in Redis, whose workers run in the same processes;
the connection, engagement and presence code keeps derived data in Redis beside
the tables; instances of the server share PostgreSQL and Redis and nothing else,
and `websockets-impl/` sends through a Redis channel. Notifications are created by
connections, appeals and engagement and are awaited; only engagement catches their
errors.

## 2. The modules

`Connections`, `MessageStatus`, `OfflineDelivery`, `TipSettlement`, `Engagement`
and `Moderation` model one component each; `ConnectionCache` extends `Connections`
with Redis and its readers; `Relationships` is the abstract specification of
`Connections`. `Service` is what the later modules share: the calls (`pc`,
`hand`), `Begin`, `Go`, `End`, `Fail`, and the history `apart` (no two calls have
been in progress at once); `Wallets`, `Messages`, `Activity`, `Notifications`,
`Rooms`, `Reputation`, `Recommendations` and `Trending` are built on it. `Paging`,
`Notices` and `Standing` are pure functions. `MC*` modules hold the instances for
TLC, `*Proofs` modules the theorems. Definitions named "mutant" are versions of
the action below them with a plausible mistake; no specification uses them, they
show that the property they are paired with in `PROJECT.json` can fail.

**Connections** (`connection/connection.service.ts`, its two repositories and
entities). `connections` and `blocks` are the tables, `issued` the primary keys
ever used, `pc[c]` the await that call `c` has reached and `arg[c]` what it
carries. `createConnection` is `CreateConnection` (block check), `FindNone` or
`FindExisting`, then `Insert` or, for a crossing request, `AutoAccept` (the second
read inside `acceptConnection`); `Decide`/`SetStatus` are accept, reject and
`updateConnection`; `RemoveConnection`/`Delete`; `BlockUser`, `InsertBlock`,
`FindToRemove`, `Delete`; `UnblockUser`, `DeleteBlock`; `Notify` and `Flush1`,
`Flush2` end the calls. `SetStatus` is an UPDATE by id and has no effect on a row
that is gone. The unique index refuses a duplicate at `Insert`. Strength and the
favourite flag, which no guard reads, are left out.

**Relationships** promises at most one link per pair, none between users of whom
one blocks the other, and every change an atomic act of a user entitled to it:
a request is made, and a link parted or blocked, by one of its two, and answered
by the one who was asked. Who may act is its variable `acting`, the users whose
requests are being served; the refinement maps it to the users of the calls in
progress (`ActingUsers`), so that a service that let the requester decide would
not implement it. The mapping shows a pair's row as its link and hides it from
the moment a block is inserted.

**ConnectionCache.** `cache[k]` is what Redis holds under a key, `fill[d]` the
read a reader is in (`StartRead` = GET and first query, `SecondRead`, `SetCache`).
`raced` and `lost` are history: an invalidation fell inside the read, and a call
died before its invalidation. Invalidation deletes the keys whose **first** user
is the one named, as the patterns of the code do: `mutual_connections:u:v` is not
deleted when `v`'s friends change, which is why `StaleOnlyByRace` claims less of
such keys.

**MessageStatus** (`status/`). `row` and `history` are the tables; `jobs`, `dead`
the queue; `work[w]` the job a worker runs; `online`, `tracked`, `sync`, `view`
the sender's sockets: the room, `connectedUsers`, the synchronisation under way
and what each socket was last told. `Take`, `SaveRow`, `SaveHistory`, `Notify`,
`Fail` are the awaits of `processStatusUpdate`. A job whose row does not exist
throws (`NotFound`), and a failed job returns after a backoff (`Retry`): a worker
takes any waiting job.

**OfflineDelivery** (`websockets-impl/`). One user, several sockets on several
instances. `presence` is the shared Redis key, `up` the sockets in the maps,
`opening` how far `handleConnection` is: `Connect` (map and room), `SetOnline`,
`Fetch` and `HandOver`, with `mine` the jobs it found. `Disconnect` takes the
socket out of the maps, and the last one of an instance has `SetOffline` still to
come (`leaving`). `SetPresence` (a chosen status, a heartbeat) may be written when
its socket has gone, as the guards of a handler are awaited. `call` is the
`publish` call of each message, `job`, `failures`, `run` its job and worker,
`copies` what each socket received. Errors go where the code lets them go:
`updateUserPresence` and `isUserOnline` swallow them, a refused SET being none and
a refused GET "not online"; so does `queueMessageForOfflineUser` (the add) and
`getQueuedMessagesForUser` (the jobs); a refused PUBLISH is thrown to the caller
of `publish`, or fails the worker's job. `why` (what befell a message), `unsure`
(a PUBLISH carried out and reported as failed) and `ghost` (the key was last
written for a socket that has gone) are history. The Redis adapter of
`main-adapter.ts` is not installed by `main.ts` and not modelled. Nest runs no
guards for `handleConnection`, where with the default adapter `client.data.user`
is not set: the model assumes an authenticated socket, without which every
connection is closed at once.

**Rooms** (the same gateway). One room. `home` is each connection's instance,
`outgoing` the PUBLISH commands of an instance that Redis has not taken, `channel`
what an instance is still to receive, `heard` the members and what each heard
last: a notice (message, typing indicator, receipt) and, of each user, whether
they came or left. `broadcastMessage` is not awaited by its callers, so that a
command is lost without an effect on them (`PublishFails`). A disconnection waits
for the presence service before it is announced (`HandleDisconnect`,
`BroadcastOffline`), and so does a status that the client chooses for itself, of
which only "offline" says something of who is there (`HandlePresenceUpdate`). A
request may be handled after its connection has closed (`HandleLate`).

**TipSettlement** (`starknet-tipping/`). `chain` is external; `stored` the map in
memory, `check[c]` the status query a checker (a request or a cron tick) is in,
`posts` the callbacks sent. Nothing keeps two checkers from asking about one tip.
`Resume` is everything after the await of the provider: comparison, assignment and
callback are one turn of the event loop, and the comparison is with the map as
it is then. `late` (another check has settled the tip since this one asked) and
`overwrites` (settled statuses written over) are history. `Restart` empties the
map.

**Engagement** (`engagement-module/services/`). `pc`, `hand`, `todo`, `held` are a
call's await, the entity it loaded, the counters it has still to change and the
document it read. `repository.save(entity)` reads the row again and writes every
column that differs, so that the entity replaces the row: `SaveComment` and
`SaveReaction` do that. `Counted` is the query behind each counter; TypeORM
(0.3.22) drops a `null` in find options, so that `parentId: null` counts replies
too, consistently in query and increments. `Shown` is the tree that
`getThreadedComments` builds of one page of `Limit` replies, the oldest first; a
reply whose parent is on another page is dropped by it. A tip is created with the
transaction service's answer (`Tip`) and stored by another await (`SaveTip`).
Removed reactions keep their place in the unique index, so that a type cannot be
given again. `Notices` computes who is told of a comment, reaction or tip, and in
which order: no entity of the repository is named "posts", so that the look-up of
a post's owner throws and a comment on a post tells nobody.

**Moderation** (`moderation/`). Two halves that share no table. Penalties and
appeals: `reviewAppeal` loads, revokes (`LoadPenalty`, `SavePenalty`) and then
saves the appeal (`SaveReview`), each its own transaction; an appeal may be
reviewed again after its decision. Reports and filter: `SaveContent` starts a
foreign save whose subscriber runs `Filter` and `ReportContent` inside the
transaction that `Commit` ends; the report is written on another connection and
stays when the content is rolled back. The subscriber passes over an entity
without content, id or userId (`whole`): an update of some columns, and every
entity of `message.entity.ts`, which has a `senderId`. The code ignores a rule's
action (nothing is blocked) and never sets `isAutomated`; the model has neither.
If the primary key type of the user table refuses the reporter `'system'`, each
automated report is a `Fail` of that await, which the model allows.

**Wallets** (`wallet-management/`). A row per address. `createWallet` checks the
address, counts the user's wallets (`CountWallets`) and inserts; `verifyWallet`
and `revokeWallet` write one column (`SaveVerified`, `SaveRevoked`);
`setPrimaryWallet` is `FindPrimary`, `Demote`, `Promote`, two updates.

**Messages** (`messages/`). `getMessage` loads a message with its receipts and
reactions (`Loaded`), and TypeORM's `save` of such an entity detaches children
that have been stored since by setting their `messageId` to null, which the column
refuses (`Save`). `markAsRead` is `FindReceipt`, `InsertReceipt` and a save of the
message loaded before the receipt: it is refused every time a receipt was new.
`FindMessages` are the pages of the three listings, by a cursor printed in
milliseconds. `raced` remembers the messages that were deleted while another call
held them as they were.

**Activity** (`activity/`). `createActivity` commits (`InsertActivity`) and then
queues the job (`Enqueue`). An attempt is `FindActivity`, `FindFollowers`,
`SaveFollowers` and `SaveTargets`; the two saves are transactions of their own,
and an item that exists refuses the whole save (`Refused`), as does one that is
listed twice: the targets of a request are an array. `Matching` is the feed's
condition with the precedence SQL gives it; a cursor holds a time as a `Date`, in
milliseconds, where the column has microseconds. The processor, the relevance
calculator and `utils/cursor-pagination` are missing from the repository: the job
calls `distributeActivity`, a score is any, a cursor is the score and the time of
the last item, as the service hands them to the missing function.

**Notifications** (`notifications/`). `UpdatePreference`, `CreateNotification`,
`ScheduleDelivery` (one job per enabled channel), and the job: `InsertDelivery`,
sending, `SaveDelivery` or `SaveFailed`. Each attempt has a delivery of its own,
whose `attempts` starts at 0: the test for three attempts in the catch is never
met, the queue's own limit ends the job. The name of a channel is a free string;
one that the processor does not know throws in every attempt, as email does
(`Throws`).

**Reputation, Standing** (`reputation/`). `GetReputation` hands a copy to a
calculation (`Measure`), a change of the weights (`UpdateSettings`, of some
factors or of none), a check of the badges or a verification; `SaveReputation` and
`SaveVerified` write the whole copy back. A reputation is loaded with its
verifications, so that its save is refused when one has been stored since. The
factors' results are any of the constant `Metrics`, the weights any numbers, as
the DTO has them: it is the two cuts of `WeightedScore` that keep a score in its
range. `contested` remembers the badges awarded while another check held them as
not awarded. How the factors are computed, the fraud checks on the history and the
trends are functions of `Standing`, checked on their own.

**Recommendations, Trending** (`services/`, `job/`). A refresh is a job whose
attempts call three branches at once; an attempt fails with its first failing
branch while the others go on. `CandidateLists` are the candidates by kind.
`Trending` decays every topic, one save each, and adds what was mentioned; `"+="`
on a decimal column appends digits, which makes a string that is no number and is
refused, or one that the column rounds to the score it had (`SaveTopic`).
`crossed` remembers the topics written while another run was still to save them as
read.

**MCSocial, MCDiscovery** compose five and three of these services. They share
calls and failures but no table: each behaviour picks one service at the start,
which reaches every state of each and avoids a product that means nothing.

## 3. The runs

| Run | What it asks | Bounds, and why they are enough |
|---|---|---|
| ConnectionsConcurrent | what survives two overlapping calls, each of which may fail anywhere: `AddresseeDecides`, `NoResurrection` | two users, two calls, three keys: each property is about one pair and one stale row, and three keys allow a row to be removed and replaced while a call holds the first |
| ConnectionsSerial | one call at a time: `OneRowPerPair`, `BlockSevers`, the refinement of `Relationships`, and that a block ends in separation | three users, so that a call on one pair can disturb another; two keys; no failure: a `blockUser` that dies half-way leaves a block and a row, and its retry is refused |
| ConnectionCache | when a cached list differs from the table | three users, one failing call, one reader, `friends:ann` and `mutual_connections:ann:bob`; one block at a time, as blocks matter to the cache by the row they remove |
| MessageStatus | one worker with failures and three attempts, one socket | three jobs: one of each status; a failed job can return behind both others |
| OfflineDelivery | who is left online, how often a message arrives and what becomes of it, with refused commands and late handlers: `GoneIsOffline`, `AtMostTwice`, `Accounted`, and that every message is settled | two instances, two attempts; two messages for one socket, or one message for two sockets (the constraint `OneOfEach`): two sockets for the last-to-leave question, two messages for several jobs found by one hand-over |
| TipSettlement | overlapping checks, failing provider, restarts | two tips and two checkers: both may ask about one tip, or keep to one while the other waits; checks of a tip overlap until two posts of it were made, after which they still go on one by one |
| Engagement | one call at a time, one of which may fail; `Notices` for three people | four comments in pages of two replies, so that a page may end within a branch; or two comments with two reactions of two types and a tip (the constraint `ThreadsAlone`) |
| Moderation | two overlapping calls, one of which may fail | two penalties and two appeals, or one content, seen by the subscriber or not, two rules and two reports; the constraint `OneHalf` keeps the halves apart, as they share no table |
| Social | wallets, messages, activity, notifications, rooms: two overlapping calls, one of which may fail | below |
| Discovery | reputation, recommendations, trending: two overlapping calls, one of which may fail; `Standing` and the candidate lists over small inputs | one user (nothing relates two), two jobs of two attempts with two branches; `OneHalf` has verifications and badges in turn, which share only the reputation; two metrics and two changes of the weights, one of which makes the weighted sum negative; two topics, of which overlapping runs mention one each (`OneMentioned`) |
| ViolQueuedNotLost | a queued message is completed for a connecting socket that has gone when it is emitted | one instance, one message |
| ViolDeletedStays | an edit writes a removed comment back | two calls on one comment |

The last two check a sentence of the repository's own comments or docs that the
code does not keep; `findings` in `PROJECT.json` quotes it. All others pass.

*Bounds of Social.* Two users and two calls. Wallets: three addresses, so that a
user has two and the other one. Messages: two; `BusyMessages` lets the second one
(a reply) and the archive happen while no receipts or reactions are there, and
`MessagePages` checks the pages over three messages at all times of three
milliseconds of two ticks each. Activity: two activities, public or private, with
no target, one or one listed twice (`MCDrafts`), two subscriptions, two attempts,
two scores, times in two milliseconds, pages of one; `BusyFeed` has a second
activity, for the pages, while nothing is private or deleted, or a failure, in
behaviours whose calls do not overlap. Notifications: one, two preferences; of the
channels other than in-app one is in use (`BusyChannels`). Rooms: two instances,
two devices per user, one command under way per instance; `BusyRoom` goes no
further once an announcement was lost or crossed another, and lets either notices
be sent between two connections or one of three connections come back, with two
calls or commands under way at most. `RosterTrue` excepts the users of such
announcements; `MembersAgree` does not, and beyond that point is shown by its
theorem only. `Events` and the queue lengths bound what is under way, not what
happens.

Model values of ids, users, calls and workers are symmetric where the run has no
liveness property. `MaxFailures`, `MaxJobs`, `MaxPosts`, `MaxRuleChanges`,
`Attempts` of the feed, of the discovery queue and of the offline queue (two
instead of the code's three), `MaxListed`, `TopScore`, `Times`, `Millisecond`,
`Metrics`, `Weightings`, `Scores`, `PageSize` and `Limit` (one or two instead of
ten) and the finite sets of ids are bounds of the models, not of the code.
Deadlock is checked except in OfflineDelivery, ViolQueuedNotLost, Social and
Discovery, where sockets, activities or jobs run out.

What each passing property says is in the comment above it. The ones worth
naming:

- `AddresseeDecides` and `NoResurrection` (action properties): whatever a stale
  decision meets when it is written, it decides only a row of its own addressee
  and never writes a removed row again. They hold because decisions are
  UPDATEs by id and ids are not reused.
- `StaleOnlyByRace`: the cache is wrong only for reasons one can name.
- `RecordedOrOwed`: the status row and its history are two tables written in two
  awaits, with retries; nothing written is forgotten on the way.
- `ImplementsRelationships`: not only what changes but who changes it.
- `GoneIsOffline`: each instance counts its own sockets, and the key is shared; it
  is wrong for a user who has gone only by a write that came late or was refused.
- `Accounted`: queueing, retrying and hand-over lose no message other than by an
  accident that can be named, five of which the code has.
- `SettledStays`, `ToldOnce`: checks of one tip overlap, and the answer that comes
  late is the only one that writes over a settled status and tells twice.
- `ThreadComplete`: the tree that `getThreadedComments` builds of its first page,
  from `rootId`, `parentId` and the order of creation, is exactly the oldest
  replies whose whole chain is there: this page cuts no reply off from its parent.
- `ReactionsExact`: GET and SET of a document, a unique index that refuses, types
  that change and rows that stay when taken away keep one number right.
- `ApprovedMeansRevoked`: with two reviews, a clean-up and a failure anywhere.
- `SomePrimary`: overlapping promotions and first wallets may leave two primary
  wallets, never none, unless the second update fails.
- `DeletionHolds`: calls overlap and save what they loaded, and a deleted message
  comes back only by one that held it as it was deleted.
- `DistributedUnlessCause`: a distribution that is given up without a failure has
  met one of four causes, among them a target who follows the actor.
- `FeedMissesOnlyTies`, `PagesMissOnlyTies`: what a cursor without parentheses, or
  rounded to milliseconds, can hide.
- `MembersAgree`, `RosterTrue`: the single channel orders what all instances emit;
  what a member hears of a user is true, or what the user says of itself; the
  exceptions are a second connection of the user, a return before the leave was
  announced, and an announcement lost or made after its connection had closed.
- `AdmittedOnlyIfEarned`: score and level are written by different calls and drift
  apart, yet only a calculation raises the level.
- `AwardsStand`, `FallsByOneDecay`: an award is lost, and a score falls further
  than by one decay, only by a save of what was read before another's write.
- `DismissalHolds`, `GivenUpForCause`: a dismissed recommendation comes back only
  by a save that had read it before; a refresh is given up only after a failure,
  an insert that meets a row of another job or attempt, or a dismissed row.

### Fairness

Weak fairness of a call's, a worker's or a handler's own steps: Node's event loop
serves every settled promise, and Bull hands out waiting jobs. Requests by users,
disconnections, expiries, failures, restarts and the chain are never assumed to
happen. `TipSettlement` needs strong fairness of "some checker asks about tip t":
a cron tick walks through all pending tips, so each gets its turn though others
keep the checkers busy in between. No run assumes that a failing call eventually
succeeds: `ReadIsServed` and `EverySettles` end in success or in the dead jobs.
Social and Discovery state no liveness: what must happen there is the end of a
call or of a job's attempts, which is bounded by construction.

### Known behaviours without a run of their own

Seen while modelling, and not made findings of. Of most of them no line of the
repository promises the contrary, or a run already shows the same cause; where a
line does, it is quoted here.

*Connections.* Two rows for a pair by two crossing `createConnection` calls; a
connection inserted beside a block that a crossing `blockUser` has just made
(`BlockSevers` and `OneRowPerPair` fail with two calls); a half-done `blockUser`;
`mutual_connections` keys that survive changes of the second user. *Status,
presence.* With two workers the downgrade check is stale when the row is saved,
and READ becomes DELIVERED again; `handleDisconnect` of the status gateway forgets
a user who still has a socket; a heartbeat resets a chosen presence to online.
*Tipping.* A late PENDING reopens a settled tip, whose status is then told again;
a failing call of the provider, or a transaction that it does not know yet,
settles a tip as FAILED for good. *Engagement.* Two removals of one comment
decrement its parent twice; counter updates lost by overlapping GET/SET; "Count
only root comments" (`engagement-metrics.service.ts:87`) counts the replies too;
of a later page of a thread, replies are dropped whose parent is on an earlier
one. *Moderation.* `content.subscriber.ts:16` names messages, but passes over them
for want of a `userId`. *Rooms.* A broadcast in join and leave is not awaited, so
that its rejection is an unhandled one; the heartbeat's timer looks a socket up in
`server.sockets.sockets`, which a namespace does not have. *Messages.*
`markAsRead` of a message that is not read yet stores the receipt and leaves the
status as it is, against "Mark a message as read" (`messages.controller.ts:145`)
and "Update message status if needed" (`messages.service.ts:213`): the save is
refused because the receipt was not among those loaded, and the second reading
marks it; cursors of the same millisecond; `includeDeleted` never includes, as the
column is a `DeleteDateColumn`; the clean-up is refused while a reply is there.
*Activity.* A target listed twice has the distribution refused in every attempt.
If queueing fails after the commit, the activity is stored, never distributed, and
the rollback throws. *Notifications.* Email always fails, as `EmailService` has no
`sendEmail`, and so does a channel of another name; a user who disables all
channels gets the default one. *Reputation.* `updateAllReputations` asks for rows
calculated exactly a week ago and finds none; a jump of more than 20 points within
a day costs 10 points in every later calculation of the same factors, as unchanged
scores are not recorded. *Trending.* `trending.service.ts:150` adds to a score
that is a string, so that a topic that is mentioned again does not gain by it.

### Hazards without a property

Real, and outside the checked properties: a restart forgets pending tips, whose
callbacks never come (`starknet-tipping.service.ts:14`); the submission of a tip
succeeds and its answer is lost (`:62`); a crash between `INCR` or `SET` and
`EXPIRE` leaves a rate limit or an online user for good
(`connection-rate-limit.guard.ts:31`, `presence.service.ts:30`); with the Redis
adapter an emission and the channel both reach every instance
(`websockets.gateway.ts:165`); a tip is counted whatever its status is
(`crypto-tip.service.ts:70`); two appeals of one penalty pass the check for an
existing one (`appeal.service.ts:28`).

## 4. The proofs

All are for arbitrary finite or infinite sets of users, calls, rows, workers,
sockets, instances and so on, under the named assumptions of the modules: a
placeholder such as `NoRow` or `None` is not a row; bounds are naturals; id sets
are finite where a cardinality is taken, users and subscriptions where a
distribution walks through them; the weights of a reputation are any integers.
Every safety invariant and every action property of the passing runs is the
statement of a theorem; what a run shows on its instance, the theorem says for
every value of the constants.

| Module | Theorems, and the properties they state |
|---|---|
| `ConnectionsProofs` | `TypeCorrect`, `UniqueRows` (`IndexUnique`), `FollowsAccepted` (`FollowStaysAccepted`), `OnlyAddresseeDecides` (`AddresseeDecides`), `RemovedForGood` (`NoResurrection`); one call at a time: `OneRowAlone` (`OneRowPerPair`); and without failures `BlockSeversAlone` (`BlockSevers`), `PromiseKept` (`ImplementsRelationships`); of the cache: `StaleOnlyIfRaced` (`StaleOnlyByRace`) |
| `MessageStatusProofs` | `TypeCorrect`, `NothingForgotten` (`RecordedOrOwed`); with one worker `SenderBehind` (`SenderNeverAhead`), `NoDowngrade` (`NeverDowngraded`) |
| `OfflineDeliveryProofs` | `GoneAlwaysOffline` (`GoneIsOffline`), `TwiceAtMost` (`AtMostTwice`), `AllAccounted` (`Accounted`) |
| `TipSettlementProofs` | `TypeCorrect`, `SettlementTrue` (`NoFalseSettlement`), `CallbackUpToDate` (`ToldAsStored`); and for any number of overlapping checkers `ToldOnceEach` (`ToldOnce`), `SettledUnlessLate` (`SettledStays`) |
| `EngagementProofs` | `TypeCorrect`, `RepliesRooted` (`ThreadRooted`), `ThreadsComplete` (`ThreadComplete`); one call at a time: `RepliesCountedAlone` (`RepliesCounted`), and without failures `ReactionsExactAlone` (`ReactionsExact`) |
| `ModerationProofs` | `ApprovalRevokes` (`ApprovedMeansRevoked`), `InForceRestricts` (`RestrictedWhileInForce`), `MatchedIsReported` (`StoredIsReported`) |
| `SocialProofs`, wallets and messages | `PrimaryKept` (`SomePrimary`), `RevokedNotPrimary` (`PrimaryNotRevoked`), `DeletedForGood` (`DeletionHolds`) |
| `SocialProofs`, feed, notifications, rooms | `EndedFollowsEnd` (`EndedFollowEnds`), `DistributedAlways` (`DistributedUnlessCause`), `FeedReadToItsEnd` (`FeedMissesOnlyTies`), `NotifiedAtMostOnce` (`NotifiedOnce`), `DeliveriesRecorded` (`DeliveryRecorded`), `MembersAlwaysAgree` (`MembersAgree`), `RosterAlwaysTrue` (`RosterTrue`) |
| `DiscoveryProofs` | `ScoresStayInRange` (`RTypeOK`), `GuardedByCalculation` (`AdmittedOnlyIfEarned`), `MarkedWhenVerified` (`VerifiedTogether`), `AwardsAreKept` (`AwardsStand`), `ScoresFallSlowly` (`FallsByOneDecay`), `NeverInVain` (`GivenUpForCause`), `DismissalStands` (`DismissalHolds`) |

Some of these (`IndexUnique`, `FollowStaysAccepted`, `NeverDowngraded`,
`ToldAsStored`, `ThreadRooted` and the type invariants) are proved only: the proof
covers every instance, a run would add nothing. "One call at a time" is the
hypothesis `Serial` where the run has one call; it is there because the property
fails without it (section 3, *Known behaviours*). The modules built on `Service`
need no such hypothesis: their properties that hold only for calls that do not
overlap, or only without failures, say so in terms of `apart` and `failures`, and
those that a stale copy can break name the copy (`raced`, `contested`, `crossed`).

How each goes:

- **Connections.** None of the properties is inductive: a call carries a row
  across an await. `Carries(c)` says what a call that is about to write knows of
  the row it holds: its id was issued, and if a row of that id is still there, it
  is a friend request with the call's user as addressee. With uniqueness of ids
  and "ids of rows were issued" this is inductive; the two action properties
  follow from it step by step. With one call at a time, what the call has found
  is still so when it writes (`StillTrue`: no row of the pair where it found
  none), which `SInv` adds.
- **Refinement of Relationships.** `Seen` is a step of the promise or a stutter.
  Under `SInv` the link of a pair is the one row of that pair, unless a block is
  in the way (`LinkIsRow`, `LinkHidden`), and each write of the service changes
  the link of the pair it writes and no other; the accepting, blocking and
  removing steps map to the operations of that name, the reads to stutters. That
  each such step is the act of a user entitled to it is `AllAct`: a call that is
  about to write a request or a block acts for the first of its two users, one
  that removes for either; `Carries` says it of decisions.
- **Connection cache.** A write that concerns `u` leaves its call obliged to
  invalidate `u` (`DirtyBy`, `Dirty`); a value in the cache or in the hands of a
  reader is what the table gives now, or was raced by an invalidation, or belongs
  to a user who is dirty or whose invalidation was lost, or to the second user of
  a key (`Fresh`). `CInv` says so of the cache and of every reader, which also
  covers a reader whose two queries a write falls between.
- **MessageStatus.** `AttemptLeft` (a job in the queue has an attempt left, so
  that a failing one is queued again or dead) and `RecordedBeforeNotify` make
  `RecordedOrOwed` inductive for any number of workers. The second part assumes
  one worker: a second invariant says that what the worker read is what the row
  still holds, from which no write is a downgrade and no socket is ahead.
- **OfflineDelivery.** `Accounted` and `GoneIsOffline` are inductive with the
  types and the order of a job's states; that took naming each accident when it
  happens (`why`, `ghost`). Copies are bounded by what has been sent: `Bound(m,
  s)` gives a socket one copy once its hand-over is over, one once the PUBLISH is
  no longer to come (`Unsent`), and one for each PUBLISH reported as failed. A job
  that a hand-over completes while a worker runs it is why the bound is two.
- **TipSettlement.** An answer on its way may be old but stays true of an
  acceptance or rejection (`AnswersTrue`), since the chain takes neither back. A
  check that is not late finds its tip PENDING (`OnTime`), and what is PENDING was
  told of only as often as it was written over (`Untold`); a check that ends with
  a settled status makes all others of its tip late.
- **Engagement.** An entity in the hands of a call is of the same thread as its
  row (`SameThread`), a new comment's root is that of a parent that is there
  (`RowRooted`), and no step removes a comment or moves it to another thread
  (`Kept`); so every save of a stale entity keeps threads rooted, with any number
  of overlapping and failing calls, though the run checks one call.
  `ThreadComplete` follows in each state: a comment is younger than its parent
  (`Younger`), so that a page that begins with the oldest holds the parents of
  what it holds (`FirstPage`), and of the comments above a whole thread's member
  that were not shown the oldest would have a parent that is shown. With one call
  at a time, the call knows its row as it is (`Knows`), and a counter is off by
  what the call has yet to apply to it: one for `replyCount` (`Owes`, `ReplyOK`),
  the changes still to do for the cached document (`Off`, `CallMetric`). A counter
  of reactions is also a number of users, as a user has one row of a type
  (`UniqueReactions`).
- **Moderation.** A penalty in a call's hands is already revoked, and a call that
  is about to save an approval knows that its penalty is `Gone`; penalties that
  are gone stay gone (`Kept`). For `StoredIsReported`, a call between filter and
  commit carries the priority that its text has deserved (`CarriesOK`) if the
  subscriber saw it and while the rules are unchanged, and reports keep content
  and priority whatever entity is saved last (`ReportsKept`). The highest priority
  is stated by its property, not by the code's loop.
- **Wallets.** A wallet about to be inserted is primary or not its user's first
  (`WalletHandOK`: wallets are never taken away, `WalletsKept`), and a demotion
  leaves its own call promoting a wallet of the same user; while calls do not
  overlap, what a call has asked of its wallet stays so (`WalletSerialOK`).
- **Messages.** A copy that a call holds of a deleted message is itself of a
  deleted message, unless the message is `raced` (`Copy`): it is so when the
  deletion is saved, by the definition of `raced`, and no request loads a deleted
  message.
- **Activity.** While calls do not overlap, a follow about to be inserted has no
  row (`FollowOK`, `OneFollow`). A distribution without a cause is on course
  (`OnCourse`): no item of the activity is there before the followers are saved,
  and only items of users who follow the actor between the two saves; an activity
  is distributed by one call at a time because a job is tried again only after its
  attempt has failed. A target listed twice is a cause by itself. The pages are a
  matter of any items (`FeedPages`): what is found and not among the first comes
  after them (`PageCut`), hence after the last one (`PageHasLast`), and so after
  the printed cursor or in the same millisecond (`SameMillisecond`). That a page
  has a last one takes a least natural number, from `WellFoundedInduction`.
- **Notifications.** While updates do not overlap there is one preference for each
  channel (`OnePreference`), and what is still to be scheduled has no job yet
  (`ScheduleInv`); a job is sent by one call at a time, and what its deliveries
  are is read off its attempts (`Progress`, `SendInv`): without failures a job
  whose channel throws has a failed row for each attempt made.
- **Rooms.** What the instances are still to receive are suffixes of one sequence;
  the invariant says it topic by topic, as the last word: for each topic there is
  a value that is the last word of the queue of every instance that still has
  something to say, and that the members know where the queue is silent
  (`Agreed`). `RosterOK` relates that last word to where the user's connections
  are or what the user said (`Possible`), or to the disconnection, status or
  announcement still under way, which all wait on one instance.
- **Reputation.** Every copy of a reputation, in the table or in a call's hands,
  has a level below 2 or a user who has earned it (`EarnedIn`); that a level of 2
  takes 40 points is `LevelRange`, about the cardinality of the thresholds passed,
  and that any weighted sum becomes a score is `WeightedScoreRange`. For
  verifications `Sole` says that calls that have never overlapped do not overlap
  now, and that the call in progress holds no row without its mark (`VerifyOK`).
  For badges nothing is asked of overlaps: whoever is to save a badge that is
  awarded and not contested knows of the award (`KnowsAward`).
- **Trending.** The topics that a run has still to save are as it read them,
  unless they are crossed (`AsRead`), so that what is saved is one decay below or
  the same.
- **Recommendations.** Of every user, either a cause is known (a failure, two jobs
  at a time, a raced dismissal: `Cause`) or all is calm (`Calm`): each job of the
  user is in its first attempt, no two are in progress, there is one branch of
  each kind, and the rows a branch is to insert are not there. `Kept` candidates
  have no target twice, by the definitions of the three lists; the inserts of one
  branch and kind never meet another's.

Model-checked only: the liveness properties `BlockEventuallySevers`,
`ReadIsServed`, `EverySettles` and `EventuallySettled`, as the prover does not
reason about fairness and ENABLED; and the pure functions of `Notices` and
`Standing`, which are compared with reference definitions over bounded inputs:
they are recursive, or folds over lists, and what a recursive definition computes
for every input needs an induction over data; and the pages of messages
(`MessagePages`), whose proof would be that of the feed's.

## 5. Plan

1. *Done*: Connections with its cache and its abstract specification, message
status, offline delivery, tipping, engagement, moderation. 2. *Done*: the request
services on one module `Service`: wallets, messages, activity, notifications,
rooms, reputation, recommendations, trending. 3. *Done*: proofs of every safety
invariant and action property of the passing runs, and of the refinement of
`Relationships`. 4. Next: the pages of messages proved like those of the feed;
abstract specifications of the offline delivery (a message is delivered, owed or
given up) and of a room (one sequence of notices), with their refinements proved.
5. Then: liveness of the feed's and the notifications' jobs; the hazards listed
without a property above.

Runs that repeat the cause of another are given up for runs of new components.

## 6. Not modelled, and why

- **Jobs and guards of connections**: the batch service calls repository methods
  that do not exist (`findOldRejectedConnections`, `findActiveConnections`),
  nobody calls it and no processor takes its jobs; the rate limiter is one
  counter.
- **Message, notification and token jobs** (`message/`, `notification/`,
  `token/`): placeholders that wait and return. Retries are modelled where jobs
  have effects.
- **First wallets** (`wallets/`): the update that sets the default wallet names
  `userId`, no property of the entity, and throws.
- **Transfers and transactions**: a record and an unguarded update of its status;
  the sending is a constant hash.
- **Authentication**: stateless tokens; nothing calls the refresh-token service.
- **Chat gateway** (`chats/`): not valid TypeScript, and what was meant is not
  clear from it. **Chat rooms, users, settings, audit and trail systems**: single
  inserts, saves and reads. **First WebSocket gateway**: replaced by
  `websockets-impl/`.
- **Search** and the other queries that only read; **cryptography**, wire formats,
  validation of DTOs, HTTP status codes and logging: no state of the server
  changes in them, or none that a property here is about.
- Of modelled components: balances and labels of wallets, the activity gateway's
  socket map (nothing emits to it), templates of notifications, throttling and
  heartbeats of rooms. Clocks appear as events (expiry, backoff, tick), as numbers
  only in `Paging`, `Messages` and `Standing`.
