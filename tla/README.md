# A formal model of the mail server

The repository is a mail and groupware server in Rust (`crates/`), with a web
client, a proxy, a browser extension and app shells around it (`frontend/`,
`bridge/`, `extension/`, `mobile/`). This directory holds TLA+ modules translated
from the server's code, the TLC instances that check them, and theorems that TLAPS
proves about them for every value of their parameters.

What is modelled is the code whose errors are worst and least testable, where
several nodes or tasks work on the same stored state and may fail between two steps:

- the outbound mail queue: the life of a queued message, and the manager that
  schedules its delivery on each node (mail lost, sent twice, bounced falsely);
- the task queue that every maintenance job of the cluster goes through;
- the lease by which the nodes exclude each other, and what it promises;
- the cache of an account's messages, and the change log that keeps it up to date;
- the blobs that messages link, and their purge.

- [The system](#the-system)
- [Modules, and how they correspond to the code](#modules-and-how-they-correspond-to-the-code)
- [Runs and bounds](#runs-and-bounds)
- [Fairness](#fairness)
- [What is proved](#what-is-proved)
- [Where the code does not do what it says](#where-the-code-does-not-do-what-it-says)
- [Known not to hold](#known-not-to-hold)
- [Only model-checked, and not modelled](#only-model-checked-and-not-modelled)
- [Plan](#plan)

## The system

A process runs one server of each configured protocol, a queue manager, a task
manager, a push router, a broadcast publisher and subscriber, and a collector of
trace events. They are Tokio tasks (the collector is a thread). They share the data
store, the in-memory store (leases, counters, rate limits), the blob store and the
search store, and, within a process, caches and channels (`common/src/ipc.rs`).
Nodes of a cluster share the stores and a publish/subscribe service. There is no
master: whoever wins a lease does the work.

| Component | State | Operations | Interacts with | What is hard | What makes it correct |
|---|---|---|---|---|---|
| **Queue, one message** (`smtp/src/queue`, `smtp/src/outbound/delivery.rs`) | message with recipients, queue events, quota counters, blob link | `queue`, `read_message`, `deliver_task`, `send_dsn`, `save_changes`, `remove` | manager starts workers; lease; store batches | workers of several virtual queues hold copies of one message; crashes and failed writes between steps | nothing is lost, stranded, delivered or reported twice; quotas balance |
| **Queue manager** (`smtp/src/queue/manager.rs`) | locks with expiry and revision, workers in flight per queue, next wake-up, pause | the loop of `start`, `handle_event`, `next_event` | channel from workers, administrators, sessions; store | lost wake-ups, leaked slots, capacity, pause and stop | every due event is acted on; counts are exact; the manager wakes |
| **Lease** (`store/src/dispatch/lookup.rs`, `store/src/backend/redis/lookup.rs`) | a key with the second it expires; in Redis a counter that expires | `try_lock`, `remove_lock`, `purge_in_memory_store` | queue workers, tasks | read and write are apart; removal is unconditional | mutual exclusion until somebody overruns |
| **Queued-message management** (`jmap/src/registry/mapping`) | the same message, without lease | cancel, reset, retry, edit, destroy, pause, resume | the store, the manager's channel | races with workers | an acknowledged change lasts |
| Inbound SMTP (`smtp/src/inbound`) | session data, limits, authentication | EHLO, AUTH, MAIL, RCPT, DATA, RSET | queue, throttles, milters | protocol order, resets, limits | no command out of order has an effect |
| Rate and quota limits (`smtp/src/queue/{throttle,quota}.rs`, `common/src/network/limiter.rs`) | counters | check, take, release | sessions, queue | check-then-act | bounds hold, nothing leaks |
| **Task manager** (`services/src/task_manager`, `jmap/src/registry/mapping/task.rs`) | stored tasks with due times, local locks, a channel per task type | schedule, lease, run, retry, give up; update, destroy | lease, store, every maintenance job | crash between run and update, retry deadlines, full channels | each task runs until it succeeds or its attempts are used up |
| Push (`services/src/state_manager`) | subscribers per account, per-subscription backoff | subscribe, publish, purge, deliver | sessions, broadcast, HTTP | purge against subscribe, in-flight against new changes | a change is followed by a push |
| Broadcast (`services/src/broadcast`, `coordinator`) | none but the subscription | publish, apply | caches, push, every node | lost or repeated messages, own echoes | caches are not stale for ever |
| **Message cache** (`email/src/cache`, `common/src/cache`) | per-account snapshot with a change id, an update lock | get, bring up to date, rebuild | change log, IMAP, JMAP, POP3 | concurrent readers update one cache from different change ids | a cache is the state at its change id, and moves forward |
| **Change log** and batches (`store/src/write`, `store/src/query/log.rs`) | change ids, assertions | commit, truncate | everything | conflicting writers | changes since a state are complete |
| **Blobs** (`store/src/write/blob.rs`, `common/src/storage/blob.rs`) | blobs, links, reservations | put, link, unlink, purge | queue, messages, uploads | purge between put and link | a linked blob exists |
| IMAP and POP3 sessions (`imap`, `pop3`) | selected mailbox, UID map, marked deletions | SELECT, FETCH, STORE, EXPUNGE, IDLE, QUIT | message cache, push | changes by others under a stable sequence numbering | sequence numbers mean the same to both sides |
| OAuth (`http/src/auth/oauth`) | codes in the in-memory store | issue, approve, redeem | sessions | expiry, reuse | a code is redeemed once |
| Trace events (`trc`) | ring buffer per thread, overflow, subscribers | send, collect | everything | overflow, reordering | events are not lost below the limits |
| Ids (`utils/src/snowflake.rs`) | epoch, sequence, node | generate | queue ids, spans, tasks | wrap within a millisecond | ids are unique |
| Parsers, protocols, spam rules, classifiers, schema, DAV, Sieve | none shared | pure computation | | | |

The components in bold are modelled. `PROJECT.json` lists every component with its
files, whether it is modelled, and, under `hazards`, where in the code the hard cases are.

## Modules, and how they correspond to the code

### Lease and LeaseLock

`LeaseLock` is one key of the in-memory store, in both of its variants: `backend` says
which. `lock` is the stored value (the second the lease expires, or `NoKey`). On the
data store `try_lock` is three actions, as another process may run at each await:
`ReadLock` (the read), `CheckLock` (the clock is read and a lease in force is refused),
and `WriteLock` or `WriteRefused` (the batch with its assertion). On Redis it is one,
`TryLockRedis`: the counter is incremented and its expiry renewed in one transaction,
also when the answer is no; `RedisAnswerLost` is a transaction that was done and whose
answer did not arrive, so that the lease has no holder. `RemoveLock` is `remove_lock`,
which does not look at the value; `AbandonLock` is a removal that fails or a node that
stops. `PurgeCollect` and `PurgeDelete` are the two passes of the purge task of the data
store. `Tick` is the clock; clocks of nodes are taken to agree. `intruded` is a history
variable: somebody deleted a lease in force that was not its own. After that the key may
be taken again while its former holder goes on, so `Exclusive` is conditional on it and
`IntrusionNeedsOverrun` says when it may become true.

`Lease` is what this amounts to for those who take leases: granted in one step, while
nobody has one in force, returned in one step, and broken only by a party whose own lease
has run out or by the purge. `LeaseLock!ImplementsLease` is the refinement (`granted` is
the lease of each process that holds one, `broken` is `intruded`), checked by TLC and
proved. MtaQueue, QueueManager and TaskManager rely on it: there a lease is taken and
returned in single steps, as in `Lease`.

### MtaQueue

One message in the queue. `exists`, `msg`, `events`, `blob` and `quota` are what the
store has: the message, its queue events `<<queue, due>>`, the link of its blob and
what it has taken from the quota counters. `lock[q]` is the lease of (message, queue)
as LeaseLock provides it: it excludes, it runs out, and its removal is unconditional.
`pc[w]`, `job[w]` and `wrap[w]` are a delivery task: its step, the event it was
started for, and its `MessageWrapper`, the private copy it works on.

| Action | Code |
|---|---|
| `QueueMessage` | `MessageWrapper::queue`: one batch with quotas, events, message and blob link |
| `Dispatch` | the manager of some node starts a task for a due event (QueueManager has the details) |
| `LockEvent`, `LockRefused` | `try_lock_event` in `try_deliver` |
| `ReadMessage` | `read_message` and the first half of `deliver_task`: expired recipients fail, `send_dsn`, and the three-way decision |
| `ReadNone` | `read_message` returned `None`: the event is deleted |
| `ThrottleSender`, `Route`, `Deliver` | the rest of `deliver_task`: rate limit, grouping, results, `send_dsn`, the decision |
| `SaveChanges`, `RemoveMessage`, `WriteFails` | `save_changes` and `remove`, with the merge for messages in several queues, and what happens when the batch is refused |
| `UnlockEvent`, `Crash`, `ExpireLease` | the end of a task, a node that stops, a lease that runs out |
| `AdminRead`, `AdminWrite`, `AdminFails` | the update half of `queued_message_set`: recipients left out are cancelled (`Canceled`), of the others the times and counts of the retry and of the notification and the expiry are edited, which is how a retry is asked for, and their status may be set back to scheduled, a final one too (`Edited`) |
| `DestroyRead`, `DestroyWrite` | its destroy half, and the undo of an email submission |

Data is abstracted to what the properties tell apart. A response of a next hop is a
choice among delivered, refused, deferred and rate-limited, and a recipient may be
refused twice in one attempt: one refused at RCPT TO is named again by the result of
a session that fails afterwards, so its schedule may advance twice and a permanent
refusal may become temporary (`NextHop`). A next hop may also accept a recipient
without being heard: its final answer is lost or is not one, or, with LMTP, the answers of
other recipients are, as `read_lmtp_data_response` then drops those it has read. Such a
recipient is recorded as deferred (`Unheard`), is tried again, and may expire and be
bounced. This is the fault `"reply"`; the model counts what was heard in `delivered` and
remembers the others in `unanswered`. A failure report is a message of its own, which is
queued by `send_dsn` with no look at the result: `QueueDsn` counts it in `bounced` or, when
the store refuses it (`"write"`), notes its recipients in `unreported`; they are marked as
reported in both cases. A strategy is a queue, an
expiry and a list of delays; the code evaluates it again after each failure, so a
deferred recipient may move to another queue (`Requeue`). The validation of the
settings requires at least one retry delay, which is assumed (`ScheduleAssumption`).
A recipient asks for the default notifications (failure and delay). `delivered` and
`bounced` count what has left the system, up to `Many`. `FaultKinds` names the
disturbances, of which a run allows some. `Edits` bounds the values an administrator gives
to what may be edited; the envelope id, the priority and the original recipient, which
may be edited too, are not in the model.

### MailQueue

What the queue amounts to for a sender: a message is accepted, its recipients are settled,
each once, as delivered or returned, and the message leaves when all of them are. A run
and a theorem show that MtaQueue implements it with one virtual queue, while no worker loses
its result (`MtaQueue!KeepsPromise`). Answers of next hops may be lost: a recipient that was
accepted and not heard of goes into `doubt`, and ends like any other; nobody whose fate is
known is ever in doubt after. `place` is where the message is, and `Place` makes it `"torn"`, a
value no step of MailQueue produces, when the store has a message without its blob link or
the reverse; `fate` is what the queue knows to have left the system for a recipient (`FateOf`), and is
`"several"`, which MailQueue does not allow either, when it was delivered twice, reported
twice, or both. Leases, workers, events, copies and the schedule are steps that change
neither.

### QueueManager

The manager of one node with the tasks it starts. `mpc` is where its loop is: in
`recv` with a timeout (`wait`), or draining the channel (`drain`); a wake-up ends in
`Scan`, `ScanFails` or `Sleep`. `rx` is the channel, `locked` and `expires` are the
map of locks, `stats`, `in_flight` and `max_in_flight` the per-queue counts,
`next_refresh` the wake-up time, `due` and `lease` the stored events and leases.
`Handle...` are the arms of `handle_event`. `Scan` is `next_event` with the loop that
follows it: which events are looked at, locked, started or given up again, and the
retain that drops locks. `TryLock` to `Report` are a task; `Enqueue`, `AdminRetry`,
`ReloadSettings`, `PauseMtaQueue`, `ResumeMtaQueue` and `Shutdown` are the senders of
the other events; `TakenAway` and `ComesBack` are another node's manager.

Times are counted down rather than up: a time is the seconds that are left, 0 when
it has come, so that the state space is finite without a bound on the clock.
`INFINITE_LOCK`, a year, is `Never`. `revision` does not appear: a lock has the
current revision exactly if the last scan has looked at it, which is what
`StillLocked` says. The shuffle is a choice of which events start (`Startable`).
Two simplifications: the channel is unbounded in the model (its capacity is 1024), and
a worker's report that arrives while the manager is draining is handled within the
same wake-up.

### TaskManager

The task queue shared by all nodes, for one type of task, with the manager and the
worker that each node runs for it. `task` and `dues` are what the store has: a `Task`
value under its id, and the event `(due, id)` that the managers scan. `lease` are the
leases; `locked`, `todo`, `chan`, `wpc` and `batch` are the memory of each node: its
local locks, the jobs of the scan still to be dispatched, the channel to the worker, and
what the worker is doing. `adm` is a request of an administrator.

| Action | Code |
|---|---|
| `Scan`, `ScanFails` | `process_tasks` (`task_manager/manager.rs`): the events that are due, the local locks, the retain that drops those not seen, and an iteration that ends with an error |
| `Dispatch`, `DispatchRefused`, `ChannelFull` | the loop over the jobs: capacity, `try_lock_task`, send |
| `Receive` | the worker receives a job and reads its task, until its batch is full or its channel empty |
| `UpdateTasks` | `update_tasks`: one batch for the results of all tasks, with retries, deadlines, new tasks, and the assertion that fails when one of them is gone. The operations of the batch are applied in order: `Outcome` is what a result makes of its task, `TaskAfter` and `DuesAfter` are what the batch leaves of a task and of the events, by its last job of each (`Clears`, `Writes`). The assertion, too, sees what the operations before it in the batch wrote |
| `Unlock` | `remove_index_lock` for every task of the batch |
| `Schedule` | `schedule_task` and the batches that write a task (`registry/src/utils/task.rs`) |
| `AdminRead`, `AdminLock`, `AdminUpdate`, `AdminDestroy`, `AdminFails`, `AdminUnlock` | the update and destroy halves of `task_set` |
| `MoveReport` | `reschedule_ops` of `smtp/src/reporting/index.rs` |
| `Crash` | a node stops and starts again |

Simplifications: a scan may happen whenever the last one has been dispatched, which
covers the sleep until the next event, the refresh and every notification, including
those caused by other types; `revision` is folded into the scan, which drops the local
locks of events it has not seen; a lease or local lock that has run out is dropped by
`Tick`; times beyond the bound of the clock are cut to it. What a task does is a choice
of its result. The deadline of a task that has already failed and is run once more, from an
event left behind, is counted from its `failed_at` (`manager.rs:523`), in the model from
`created` still: with `failed_at` an instance of `tm_races` takes more than five minutes, and
`TaskEnds` holds in `tm_live` all the same.
Not modelled: the updates by which calendar alarms reschedule themselves,
and how an index task computes its results.

### MessageCache

The cached messages of one account on one node, with the readers of it (any request),
the changes made on any node, and the truncation of the change log. A message is the id
of the change that last wrote it, which is all that tells a current version from an old
one; mailboxes, cached along with the messages, are left out. `get_cached_messages` is
split at its awaits: `Hit` or `Miss` (the placeholder guard), `Build` and `Scan` (the last
change id, then the messages), `ReadChanges` (`Store::changes`, with the merge of entries
in `NetUpTo`), `Acquire` (`UpdateLock`), `UpdateItems`, `Revise`, `Publish`, `Return`;
`Fail` is an error or a request that is dropped. `Insert`, `Update`, `Reassign` and
`Delete` are batches with their log entries; `Truncate` and `MarkTruncated` are the two
batches of `delete_changes`; `Evict` is the limit of the cache.

`ahead`, `skipped` and `unlocked` are history variables that name the races the
properties except: an entry may hold messages newer than its id, changes may have been
skipped, an entry was revised, written or replaced without its permit (`Unpermitted`: the
reader has neither the placeholder guard nor the permit of the entry's lock). `fetch_dav_resources` of
`groupware` follows the same scheme and is not modelled apart.

### BlobStore

The contents of one blob in the blob store, its keys in the data store, those who store
and link it, and the purge. `commit`, `temps` and `link` are the keys `BlobOp::Commit`,
`BlobLink::Temporary` and `BlobLink::Document` or `Id`. A writer reserves, checks,
uploads, commits and links in this order (`put_temporary_blob`, `put_jmap_blob`, `queue`),
or finds an existing blob (`Access`, `LinkAccessed`: objects that users make of a blob they
have, and that those with `FetchAnyBlob`, the `Admins`, make of any), and may stop
anywhere (`Leave`). `PurgeScan`, `PurgeBlob`, `PurgeKeys` are `purge_blobs`; a scan is one
iteration of the store, taken as one step. `overlapped`, `interrupted` and `exposed` name
the races the properties except: a purge that is to delete the blob (`Doomed`) next to one
who reserves it or to an administrator who makes an object of it; a purge that ends between
the contents and the keys; and the trust in a temporary link that has ended, or in none.

### How they compose

QueueManager's `TryLock`, `Deliver` and `UnlockEvent` are the steps of MtaQueue's
worker as the manager sees them: the lease, then the event gone or due later, then a
report. MtaQueue's `Dispatch` is what QueueManager promises: a worker only for an
event that is due (`DueHandled` says that there will be one). MtaQueue's `lock` and the
`lease` of QueueManager and TaskManager are what `Lease` promises: exclusion until
somebody outlives its lease (fault `"overrun"` of MtaQueue, `Removes` of TaskManager),
and an end of every lease (`ExpireLease`, `Tick`). MtaQueue takes its blob to be there
while it is linked, which is what BlobStore is about.

## Runs and bounds

Every cfg gives the constants; the `MC` modules define the instances.

| Run | Question | Instance |
|---|---|---|
| `lock_lease` | does the lease exclude, when may it not, and does it implement `Lease`? | both stores, 3 processes, leases of 2 s, clock to 4; symmetric |
| `mq_single` | one virtual queue: are reports honest, quotas balanced, is a removed message gone, and is this what `MailQueue` promises? | 2 recipients, 2 workers, notification at 1, expiry at 2, delays 1 and 2, clock to 3, lost answers |
| `mq_multi` | several virtual queues: is anything lost, stranded, leaked, delivered twice or undone by a stale copy? | 2 recipients in 2 queues, one of which may move, one with a limit of attempts, 2 workers, lost answers |
| `mq_faults` | the same under crashes, overruns, refused writes, edits and destructions | 1 recipient, 2 workers, 1 request of an administrator, who may edit the status, the retry and the expiry |
| `mq_live` | does every message leave the queue? | 2 recipients in 2 queues, empty return path (its notifications are never sent, only pushed back, the harder case for the schedule) |
| `qm_safe` | slots, locks, threads and wake-ups | 2 events in a queue with 1 or 2 threads; one disturbance of any kind but a pause |
| `qm_live` | is every due event acted on? | 2 events, 1 thread, 2 disturbances among pause, edit, other node, failed scan |
| `tm_races` | what do concurrent nodes, updates and destructions do to a task? | 2 nodes, 1 task, which is an internal report, retried once, 1 refused write or request (update, destroy, move), clock to 3 |
| `tm_live` | does every task end? | 1 node, 2 tasks in batches of 2, new tasks, 1 failure of any kind, clock to 2 |
| `tm_report` | the same, when the delivery of a report is moved | violated, see below |
| `cache_reads` | are the messages a call returns current, and does the cache move forward? | 2 readers, 2 messages, 2 threads, 3 changes, a history of 1, 1 eviction, failure or truncation |
| `blob_purge` | is a linked blob there, and an unlinked one found? | 2 writers for a user or the queue, one of whom is an administrator, a link good for 2 s, made until 2 |

Why the bounds are enough to meet the hard cases: two workers make a stale copy, two
queues make a merge, two recipients make a partial result; three processes make an
intruder, a victim and a successor; a queue with one thread and two events is full. A
clock that reaches the expiry of every recipient lets a message run through all of
its schedule. `mq_live` has expiries by time only: a recipient with a limit of attempts that is
always rate-limited is never charged an attempt, and stays. Lost answers are in `mq_single`
and `mq_multi`, whose properties they touch; `mq_faults` is about what is stored, of which
they are one more deferral. With one recipient no stored status is final, so that the resets of
`mq_faults` are those of a deferred one; that a recipient which was cancelled or reported is
reset next to another is in the theorems, which have any number of both. A second node makes a job that was dispatched from an older event, and a
clock of three a lease that runs out while its task runs; a batch of two ends with
different results. (Destructions are in `tm_races`, with batches of one; added to `tm_live`,
where they make a batch fail for a task that has run, they leave `TaskEnds` true, but
take four minutes.) Three changes are enough for a message that is inserted,
moved and deleted around a reader, with a history of one they are truncated under it,
and two readers make a stale one. A second writer of a blob is the one that skips the
upload, and the clock runs until every temporary link has ended. The deadlock check is
off in all runs but `lock_lease` and `cache_reads`: a message that has left the queue
leaves nothing to do once the clock has reached its bound, a manager stops after `Stop`,
and the clocks of TaskManager and BlobStore stop.

Each property is also checked for being able to fail: for every one of them
`PROJECT.json` names a plausible error in the code (a *mutant*, defined next to the
definition it replaces) with which TLC finds it violated.

The properties, by module:

- **LeaseLock** — `Exclusive`, `LeaseEnds`, `IntrusionNeedsOverrun` (above).
- **MtaQueue** — `NeverStranded`: a stored message has an event. `NoSilentLoss`: a
  message leaves the queue only when every recipient was delivered, reported,
  cancelled, or the message destroyed, but for a recipient whose report the store refused.
  `DeliveredOnce`: while leases hold, a recipient that a next hop was heard to accept is
  not handed to one again. `HonestBounces`: nor is it bounced, and nobody is bounced twice. `QuotaBalanced`: what
  was taken from the quotas is what the stored keys will give back. `FinalStatus`: a
  recipient stored as final never becomes pending again. `NoResurrection`: a removed
  message stays removed. `QuotaNotLeaked`: whatever happens, the counters never hold more
  for a message than its stored keys will give back, and nothing once it has gone.
  `KeepsPromise`: the life of a message is that of MailQueue. `Drained`: every message leaves
  the queue.
- **QueueManager** — `InFlightExact`: `in_flight` is the number of workers not heard
  of. `LocksHaveWorkers`: an event is locked for good only while a worker of it has
  not been heard of. `WithinThreads`: no scan starts a worker beyond the threads.
  `WakesInTime`: a manager that sleeps and is not paused scans again within
  `QUEUE_REFRESH`. `DueHandled`: every due event is acted on.
- **TaskManager** — `Findable`: a stored task that has not failed has an event whose time
  comes, whoever works on it at once. `RunAlone`: no task is run twice at once while
  leases are in force. `NoReturn`: an ended task does not come back. `StraysNeedRace`: an
  event loses its task only to a write that is out of date, a batch that has the task twice
  (`Doubled`), or the move of a report. `TaskEnds`: a task that is scheduled is done or
  gives up.
- **MessageCache** — `ReadsCurrent`: what a call returns was so at some moment of the
  call, message by message, so that a write that was done before is seen. `GoesForward`:
  the cached entry does not go back to an older id.
- **BlobStore** — `NoLostContents`: an object has the contents of its blob.
  `NoForgottenContents`: contents that nobody works on are found by a purge.

`HonestBounces`, `QuotaBalanced`, `NoResurrection` and `KeepsPromise` are checked, and proved,
with one virtual queue: with several they do not hold (see below). `QuotaNotLeaked` is the
half of `QuotaBalanced` that survives several queues, edits, crashes and refused writes. `DeliveredOnce` is so without
crashes: a node that stops between a delivery and its record delivers again, as any
mail server does. A next hop that accepts without being heard
is tried again, as by any mail server, too. The properties of the last three modules except
the races that their history variables name, one by one: they bound what those races do and
do not exclude them; that a race is named, and that nothing else breaks
the property, is what the runs show, and the proofs for every instance.

## Fairness

`MtaQueue!FairSpec`: the clock runs; a due event is dispatched as long as it stays
due (that is `DueHandled` of QueueManager); a task that runs takes its next step
(Tokio tasks are scheduled fairly, and the dialogue with a next hop has timeouts); a
lease nobody holds runs out. Nothing is assumed of administrators, crashes or the
store. `Drained` is checked without faults: with crashes for ever nothing could be
promised.

`QueueManager!FairSpec`: the manager, the tasks and the clock run; an administrator
who paused the queue resumes it; another node finishes or fails; and strong fairness
of a scan that starts a given event. The last stands for the shuffle: with more due
events than threads a scan takes a random choice of them, and no event is passed over
for ever by chance. (The code shuffles only when more than three events are due; with
up to three the order of the store, by due time, is kept, and an event that is put
back gets a later time, so the oldest comes first.)

`TaskManager!FairSpec`: the clock runs, a request that has begun is answered, the manager
and the worker of every node take their next step; and strong fairness of the dispatch of
a given task, as a scan shuffles its jobs and a full channel sends the rest to the next
scan. `TaskEnds` excepts a task whose status an update has overwritten, and a node that
is kept busy for ever by the events of tasks that are gone (`Orphans`), or by batches that
have a task twice, whose writes fail (`Doubled`).

## What is proved

Every theorem below holds for every value of the constants that the assumptions of its
module admit (`DurationAssumption`, `QueueAssumption`, `ScheduleAssumption`,
`ManagerAssumption`, `TaskAssumption`, `CacheAssumption`, `BlobAssumption`); TLC evaluates
these on every run. Some theorems have a hypothesis of their own, named in their statement,
and satisfied by the instances that check the same property.

| Module | Theorem | Property | Hypothesis |
|---|---|---|---|
| `LeaseLockProofs` | `LeaseTypeOK`, `LeaseExclusive`, `LeaseExpires`, `LeaseIntrusion` | `TypeOK`, `Exclusive`, `LeaseEnds`, `IntrusionNeedsOverrun` | |
| | `LeaseImplemented` | `ImplementsLease`, the refinement of `Lease` | |
| `MtaQueueProofs` | `MtaTypeOK` | `TypeOK` | |
| | `MtaNeverStranded` | `NeverStranded` | no read errors (`mq_multi`, `mq_faults`) |
| `MtaLossProofs` | `MtaNoSilentLoss` | `NoSilentLoss` | there is a return path (`mq_multi`, `mq_faults`) |
| | `MtaReportsQueued` | no report is lost (`NothingUnreported`) | no refused writes (`mq_single`, `mq_multi`) |
| | `MtaQuotaNotLeaked` | `QuotaNotLeaked` | |
| `MtaCopyProofs` | `MtaFinalStatus` | `FinalStatus` | `Undisturbed` (`mq_multi`) |
| | `MtaDeliveredOnce` | `DeliveredOnce` | `NoResultLost` (`mq_multi`) |
| | `MtaQuotaBalanced`, `MtaNoResurrection` | `QuotaBalanced`, `NoResurrection` | `Single`, `Undisturbed` (`mq_single`) |
| | `MtaHonestBounces` | `HonestBounces` | `Single`, `NoResultLost` (`mq_single`) |
| | `MtaKeepsPromise` | `KeepsPromise`, the refinement of `MailQueue` | `Single`, `NoResultLost`, there is a return path (`mq_single`) |
| `QueueManagerProofs` | `ManagerTypeOK`, `ManagerInFlightExact`, `ManagerLocksHaveWorkers`, `ManagerWithinThreads` | `TypeOK`, `InFlightExact`, `LocksHaveWorkers`, `WithinThreads` | |
| | `ManagerWakesInTime` | `WakesInTime` | no pause (`qm_safe`) |
| `TaskManagerProofs` | `TaskTypeOK`, `TaskFindable`, `TaskRunAlone`, `TaskNoReturn`, `TaskStraysNeedRace` | `TypeOK`, `Findable`, `RunAlone`, `NoReturn`, `StraysNeedRace` | |
| `MessageCacheProofs` | `CacheTypeOK`, `CacheGoesForward`, `CacheReadsCurrent` | `TypeOK`, `GoesForward`, `ReadsCurrent` | |
| `BlobStoreProofs` | `BlobTypeOK`, `BlobNoLostContents`, `BlobNoForgottenContents` | `TypeOK`, `NoLostContents`, `NoForgottenContents` | |

The hypotheses of MtaQueue are about the faults: `Undisturbed` is no overrun, no edit and
no destruction (crashes, refused writes and failed reads are allowed), `NoResultLost` is
no fault but failed reads and lost answers of next hops, `Single` is one virtual queue. Each is needed: the sections
below and the runs say what happens without it.

The inductive invariants, and why the properties need them:

**LeaseLock.** `Exclusive` alone is not inductive: a process between its read and its write
may already be looking at a stale value. `IInv` adds that a process about to write has
refused any lease in force in what it read, that its new lease is bounded by the clock,
and that, before an intrusion, every lease in force is the stored value, so that the
assertion of the batch fails for everyone who read something older. `LeaseIntrusion`
follows: a deletion by a process whose own lease is in force has no other victim.
`LeaseImplemented`: under `IInv` every step of `LeaseLock` is a step of `Lease` or leaves
its variables alone. `WriteLock` and `TryLockRedis` are `Grant`, a removal is `Return` or,
when the lease has run out and another is in force, `ReturnLate`; a purge that deletes a
key in force is `Purge`.

**MtaQueue, types and events.** The work in `MtaTypeOK` is in the lemmas on the pure part
(`NextEvents`, `MarkExpired`, `AfterDsn`, `Deferred`): a schedule remains a schedule
whatever the retry and notification lists are. `MtaNeverStranded` needs `CopyPending`:
every copy about to be saved has a pending recipient, so that the events set by the save
are never empty, whatever other workers and administrators have done to the stored events
in the meantime. That the event is set by the batch that clears the old one is essential:
the mutant `SaveClearsLast`, which clears it last, strands the message.

**MtaQueue, loss.** `LossInv` says of the stored message, of every worker's copy and of the
administrator's that each recipient in it has been answered for, or is pending and not
marked as reported: answered for is one that was delivered, reported, cancelled, or whose
report the store refused (`Settled`). A recipient that is set back to scheduled keeps its mark,
so that pending alone would not do: it fails unreported, and is answered for only because it
was before. As it
speaks of each copy by itself, it does not depend on leases, and the theorem holds under
any mixture of faults: a copy that overwrites another can undo a status but not lose a
recipient.

**MtaQueue, quota.** `QuotaNotLeaked` speaks of the stored message, and what a removal gives
back are the keys of the copy it is made from. `QuotaInv` therefore says of every copy, of
the workers and the administrator, that its keys cover what the counters hold. That stays
so because the counters only go down once the message is queued, and because a save drops
from its copy just the keys it releases (`SaveQuota`): if the merge does not store that the
other copies cover more than is left, which is the double release of "Known not to hold",
never less.

**MtaQueue, refinement.** `FateInv` is `HonestInv` and `LossInv` with what keeps `Place` and
`FateOf` apart from their forbidden values: the blob is linked as long as the message is
stored, and nobody has destroyed the message or cancelled a recipient. The two steps that send something
(`ReadMessage`, `Deliver`) leave the message where it is (`SettledInPlace`) and take no fate
back (`FateStays`), so that they are `Settle`; `QueueMessage` is `Accept`; and a removal is
`Leave`, because by `LossInv` a message that goes has told every recipient's fate to
somebody, and with a return path, no cancellation and no refused report
(`NothingUnreported`) that is a delivery or a report. A lost answer is a `Settle` that leaves
the fate as it is, of a recipient that is pending before and after (`DoubtPending`). Each
hypothesis is needed: with two queues a removed message comes back, a lost result is
delivered again, and without a return path a failure is reported to nobody.

**MtaQueue, copies.** `CopyInv` relates the copies of all workers to the stored message and
to each other. A worker may write the recipients of its own queue (`Own`), and the copy says
which of these are pending as the store does (`OwnCurrent`); a copy that is saved as a
whole (`Plain`, not `is_multi_queue`) had every pending recipient in its own queue when it was
read (`PlainCurrent`); two workers have no pending recipient in common (`Disjoint`); and
next to a worker with a plain copy the others have nothing left to try (`PlainAlone`). The
last is the heart of it: a plain save is no merge, and is harmless only because whoever
else has a copy has finished with it. `OnceInv` adds that a recipient that was delivered
is in the hands of the worker that did it or final in the store, so that it is not among
those a worker tries, whether what comes of it is heard (`OnceStep`) or not, `SingleInv` that with one
queue a copy's quota keys are those of the store, `HonestInv` that every failed recipient
has been reported.

**QueueManager.** `InFlightExact` counts workers whose reports may be in the channel:
`CountInv` says that for each queue the reports in the channel and the tasks that run are
together `in_flight` (at most, once the channel is closed), with the cardinalities of the
sets of both. A report counts one task off and is one report more, and handling it one
less. `WakeInv` says that without pauses the next wake-up is within `QueueRefresh`, also
while the manager is draining.

**TaskManager.** `TaskInv` has four parts. `StoreInv`: events are of scheduled tasks and a
failed task is due never, along with `Findable`; of the jobs of one task in a batch the last
decides, and what it writes no later job clears. `NodesInv`: the jobs of every scan, channel and batch are of scheduled tasks, and
a batch that runs has read its tasks. `AdmInv`: the same of a request. `LeaseInv`: unless
somebody has returned the lease of another, a lease in force belongs to one job, at one
place of one node's batch and channel, or to one request. `RunAlone` follows: two running
jobs of a task under leases in force would be two places.

**MessageCache.** `GoesForward` is about locks of which there may be several after an eviction.
`CacheInv` has `GuardAlone` (the reader with the placeholder guard has a lock of its own),
`ReadsAhead` (changes read reach at least to the entry they were read for), `Revised` and
`CachedRevision` (the cached entry is the revision of its lock, unless the reader with the
permit is about to replace it by one that is not older), and `QuietInv` (before anything is
evicted, truncated or fails there is one lock and nobody writes without it).

`ReadsCurrent` rests on what `Store::changes` returns. `LogInv` says, for every change id
behind which nothing is missing from the log, what the net changes since it say about each
message (`DocNet`): one that was absent then and is there now was inserted, one that was
there and is gone was deleted under one id, one whose thread was merged was deleted under
one id and inserted under another, and one that they do not name has not changed, or has
come and gone. It is inductive because a batch appends one entry, which merges into the net
changes since every id (`NetAppended`, `DocMerge`), and a truncation leaves them as they are
where nothing is missing (`NetKept`). The facts about `NetUpTo`, a recursion over the log, are
proved by a smallest position where they fail, as the induction theorems of the library
cannot be used. On this, `ReadsInv` says what each reader has: an entry is current at its
id (`EntryCurrent`: every message in it is a version since, and those absent then are not
listed unless the entry is known to be `ahead`); changes read lead from the entry's id to a
change after the call began (`ChangesRight`); applied to a current entry they make a current
one (`ChangesApplied`), also when the entry is a later one than they were read for, which
then counts as ahead (`ChangesLater`); and an entry that is not older than the call shows
what was so during it (`CurrentShown`).

**BlobStore.** `DoomedAlone`: while the purge is on its way to delete the blob, nobody is at
work on it and nothing keeps it (or the run is on record as `overlapped`, which it must be
when an administrator makes an object of it). `NothingLost`
adds that the commit stands for the contents and that whoever found or stored them can rely
on them; `NothingForgotten` that a key is there from the moment a writer reserves the blob.

Proving changed the models where they were wrong or said too little: `GoesForward` did not
hold with three readers, as a reader without the permit may already lower the revision of a
lock (`Revise` now puts that on record, as `unlocked`); `StraysNeedRace` and `TaskEnds` did
not hold when a batch has a task twice (`Doubled`), which takes a lease that runs out in the
channel of a node, and a result that retries a task an earlier job of the batch has ended is
refused by the assertion of the batch; the thread counts of a queue have a largest one,
and there are finitely many events, which counting them needs; and `NetChanges` is a
recursion over the positions of the log, rather than a fold of its entries, so that there is
something to say of each position.

## Where the code does not do what it says

`tm_report` checks `TaskEnds` with a report whose delivery is moved, and TLC finds a task
that never ends. `reschedule_ops` (`smtp/src/reporting/index.rs:63`) writes the new event
with the number of the report's `ObjectType`, and `process_tasks` reads it as a
`TaskType`: it is unknown, the scan ends with `DataCorruption`, and no event behind it is
read by any scan of any node. The comment of the scan is "Retrieve tasks pending to be
processed" (`services/src/task_manager/manager.rs:335`).

## Known not to hold

Behaviour of the code found while modelling, that limits what the properties can say. It
is in the models where not noted otherwise.

The queue:

- `delivery.rs:101` deletes the event of a message that "no longer exists", but
  `read_message` returns `None` on a read error as well: the message stays in the store
  without that event. `MtaNeverStranded` assumes there are none.
- An edit by an administrator is saved as if by a worker of the default queue
  (`queued_message.rs:192`). When the message is in another queue the merge keeps only
  recipients of the default queue, and an acknowledged cancellation is dropped; in the
  default queue it is dropped when a worker that has read the message before saves after.
- `send_dsn` marks the recipients of a failure report as reported (`dsn.rs:167`) and ignores
  the result of queueing it (`dsn.rs:51`): when the store refuses the report, or the blob of
  it, the sender is never told. `NoSilentLoss` excepts just these recipients.
- When the final answer of a next hop is lost, every recipient it was given is deferred
  (`session.rs:311`), and with LMTP also those whose answers had been read
  (`session.rs:387`): they are delivered again, or bounced when they expire.
- An update that sets a recipient back to scheduled keeps its `RCPT_DSN_SENT`
  (`queued_message.rs:182`): when it fails again nobody is told. `NoSilentLoss` has been
  satisfied by the first report.
- A recipient with a limit of attempts is never charged one by a rate limit
  (`set_rcpt_rate_limit`), and stays in the queue as long as it is limited.
- `delivery.rs:170` removes a message that has expired. A worker of another queue that
  read it before puts it back, as its save is a plain set when the other recipients are
  final in its copy. A destruction by an administrator is undone in the same way.
- A save of a message in several queues releases the quota of completed recipients and
  drops the keys in its copy (`spool.rs:624`), but the merge does not store that, and they
  are released again. The counters then stand too low for other messages, never too high
  (`QuotaNotLeaked`).
- A recipient that moves to another queue in a message of several queues is not stored
  by the merge, so that its attempt is not counted; a session that fails after a
  recipient was refused at RCPT TO reports that recipient twice.
- A paused manager sets its wake-up a day ahead (`manager.rs:154`) and a resume leaves it
  there, so nothing due is delivered until some other event arrives. `qm_safe` has no
  pause for that reason.
- `next_event` looks at the capacity before the lock, so that a scan of a full queue
  drops the locks of the events being delivered, and starts them again when a slot is
  free; the lease refuses, and the event is then locked for over ten minutes.

Tasks:

- A worker clears the event its job was made from, not the one its task has now
  (`manager.rs:496`), so that a job dispatched from an older event leaves the newer one
  behind; a move of a report leaves the status of its task as it was.
- A destruction takes no lease, and returns the one of the worker that runs the task; an
  update reads the task before it takes the lease, so that an ended task may come back
  (`task.rs:155`).
- A worker that finds no task leaves its event where it is, and the event is dispatched
  again whenever its local lock expires.
- The deadline of a task that asks to be retried at a given time is compared with that
  time itself (`manager.rs:529`), so that only the number of attempts ends it.
- An index task without contents adds no result, and the results of those behind it go
  to the wrong tasks (`index.rs:80`; not in the model).

The message cache:

- The last change id is read before the messages (`email/src/cache/mod.rs:204`): a message
  inserted in between and deleted later is listed for ever.
- A reader may apply the changes it read since one id to an entry of another id
  (`mod.rs:102`), so that changes are skipped or applied twice.
- Old changes are deleted before the truncation entry is written
  (`common/src/storage/transaction.rs:113`): a reader in between is not told.
- A rebuild writes the entry without the permit, and an entry that is evicted comes back
  with another lock, so that two readers write at once.

Blobs:

- A purge deletes contents and then keys without another look: whoever reserves the blob
  meanwhile sees the commit and skips the upload. A purge that ends in between leaves the
  commit of a blob that is gone.
- A temporary link may have ended, or be shared with another writer who stores the same
  contents in the same second and clears it, when the object is written.
- `FetchAnyBlob` makes an object of a blob without a link (`download.rs:105`,
  `file/set.rs:96`), which a purge that has found it so then deletes.

## Only model-checked, and not modelled

Model-checked and not proved:

- Liveness (`Drained`, `DueHandled`, `TaskEnds`), which is out of the prover's reach.
- `WakesInTime` in a run with pauses, where the code does not keep it (see above).

In several virtual queues, crashes, refused writes and edits are covered by the proofs of `NeverStranded` and
`NoSilentLoss`, and crashes by that of `FinalStatus`, but by no run: an instance with several
queues and crashes does not finish.

Not modelled: `PROJECT.json` lists each component with the reason. In the queue itself:
the dialogue with the next hop, MX, DANE and MTA-STS (their outcome is a choice), the
text of DSNs, `NOTIFY=NEVER` and `NOTIFY=SUCCESS`, and the check of a quota before it is
reserved. Most of the lines of the repository have no
behaviour of this kind at all: the generated schema of the settings, names of events,
word lists, the grammars of SMTP, IMAP, JMAP, HTTP and DAV, the drivers of databases,
request handlers that are one read and one batch, and the spam rules. The parts with
state of their own that remain are small or best effort (the push router, the broadcast
of invalidations, the concurrency limiter, the channel of trace events).

## Plan

The modelling is complete as far as it was planned, and every safety invariant and action
property of the runs is proved. What is left, in order:

1. The composition of the queue manager with the life of one message: that the steps of a
   worker of QueueManager are steps of MtaQueue.
2. How often a quota key can be released with several queues: `QuotaNotLeaked` bounds the
   counters from one side only.
