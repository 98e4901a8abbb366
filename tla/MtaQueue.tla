------------------------------ MODULE MtaQueue ------------------------------
(***************************************************************************)
(* One message in the outbound mail queue, from queue() to its removal     *)
(* (crates/smtp/src/queue/{spool,manager,quota,dsn}.rs and                 *)
(* crates/smtp/src/outbound/delivery.rs).                                  *)
(*                                                                         *)
(* The store keeps the message with its recipients, and a set of events    *)
(* <<queue, due>> that tell the queue managers when to look at it.  Each   *)
(* recipient belongs to a virtual queue; workers of different queues, on   *)
(* different nodes, work on the same message at once, each on its own copy,*)
(* and each holds only the lease of its queue.  Administrators edit and    *)
(* destroy the message without a lease.                                    *)
(*                                                                         *)
(* Every await of the code at which another actor may touch the store ends *)
(* an action.  The message is created at time 0.                           *)
(***************************************************************************)
EXTENDS Integers, Sequences, FiniteSets, FiniteSetsExt

CONSTANTS
    Rcpts,      \* recipients of the message
    Queues,     \* virtual queues
    Default,    \* QueueName::default()
    Workers,    \* delivery tasks, on all nodes
    NoWorker,   \* nobody holds the lease
    Sender,     \* the quota key of the sender (id 0)
    First,      \* First[r]: queue, schedule and expiry r is queued with
    Requeue,    \* Requeue[q]: queues a deferred recipient of q may move to
    Expiry,     \* Expiry[q]: expiry of the strategy of queue q
    Retry,      \* retry delays of the strategies, a non-empty sequence
    Notify,     \* delays between delay notifications, a sequence
    NullSender, \* the return path is empty: no DSN is ever sent
    Faults,     \* which of FaultKinds may happen
    Never,      \* u64::MAX
    MaxTime,    \* bound: the clock stops here
    Edits,      \* bound: the values an administrator gives to what may be edited
    MaxRequests \* bound: management requests made

FaultKinds == {
    "crash",    \* a node stops in the middle of a delivery
    "overrun",  \* a delivery outlives its lease
    "write",    \* the store refuses a batch or a blob
    "reply",    \* what a next hop answers for a recipient it accepted is lost
    "read",     \* the store fails to read the message
    "update",   \* an administrator edits the message
    "destroy"}  \* an administrator destroys it, or its sender undoes it

\* QueueExpiry: a time to live in seconds, or a number of attempts.
QueueExpiry == [kind : {"ttl", "attempts"}, n : Nat]

ASSUME QueueAssumption ==
    /\ Default \in Queues
    /\ First \in [Rcpts -> [queue : Queues, due : Nat, notify : Nat,
                             expires : QueueExpiry]]
    /\ Requeue \in [Queues -> SUBSET Queues]
    /\ Expiry \in [Queues -> QueueExpiry]
    /\ Edits \in [due : SUBSET Nat, tries : SUBSET Nat, notify : SUBSET Nat,
                   nth : SUBSET Nat, expires : SUBSET QueueExpiry]
    /\ Rcpts # {} /\ IsFiniteSet(Rcpts)
    /\ Sender \notin Rcpts
    /\ NoWorker \notin Workers

ASSUME ScheduleAssumption ==
    /\ Retry \in Seq(Nat) /\ Retry # <<>>
    /\ Notify \in Seq(Nat)
    /\ NullSender \in BOOLEAN
    /\ Faults \subseteq FaultKinds
    /\ MaxRequests \in Nat
    /\ MaxTime \in Nat /\ Never \in Nat /\ Never > MaxTime

VARIABLES
    now,        \* the clock
    exists,     \* the store has the message
    msg,        \* the stored message (no meaning unless exists)
    events,     \* stored queue events of the message: <<queue, due>>
    blob,       \* the link that keeps the message's blob
    quota,      \* what the message has left in the quota counters
    lock,       \* lock[q]: the worker holding the lease of q, or NoWorker
    pc, job,    \* each worker's step, and the event it was started for
    wrap,       \* each worker's MessageWrapper and the recipients it tries
    admin,      \* the administrator's request in progress
    requests,   \* requests made so far
    queued,     \* history: the message has been accepted
    gone,       \* history: an administrator was told it is destroyed
    cancelled,  \* history: recipients an administrator was told are cancelled
    delivered,  \* history: times a next hop was heard to accept each recipient
    unanswered, \* history: recipients a next hop accepted without being heard
    bounced,    \* history: failure DSNs queued for each recipient
    unreported  \* history: recipients whose failure DSN the store refused

stored == <<exists, msg, events, blob, quota>>
local  == <<lock, pc, job, wrap>>
hist   == <<queued, gone, cancelled, delivered, unanswered, bounced, unreported>>
mgmt   == <<admin, requests>>
vars   == <<now, stored, local, mgmt, hist>>

-----------------------------------------------------------------------------
(* Recipients and messages                                                 *)

\* Bound: deliveries and failure DSNs of a recipient are counted up to Many.
Many == 2
Statuses == {"scheduled", "temp", "done", "failed"}

Recipient == [status : Statuses, queue : Queues, due : Nat, tries : Nat,
              expires : QueueExpiry, notify : Nat, nth : Nat,
              dsn_sent : BOOLEAN]
Message == [rcpts : [Rcpts -> Recipient], keys : SUBSET (Rcpts \cup {Sender})]
MessageWrapper == [message : Message, is_multi_queue : BOOLEAN,
                   tried : SUBSET Rcpts]

Pending(rc) == rc.status \in {"scheduled", "temp"}
PendingRcpts(m) == {r \in Rcpts : Pending(m.rcpts[r])}
HasPending(m) == \E r \in Rcpts : Pending(m.rcpts[r])

\* build_message: every recipient gets its queue and its first schedule.
NewMessage ==
    [rcpts |-> [r \in Rcpts |->
        [status |-> "scheduled", queue |-> First[r].queue,
         due |-> First[r].due, tries |-> 0, expires |-> First[r].expires,
         notify |-> First[r].notify, nth |-> 0, dsn_sent |-> FALSE]],
     keys |-> Rcpts \cup {Sender}]

\* Recipient::expiration_time (the message was created at 0), Never if none.
ExpirationTime(rc) ==
    IF rc.expires.kind = "ttl" THEN rc.expires.n ELSE Never

\* Recipient::is_expired
IsExpired(rc, t) ==
    IF rc.expires.kind = "ttl" THEN rc.expires.n <= t
                                     ELSE rc.tries >= rc.expires.n

\* Mutant: the expiry does not wake the queue.
EarlierEventNoTtl(rc) == Min({rc.due, rc.notify})

EarlierEvent(rc) == Min({rc.due, rc.notify, ExpirationTime(rc)})

\* Message::next_event(None): the earliest event of the pending recipients.
NextEvent(m) == Min({EarlierEvent(m.rcpts[r]) : r \in PendingRcpts(m)})

\* Message::next_events: one event per queue that has pending recipients.
NextEvents(m) ==
    {<<q, Min({EarlierEvent(m.rcpts[r]) :
                 r \in {s \in PendingRcpts(m) : m.rcpts[s].queue = q}})>> :
        q \in {m.rcpts[r].queue : r \in PendingRcpts(m)}}

\* The recipients of queue q that are due: what this worker may try.
DueRcpts(m, q, t) ==
    {r \in PendingRcpts(m) : m.rcpts[r].queue = q /\ m.rcpts[r].due <= t}

\* MessageWrapper::new
IsMultiQueue(m, q) == \E r \in PendingRcpts(m) : m.rcpts[r].queue # q

\* has_pending_delivery: the expired recipients, of every queue, have failed.
MarkExpired(m, t) ==
    [m EXCEPT !.rcpts = [r \in Rcpts |->
        IF Pending(m.rcpts[r]) /\ IsExpired(m.rcpts[r], t)
          THEN [m.rcpts[r] EXCEPT !.status = "failed"] ELSE m.rcpts[r]]]

\* Mutant: a failure is reported only when a notification is due.
ReportedIfNotifyDue(m) ==
    {r \in Rcpts : /\ m.rcpts[r].status = "failed" /\ ~m.rcpts[r].dsn_sent
                   /\ m.rcpts[r].notify <= now}

\* build_dsn: the failed recipients the next DSN reports.
Reported(m) ==
    {r \in Rcpts : m.rcpts[r].status = "failed" /\ ~m.rcpts[r].dsn_sent}

\* update_next_dsn: the next delay notification of a recipient, if any.
NextDsn(rc, t) ==
    IF ~Pending(rc) \/ rc.notify > t THEN rc
    ELSE IF rc.nth + 2 <= Len(Notify)
      THEN [rc EXCEPT !.nth = rc.nth + 1, !.notify = t + Notify[rc.nth + 2]]
      ELSE [rc EXCEPT !.notify = Never]

\* Mutant: RCPT_DSN_SENT is not set.
DsnBuiltForgetful(rc) == rc

\* build_dsn: completed and failed recipients are not reported again.
DsnBuilt(rc) == [rc EXCEPT !.dsn_sent = @ \/ ~Pending(rc)]

\* handle_double_bounce: no DSN; a notification that is due is pushed back.
DoubleBounce(rc, t) ==
    [rc EXCEPT !.dsn_sent = @ \/ rc.status = "failed",
               !.notify = IF @ > t THEN @
                          ELSE IF rc.expires.kind = "ttl"
                            THEN ExpirationTime(rc) + 10 ELSE Never]

\* send_dsn: what is left in the message after the DSN has been queued.
Accounted(rc, t) ==
    NextDsn(IF NullSender THEN DoubleBounce(rc, t) ELSE DsnBuilt(rc), t)

AfterDsn(m, t) ==
    [m EXCEPT !.rcpts = [r \in Rcpts |-> Accounted(m.rcpts[r], t)]]

Bump(n) == IF n < Many THEN n + 1 ELSE n

\* send_dsn: the failure reports of m are queued as a message of their own. That
\* the store refuses it is ignored: RCPT_DSN_SENT is set, and there is no report.
QueueDsn(m) ==
    LET told == IF NullSender THEN {} ELSE Reported(m) IN
    \/ /\ bounced' = [r \in Rcpts |-> IF r \in told THEN Bump(bounced[r])
                                                    ELSE bounced[r]]
       /\ unreported' = unreported
    \/ /\ "write" \in Faults
       /\ unreported' = unreported \cup told
       /\ bounced' = bounced

-----------------------------------------------------------------------------
(* Initial state and type                                                  *)

Idle == [message |-> NewMessage, is_multi_queue |-> FALSE, tried |-> {}]
NoJob == <<Default, Never>>
NoRequest == [op |-> "none", message |-> NewMessage, is_multi_queue |-> FALSE,
              clear |-> {}, cancel |-> {}]

Steps == {"idle", "lock", "read", "route", "deliver", "save", "remove",
          "unlock"}

TypeOK ==
    /\ now \in 0..MaxTime
    /\ exists \in BOOLEAN
    /\ msg \in Message
    /\ events \subseteq Queues \X Nat
    /\ blob \in BOOLEAN
    /\ quota \in Int
    /\ lock \in [Queues -> Workers \cup {NoWorker}]
    /\ pc \in [Workers -> Steps]
    /\ job \in [Workers -> Queues \X Nat]
    /\ wrap \in [Workers -> MessageWrapper]
    /\ admin \in [op : {"none", "update", "destroy"}, message : Message,
                  is_multi_queue : BOOLEAN, clear : SUBSET (Queues \X Nat),
                  cancel : SUBSET Rcpts]
    /\ requests \in 0..MaxRequests
    /\ queued \in BOOLEAN
    /\ gone \in BOOLEAN
    /\ cancelled \subseteq Rcpts
    /\ delivered \in [Rcpts -> 0..Many]
    /\ unanswered \subseteq Rcpts
    /\ bounced \in [Rcpts -> 0..Many]
    /\ unreported \subseteq Rcpts

Init ==
    /\ now = 0
    /\ exists = FALSE /\ msg = NewMessage /\ events = {}
    /\ blob = FALSE /\ quota = 0
    /\ lock = [q \in Queues |-> NoWorker]
    /\ pc = [w \in Workers |-> "idle"]
    /\ job = [w \in Workers |-> NoJob]
    /\ wrap = [w \in Workers |-> Idle]
    /\ admin = NoRequest /\ requests = 0
    /\ queued = FALSE /\ gone = FALSE /\ cancelled = {}
    /\ delivered = [r \in Rcpts |-> 0] /\ unanswered = {}
    /\ bounced = [r \in Rcpts |-> 0] /\ unreported = {}

-----------------------------------------------------------------------------
(* Batches written to the store                                            *)

\* queue(): one batch reserves the quotas, sets the events and the message,
\* and links the blob that was written before it.
QueueMessage ==
    /\ ~queued /\ now = 0
    /\ queued' = TRUE
    /\ exists' = TRUE /\ msg' = NewMessage
    /\ events' = NextEvents(NewMessage)
    /\ blob' = TRUE
    /\ quota' = Cardinality(NewMessage.keys)
    /\ UNCHANGED <<now, local, mgmt, gone, cancelled, delivered, unanswered,
                   bounced, unreported>>

\* A batch takes n keys from the counters.  Bound: below zero they stay at -1.
Release(n) == quota' = Max({quota - n, -1})

\* release_quota: the keys of the recipients that are done or have failed.
Released(m) == {r \in Rcpts \cap m.keys : ~Pending(m.rcpts[r])}

\* Mutant: the whole copy overwrites the stored recipients.
MergedAll(m, q) == [msg EXCEPT !.rcpts = m.rcpts]

\* The merge of save_changes: of the copy, only the recipients that are (now)
\* in the worker's queue reach the stored message.
Merged(m, q) ==
    [msg EXCEPT !.rcpts = [r \in Rcpts |->
        IF m.rcpts[r].queue = q THEN m.rcpts[r] ELSE msg.rcpts[r]]]

\* save_changes, the batch applies.  A merge needs a message to merge into; a
\* plain set does not.
SaveApplies(is_multi) == is_multi => exists

\* Mutants: the released keys stay in the message; the old event is cleared
\* after the new ones are set; only the worker's own event is set.
SaveKeepsKeys(m, q, is_multi, clear) ==
    /\ SaveApplies(is_multi)
    /\ Release(Cardinality(Released(m)))
    /\ events' = (events \ clear) \cup NextEvents(m)
    /\ msg' = IF is_multi THEN Merged(m, q) ELSE m
    /\ exists' = TRUE
    /\ blob' = blob
SaveClearsLast(m, q, is_multi, clear) ==
    LET saved == [m EXCEPT !.keys = @ \ Released(m)] IN
    /\ SaveApplies(is_multi)
    /\ Release(Cardinality(Released(m)))
    /\ events' = (events \cup NextEvents(m)) \ clear
    /\ msg' = IF is_multi THEN Merged(saved, q) ELSE saved
    /\ exists' = TRUE
    /\ blob' = blob
SaveOwnEvent(m, q, is_multi, clear) ==
    LET saved == [m EXCEPT !.keys = @ \ Released(m)] IN
    /\ SaveApplies(is_multi)
    /\ Release(Cardinality(Released(m)))
    /\ events' = (events \ clear) \cup {e \in NextEvents(m) : e[1] = q}
    /\ msg' = IF is_multi THEN Merged(saved, q) ELSE saved
    /\ exists' = TRUE
    /\ blob' = blob

Save(m, q, is_multi, clear) ==
    LET saved == [m EXCEPT !.keys = @ \ Released(m)] IN
    /\ SaveApplies(is_multi)
    /\ Release(Cardinality(Released(m)))
    /\ events' = (events \ clear) \cup NextEvents(m)
    /\ msg' = IF is_multi THEN Merged(saved, q) ELSE saved
    /\ exists' = TRUE
    /\ blob' = blob

\* Mutant: the keys of the recipients are released, not that of the sender.
RemoveKeepsSender(m, clear) ==
    /\ Release(Cardinality(Released(m)))
    /\ events' = events \ clear
    /\ exists' = FALSE /\ msg' = NewMessage
    /\ blob' = FALSE

\* remove: clears the events, releases every quota key of the copy, unlinks
\* the blob and deletes the message.
Remove(m, clear) ==
    /\ Release(Cardinality(m.keys))
    /\ events' = events \ clear
    /\ exists' = FALSE /\ msg' = NewMessage
    /\ blob' = FALSE

-----------------------------------------------------------------------------
(* The delivery worker: QueueEventLock::try_deliver and deliver_task       *)

Goto(w, step) == pc' = [pc EXCEPT ![w] = step]

\* The queue manager of some node starts a worker for an event that is due.
Dispatch(w) ==
    /\ pc[w] = "idle"
    /\ \E e \in events : e[2] <= now /\ job' = [job EXCEPT ![w] = e]
    /\ Goto(w, "lock")
    /\ UNCHANGED <<now, stored, lock, wrap, mgmt, hist>>

\* Mutant: the lease is not looked at.
LockEventAlways(w) ==
    /\ pc[w] = "lock"
    /\ lock' = [lock EXCEPT ![job[w][1]] = w]
    /\ Goto(w, "read")
    /\ UNCHANGED <<now, stored, job, wrap, mgmt, hist>>

\* try_lock_event: the lease of (message, queue), see LeaseLock.
LockEvent(w) ==
    /\ pc[w] = "lock"
    /\ lock[job[w][1]] = NoWorker
    /\ lock' = [lock EXCEPT ![job[w][1]] = w]
    /\ Goto(w, "read")
    /\ UNCHANGED <<now, stored, job, wrap, mgmt, hist>>

\* try_lock_event fails: the worker reports Locked and ends.
LockRefused(w) ==
    /\ pc[w] = "lock"
    /\ lock[job[w][1]] # NoWorker
    /\ Goto(w, "idle")
    /\ job' = [job EXCEPT ![w] = NoJob]
    /\ UNCHANGED <<now, stored, lock, wrap, mgmt, hist>>

\* deliver_task, up to its first decision, on a copy of the stored message:
\* expired recipients fail, due DSNs are sent, and the message is delivered,
\* removed or put back.
ReadMessage(w) ==
    LET q == job[w][1]
        expired == MarkExpired(msg, now)
        m == AfterDsn(expired, now)
    IN
    /\ pc[w] = "read"
    /\ exists
    /\ QueueDsn(expired)
    /\ wrap' = [wrap EXCEPT ![w] = [message |-> m,
                                    is_multi_queue |-> IsMultiQueue(msg, q),
                                    tried |-> {}]]
    /\ Goto(w, IF ~HasPending(m) THEN "remove"
               ELSE IF DueRcpts(m, q, now) # {} THEN "route" ELSE "save")
    /\ UNCHANGED <<now, stored, lock, job, mgmt, queued, gone, cancelled,
                   delivered, unanswered>>

\* read_message returns None: the event is deleted.  It does so when the
\* message is not there, and also when it could not be read.
ReadNone(w) ==
    /\ pc[w] = "read"
    /\ ~exists \/ "read" \in Faults
    /\ \/ events' = events \ {job[w]}
       \/ "write" \in Faults /\ events' = events
    /\ Goto(w, "unlock")
    /\ UNCHANGED <<now, exists, msg, blob, quota, lock, job, wrap, mgmt, hist>>

\* The sender is over its rate: its due recipients wait until retry_at.
ThrottleSender(w) ==
    LET m == wrap[w].message IN
    /\ pc[w] = "route"
    /\ LET retry_at == now + Retry[1] IN
         wrap' = [wrap EXCEPT ![w].message.rcpts = [r \in Rcpts |->
            IF r \in DueRcpts(m, job[w][1], now)
              THEN [m.rcpts[r] EXCEPT !.status = "temp", !.due = retry_at]
              ELSE m.rcpts[r]]]
    /\ Goto(w, "save")
    /\ UNCHANGED <<now, stored, lock, job, mgmt, hist>>

\* The due recipients of the worker's queue are grouped by route and tried.
Route(w) ==
    /\ pc[w] = "route"
    /\ wrap' = [wrap EXCEPT ![w].tried =
                    DueRcpts(wrap[w].message, job[w][1], now)]
    /\ Goto(w, "deliver")
    /\ UNCHANGED <<now, stored, lock, job, mgmt, hist>>

\* Mutant: the retry delay is subtracted.
DeferredBackwards(rc, q, t) ==
    [rc EXCEPT !.status = "temp",
               !.due = t - Retry[Min({rc.tries + 1, Len(Retry)})],
               !.tries = @ + 1,
               !.expires = Expiry[q],
               !.queue = q]

\* set_rcpt_status with a temporary failure: the retry schedule advances, and
\* the strategy, hence the queue and the expiry, is evaluated again.
Deferred(rc, q, t) ==
    [rc EXCEPT !.status = "temp",
               !.due = t + Retry[Min({rc.tries + 1, Len(Retry)})],
               !.tries = @ + 1,
               !.expires = Expiry[q],
               !.queue = q]

\* set_rcpt_status with a failure, permanent or temporary.
Refused(rc, t) ==
    {[rc EXCEPT !.status = "failed"]} \cup {Deferred(rc, q, t) : q \in Requeue[rc.queue]}

\* set_rcpt_rate_limit: the attempt does not count.
RateLimited(rc, t) == [rc EXCEPT !.status = "temp", !.due = t + Retry[1]]

\* What a session with the next hop records. A recipient refused at RCPT TO is
\* refused a second time when the session then fails, or when the answers of the
\* next hop are not all heard: that result names every recipient.
NextHop(rc, t) ==
    {[rc EXCEPT !.status = "done"]}
        \cup Refused(rc, t)
        \cup UNION {Refused(x, t) : x \in Refused(rc, t)}

\* What one attempt can make of a recipient.
Outcomes(rc, t) == NextHop(rc, t) \cup {RateLimited(rc, t)}

\* What is recorded of a recipient the next hop has accepted when its answer is
\* lost, is not the one expected or, with LMTP, comes before one that is lost.
Unheard(rc, t) == {Deferred(rc, q, t) : q \in Requeue[rc.queue]}

\* The results of the attempt are applied to the copy, due DSNs are sent, and
\* the message is put back or, with nothing pending, removed.
Deliver(w) ==
    LET q == job[w][1]
        old == wrap[w].message.rcpts
    IN
    /\ pc[w] = "deliver"
    /\ \E new \in [Rcpts -> UNION {Outcomes(old[r], now) : r \in wrap[w].tried}
                              \cup {old[r] : r \in Rcpts}] :
         LET m == [wrap[w].message EXCEPT !.rcpts = new] IN
         /\ \A r \in Rcpts : new[r] \in IF r \in wrap[w].tried
                                          THEN Outcomes(old[r], now)
                                          ELSE {old[r]}
         /\ delivered' = [r \in Rcpts |->
                IF r \in wrap[w].tried /\ new[r].status = "done"
                  THEN Bump(delivered[r]) ELSE delivered[r]]
         /\ \E taken \in SUBSET {r \in wrap[w].tried :
                                    new[r] \in Unheard(old[r], now)} :
                /\ taken # {} => "reply" \in Faults
                /\ unanswered' = unanswered \cup taken
         /\ QueueDsn(m)
         /\ wrap' = [wrap EXCEPT ![w].message = AfterDsn(m, now),
                                 ![w].tried = {}]
         /\ Goto(w, IF HasPending(m) THEN "save" ELSE "remove")
    /\ UNCHANGED <<now, stored, lock, job, mgmt, queued, gone, cancelled>>

SaveChanges(w) ==
    /\ pc[w] = "save"
    /\ Save(wrap[w].message, job[w][1], wrap[w].is_multi_queue, {job[w]})
    /\ Goto(w, "unlock")
    /\ UNCHANGED <<now, lock, job, wrap, mgmt, hist>>

RemoveMessage(w) ==
    /\ pc[w] = "remove"
    /\ Remove(wrap[w].message, {job[w]})
    /\ Goto(w, "unlock")
    /\ UNCHANGED <<now, lock, job, wrap, mgmt, hist>>

\* save_changes or remove returns false, which the worker ignores.
WriteFails(w) ==
    /\ \/ pc[w] \in {"save", "remove"} /\ "write" \in Faults
       \/ pc[w] = "save" /\ ~SaveApplies(wrap[w].is_multi_queue)
    /\ Goto(w, "unlock")
    /\ UNCHANGED <<now, stored, lock, job, wrap, mgmt, hist>>

\* A worker ends: what it had in memory is gone.
End(w) ==
    /\ Goto(w, "idle")
    /\ job' = [job EXCEPT ![w] = NoJob]
    /\ wrap' = [wrap EXCEPT ![w] = Idle]

\* unlock_event deletes the lease, whoever holds it, and the worker reports.
UnlockEvent(w) ==
    /\ pc[w] = "unlock"
    /\ lock' = [lock EXCEPT ![job[w][1]] = NoWorker]
    /\ End(w)
    /\ UNCHANGED <<now, stored, mgmt, hist>>

\* The node of worker w stops; the lease stays until it expires.
Crash(w) ==
    /\ "crash" \in Faults
    /\ pc[w] # "idle"
    /\ End(w)
    /\ UNCHANGED <<now, stored, lock, mgmt, hist>>

\* The lease of q runs out: its holder is gone, or takes longer than it.
ExpireLease(q) ==
    /\ lock[q] # NoWorker
    /\ \/ "overrun" \in Faults
       \/ pc[lock[q]] \in {"idle", "lock"}
       \/ job[lock[q]][1] # q
    /\ lock' = [lock EXCEPT ![q] = NoWorker]
    /\ UNCHANGED <<now, stored, pc, job, wrap, mgmt, hist>>

-----------------------------------------------------------------------------
(* Management requests, which take no lease                                *)

\* What an update may make of a recipient: its schedule, its notifications and
\* its expiry are edited, and whatever its status it is scheduled again. It keeps
\* RCPT_DSN_SENT, and its quota key is not reserved again.
Edited(rc) ==
    [status : {rc.status, "scheduled"}, queue : {rc.queue},
     due : Edits.due \cup {rc.due}, tries : Edits.tries \cup {rc.tries},
     expires : Edits.expires \cup {rc.expires},
     notify : Edits.notify \cup {rc.notify}, nth : Edits.nth \cup {rc.nth},
     dsn_sent : {rc.dsn_sent}]

\* A recipient left out of the patched list is cancelled, whatever its status.
Canceled(rc) == [rc EXCEPT !.status = "failed"]

\* What an update that cancels C may make of the recipients.
Patched(C) ==
    {new \in [Rcpts -> UNION {Edited(msg.rcpts[r]) \cup {Canceled(msg.rcpts[r])} :
                                 r \in Rcpts}] :
        \A r \in Rcpts : new[r] \in IF r \in C THEN {Canceled(msg.rcpts[r])}
                                            ELSE Edited(msg.rcpts[r])}

\* QueuedMessage/set update: the message is read and patched.  The previous
\* event is the earliest one of any queue, taken to be the default queue's.
UpdateRequest(m, C) ==
    admin' = [op |-> "update", message |-> m,
              is_multi_queue |-> IsMultiQueue(m, Default),
              clear |-> IF HasPending(msg) THEN {<<Default, NextEvent(msg)>>}
                                           ELSE {},
              cancel |-> C]

AdminRead ==
    /\ admin.op = "none" /\ exists /\ "update" \in Faults
    /\ requests < MaxRequests /\ requests' = requests + 1
    /\ \E C \in SUBSET Rcpts : \E new \in Patched(C) :
         UpdateRequest([msg EXCEPT !.rcpts = new], C)
    /\ UNCHANGED <<now, stored, local, hist>>

\* QueuedMessage/set update: a message with nothing pending is deleted, any
\* other is saved; the response says `updated`.
AdminWrite ==
    /\ admin.op = "update"
    /\ IF HasPending(admin.message)
         THEN Save(admin.message, Default, admin.is_multi_queue, admin.clear)
         ELSE Remove(admin.message, admin.clear)
    /\ cancelled' = cancelled \cup admin.cancel
    /\ admin' = NoRequest
    /\ UNCHANGED <<now, local, requests, queued, gone, delivered, unanswered,
                   bounced, unreported>>

\* The write of a request fails, and the response says so.
AdminFails ==
    /\ \/ admin.op = "update" /\ HasPending(admin.message)
           /\ ~SaveApplies(admin.is_multi_queue)
       \/ admin.op # "none" /\ "write" \in Faults
    /\ admin' = NoRequest
    /\ UNCHANGED <<now, stored, local, requests, hist>>

\* QueuedMessage/set destroy and the undo of an EmailSubmission: read, then
\* remove the message and the events of the copy.
DestroyRead ==
    /\ admin.op = "none" /\ exists /\ "destroy" \in Faults
    /\ requests < MaxRequests /\ requests' = requests + 1
    /\ admin' = [op |-> "destroy", message |-> msg,
                 is_multi_queue |-> FALSE, clear |-> NextEvents(msg),
                 cancel |-> {}]
    /\ UNCHANGED <<now, stored, local, hist>>

DestroyWrite ==
    /\ admin.op = "destroy"
    /\ Remove(admin.message, admin.clear)
    /\ gone' = TRUE
    /\ admin' = NoRequest
    /\ UNCHANGED <<now, local, requests, queued, cancelled, delivered, unanswered,
                   bounced, unreported>>

-----------------------------------------------------------------------------
Tick ==
    /\ now < MaxTime
    /\ now' = now + 1
    /\ UNCHANGED <<stored, local, mgmt, hist>>

\* The steps a running worker takes by itself.
WorkerStep(w) ==
    \/ LockEvent(w) \/ LockRefused(w)
    \/ ReadMessage(w) \/ ReadNone(w)
    \/ ThrottleSender(w) \/ Route(w) \/ Deliver(w)
    \/ SaveChanges(w) \/ RemoveMessage(w) \/ WriteFails(w)
    \/ UnlockEvent(w)

AdminStep ==
    AdminRead \/ AdminWrite \/ AdminFails \/ DestroyRead \/ DestroyWrite

Next ==
    \/ QueueMessage
    \/ \E w \in Workers : Dispatch(w) \/ WorkerStep(w) \/ Crash(w)
    \/ \E q \in Queues : ExpireLease(q)
    \/ AdminStep
    \/ Tick

Spec == Init /\ [][Next]_vars

\* The clock runs, an event that is due is dispatched by some manager, a worker
\* that runs gets on with it, and a lease nobody holds runs out.
Fairness ==
    /\ WF_vars(Tick)
    /\ \A w \in Workers : WF_vars(Dispatch(w)) /\ WF_vars(WorkerStep(w))
    /\ \A q \in Queues : WF_vars(ExpireLease(q))

FairSpec == Spec /\ Fairness

-----------------------------------------------------------------------------
(* Properties                                                              *)

\* A message in the store has at least one queue event, so some manager will
\* look at it again: no interleaving of workers, administrators, crashes and
\* failed writes leaves a message behind with nothing scheduled.
NeverStranded == exists => events # {}

\* A message leaves the queue only when every recipient has been accepted by a
\* next hop or reported to the sender, was cancelled, or the message destroyed.
\* The one exception is a recipient whose report the store refused when it failed.
NoSilentLoss ==
    queued /\ ~exists /\ ~gone =>
        \A r \in Rcpts \ (cancelled \cup unreported) :
            delivered[r] > 0 \/ bounced[r] > 0

\* While leases hold, a recipient a next hop was heard to accept is not handed to
\* one again, whether or not the answer is heard, whatever the interleaving of the
\* workers of its message's other queues.
DeliveredOnce ==
    [][\A r \in Rcpts : delivered[r] > 0 =>
          /\ delivered'[r] = delivered[r]
          /\ r \in unanswered' => r \in unanswered]_vars

\* The sender gets at most one failure report per recipient, and none for a
\* recipient a next hop was heard to accept.
HonestBounces == \A r \in Rcpts : bounced[r] + delivered[r] <= 1

\* What the message has taken from the quota counters is what its quota keys
\* will give back: nothing is released twice, nothing is leaked.
QuotaBalanced == quota = IF exists THEN Cardinality(msg.keys) ELSE 0

\* Whatever happens, workers of several queues, administrators, crashes and failed
\* writes included, the counters never keep more of the message than its quota keys
\* will give back, and nothing once it has left: no quota is leaked.
QuotaNotLeaked == quota <= IF exists THEN Cardinality(msg.keys) ELSE 0

\* A message that was removed is not put back by a worker that still has a
\* copy of it (its blob is no longer linked, its quotas have been released).
NoResurrection == [][queued /\ ~exists => ~exists']_vars

\* Once the store has a recipient as delivered or failed, no later write of a
\* worker with an older copy makes it pending again.
FinalStatus ==
    [][exists /\ exists' => \A r \in Rcpts :
          ~Pending(msg.rcpts[r]) => ~Pending(msg'.rcpts[r])]_vars

\* Every queued message leaves the queue, delivered or expired.
Drained == queued ~> ~exists

\* What MailQueue is told of: where the message is, unless the store has its text
\* without the message or the message without it, what is known to have become of
\* each recipient, unless that is more than one thing, and who was not heard of.
Place ==
    IF exists # blob THEN "torn" ELSE IF exists THEN "queued"
    ELSE IF queued THEN "gone" ELSE "new"

FateOf(d, b) ==
    IF d + b > 1 THEN "several" ELSE IF d = 1 THEN "delivered"
    ELSE IF b = 1 THEN "returned" ELSE "pending"

Promised == INSTANCE MailQueue WITH
    place <- Place,
    fate <- [r \in Rcpts |-> FateOf(delivered[r], bounced[r])],
    doubt <- unanswered

\* The queue keeps its promise: the steps of the workers amount to those of MailQueue.
KeepsPromise == Promised!Spec
=============================================================================
