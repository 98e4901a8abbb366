---------------------------- MODULE QueueManager ----------------------------
(***************************************************************************)
(* The queue manager of one node: Queue::start, handle_event and           *)
(* next_event (crates/smtp/src/queue/{manager,spool}.rs), with the tasks   *)
(* it starts (try_deliver) and the managers of the other nodes.            *)
(*                                                                         *)
(* The manager sleeps until next_refresh or an event, drains its channel,  *)
(* and scans the stored queue events.  For each event that is due, that it *)
(* has not locked and for which there is capacity, it starts a worker.     *)
(*                                                                         *)
(* Times are counted down: a time is the number of seconds left, 0 when it *)
(* has come and Never when it does not come.  INFINITE_LOCK, a year, is    *)
(* Never.  MtaQueue is about what a worker does to a message; here it only *)
(* takes the lease, moves or deletes the event, and reports.               *)
(***************************************************************************)
EXTENDS Integers, Sequences, FiniteSets, FiniteSetsExt

CONSTANTS
    Events,       \* (queue_id, queue_name) pairs
    Queues,       \* virtual queues
    QueueOf,      \* QueueOf[k]: the queue_name of k
    Threads,      \* thread counts a virtual queue may be configured with
    Never,        \* later than any time
    QueueRefresh, \* QUEUE_REFRESH
    LockWait,     \* LOCK_EXPIRY and the random seconds added to it
    PauseWait,    \* the sleep of a paused manager (86400)
    Delays,       \* delays a deferred message is put back with
    Controls,     \* which of ControlKinds happen
    MaxControls   \* bound: how many of them happen

ControlKinds == {
    "refresh",    \* a message is queued, or an administrator edits one
    "reload",     \* the thread counts change
    "pause",      \* an administrator pauses the queue, and resumes it
    "stop",       \* the server shuts down
    "node",       \* another node takes an event, and may fail
    "scan",       \* the store fails during a scan
    "write"}      \* the store refuses a worker's write

ASSUME ManagerAssumption ==
    /\ IsFiniteSet(Events) /\ QueueOf \in [Events -> Queues]
    /\ Threads \subseteq Nat \ {0}
    /\ \E t \in Threads : \A u \in Threads : u <= t   \* they are machine numbers
    /\ {Never, QueueRefresh, LockWait, PauseWait, MaxControls} \subseteq Nat
    /\ Delays \subseteq Nat
    /\ \A t \in Delays \cup {QueueRefresh, LockWait, PauseWait} : t < Never
    /\ 0 < QueueRefresh /\ 0 < LockWait /\ 0 < PauseWait
    /\ Controls \subseteq ControlKinds

VARIABLES
    due,          \* stored queue events: time until each is due, Never if none
    lease,        \* lease[k]: "free", "here" or "away"
    mpc,          \* the manager: "wait", "drain", "stopped"
    refresh,      \* refresh_queue
    locked,       \* keys of self.locked
    expires,      \* locked[k].expires, 0 if k is not locked
    stats,        \* queues that have QueueStats
    in_flight, max_in_flight,
    next_refresh, is_paused,
    rx, closed,   \* the channel of the manager
    config,       \* the configured thread counts
    wpc,          \* wpc[k, n]: the step of the n-th worker of k
    status,       \* status[k, n]: what it will report
    fresh,        \* events that have not been queued yet
    controls      \* disturbances so far

manager == <<mpc, refresh, locked, expires, stats, in_flight, max_in_flight,
             next_refresh, is_paused>>
channel == <<rx, closed>>
tasks   == <<wpc, status>>
store   == <<due, lease>>
env     == <<config, fresh, controls>>
vars    == <<manager, channel, tasks, store, env>>

-----------------------------------------------------------------------------
Statuses == {"Completed", "Locked", "Deferred"}

\* A worker is known by its event and a number, of which no more are needed
\* than an event can have workers.
Workers == Events \X (1..Max(Threads))
Running(k) == {w \in Workers : w[1] = k /\ wpc[w] # "none"}
Time == 0..Never

Done(k, s) == [type |-> "WorkerDone", key |-> k, status |-> s]
Signal(t) == [type |-> t]
QueueEvents ==
    {Done(k, s) : k \in Events, s \in Statuses}
        \cup {Signal(t) : t \in {"Refresh", "Pause", "Resume", "Reload", "Stop"}}

TypeOK ==
    /\ due \in [Events -> Time]
    /\ lease \in [Events -> {"free", "here", "away"}]
    /\ mpc \in {"wait", "drain", "stopped"}
    /\ refresh \in BOOLEAN /\ is_paused \in BOOLEAN /\ closed \in BOOLEAN
    /\ locked \subseteq Events /\ expires \in [Events -> Time]
    /\ stats \subseteq Queues
    /\ in_flight \in [Queues -> Nat] /\ max_in_flight \in [Queues -> Nat]
    /\ next_refresh \in Time
    /\ rx \in Seq(QueueEvents)
    /\ config \in [Queues -> Threads]
    /\ wpc \in [Workers -> {"none", "lock", "deliver", "unlock", "report"}]
    /\ status \in [Workers -> Statuses]
    /\ fresh \subseteq Events
    /\ controls \in 0..MaxControls

Init ==
    /\ due = [k \in Events |-> Never]
    /\ lease = [k \in Events |-> "free"]
    /\ mpc = "wait" /\ refresh = FALSE /\ is_paused = FALSE
    /\ locked = {} /\ expires = [k \in Events |-> 0]
    /\ stats = {}
    /\ in_flight = [q \in Queues |-> 0] /\ max_in_flight = [q \in Queues |-> 0]
    /\ next_refresh = 1
    /\ rx = <<>> /\ closed = FALSE
    /\ config \in [Queues -> Threads]
    /\ wpc = [w \in Workers |-> "none"]
    /\ status = [w \in Workers |-> "Completed"]
    /\ fresh = Events
    /\ controls = 0

-----------------------------------------------------------------------------
(* The manager: Queue::start                                               *)

\* QueueStats::has_capacity
HasCapacity(q, n) == n < max_in_flight[q]

\* The capacity next_event sees: a queue without stats is assumed to have it.
MayAdd(q) == q \in stats => HasCapacity(q, in_flight[q])

\* How many workers a scan may start: new stats take the configured threads.
Limit(q) == IF q \in stats THEN max_in_flight[q] ELSE config[q]

\* The timeout ends: the queue is scanned.  recv is looked at first.
Timeout ==
    /\ mpc = "wait"
    /\ rx = <<>> /\ ~closed
    /\ next_refresh = 0
    /\ mpc' = "drain" /\ refresh' = TRUE
    /\ UNCHANGED <<locked, expires, stats, in_flight, max_in_flight,
                   next_refresh, is_paused, channel, tasks, store, env>>

\* recv returns None: the channel is closed and empty.
Break ==
    /\ mpc = "wait"
    /\ rx = <<>> /\ closed
    /\ mpc' = "stopped"
    /\ UNCHANGED <<refresh, locked, expires, stats, in_flight, max_in_flight,
                   next_refresh, is_paused, channel, tasks, store, env>>

\* recv and try_recv take the next event off the channel.
Receive(e) ==
    /\ mpc \in {"wait", "drain"}
    /\ rx # <<>> /\ e = Head(rx)
    /\ mpc' = "drain"

\* refresh_queue, or-ed over the events of one wake-up.
Refreshes(b) == refresh' = ((mpc = "drain" /\ refresh) \/ b)

\* Mutants: a deferred message stays locked; the worker is not counted off.
WorkerDoneStaysLocked(k, s) ==
    LET q == QueueOf[k]
        left == in_flight[q] - 1
    IN
    /\ in_flight' = [in_flight EXCEPT ![q] = left]
    /\ locked' = IF s = "Completed" THEN locked \ {k} ELSE locked \cup {k}
    /\ expires' = [expires EXCEPT ![k] = CASE s = "Locked" -> LockWait
                                           [] s = "Completed" -> 0
                                           [] s = "Deferred" -> @]
    /\ next_refresh' = IF s = "Locked" THEN Min({next_refresh, LockWait})
                                       ELSE next_refresh
    /\ Refreshes(TRUE)
WorkerDoneLocked(k, s) ==
    LET q == QueueOf[k]
        left == IF s = "Locked" THEN in_flight[q] ELSE in_flight[q] - 1
    IN
    /\ in_flight' = [in_flight EXCEPT ![q] = left]
    /\ locked' = IF s = "Locked" THEN locked \cup {k} ELSE locked \ {k}
    /\ expires' = [expires EXCEPT ![k] = IF s = "Locked" THEN LockWait ELSE 0]
    /\ next_refresh' = IF s = "Locked" THEN Min({next_refresh, LockWait})
                                       ELSE next_refresh
    /\ Refreshes(TRUE)

\* handle_event(WorkerDone): the worker is counted off and its event unlocked,
\* or locked for as long as another lease may last.
WorkerDone(k, s) ==
    LET q == QueueOf[k]
        left == in_flight[q] - 1
    IN
    /\ in_flight' = [in_flight EXCEPT ![q] = left]
    /\ locked' = IF s = "Locked" THEN locked \cup {k} ELSE locked \ {k}
    /\ expires' = [expires EXCEPT ![k] = IF s = "Locked" THEN LockWait ELSE 0]
    /\ next_refresh' = IF s = "Locked" THEN Min({next_refresh, LockWait})
                                       ELSE next_refresh
    /\ Refreshes(CASE s = "Completed" -> locked' # {} \/ ~HasCapacity(q, left)
                   [] s = "Locked" -> \/ Cardinality(locked') > 1
                                      \/ ~HasCapacity(q, left)
                   [] s = "Deferred" -> TRUE)

HandleWorkerDone ==
    /\ \E k \in Events, s \in Statuses :
         Receive(Done(k, s)) /\ WorkerDone(k, s)
    /\ rx' = Tail(rx)
    /\ UNCHANGED <<stats, max_in_flight, is_paused, closed, tasks, store, env>>

HandleRefresh ==
    /\ Receive(Signal("Refresh"))
    /\ Refreshes(TRUE)
    /\ rx' = Tail(rx)
    /\ UNCHANGED <<locked, expires, stats, in_flight, max_in_flight,
                   next_refresh, is_paused, closed, tasks, store, env>>

HandlePaused(paused) ==
    /\ Receive(Signal(IF paused THEN "Pause" ELSE "Resume"))
    /\ is_paused' = paused
    /\ Refreshes(FALSE)
    /\ rx' = Tail(rx)
    /\ UNCHANGED <<locked, expires, stats, in_flight, max_in_flight,
                   next_refresh, closed, tasks, store, env>>

HandleReload ==
    /\ Receive(Signal("Reload"))
    /\ stats' = Queues
    /\ max_in_flight' = config
    /\ Refreshes(FALSE)
    /\ rx' = Tail(rx)
    /\ UNCHANGED <<locked, expires, in_flight, next_refresh, is_paused, closed,
                   tasks, store, env>>

HandleStop ==
    /\ Receive(Signal("Stop"))
    /\ closed' = TRUE /\ is_paused' = TRUE
    /\ Refreshes(FALSE)
    /\ rx' = Tail(rx)
    /\ UNCHANGED <<locked, expires, stats, in_flight, max_in_flight,
                   next_refresh, tasks, store, env>>

\* Mutant: the long sleep is not only for a paused queue.
SleepLong ==
    /\ mpc = "drain" /\ rx = <<>>
    /\ is_paused \/ (~refresh /\ next_refresh > 0)
    /\ mpc' = "wait" /\ refresh' = FALSE
    /\ next_refresh' = PauseWait
    /\ UNCHANGED <<locked, expires, stats, in_flight, max_in_flight, is_paused,
                   channel, tasks, store, env>>

\* The channel is empty and there is nothing to do, or the queue is paused.
Sleep ==
    /\ mpc = "drain" /\ rx = <<>>
    /\ is_paused \/ (~refresh /\ next_refresh > 0)
    /\ mpc' = "wait" /\ refresh' = FALSE
    /\ next_refresh' = IF is_paused THEN PauseWait ELSE next_refresh
    /\ UNCHANGED <<locked, expires, stats, in_flight, max_in_flight, is_paused,
                   channel, tasks, store, env>>

\* next_event: the events that are added, out of the due ones it has seen.
Added(seen) ==
    {k \in seen : MayAdd(QueueOf[k]) /\ (k \notin locked \/ expires[k] = 0)}

\* Mutant: the events beyond the limit stay locked.
StillLockedAll(seen, started) == {k \in seen : MayAdd(QueueOf[k])}

\* What is locked after a scan: the entries it has looked at, without those it
\* had to give up for lack of capacity.  The entries it has not looked at have
\* an old revision and are dropped, and so are the expired ones.
StillLocked(seen, started) ==
    {k \in seen : MayAdd(QueueOf[k])} \ (Added(seen) \ started)

\* Mutant: the limit is compared with the workers before the scan.
StartableBeforeScan(seen, started) ==
    /\ started \subseteq Added(seen)
    /\ \A k \in Added(seen) :
         in_flight[QueueOf[k]] < Limit(QueueOf[k]) => k \in started

\* Which of the added events are started: as many as there is capacity for, in
\* an order that is random (shuffle).
Startable(seen, started) ==
    /\ started \subseteq Added(seen)
    /\ \A q \in Queues :
         LET added == {k \in Added(seen) : QueueOf[k] = q} IN
         Cardinality(started \cap added) =
             Min({Cardinality(added), Max({Limit(q) - in_flight[q], 0})})

\* The number the next worker of k gets.
Free(k) == Min({n \in 1..Max(Threads) : wpc[<<k, n>>] = "none"})

\* next_event and the loop over its result.  next_refresh is the first time at
\* which an event becomes due or a lock expires.
ScanOf(seen, horizon, started) ==
    LET queues == {QueueOf[k] : k \in Added(seen)} IN
    /\ mpc = "drain" /\ rx = <<>>
    /\ ~is_paused /\ (refresh \/ next_refresh = 0)
    /\ Startable(seen, started)
    /\ wpc' = [w \in Workers |->
            IF w[1] \in started /\ w[2] = Free(w[1]) THEN "lock" ELSE wpc[w]]
    /\ locked' = StillLocked(seen, started)
    /\ expires' = [k \in Events |-> IF k \notin locked' THEN 0
                                    ELSE IF k \in Added(seen) THEN Never
                                                               ELSE expires[k]]
    /\ in_flight' = [q \in Queues |->
            in_flight[q] + Cardinality({k \in started : QueueOf[k] = q})]
    /\ max_in_flight' = [q \in Queues |->
            IF q \in queues THEN Limit(q) ELSE max_in_flight[q]]
    /\ stats' = stats \cup queues
    /\ next_refresh' = Min({QueueRefresh}
            \cup {expires[k] : k \in StillLocked(seen, started) \ Added(seen)}
            \cup {due[k] : k \in horizon})
    /\ mpc' = "wait" /\ refresh' = FALSE
    /\ UNCHANGED <<is_paused, channel, status, store, config, fresh>>

Due == {k \in Events : due[k] = 0}

Scan(started) ==
    /\ ScanOf(Due, Events \ Due, started)
    /\ UNCHANGED controls

Disturb(kind) ==
    /\ kind \in Controls
    /\ controls < MaxControls
    /\ controls' = controls + 1

\* The store fails after a part of the range: the rest is not looked at.
ScanFails ==
    /\ Disturb("scan")
    /\ \E seen \in SUBSET Due : \E started \in SUBSET seen :
         ScanOf(seen, {}, started)

-----------------------------------------------------------------------------
(* A worker: QueuedMessage::try_deliver                                    *)

Goto(w, step) == wpc' = [wpc EXCEPT ![w] = step]
Reports(w, s) == status' = [status EXCEPT ![w] = s]

TryLock(w) ==
    /\ wpc[w] = "lock"
    /\ lease[w[1]] = "free"
    /\ lease' = [lease EXCEPT ![w[1]] = "here"]
    /\ Goto(w, "deliver")
    /\ UNCHANGED <<manager, channel, status, due, env>>

LockRefused(w) ==
    /\ wpc[w] = "lock"
    /\ lease[w[1]] # "free"
    /\ Goto(w, "report") /\ Reports(w, "Locked")
    /\ UNCHANGED <<manager, channel, store, env>>

\* deliver_task: the message, with its event, is removed or put back later, in
\* this queue or (its recipients have moved) not.
Deliver(w) ==
    /\ wpc[w] = "deliver"
    /\ \/ Reports(w, "Completed") /\ due' = [due EXCEPT ![w[1]] = Never]
       \/ Reports(w, "Deferred")
          /\ \E d \in Delays \cup {Never} : due' = [due EXCEPT ![w[1]] = d]
    /\ Goto(w, "unlock")
    /\ UNCHANGED <<manager, channel, lease, env>>

\* The write of deliver_task fails, which it does not report.
WriteFails(w) ==
    /\ Disturb("write")
    /\ wpc[w] = "deliver"
    /\ \E s \in {"Completed", "Deferred"} : Reports(w, s)
    /\ Goto(w, "unlock")
    /\ UNCHANGED <<manager, channel, store, config, fresh>>

\* Mutant: the worker reports before and after it unlocks.
UnlockReporting(w) ==
    /\ wpc[w] = "unlock"
    /\ lease' = [lease EXCEPT ![w[1]] = "free"]
    /\ Goto(w, "report")
    /\ rx' = IF closed THEN rx ELSE Append(rx, Done(w[1], status[w]))
    /\ UNCHANGED <<manager, closed, status, due, env>>

UnlockEvent(w) ==
    /\ wpc[w] = "unlock"
    /\ lease' = [lease EXCEPT ![w[1]] = "free"]
    /\ Goto(w, "report")
    /\ UNCHANGED <<manager, channel, status, due, env>>

\* queue_tx.send; nobody hears it once the channel is closed.
Report(w) ==
    /\ wpc[w] = "report"
    /\ Goto(w, "none") /\ Reports(w, "Completed")
    /\ rx' = IF closed THEN rx ELSE Append(rx, Done(w[1], status[w]))
    /\ UNCHANGED <<manager, closed, store, env>>

-----------------------------------------------------------------------------
(* The rest of the system                                                  *)

Send(t) == rx' = IF closed THEN rx ELSE Append(rx, Signal(t))

\* MessageWrapper::queue: the event is written, then the manager is told.
Enqueue(k) ==
    /\ k \in fresh /\ fresh' = fresh \ {k}
    /\ \E d \in {0} \cup Delays : due' = [due EXCEPT ![k] = d]
    /\ Send("Refresh")
    /\ UNCHANGED <<manager, closed, tasks, lease, config, controls>>

\* An administrator has a message retried now.
AdminRetry(k) ==
    /\ Disturb("refresh")
    /\ due[k] # Never
    /\ due' = [due EXCEPT ![k] = 0]
    /\ Send("Refresh")
    /\ UNCHANGED <<manager, closed, tasks, lease, config, fresh>>

ReloadSettings ==
    /\ Disturb("reload")
    /\ config' \in [Queues -> Threads]
    /\ Send("Reload")
    /\ UNCHANGED <<manager, closed, tasks, store, fresh>>

PauseMtaQueue ==
    /\ Disturb("pause")
    /\ ~is_paused
    /\ Send("Pause")
    /\ UNCHANGED <<manager, closed, tasks, store, config, fresh>>

ResumeMtaQueue ==
    /\ "pause" \in Controls
    /\ is_paused /\ ~closed /\ Signal("Resume") \notin {rx[i] : i \in DOMAIN rx}
    /\ Send("Resume")
    /\ UNCHANGED <<manager, closed, tasks, store, env>>

Shutdown ==
    /\ Disturb("stop")
    /\ ~closed
    /\ Send("Stop")
    /\ UNCHANGED <<manager, closed, tasks, store, config, fresh>>

\* Another node takes the lease of an event that is due.
TakenAway(k) ==
    /\ Disturb("node")
    /\ due[k] = 0 /\ lease[k] = "free"
    /\ lease' = [lease EXCEPT ![k] = "away"]
    /\ UNCHANGED <<manager, channel, tasks, due, config, fresh>>

\* It is done with the message, or it has failed and its lease has expired.
ComesBack(k) ==
    /\ lease[k] = "away"
    /\ lease' = [lease EXCEPT ![k] = "free"]
    /\ \E d \in Delays \cup {Never, due[k]} : due' = [due EXCEPT ![k] = d]
    /\ UNCHANGED <<manager, channel, tasks, env>>

Left(t) == IF t \in {0, Never} THEN t ELSE t - 1

Tick ==
    /\ due' = [k \in Events |-> Left(due[k])]
    /\ expires' = [k \in Events |-> Left(expires[k])]
    /\ next_refresh' = Left(next_refresh)
    /\ <<due', expires', next_refresh'>> # <<due, expires, next_refresh>>
    /\ UNCHANGED <<mpc, refresh, locked, stats, in_flight, max_in_flight,
                   is_paused, channel, tasks, lease, env>>

-----------------------------------------------------------------------------
HandleEvent ==
    \/ HandleWorkerDone \/ HandleRefresh \/ HandleReload \/ HandleStop
    \/ \E paused \in BOOLEAN : HandlePaused(paused)

ManagerStep ==
    \/ Timeout \/ Break \/ HandleEvent \/ Sleep \/ ScanFails
    \/ \E started \in SUBSET Events : Scan(started)

WorkerStep(w) ==
    \/ TryLock(w) \/ LockRefused(w) \/ Deliver(w) \/ WriteFails(w)
    \/ UnlockEvent(w) \/ Report(w)

Environment ==
    \/ \E k \in Events : Enqueue(k) \/ AdminRetry(k) \/ TakenAway(k) \/ ComesBack(k)
    \/ ReloadSettings \/ PauseMtaQueue \/ ResumeMtaQueue \/ Shutdown

Next ==
    \/ ManagerStep
    \/ \E w \in Workers : WorkerStep(w)
    \/ Environment
    \/ Tick

Spec == Init /\ [][Next]_vars

\* The tasks run, time passes, an administrator who paused the queue resumes
\* it, other nodes finish or fail, and the random order of a scan does not
\* pass the same event over for ever.
Fairness ==
    /\ WF_vars(ManagerStep) /\ WF_vars(Tick) /\ WF_vars(ResumeMtaQueue)
    /\ \A w \in Workers : WF_vars(WorkerStep(w))
    /\ \A k \in Events :
         /\ WF_vars(ComesBack(k))
         /\ SF_vars(\E started \in SUBSET Events : k \in started /\ Scan(started))

FairSpec == Spec /\ Fairness

-----------------------------------------------------------------------------
(* Properties                                                              *)

\* in_flight of a queue is the number of its workers that have not been heard
\* of: it never goes below zero, no slot leaks, and handle_event never unwraps
\* missing stats.
InFlightExact ==
    \A q \in Queues :
        LET unheard == {i \in DOMAIN rx : /\ rx[i].type = "WorkerDone"
                                          /\ QueueOf[rx[i].key] = q}
            running == {w \in Workers : wpc[w] # "none" /\ QueueOf[w[1]] = q}
        IN  /\ ~closed => in_flight[q] = Cardinality(unheard) + Cardinality(running)
            /\ unheard # {} => q \in stats

\* A manager starts no worker beyond the threads it knows a queue to have,
\* whatever order events come in and whichever of them the scan gives up again.
WithinThreads ==
    [][\A q \in Queues :
          LET busy == {w \in Workers : QueueOf[w[1]] = q /\ wpc[w] # "none"}
              busy_next == {w \in Workers : QueueOf[w[1]] = q /\ wpc'[w] # "none"}
          IN  ~(busy_next \subseteq busy) =>
                  Cardinality(busy_next) <= max_in_flight'[q]]_vars

\* An event is locked for good only while one of its workers has not been
\* heard of: nothing hides a due event from this node for ever.
LocksHaveWorkers ==
    ~closed => \A k \in locked : expires[k] = Never =>
        \/ Running(k) # {}
        \/ \E i \in DOMAIN rx : rx[i].type = "WorkerDone" /\ rx[i].key = k

\* A manager that sleeps and is not paused looks at the queue again within
\* QUEUE_REFRESH.
WakesInTime == mpc = "wait" /\ ~is_paused => next_refresh <= QueueRefresh

\* Every event that is due is eventually acted on, here or on another node.
DueHandled == \A k \in Events : due[k] = 0 ~> due[k] # 0

=============================================================================
