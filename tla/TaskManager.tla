----------------------------- MODULE TaskManager -----------------------------
(***************************************************************************)
(* The task queue shared by the nodes of a cluster: the manager and the    *)
(* worker that every node runs for one type of task (spawn_task_manager,   *)
(* process_tasks and update_tasks of crates/services/src/task_manager),    *)
(* the code that schedules tasks, and the requests of an administrator to  *)
(* change or destroy one (crates/jmap/src/registry/mapping/task.rs).       *)
(*                                                                         *)
(* A stored task is a Task value under its id and an event under (due, id) *)
(* that the managers scan.  The two are written by the same batches, but   *)
(* under a lease that may be outlived, by readers that may be out of date. *)
(*                                                                         *)
(* The leases are those of LeaseLock, taken and left in one step each.     *)
(* Time stops at Horizon, and what would come later comes at Horizon.      *)
(***************************************************************************)
EXTENDS Integers, Sequences, FiniteSets, FiniteSetsExt

CONSTANTS
    Nodes,        \* the nodes that run a task manager
    Tasks,        \* task ids, in the order of their keys
    Enabled,      \* Enabled[n]: the tasks whose type the roles of n include
    Reports,      \* tasks of internal reports, whose delivery may be moved
    Capacity,     \* capacity of a worker's channel
    BatchSize,    \* tasks a worker takes at once: index_batch_size, else 1
    Delays,       \* how long after it is scheduled a task may be due
    Results,      \* results of a task: see AllResults
    LockExpiry,   \* DEFAULT_LOCK_EXPIRY
    RetryDelay,   \* delay_secs of next_retry_time
    MaxAttempts,  \* task_manager.max_attempts
    Deadline,     \* task_manager.total_deadline
    Horizon,      \* bound: the last instant
    FaultKinds,   \* failures that happen: see AllFaults
    Requests,     \* requests of an administrator that happen: see AllRequests
    MaxEvents     \* bound: how many failures and requests happen

AllResults == {
    "done",       \* Success or Ignored
    "chain",      \* Success with a new task
    "temporary", "permanent",
    "retry"}      \* Failure { typ: Retry(at) }

AllFaults == {
    "crash",      \* a node stops and starts again
    "scan",       \* the scan of the events ends with an error
    "read",       \* a worker cannot read a task
    "lock",       \* try_lock fails
    "write",      \* a batch is refused
    "unlock"}     \* remove_lock fails

AllRequests == {"update", "destroy", "move"}

ASSUME TaskAssumption ==
    /\ Tasks \subseteq Nat /\ Reports \subseteq Tasks
    /\ Enabled \in [Nodes -> SUBSET Tasks]
    /\ {Capacity, BatchSize, LockExpiry, Horizon} \subseteq Nat \ {0}
    /\ {RetryDelay, MaxAttempts, Deadline, MaxEvents} \subseteq Nat
    /\ Delays \subseteq Nat
    /\ Results \subseteq AllResults /\ FaultKinds \subseteq AllFaults
    /\ Requests \subseteq AllRequests

VARIABLES
    now,
    task,         \* TaskQueueClass::Task: the stored tasks
    dues,         \* TaskQueueClass::Due: the stored events
    lease,        \* lease[t]: when the lease of t ends, 0 if it has none
    locked,       \* TaskManagerIpc::locked of n
    todo,         \* tasks of process_tasks: the jobs still to be dispatched
    chan,         \* the channel of the worker of n
    wpc,          \* wpc[n]: the worker, "idle", "collect", "run" or "unlock"
    batch,        \* the worker's jobs, each with the task it read
    adm,          \* the administrator's request
    deliver_at,   \* deliver_at of the internal reports, 0 if there is none
    scheduled,    \* ids in use, or used before
    events,       \* failures and requests so far
    intruded,     \* history: a lease in force was removed by another party
    overwritten   \* history: an update was written over a later version

store   == <<task, dues, deliver_at>>
manager == <<locked, todo>>
worker  == <<wpc, batch>>
history == <<intruded, overwritten>>
vars    == <<now, store, lease, manager, chan, worker, adm, scheduled,
             events, history>>

-----------------------------------------------------------------------------
Never == Horizon + 1       \* u64::MAX, the due time of a failed task
Time == 0..Never
After(d) == Min({now + d, Horizon})

Absent == [status |-> "absent", due |-> 0, attempt |-> 0, created |-> 0]
Task ==
    [status : {"pending", "retry", "failed"}, due : Time, attempt : Nat,
     created : Time] \cup {Absent}
Stored == {t \in Tasks : task[t] # Absent}

Pending(due) == [status |-> "pending", due |-> due, attempt |-> 0, created |-> now]

\* An event, with whether the type it is stored with is one of TaskType.
Event(t, due) == [id |-> t, due |-> due, typ |-> "task"]
EventsOf(t, due) == {e \in dues : e.id = t /\ e.due = due}

\* A job is the event it comes from, and the end of the lease it has.
Jobs == [id : Tasks, due : Time, until : Time]
Job(e, until) == [id |-> e.id, due |-> e.due, until |-> until]

Unlocked == [expires |-> 0, due |-> 0]
NoRequest == [pc |-> "none", kind |-> "update", id |-> 0, read |-> Absent, until |-> 0]

Init ==
    /\ now = 1
    /\ task = [t \in Tasks |-> Absent]
    /\ dues = {}
    /\ lease = [t \in Tasks |-> 0]
    /\ locked = [n \in Nodes |-> [t \in Tasks |-> Unlocked]]
    /\ todo = [n \in Nodes |-> {}]
    /\ chan = [n \in Nodes |-> <<>>]
    /\ wpc = [n \in Nodes |-> "idle"]
    /\ batch = [n \in Nodes |-> <<>>]
    /\ adm = NoRequest
    /\ deliver_at = [t \in Reports |-> 0]
    /\ scheduled = {}
    /\ events = 0
    /\ intruded = FALSE /\ overwritten = FALSE

Fault(kind) ==
    /\ kind \in FaultKinds
    /\ events < MaxEvents /\ events' = events + 1

Request(kind) ==
    /\ kind \in Requests
    /\ events < MaxEvents /\ events' = events + 1

\* Nothing fails in this step.
NoFault == events' = events

-----------------------------------------------------------------------------
(* Leases                                                                  *)

InForce(expiry) == expiry > now

\* A party whose own lease of t ends at `own` would remove another's in force.
Removes(t, own) == InForce(lease[t]) /\ lease[t] # own

-----------------------------------------------------------------------------
(* The manager                                                             *)

\* The events are read in the order of their keys.
Before(e, f) == e.due < f.due \/ (e.due = f.due /\ e.id < f.id)

\* The events a scan reads: those up to the first whose type is unknown, or,
\* when the store fails, up to any of them.
Readable ==
    {e \in dues : \A f \in dues : f.typ = "unknown" /\ f.due <= now => Before(e, f)}

\* The scan collects the events that are due and that this node has not yet
\* dispatched.  Entries of `locked` the scan has not seen are dropped.
Collect(n, read) ==
    LET seen == {e \in read : e.due <= now /\ e.id \in Enabled[n]}
        taken == {e \in seen : \/ locked[n][e.id].expires <= now
                               \/ locked[n][e.id].due < e.due}
        of(set, t) == {e.due : e \in {f \in set : f.id = t}}
    IN  /\ todo' = [todo EXCEPT ![n] = {Job(e, 0) : e \in taken}]
        /\ locked' = [locked EXCEPT ![n] =
             [t \in Tasks |->
                IF of(taken, t) # {}
                  THEN [expires |-> After(LockExpiry + 1), due |-> Max(of(taken, t))]
                  ELSE IF of(seen, t) # {} THEN locked[n][t] ELSE Unlocked]]

\* The manager scans again when all jobs are dispatched.  It is woken by the time
\* of the next event, by QUEUE_REFRESH_INTERVAL and by everything on its node that
\* schedules or ends a task, of this type or another: it may be at any time.
Wakes(n) ==
    /\ todo[n] = {}
    /\ UNCHANGED <<now, store, lease, chan, worker, adm, scheduled, history>>

Scan(n) ==
    /\ Wakes(n)
    /\ Collect(n, Readable)
    /\ NoFault

ScanFails(n) ==
    /\ Wakes(n)
    /\ \E cut \in dues : Collect(n, {e \in Readable : Before(e, cut)})
    /\ Fault("scan")

Handled(n, j) ==
    /\ j \in todo[n]
    /\ todo' = [todo EXCEPT ![n] = @ \ {j}]

\* Mutant: the lease is not asked for.
DispatchUnlocked(n, j) ==
    /\ Handled(n, j)
    /\ Len(chan[n]) < Capacity
    /\ chan' = [chan EXCEPT ![n] = Append(@, Job(j, After(LockExpiry)))]
    /\ UNCHANGED <<now, store, lease, locked, worker, adm, scheduled, events, history>>

\* Mutant: the capacity of the channel is not looked at.
DispatchOver(n, j) ==
    /\ Handled(n, j)
    /\ ~InForce(lease[j.id])
    /\ lease' = [lease EXCEPT ![j.id] = After(LockExpiry)]
    /\ chan' = [chan EXCEPT ![n] = Append(@, Job(j, After(LockExpiry)))]
    /\ UNCHANGED <<now, store, locked, worker, adm, scheduled, events, history>>

\* The channel has room, and the lease is taken.
Dispatch(n, j) ==
    /\ Handled(n, j)
    /\ Len(chan[n]) < Capacity
    /\ ~InForce(lease[j.id])
    /\ lease' = [lease EXCEPT ![j.id] = After(LockExpiry)]
    /\ chan' = [chan EXCEPT ![n] = Append(@, Job(j, After(LockExpiry)))]
    /\ UNCHANGED <<now, store, locked, worker, adm, scheduled,
                   events, history>>

\* The lease is another's: the job is dropped, and stays locked on this node.
DispatchRefused(n, j) ==
    /\ Handled(n, j)
    /\ Len(chan[n]) < Capacity
    /\ \/ InForce(lease[j.id]) /\ NoFault
       \/ ~InForce(lease[j.id]) /\ Fault("lock")
    /\ UNCHANGED <<now, store, lease, locked, chan, worker, adm,
                   scheduled, history>>

\* The channel is full: the job is left to the next scan.
ChannelFull(n, j) ==
    /\ Handled(n, j)
    /\ Len(chan[n]) >= Capacity
    /\ locked' = [locked EXCEPT ![n][j.id] = Unlocked]
    /\ UNCHANGED <<now, store, lease, chan, worker, adm, scheduled,
                   events, history>>

-----------------------------------------------------------------------------
(* The worker                                                              *)

\* The worker receives a job and reads its task.  A task that is gone, or that
\* cannot be read, is passed over; its lease is left to expire.  The batch runs
\* when it is full or the channel is empty.
Receive(n) ==
    /\ wpc[n] \in {"idle", "collect"}
    /\ chan[n] # <<>>
    /\ LET j == Head(chan[n])
           entry == [job |-> j, task |-> task[j.id]]
           last == BatchSize = 1 \/ Len(chan[n]) = 1
           got(b) == /\ batch' = [batch EXCEPT ![n] = b]
                     /\ wpc' = [wpc EXCEPT ![n] =
                          IF b # <<>> /\ (last \/ Len(b) = BatchSize) THEN "run"
                          ELSE IF last THEN "idle" ELSE "collect"]
       IN  \/ task[j.id] # Absent /\ got(Append(batch[n], entry)) /\ NoFault
           \/ task[j.id] = Absent /\ got(batch[n]) /\ NoFault
           \/ got(batch[n]) /\ Fault("read")
    /\ chan' = [chan EXCEPT ![n] = Tail(@)]
    /\ UNCHANGED <<now, store, lease, manager, adm, scheduled, history>>

\* When a task that failed for the `attempt`-th time is run again, or Never.
RetryAt(base, result) ==
    LET next == now + RetryDelay
    IN  IF base.attempt >= MaxAttempts \/ result = "permanent" THEN Never
        ELSE IF result = "retry" THEN After(RetryDelay)
        ELSE IF next <= base.created + Deadline THEN After(RetryDelay) ELSE Never

\* Mutant: the attempts are not counted.
FailedUncounted(base, result) ==
    IF RetryAt(base, result) = Never
      THEN [base EXCEPT !.status = "failed", !.due = Never]
      ELSE [base EXCEPT !.status = "retry", !.due = RetryAt(base, result)]

\* What the failure of a task makes of it.  (The deadline of one that has failed is
\* counted from its failed_at if it is run once more; here from `created' still.)
Failed(base, result) ==
    LET due == RetryAt(base, result)
    IN  IF due = Never
          THEN [base EXCEPT !.status = "failed", !.due = Never]
          ELSE [base EXCEPT !.status = "retry", !.due = due, !.attempt = @ + 1]

Failure(result) == result \in {"temporary", "retry", "permanent"}

\* What update_tasks leaves of the task of a job.
Outcome(entry, result) ==
    IF Failure(result) THEN Failed(entry.task, result) ELSE Absent

\* Mutant: the event of the job is not cleared.
ClearsNothing(entry, due) == FALSE

\* The operations of update_tasks' batch about one job: its event is cleared, and
\* that of the next attempt is written.
Clears(entry, due) == due = entry.job.due

\* Mutant: the event of the next attempt is not written.
WritesNothing(entry, result) == {}

Writes(entry, result) ==
    IF Outcome(entry, result) = Absent THEN {}
    ELSE {Event(entry.job.id, Outcome(entry, result).due)}

\* The operations are applied in order.  Of the jobs of one task, which it has
\* if its lease ran out in the channel, the last has the last word ...
TaskAfter(b, results, t, stored) ==
    LET of_t == {i \in DOMAIN b : b[i].job.id = t}
        last == Max(of_t)
    IN  IF of_t = {} THEN stored ELSE Outcome(b[last], results[last])

\* ... and an event that one of them writes may be cleared by the next.
DuesAfter(b, results, stored) ==
    {e \in stored : \A i \in DOMAIN b : b[i].job.id = e.id =>
        /\ ~Clears(b[i], e.due)
        /\ \A f \in Writes(b[i], results[i]) : f.due # e.due}
    \cup UNION {{e \in Writes(b[i], results[i]) :
                   \A k \in DOMAIN b : k > i /\ b[k].job.id = e.id
                       => ~Clears(b[k], e.due)} : i \in DOMAIN b}

\* Mutant: the batch does not assert that the tasks that failed still exist.
NeverGone(n, results) == FALSE

\* A task that failed was destroyed, or an earlier job of the batch has ended it:
\* the assertion of the batch does not hold.
Gone(n, results) ==
    \E i \in DOMAIN results :
        /\ Failure(results[i])
        /\ \/ task[batch[n][i].job.id] = Absent
           \/ \E k \in DOMAIN results : /\ k < i /\ ~Failure(results[k])
                                        /\ batch[n][k].job.id = batch[n][i].job.id

\* update_tasks: one batch for all jobs, dropped when the assertion fails.  The
\* tasks that a result schedules are new.
UpdateTasks(n) ==
    /\ wpc[n] = "run"
    /\ \E results \in [DOMAIN batch[n] -> Results], new \in SUBSET (Tasks \ scheduled) :
         /\ Cardinality(new) = Cardinality({i \in DOMAIN results : results[i] = "chain"})
         /\ \/ /\ ~Gone(n, results) /\ NoFault
               /\ task' = [t \in Tasks |-> TaskAfter(batch[n], results, t,
                              IF t \in new THEN Pending(now) ELSE task[t])]
               /\ dues' = DuesAfter(batch[n], results,
                              dues \cup {Event(t, now) : t \in new})
               /\ scheduled' = scheduled \cup new
            \/ /\ (Gone(n, results) /\ NoFault) \/ Fault("write")
               /\ UNCHANGED <<task, dues, scheduled>>
    /\ deliver_at' = [t \in Reports |-> IF task'[t] = Absent THEN 0 ELSE deliver_at[t]]
    /\ wpc' = [wpc EXCEPT ![n] = "unlock"]
    /\ batch' = [batch EXCEPT ![n] = [i \in DOMAIN @ |-> [@[i] EXCEPT !.task = Absent]]]
    /\ UNCHANGED <<now, lease, manager, chan, adm, history>>

\* remove_index_lock, for every task of the batch, and notify_task_queue.
Unlock(n) ==
    /\ wpc[n] = "unlock"
    /\ LET jobs == {batch[n][i].job : i \in DOMAIN batch[n]}
           ids == {j.id : j \in jobs}
       IN  \/ /\ NoFault
              /\ lease' = [t \in Tasks |-> IF t \in ids THEN 0 ELSE lease[t]]
              /\ intruded' = (intruded \/ \E j \in jobs : Removes(j.id, j.until))
           \/ /\ Fault("unlock")
              /\ UNCHANGED <<lease, intruded>>
    /\ batch' = [batch EXCEPT ![n] = <<>>]
    /\ wpc' = [wpc EXCEPT ![n] = "idle"]
    /\ UNCHANGED <<now, store, manager, chan, adm, scheduled, overwritten>>

-----------------------------------------------------------------------------
(* The rest of the system                                                  *)

\* schedule_task, on any node: the ids are new.
Schedule(t, due) ==
    /\ t \notin scheduled
    /\ scheduled' = scheduled \cup {t}
    /\ task' = [task EXCEPT ![t] = Pending(due)]
    /\ dues' = dues \cup {Event(t, due)}
    /\ deliver_at' = [r \in Reports |-> IF r = t THEN due ELSE deliver_at[r]]
    /\ UNCHANGED <<now, lease, manager, chan, worker, adm, events, history>>

\* The administrator's server reads the task to be updated or destroyed.
AdminRead(t, kind) ==
    /\ adm.pc = "none"
    /\ Request(kind)
    /\ task[t] # Absent
    /\ adm' = [NoRequest EXCEPT !.pc = IF kind = "update" THEN "lock" ELSE "write",
                                !.kind = kind, !.id = t, !.read = task[t]]
    /\ UNCHANGED <<now, store, lease, manager, chan, worker, scheduled,
                   history>>

\* try_lock_task, of an update only.
AdminLock ==
    /\ adm.pc = "lock"
    /\ IF InForce(lease[adm.id])
         THEN adm' = NoRequest /\ lease' = lease
         ELSE /\ lease' = [lease EXCEPT ![adm.id] = After(LockExpiry)]
              /\ adm' = [adm EXCEPT !.pc = "write", !.until = After(LockExpiry)]
    /\ UNCHANGED <<now, store, manager, chan, worker, scheduled, events,
                   history>>

\* The update gives the task a new status, due at a time of its own.
AdminUpdate ==
    /\ adm.pc = "write" /\ adm.kind = "update"
    /\ \E due \in {now, adm.read.due} \ {Never} :
         LET t == adm.id
             moved == due # adm.read.due
             left == {e \in dues : ~(e.id = t /\ e.due \in {adm.read.due, due})}
         IN  /\ task' = [task EXCEPT ![t] =
                 [adm.read EXCEPT !.due = due,
                                  !.status = IF @ = "failed" THEN "retry" ELSE @]]
             /\ dues' = IF moved THEN left \cup {Event(t, due)} ELSE dues
             /\ overwritten' = (overwritten \/ task[t] # adm.read)
    /\ adm' = [adm EXCEPT !.pc = "unlock"]
    /\ UNCHANGED <<now, lease, manager, chan, worker, scheduled, events,
                   deliver_at, intruded>>

AdminDestroy ==
    /\ adm.pc = "write" /\ adm.kind = "destroy"
    /\ task' = [task EXCEPT ![adm.id] = Absent]
    /\ dues' = dues \ EventsOf(adm.id, adm.read.due)
    /\ adm' = [adm EXCEPT !.pc = "unlock"]
    /\ UNCHANGED <<now, lease, manager, chan, worker, scheduled, events,
                   deliver_at, history>>

\* The batch is refused: the request ends, and leaves the locks it has taken.
AdminFails ==
    /\ adm.pc = "write"
    /\ "write" \in FaultKinds /\ NoFault
    /\ adm' = NoRequest
    /\ UNCHANGED <<now, store, lease, manager, chan, worker, scheduled,
                   history>>

\* The locks are removed, those of destroyed tasks too, which it has not taken.
AdminUnlock ==
    /\ adm.pc = "unlock"
    /\ lease' = [lease EXCEPT ![adm.id] = 0]
    /\ intruded' = (intruded \/ Removes(adm.id, adm.until))
    /\ adm' = NoRequest
    /\ UNCHANGED <<now, store, manager, chan, worker, scheduled, events, overwritten>>

\* reschedule_ops: the delivery of a report is moved.  The event is written with
\* the type of the report, not of its task, and the task is left as it is.
MoveReport(t, due) ==
    /\ Request("move")
    /\ deliver_at[t] \notin {0, due}
    /\ deliver_at' = [deliver_at EXCEPT ![t] = due]
    /\ dues' = ((dues \ EventsOf(t, deliver_at[t])) \ EventsOf(t, due))
                 \cup {[id |-> t, due |-> due, typ |-> "unknown"]}
    /\ UNCHANGED <<now, task, lease, manager, chan, worker, adm, scheduled,
                   history>>

\* The node stops, and starts again with nothing in memory.
Crash(n) ==
    /\ Fault("crash")
    /\ locked' = [locked EXCEPT ![n] = [t \in Tasks |-> Unlocked]]
    /\ todo' = [todo EXCEPT ![n] = {}]
    /\ chan' = [chan EXCEPT ![n] = <<>>]
    /\ wpc' = [wpc EXCEPT ![n] = "idle"]
    /\ batch' = [batch EXCEPT ![n] = <<>>]
    /\ UNCHANGED <<now, store, lease, adm, scheduled, history>>

\* Time passes.  Leases and locks that have expired are dropped at once, not
\* when they are next purged: an expired one is the same as none.
Tick ==
    /\ now < Horizon
    /\ now' = now + 1
    /\ lease' = [t \in Tasks |-> IF lease[t] > now' THEN lease[t] ELSE 0]
    /\ locked' = [n \in Nodes |-> [t \in Tasks |->
                     IF locked[n][t].expires > now' THEN locked[n][t] ELSE Unlocked]]
    /\ UNCHANGED <<store, todo, chan, worker, adm, scheduled,
                   events, history>>

-----------------------------------------------------------------------------
ManagerStep(n) ==
    \/ Scan(n) \/ ScanFails(n)
    \/ \E j \in todo[n] : Dispatch(n, j) \/ DispatchRefused(n, j) \/ ChannelFull(n, j)

WorkerStep(n) == Receive(n) \/ UpdateTasks(n) \/ Unlock(n)

AdminStep == AdminLock \/ AdminUpdate \/ AdminDestroy \/ AdminFails \/ AdminUnlock

Next ==
    \/ \E n \in Nodes : ManagerStep(n) \/ WorkerStep(n) \/ Crash(n)
    \/ \E t \in Tasks, d \in Delays : Schedule(t, After(d))
    \/ \E t \in Tasks, kind \in {"update", "destroy"} : AdminRead(t, kind)
    \/ AdminStep
    \/ \E t \in Reports, d \in Delays : MoveReport(t, After(d))
    \/ Tick

Spec == Init /\ [][Next]_vars

\* The tasks of every node run, requests are answered and time passes.  The
\* random order of a scan does not pass over the same task for ever.
Fairness ==
    /\ WF_vars(Tick) /\ WF_vars(AdminStep)
    /\ \A n \in Nodes : WF_vars(ManagerStep(n)) /\ WF_vars(WorkerStep(n))
    /\ \A n \in Nodes, t \in Tasks :
          SF_vars(\E j \in todo[n] : j.id = t /\ Dispatch(n, j))

FairSpec == Spec /\ Fairness

-----------------------------------------------------------------------------
(* Properties                                                              *)

StoreOK ==
    /\ task \in [Tasks -> Task]
    /\ dues \subseteq [id : Tasks, due : Time, typ : {"task", "unknown"}]
    /\ \A e, f \in dues : e.id = f.id /\ e.due = f.due => e = f
    /\ deliver_at \in [Reports -> Time]
    /\ Stored \subseteq scheduled /\ scheduled \subseteq Tasks

NodesOK ==
    /\ locked \in [Nodes -> [Tasks -> [expires : Time, due : Time]]]
    /\ todo \in [Nodes -> SUBSET Jobs]
    /\ \A n \in Nodes : \A j \in todo[n] : j.id \in Enabled[n]
    /\ chan \in [Nodes -> Seq(Jobs)]
    /\ batch \in [Nodes -> Seq([job : Jobs, task : Task])]
    /\ \A n \in Nodes : Len(chan[n]) <= Capacity /\ Len(batch[n]) <= BatchSize
    /\ wpc \in [Nodes -> {"idle", "collect", "run", "unlock"}]

TypeOK ==
    /\ StoreOK /\ NodesOK
    /\ now \in 1..Horizon
    /\ lease \in [Tasks -> Time]
    /\ adm \in [pc : {"none", "lock", "write", "unlock"}, kind : AllRequests,
               id : Tasks \cup {0}, read : Task, until : Time]
    /\ events \in 0..MaxEvents
    /\ intruded \in BOOLEAN /\ overwritten \in BOOLEAN

\* A stored task that has not failed has an event whose time comes: whatever
\* fails and whoever works on the task at once, some scan finds it.  The exception
\* is an administrator's update written over a later version.
Findable ==
    \/ overwritten
    \/ \A t \in Stored :
          task[t].status # "failed" => \E e \in dues : e.id = t /\ e.due # Never

\* An ended task does not come back, with the same exception.
NoReturn ==
    [][\A t \in scheduled : task[t] = Absent /\ task'[t] # Absent => overwritten']_vars

\* The events that are not where the status of a stored task says.
Stray == {e \in dues : task[e.id].due # e.due}

\* A worker runs a task twice: the lease of the first job has run out in its
\* channel, and the manager has dispatched a second.
Doubled ==
    \E n \in Nodes :
        /\ wpc[n] = "run"
        /\ \E i, k \in DOMAIN batch[n] : i < k /\ batch[n][i].job.id = batch[n][k].job.id

\* Somebody is about to write what follows from an older version of a task.
Outdated ==
    \/ adm.pc = "write" /\ adm.read # task[adm.id]
    \/ \E n \in Nodes : /\ wpc[n] = "run"
                         /\ \E i \in DOMAIN batch[n] :
                              LET b == batch[n][i]
                              IN  b.task # task[b.job.id] \/ b.job.due # b.task.due

\* The delivery of a report is moved, which leaves the status of its task as it was.
ReportMoves == \E t \in Reports, d \in Delays : MoveReport(t, After(d))

\* An event loses its task only to a write that is out of date, to a batch that
\* has the task twice, or to the move of a report.
StraysNeedRace ==
    [][Stray' \subseteq Stray \/ Outdated \/ Doubled \/ ReportMoves]_vars

\* The workers that run t, and the end of their leases.
Running(t) ==
    {w \in Nodes \X (1..BatchSize) :
        LET b == batch[w[1]] IN
        /\ wpc[w[1]] = "run" /\ w[2] \in DOMAIN b
        /\ b[w[2]].job.id = t /\ InForce(b[w[2]].job.until)}

\* No task is run by two workers at once, while their leases are in force and
\* nobody removed one that was not its own.
RunAlone == \/ intruded
            \/ \A t \in Tasks : Cardinality(Running(t)) <= 1

\* The events of tasks that have ended.  A worker that finds no task leaves its
\* event where it is, so these are dispatched again whenever their lock expires.
Orphans == {e \in dues : task[e.id] = Absent}

\* A task that is scheduled is done or gives up in the end.  The exceptions are a
\* task that an update has overwritten, and a node too slow to keep up with the
\* expiry of its locks and leases, whose worker may be kept busy for ever by
\* orphans, or by batches that have a task twice and fail for it.
TaskEnds ==
    \A t \in Tasks :
        t \in scheduled ~> \/ task[t].status \in {"absent", "failed"}
                          \/ overwritten
                          \/ Orphans # {} \/ Doubled
=============================================================================
