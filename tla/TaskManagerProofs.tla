-------------------------- MODULE TaskManagerProofs --------------------------
(***************************************************************************)
(* Proofs about TaskManager, for any nodes, tasks, capacities and delays,  *)
(* any failures and any requests of an administrator: its types, that no   *)
(* task is run twice under leases in force, that a task that has not ended *)
(* has an event, that an ended one stays ended, and what it takes to leave *)
(* a stray event behind.                                                   *)
(***************************************************************************)
EXTENDS TaskManager, FiniteSetTheorems, SequenceTheorems, WellFoundedInduction, TLAPS

-----------------------------------------------------------------------------
(* The inductive invariant                                                 *)

\* The events are of tasks that were scheduled, a failed task is due never, and
\* one that has not failed is found.
StoreInv ==
    /\ \A e \in dues : e.id \in scheduled
    /\ \A t \in Reports : deliver_at[t] # 0 => t \in scheduled
    /\ \A t \in Tasks : task[t].status = "failed" => task[t].due = Never
    /\ Findable

\* So are the jobs.  A worker collects a batch that is not full, of tasks that it
\* has read.
NodesInv ==
    \A n \in Nodes :
        /\ \A j \in todo[n] : j.id \in scheduled
        /\ \A i \in DOMAIN chan[n] : chan[n][i].id \in scheduled
        /\ \A i \in DOMAIN batch[n] : batch[n][i].job.id \in scheduled
        /\ wpc[n] = "idle" => batch[n] = <<>>
        /\ wpc[n] = "collect" => Len(batch[n]) < BatchSize
        /\ wpc[n] \in {"collect", "run"} =>
              \A i \in DOMAIN batch[n] : batch[n][i].task # Absent

\* So is the task of an administrator, who has read it.
AdmInv ==
    /\ adm.pc # "none" => adm.id \in scheduled /\ adm.read # Absent
    /\ adm.read.status = "failed" => adm.read.due = Never

\* The jobs of n in the order of its worker: its batch b[n], then its channel c[n].
Places(b, c, n) == 1..(Len(b[n]) + Len(c[n]))
JobAt(b, c, n, i) == IF i <= Len(b[n]) THEN b[n][i].job ELSE c[n][i - Len(b[n])]

\* The job at place i of node n is one of t whose lease is in force.
Holds(n, i, t) ==
    JobAt(batch, chan, n, i).id = t /\ InForce(JobAt(batch, chan, n, i).until)

\* Unless somebody removed the lease of another, a lease in force is that of the
\* job or of the request that has it, and of no other job and no other request.
LeaseInv ==
    intruded \/
        /\ \A n \in Nodes : \A i \in Places(batch, chan, n) : \A t \in Tasks :
              Holds(n, i, t) =>
                  /\ lease[t] = JobAt(batch, chan, n, i).until
                  /\ \A m \in Nodes : \A k \in Places(batch, chan, m) :
                        Holds(m, k, t) => m = n /\ k = i
                  /\ ~(adm.id = t /\ InForce(adm.until))
        /\ InForce(adm.until) => adm.id \in Tasks /\ lease[adm.id] = adm.until

TaskInv == TypeOK /\ StoreInv /\ NodesInv /\ AdmInv /\ LeaseInv
-----------------------------------------------------------------------------
(* Facts about the operators                                               *)

\* Min of FiniteSetsExt is the smaller of two: what After is capped with.
LEMMA MinOfTwo ==
    ASSUME NEW a \in Int, NEW b \in Int
    PROVE  Min({a, b}) <= a /\ Min({a, b}) <= b /\ Min({a, b}) \in {a, b}
  <1>1. \E x \in {a, b} : \A y \in {a, b} : x <= y
    OBVIOUS
  <1>2. Min({a, b}) \in {a, b} /\ \A y \in {a, b} : Min({a, b}) <= y
    BY <1>1 DEF Min
  <1> QED
    BY <1>2

\* Max is the largest element of a set of naturals that has a bound: the last job
\* of a task in a batch, and the latest of its events in a scan.
LEMMA MaxBounded ==
    ASSUME NEW bound \in Nat, NEW S, S \subseteq 0..bound, S # {}
    PROVE  Max(S) \in S /\ \A y \in S : y <= Max(S)
  <1> DEFINE R == {ss \in Nat \X Nat : ss[1] < ss[2]}
             D == {bound - x : x \in S}
  <1>1. IsWellFoundedOn(R, Nat)
    BY NatLessThanWellFounded, Zenon DEF OpToRel
  <1>2. D \subseteq Nat /\ D # {}
    <2>1. ASSUME NEW x \in S PROVE bound - x \in Nat
      OBVIOUS
    <2>2. PICK x \in S : TRUE
      OBVIOUS
    <2>3. bound - x \in D
      OBVIOUS
    <2> QED
      BY <2>1, <2>3
  <1>3. PICK d \in D : \A y \in D : ~ (<<y, d>> \in R)
    <2> HIDE DEF D, R
    <2> QED
      BY <1>1, <1>2, WFMin, Zenon
  <1>4. PICK x \in S : d = bound - x
    BY <1>3
  <1>5. ASSUME NEW y \in S PROVE x >= y
    <2>1. bound - y \in D /\ bound - y \in Nat /\ d \in Nat
      BY <1>2, <1>3
    <2>2. ~ (<<bound - y, d>> \in R)
      BY <1>3, <2>1
    <2>3. ~ (bound - y < d)
      BY <2>1, <2>2
    <2> QED
      BY <1>4, <2>3
  <1>6. Max(S) \in S /\ \A y \in S : Max(S) >= y
    BY <1>4, <1>5 DEF Max
  <1>7. S \subseteq Int
    OBVIOUS
  <1> QED
    BY <1>6, <1>7

\* A time that is set lies between now and the horizon.
LEMMA AfterIsTime ==
    ASSUME TypeOK, NEW d \in Nat
    PROVE  /\ After(d) \in 1..Horizon /\ After(d) \in Time /\ After(d) # Never
           /\ now \in Time /\ now # Never /\ 0 \in Time /\ Never \in Time
  <1>1. /\ now \in 1..Horizon /\ Horizon \in Nat
    BY TaskAssumption DEF TypeOK
  <1>2. now + d \in Int /\ Horizon \in Int /\ now + d >= 1
    BY <1>1
  <1>3. Min({now + d, Horizon}) <= Horizon /\ Min({now + d, Horizon}) \in {now + d, Horizon}
    BY <1>2, MinOfTwo
  <1> QED
    BY <1>1, <1>2, <1>3 DEF After, Never, Time

Entries == [job : Jobs, task : Task]

\* What a job makes of its task is a task, gone unless it failed, and due at a time
\* that comes unless it has given up.
LEMMA OutcomeIs ==
    ASSUME TypeOK, NEW entry \in Entries, entry.task # Absent, NEW result
    PROVE  LET new == Outcome(entry, result) IN
           /\ new \in Task
           /\ Failure(result) <=> new # Absent
           /\ new.status = "failed" => new.due = Never
           /\ new # Absent /\ new.status # "failed" => new.due # Never
  <1> DEFINE base == entry.task
             due == RetryAt(base, result)
  <1>1. /\ base.status \in {"pending", "retry", "failed"} /\ base.due \in Time
        /\ base.attempt \in Nat /\ base.created \in Time
        /\ base = [status |-> base.status, due |-> base.due, attempt |-> base.attempt,
                   created |-> base.created]
    BY DEF Entries, Task
  <1>2. RetryDelay \in Nat
    BY TaskAssumption
  <1>3. due = Never \/ (due \in Time /\ due # Never)
    BY <1>2, AfterIsTime DEF RetryAt
  <1>4. Never \in Time
    BY <1>2, AfterIsTime
  <1> HIDE DEF due
  <1>5. CASE ~Failure(result)
    <2>1. Outcome(entry, result) = Absent
      BY <1>5 DEF Outcome
    <2>2. Absent \in Task /\ Absent.status # "failed"
      BY DEF Absent, Task
    <2> QED
      BY <1>5, <2>1, <2>2
  <1>6. CASE Failure(result) /\ due = Never
    <2>1. Outcome(entry, result) =
            [status |-> "failed", due |-> Never, attempt |-> base.attempt,
             created |-> base.created]
      BY <1>1, <1>6 DEF Outcome, Failed, due
    <2>2. Outcome(entry, result) # Absent
      BY <2>1 DEF Absent
    <2>3. Outcome(entry, result) \in Task
      BY <1>1, <1>4, <2>1 DEF Task
    <2> QED
      BY <1>6, <2>1, <2>2, <2>3
  <1>7. CASE Failure(result) /\ due # Never
    <2>1. Outcome(entry, result) =
            [status |-> "retry", due |-> due, attempt |-> base.attempt + 1,
             created |-> base.created]
      BY <1>1, <1>7 DEF Outcome, Failed, due
    <2>2. Outcome(entry, result) # Absent
      BY <2>1 DEF Absent
    <2>3. Outcome(entry, result) \in Task
      BY <1>1, <1>3, <1>7, <2>1 DEF Task
    <2> QED
      BY <1>7, <2>1, <2>2, <2>3
  <1> QED
    BY <1>3, <1>5, <1>6, <1>7

\* The batch leaves what its last job of a task makes of it.
LEMMA TaskAfterIs ==
    ASSUME NEW b \in Seq(Entries), NEW results, NEW t, NEW stored
    PROVE  \/ /\ TaskAfter(b, results, t, stored) = stored
              /\ \A i \in DOMAIN b : b[i].job.id # t
           \/ \E i \in DOMAIN b :
                /\ b[i].job.id = t
                /\ \A k \in DOMAIN b : b[k].job.id = t => k <= i
                /\ TaskAfter(b, results, t, stored) = Outcome(b[i], results[i])
  <1> DEFINE of_t == {i \in DOMAIN b : b[i].job.id = t}
  <1>1. CASE of_t = {}
    BY <1>1 DEF TaskAfter
  <1>2. CASE of_t # {}
    <2>1. Len(b) \in Nat /\ of_t \subseteq 0..Len(b)
      OBVIOUS
    <2>2. Max(of_t) \in of_t /\ \A k \in of_t : k <= Max(of_t)
      <3> HIDE DEF of_t
      <3> QED
        BY <1>2, <2>1, MaxBounded
    <2>3. TaskAfter(b, results, t, stored) = Outcome(b[Max(of_t)], results[Max(of_t)])
      BY <1>2 DEF TaskAfter
    <2> QED
      BY <2>2, <2>3
  <1> QED
    BY <1>1, <1>2

\* An event that the batch leaves was there and is not replaced, or is written.
LEMMA DuesAfterIs ==
    ASSUME NEW b, NEW results, NEW stored, NEW e \in DuesAfter(b, results, stored)
    PROVE  \/ /\ e \in stored
              /\ \A i \in DOMAIN b : b[i].job.id = e.id =>
                   /\ e.due # b[i].job.due
                   /\ LET new == Outcome(b[i], results[i])
                      IN  new # Absent => e.due # new.due
           \/ \E i \in DOMAIN b :
                LET new == Outcome(b[i], results[i])
                IN  new # Absent /\ e = Event(b[i].job.id, new.due)
  <1>1. CASE /\ e \in stored
             /\ \A i \in DOMAIN b : b[i].job.id = e.id =>
                  /\ ~Clears(b[i], e.due)
                  /\ \A f \in Writes(b[i], results[i]) : f.due # e.due
    BY <1>1 DEF Clears, Writes, Event
  <1>2. CASE \E i \in DOMAIN b : e \in Writes(b[i], results[i])
    BY <1>2 DEF Writes
  <1> QED
    BY <1>1, <1>2, Zenon DEF DuesAfter

\* The event that the last job of a task writes is left, and so is an event of a
\* task that has no job in the batch.
LEMMA DuesAfterHas ==
    ASSUME NEW b \in Seq(Entries), NEW results, NEW stored
    PROVE  /\ \A i \in DOMAIN b :
                LET new == Outcome(b[i], results[i]) IN
                /\ \A k \in DOMAIN b : b[k].job.id = b[i].job.id => k <= i
                /\ new # Absent
                => Event(b[i].job.id, new.due) \in DuesAfter(b, results, stored)
           /\ \A e \in stored :
                (\A i \in DOMAIN b : b[i].job.id # e.id) =>
                    e \in DuesAfter(b, results, stored)
  <1>1. ASSUME NEW i \in DOMAIN b, Outcome(b[i], results[i]) # Absent,
               \A k \in DOMAIN b : b[k].job.id = b[i].job.id => k <= i
        PROVE  Event(b[i].job.id, Outcome(b[i], results[i]).due)
                   \in DuesAfter(b, results, stored)
    <2> DEFINE e == Event(b[i].job.id, Outcome(b[i], results[i]).due)
    <2>1. e \in Writes(b[i], results[i]) /\ e.id = b[i].job.id
      BY <1>1 DEF Writes, Event
    <2>2. \A k \in DOMAIN b : k > i /\ b[k].job.id = e.id => ~Clears(b[k], e.due)
      <3> SUFFICES ASSUME NEW k \in DOMAIN b, k > i, b[k].job.id = e.id PROVE FALSE
        OBVIOUS
      <3>1. k <= i
        BY <1>1, <2>1
      <3>2. k \in Int /\ i \in Int
        OBVIOUS
      <3> HIDE DEF e
      <3> QED
        BY <3>1, <3>2
    <2> HIDE DEF e
    <2>3. e \in DuesAfter(b, results, stored)
      <3> DEFINE W(j) == {f \in Writes(b[j], results[j]) :
                            \A k \in DOMAIN b : k > j /\ b[k].job.id = f.id
                                => ~Clears(b[k], f.due)}
      <3>1. e \in W(i)
        BY <2>1, <2>2
      <3>2. e \in UNION {W(j) : j \in DOMAIN b}
        BY <3>1, Zenon
      <3> QED
        BY <3>2 DEF DuesAfter
    <2> QED
      BY <2>3 DEF e
  <1>2. ASSUME NEW e \in stored, \A i \in DOMAIN b : b[i].job.id # e.id
        PROVE  e \in DuesAfter(b, results, stored)
    BY <1>2, Zenon DEF DuesAfter
  <1> QED
    BY <1>1, <1>2

-----------------------------------------------------------------------------
(* The store                                                               *)

\* update_tasks ends its tasks or schedules them again, each with its event.
LEMMA UpdateTasksStore ==
    ASSUME TaskInv, NEW n \in Nodes, UpdateTasks(n)
    PROVE  StoreOK' /\ StoreInv'
  <1> USE DEF history
  <1> DEFINE b == batch[n]
  <1>1. /\ TypeOK /\ StoreOK /\ StoreInv /\ b \in Seq(Entries) /\ overwritten' = overwritten
        /\ \A i \in DOMAIN b : /\ b[i] \in Entries /\ b[i].task # Absent
                               /\ b[i].job.id \in scheduled
    <2>1. TypeOK /\ StoreOK /\ StoreInv /\ NodesOK /\ NodesInv
      BY DEF TaskInv, TypeOK
    <2>2. wpc[n] = "run" /\ overwritten' = overwritten
      BY DEF UpdateTasks
    <2>3. b \in Seq(Entries)
      BY <2>1 DEF NodesOK, Entries
    <2>4. \A i \in DOMAIN b : b[i] \in Entries
      BY <2>3
    <2>5. \A i \in DOMAIN b : b[i].task # Absent /\ b[i].job.id \in scheduled
      BY <2>1, <2>2 DEF NodesInv
    <2> QED
      BY <2>1, <2>2, <2>3, <2>4, <2>5
  <1> HIDE DEF b
  <1>2. ASSUME UNCHANGED <<task, dues, scheduled>>,
               deliver_at' = [t \in Reports |-> IF task'[t] = Absent THEN 0 ELSE deliver_at[t]]
        PROVE  StoreOK' /\ StoreInv'
    <2>1. deliver_at' \in [Reports -> Time]
          /\ \A t \in Reports : deliver_at'[t] \in {0, deliver_at[t]}
      BY <1>1, <1>2, AfterIsTime, TaskAssumption DEF StoreOK
    <2> QED
      BY <1>1, <1>2, <2>1 DEF StoreOK, StoreInv, Findable, Stored
  <1>3. ASSUME NEW results, NEW new \in SUBSET (Tasks \ scheduled),
               ~Gone(n, results),
               task' = [t \in Tasks |-> TaskAfter(b, results, t,
                              IF t \in new THEN Pending(now) ELSE task[t])],
               dues' = DuesAfter(b, results, dues \cup {Event(t, now) : t \in new}),
               scheduled' = scheduled \cup new,
               deliver_at' = [t \in Reports |-> IF task'[t] = Absent THEN 0 ELSE deliver_at[t]]
        PROVE  StoreOK' /\ StoreInv'
    <2> DEFINE was(t) == IF t \in new THEN Pending(now) ELSE task[t]
               start == dues \cup {Event(t, now) : t \in new}
               out(i) == Outcome(b[i], results[i])
    <2>1. ASSUME NEW t \in Tasks
          PROVE  /\ was(t) \in Task
                 /\ was(t) # Absent => t \in scheduled'
                 /\ was(t).status = "failed" => was(t).due = Never
                 /\ ~overwritten /\ was(t) # Absent /\ was(t).status # "failed" =>
                       \E e \in start : e.id = t /\ e.due # Never
      <3>1. CASE t \in new
        <4>1. Pending(now) \in Task /\ Pending(now).status = "pending"
          BY <1>1, AfterIsTime, TaskAssumption DEF Pending, Task
        <4>2. Event(t, now) \in start /\ Event(t, now).id = t /\ Event(t, now).due # Never
          BY <1>1, <3>1, AfterIsTime, TaskAssumption DEF Event
        <4> QED
          BY <1>3, <3>1, <4>1, <4>2
      <3>2. CASE t \notin new
        BY <1>1, <1>3, <3>2 DEF StoreOK, StoreInv, Stored, Findable
      <3> QED
        BY <3>1, <3>2
    <2>2. ASSUME NEW e \in start
          PROVE  /\ e \in [id : Tasks, due : Time, typ : {"task", "unknown"}]
                 /\ e.id \in scheduled' /\ (e.id \in new <=> e \notin dues)
                 /\ e.id \in new => e = Event(e.id, now)
      <3>1. CASE e \in dues
        BY <1>1, <1>3, <3>1 DEF StoreOK, StoreInv
      <3>2. CASE e \notin dues
        <4>1. PICK t \in new : e = Event(t, now)
          BY <3>2
        <4> QED
          BY <1>1, <1>3, <3>2, <4>1, AfterIsTime, TaskAssumption DEF Event
      <3> QED
        BY <3>1, <3>2
    <2>3. ASSUME NEW i \in DOMAIN b
          PROVE  /\ out(i) \in Task /\ b[i].job.id \in Tasks
                 /\ out(i).status = "failed" => out(i).due = Never
                 /\ out(i) # Absent /\ out(i).status # "failed" => out(i).due # Never
                 /\ out(i) # Absent => out(i).due \in Time
      <3>1. b[i] \in Entries /\ b[i].task # Absent
        BY <1>1
      <3>2. b[i].job.id \in Tasks
        BY <3>1 DEF Entries, Jobs
      <3>3. \A x \in Task : x.due \in Time
        <4>1. 0 \in Time
          BY <1>1, AfterIsTime, TaskAssumption
        <4> QED
          BY <4>1 DEF Task, Absent
      <3>4. /\ out(i) \in Task
            /\ out(i).status = "failed" => out(i).due = Never
            /\ out(i) # Absent /\ out(i).status # "failed" => out(i).due # Never
        BY <1>1, <3>1, OutcomeIs
      <3>5. out(i).due \in Time
        BY <3>3, <3>4, Zenon
      <3> QED
        BY <3>2, <3>4, <3>5
    <2>4. ASSUME NEW t \in Tasks
          PROVE  \/ /\ task'[t] = was(t)
                    /\ \A i \in DOMAIN b : b[i].job.id # t
                 \/ \E i \in DOMAIN b :
                      /\ b[i].job.id = t
                      /\ \A k \in DOMAIN b : b[k].job.id = t => k <= i
                      /\ task'[t] = out(i)
      BY <1>1, <1>3, TaskAfterIs
    <2> HIDE DEF was, out
    <2>5. ASSUME NEW e \in dues'
          PROVE  \/ /\ e \in start
                    /\ \A i \in DOMAIN b : b[i].job.id = e.id /\ out(i) # Absent =>
                         e.due # out(i).due
                 \/ \E i \in DOMAIN b : out(i) # Absent /\ e = Event(b[i].job.id, out(i).due)
      BY <1>3, <2>5, DuesAfterIs DEF out
    <2>6. /\ \A i \in DOMAIN b :
               /\ \A k \in DOMAIN b : b[k].job.id = b[i].job.id => k <= i
               /\ out(i) # Absent
               => Event(b[i].job.id, out(i).due) \in dues'
          /\ \A e \in start : (\A i \in DOMAIN b : b[i].job.id # e.id) => e \in dues'
      BY <1>1, <1>3, DuesAfterHas DEF out
    <2> HIDE DEF start
    <2>7. ASSUME NEW t \in Tasks
          PROVE  /\ task'[t] \in Task
                 /\ task'[t] # Absent => t \in scheduled'
                 /\ task'[t].status = "failed" => task'[t].due = Never
      <3>1. CASE task'[t] = was(t)
        BY <2>1, <3>1
      <3>2. CASE \E i \in DOMAIN b : b[i].job.id = t /\ task'[t] = out(i)
        BY <1>1, <1>3, <2>3, <3>2
      <3> QED
        BY <2>4, <3>1, <3>2
    <2>8. ASSUME NEW t \in Tasks, ~overwritten, task'[t] # Absent, task'[t].status # "failed"
          PROVE  \E e \in dues' : e.id = t /\ e.due # Never
      <3>1. CASE task'[t] = was(t) /\ \A i \in DOMAIN b : b[i].job.id # t
        BY <2>1, <2>6, <2>8, <3>1
      <3>2. CASE \E i \in DOMAIN b :
                   /\ b[i].job.id = t
                   /\ \A k \in DOMAIN b : b[k].job.id = t => k <= i
                   /\ task'[t] = out(i)
        <4>1. PICK i \in DOMAIN b :
                   /\ b[i].job.id = t
                   /\ \A k \in DOMAIN b : b[k].job.id = t => k <= i
                   /\ task'[t] = out(i)
          BY <3>2
        <4>2. Event(t, out(i).due) \in dues' /\ out(i).due # Never
          BY <2>3, <2>6, <2>8, <4>1
        <4> QED
          BY <4>2 DEF Event
      <3> QED
        BY <2>4, <3>1, <3>2
    <2>9. ASSUME NEW e \in dues'
          PROVE  /\ e \in [id : Tasks, due : Time, typ : {"task", "unknown"}]
                 /\ e.id \in scheduled'
      <3>1. CASE e \in start
        BY <2>2, <3>1
      <3>2. CASE \E i \in DOMAIN b : out(i) # Absent /\ e = Event(b[i].job.id, out(i).due)
        <4>1. PICK i \in DOMAIN b : out(i) # Absent /\ e = Event(b[i].job.id, out(i).due)
          BY <3>2
        <4>2. b[i].job.id \in Tasks /\ b[i].job.id \in scheduled' /\ out(i).due \in Time
          BY <1>1, <1>3, <2>3, <4>1
        <4> QED
          BY <4>1, <4>2 DEF Event
      <3> QED
        BY <2>5, <3>1, <3>2
    <2>10. ASSUME NEW e \in dues', NEW f \in dues', e.id = f.id, e.due = f.due
           PROVE  e = f
      <3> DEFINE kept(g) == g \in start /\ \A i \in DOMAIN b :
                              b[i].job.id = g.id /\ out(i) # Absent => g.due # out(i).due
                 written(g) == \E i \in DOMAIN b :
                              out(i) # Absent /\ g = Event(b[i].job.id, out(i).due)
      <3>1. (kept(e) \/ written(e)) /\ (kept(f) \/ written(f))
        BY <2>5
      <3>2. CASE kept(e) /\ kept(f)
        <4>1. CASE e \in dues
          BY <1>1, <2>2, <2>10, <3>2, <4>1 DEF StoreOK
        <4>2. CASE e \notin dues
          BY <2>2, <2>10, <3>2, <4>2
        <4> QED
          BY <4>1, <4>2
      <3>3. CASE kept(e) /\ written(f)
        BY <2>10, <3>3 DEF Event
      <3>4. CASE written(e) /\ kept(f)
        BY <2>10, <3>4 DEF Event
      <3>5. CASE written(e) /\ written(f)
        BY <2>10, <3>5 DEF Event
      <3> HIDE DEF kept, written
      <3> QED
        BY <3>1, <3>2, <3>3, <3>4, <3>5
    <2>11. /\ task' \in [Tasks -> Task]
           /\ deliver_at' \in [Reports -> Time]
           /\ \A t \in Reports : deliver_at'[t] \in {0, deliver_at[t]}
      <3>1. task' = [t \in Tasks |-> task'[t]]
        BY <1>3
      <3>2. task' \in [Tasks -> Task]
        BY <2>7, <3>1
      <3>3. 0 \in Time
        BY <1>1, AfterIsTime, TaskAssumption
      <3> QED
        BY <1>1, <1>3, <3>2, <3>3 DEF StoreOK
    <2>12. StoreOK'
      BY <1>1, <1>3, <2>7, <2>9, <2>10, <2>11 DEF StoreOK, Stored
    <2>13. Findable'
      BY <1>1, <2>8 DEF Findable, Stored
    <2> QED
      BY <1>1, <1>3, <2>7, <2>9, <2>11, <2>12, <2>13 DEF StoreInv
  <1> QED
    BY <1>2, <1>3 DEF UpdateTasks, b

\* A step is one of update_tasks, of what writes the store otherwise, or leaves the
\* store as it is.
LEMMA StoreCases ==
    ASSUME [Next]_vars
    PROVE  \/ UNCHANGED <<task, dues, deliver_at, scheduled, overwritten>>
           \/ \E n \in Nodes : UpdateTasks(n)
           \/ \E t \in Tasks, d \in Delays : Schedule(t, After(d))
           \/ AdminUpdate \/ AdminDestroy
           \/ \E t \in Reports, d \in Delays : MoveReport(t, After(d))
  <1> DEFINE kept == UNCHANGED <<task, dues, deliver_at, scheduled, overwritten>>
  <1> USE DEF store, history
  <1>1. ASSUME NEW n \in Nodes, ManagerStep(n) PROVE kept
    <2>1. CASE Scan(n) \/ ScanFails(n)
      BY <2>1 DEF Scan, ScanFails, Wakes
    <2>2. ASSUME NEW j \in todo[n],
                 Dispatch(n, j) \/ DispatchRefused(n, j) \/ ChannelFull(n, j)
          PROVE  kept
      BY <2>2 DEF Dispatch, DispatchRefused, ChannelFull
    <2> QED
      BY <1>1, <2>1, <2>2 DEF ManagerStep
  <1>2. ASSUME NEW n \in Nodes, Receive(n) \/ Unlock(n) \/ Crash(n) PROVE kept
    BY <1>2 DEF Receive, Unlock, Crash
  <1>3. ASSUME NEW t \in Tasks, NEW kind, AdminRead(t, kind) PROVE kept
    BY <1>3 DEF AdminRead
  <1>4. CASE AdminLock \/ AdminFails \/ AdminUnlock \/ Tick
    BY <1>4 DEF AdminLock, AdminFails, AdminUnlock, Tick
  <1>5. CASE UNCHANGED vars
    BY <1>5 DEF vars
  <1> HIDE DEF kept
  <1> QED
    BY <1>1, <1>2, <1>3, <1>4, <1>5 DEF Next, WorkerStep, AdminStep, kept

\* Every step keeps the tasks, their events and what is found of them.
LEMMA StepStore ==
    ASSUME TaskInv, [Next]_vars
    PROVE  StoreOK' /\ StoreInv'
  <1>1. TypeOK /\ StoreOK /\ StoreInv /\ AdmInv
    BY DEF TaskInv, TypeOK
  <1>2. CASE UNCHANGED <<task, dues, deliver_at, scheduled, overwritten>>
    BY <1>1, <1>2 DEF StoreOK, StoreInv, Findable, Stored
  <1>3. ASSUME NEW n \in Nodes, UpdateTasks(n) PROVE StoreOK' /\ StoreInv'
    BY <1>3, UpdateTasksStore
  <1>4. ASSUME NEW t \in Tasks, NEW d \in Delays, Schedule(t, After(d))
        PROVE  StoreOK' /\ StoreInv'
    <2> DEFINE due == After(d)
    <2>1. /\ t \notin scheduled /\ scheduled' = scheduled \cup {t}
          /\ task' = [task EXCEPT ![t] = Pending(due)]
          /\ dues' = dues \cup {Event(t, due)}
          /\ deliver_at' = [r \in Reports |-> IF r = t THEN due ELSE deliver_at[r]]
          /\ overwritten' = overwritten
      BY <1>4 DEF Schedule, history
    <2>2. due \in Time /\ due # Never /\ now \in Time
      BY <1>1, AfterIsTime, TaskAssumption
    <2> HIDE DEF due
    <2>3. Pending(due) \in Task /\ Pending(due) # Absent /\ Pending(due).status = "pending"
      BY <2>2 DEF Pending, Task, Absent
    <2>4. Event(t, due).id = t /\ Event(t, due).due = due /\ Event(t, due).typ = "task"
          /\ Event(t, due) \in [id : Tasks, due : Time, typ : {"task", "unknown"}]
      BY <2>2 DEF Event
    <2>5. StoreOK'
      BY <1>1, <2>1, <2>2, <2>3, <2>4 DEF StoreOK, StoreInv, Stored
    <2>6. Findable'
      BY <1>1, <2>1, <2>2, <2>3, <2>4 DEF StoreOK, StoreInv, Stored, Findable
    <2> QED
      BY <1>1, <2>1, <2>2, <2>3, <2>4, <2>5, <2>6 DEF StoreOK, StoreInv
  <1>5. CASE AdminUpdate
    <2>1. PICK due \in {now, adm.read.due} \ {Never} :
            LET t == adm.id
                moved == due # adm.read.due
                left == {e \in dues : ~(e.id = t /\ e.due \in {adm.read.due, due})}
            IN  /\ task' = [task EXCEPT ![t] =
                    [adm.read EXCEPT !.due = due,
                                     !.status = IF @ = "failed" THEN "retry" ELSE @]]
                /\ dues' = IF moved THEN left \cup {Event(t, due)} ELSE dues
                /\ overwritten' = (overwritten \/ task[t] # adm.read)
      BY <1>5 DEF AdminUpdate
    <2> DEFINE t == adm.id
               moved == due # adm.read.due
               left == {e \in dues : ~(e.id = t /\ e.due \in {adm.read.due, due})}
               new == [adm.read EXCEPT !.due = due,
                                       !.status = IF @ = "failed" THEN "retry" ELSE @]
    <2>2. /\ task' = [task EXCEPT ![t] = new]
          /\ dues' = IF moved THEN left \cup {Event(t, due)} ELSE dues
          /\ overwritten' = (overwritten \/ task[t] # adm.read)
          /\ UNCHANGED <<scheduled, deliver_at>>
      BY <1>5, <2>1 DEF AdminUpdate
    <2>3. /\ t \in scheduled /\ t \in Tasks /\ adm.read # Absent /\ adm.read \in Task
          /\ adm.read.status = "failed" => adm.read.due = Never
      BY <1>1, <1>5 DEF AdminUpdate, AdmInv, TypeOK, StoreOK
    <2>4. due \in Time /\ due # Never
      BY <1>1, <2>3, AfterIsTime, TaskAssumption DEF Task
    <2>5. /\ new \in Task /\ new # Absent /\ new.status # "failed"
          /\ new.status = adm.read.status \/ moved
      BY <2>3, <2>4 DEF Task, Absent
    <2>6. Event(t, due).id = t /\ Event(t, due).due = due
          /\ Event(t, due) \in [id : Tasks, due : Time, typ : {"task", "unknown"}]
      BY <2>3, <2>4 DEF Event
    <2> HIDE DEF new, t
    <2>7. StoreOK'
      BY <1>1, <2>2, <2>3, <2>4, <2>5, <2>6 DEF StoreOK, Stored
    <2>8. Findable'
      <3> SUFFICES ASSUME ~overwritten', NEW u \in Tasks, task'[u] # Absent,
                          task'[u].status # "failed"
                   PROVE  \E e \in dues' : e.id = u /\ e.due # Never
        BY DEF Findable, Stored
      <3>1. ~overwritten /\ task[t] = adm.read
        BY <2>2
      <3>2. CASE u # t
        BY <1>1, <2>2, <3>1, <3>2 DEF StoreInv, Findable, Stored, StoreOK
      <3>3. CASE u = t /\ moved
        BY <2>2, <2>4, <2>6, <3>3
      <3>4. CASE u = t /\ ~moved
        BY <1>1, <2>2, <2>3, <2>5, <3>1, <3>4 DEF StoreInv, Findable, Stored
      <3> QED
        BY <3>2, <3>3, <3>4
    <2> QED
      BY <1>1, <2>2, <2>3, <2>5, <2>6, <2>7, <2>8 DEF StoreInv, StoreOK
  <1>6. CASE AdminDestroy
    <2>1. /\ task' = [task EXCEPT ![adm.id] = Absent]
          /\ dues' = dues \ EventsOf(adm.id, adm.read.due)
          /\ UNCHANGED <<scheduled, deliver_at, overwritten>>
      BY <1>6 DEF AdminDestroy, history
    <2>2. Absent \in Task /\ Absent.status # "failed"
      BY DEF Absent, Task
    <2>3. StoreOK'
      BY <1>1, <2>1, <2>2 DEF StoreOK, Stored
    <2>4. Findable'
      BY <1>1, <2>1, <2>2 DEF StoreOK, StoreInv, Findable, Stored, EventsOf
    <2> QED
      BY <1>1, <2>1, <2>2, <2>3, <2>4 DEF StoreInv, StoreOK
  <1>7. ASSUME NEW t \in Reports, NEW d \in Delays, MoveReport(t, After(d))
        PROVE  StoreOK' /\ StoreInv'
    <2> DEFINE due == After(d)
               new == [id |-> t, due |-> due, typ |-> "unknown"]
               left == (dues \ EventsOf(t, deliver_at[t])) \ EventsOf(t, due)
    <2>1. /\ deliver_at[t] # 0 /\ deliver_at' = [deliver_at EXCEPT ![t] = due]
          /\ dues' = left \cup {new}
          /\ UNCHANGED <<task, scheduled, overwritten>>
      BY <1>7 DEF MoveReport, history
    <2>2. due \in Time /\ due # Never /\ t \in Tasks /\ t \in scheduled
      BY <1>1, <2>1, AfterIsTime, TaskAssumption DEF StoreInv
    <2> HIDE DEF due
    <2>3. new.id = t /\ new.due = due
          /\ new \in [id : Tasks, due : Time, typ : {"task", "unknown"}]
      BY <2>2
    <2>4. /\ left \subseteq dues /\ \A e \in left : ~(e.id = t /\ e.due = due)
          /\ \A e \in dues : e.id # t => e \in left
      BY DEF EventsOf
    <2> HIDE DEF new, left
    <2>5. StoreOK'
      BY <1>1, <2>1, <2>2, <2>3, <2>4 DEF StoreOK, Stored
    <2>6. Findable'
      BY <1>1, <2>1, <2>2, <2>3, <2>4 DEF StoreInv, Findable, Stored
    <2> QED
      BY <1>1, <2>1, <2>2, <2>3, <2>4, <2>5, <2>6 DEF StoreInv, StoreOK
  <1> QED
    BY <1>2, <1>3, <1>4, <1>5, <1>6, <1>7, StoreCases
-----------------------------------------------------------------------------
(* The nodes                                                               *)

\* An id that has been used stays used.
LEMMA ScheduledGrows ==
    ASSUME [Next]_vars
    PROVE  scheduled \subseteq scheduled'
  <1>1. ASSUME NEW n \in Nodes, UpdateTasks(n) PROVE scheduled \subseteq scheduled'
    BY <1>1 DEF UpdateTasks
  <1>2. ASSUME NEW t, NEW due, Schedule(t, due) PROVE scheduled \subseteq scheduled'
    BY <1>2 DEF Schedule
  <1>3. ASSUME NEW t, NEW due, MoveReport(t, due) PROVE scheduled \subseteq scheduled'
    BY <1>3 DEF MoveReport
  <1>4. CASE AdminUpdate \/ AdminDestroy
    BY <1>4 DEF AdminUpdate, AdminDestroy
  <1> QED
    BY <1>1, <1>2, <1>3, <1>4, StoreCases

\* A step is one of a node, or leaves the nodes as they are.
LEMMA NodesCases ==
    ASSUME [Next]_vars
    PROVE  \/ UNCHANGED <<locked, todo, chan, wpc, batch>>
           \/ \E n \in Nodes, read \in SUBSET dues :
                Wakes(n) /\ Collect(n, read)
           \/ \E n \in Nodes : \E j \in todo[n] :
                Dispatch(n, j) \/ DispatchRefused(n, j) \/ ChannelFull(n, j)
           \/ \E n \in Nodes : Receive(n) \/ UpdateTasks(n) \/ Unlock(n) \/ Crash(n)
           \/ Tick
  <1> DEFINE kept == UNCHANGED <<locked, todo, chan, wpc, batch>>
  <1> USE DEF manager, worker
  <1>1. ASSUME NEW n \in Nodes, Scan(n) \/ ScanFails(n)
        PROVE  \E read \in SUBSET dues : Wakes(n) /\ Collect(n, read)
    <2>1. CASE Scan(n)
      <3>1. Readable \in SUBSET dues
        BY DEF Readable
      <3> QED
        BY <2>1, <3>1 DEF Scan
    <2>2. CASE ScanFails(n)
      <3>1. PICK cut \in dues : Collect(n, {e \in Readable : Before(e, cut)})
        BY <2>2 DEF ScanFails
      <3>2. {e \in Readable : Before(e, cut)} \in SUBSET dues
        BY DEF Readable
      <3> QED
        BY <2>2, <3>1, <3>2 DEF ScanFails
    <2> QED
      BY <1>1, <2>1, <2>2
  <1>2. ASSUME NEW t \in Tasks, NEW kind, AdminRead(t, kind) PROVE kept
    BY <1>2 DEF AdminRead
  <1>3. CASE AdminStep
    BY <1>3 DEF AdminStep, AdminLock, AdminUpdate, AdminDestroy, AdminFails, AdminUnlock
  <1>4. ASSUME NEW t, NEW due, Schedule(t, due) \/ MoveReport(t, due) PROVE kept
    BY <1>4 DEF Schedule, MoveReport
  <1>5. CASE UNCHANGED vars
    BY <1>5 DEF vars
  <1> HIDE DEF kept
  <1>6. CASE Next
    BY <1>1, <1>2, <1>3, <1>4, <1>6 DEF Next, ManagerStep, WorkerStep, kept
  <1> QED
    BY <1>5, <1>6 DEF kept

\* A scan leaves jobs of due events, and locks that end at a time that is set.
LEMMA CollectNodes ==
    ASSUME TaskInv, NEW n \in Nodes, NEW read \in SUBSET dues, Collect(n, read)
    PROVE  /\ locked' \in [Nodes -> [Tasks -> [expires : Time, due : Time]]]
           /\ todo' \in [Nodes -> SUBSET Jobs]
           /\ \A m \in Nodes : \A j \in todo'[m] :
                j \in todo[m] \/ (m = n /\ j.id \in Enabled[n] /\ j.id \in scheduled)
  <1> DEFINE seen == {e \in read : e.due <= now /\ e.id \in Enabled[n]}
             taken == {e \in seen : \/ locked[n][e.id].expires <= now
                                    \/ locked[n][e.id].due < e.due}
             of(set, t) == {e.due : e \in {f \in set : f.id = t}}
             row == [t \in Tasks |->
                       IF of(taken, t) # {}
                         THEN [expires |-> After(LockExpiry + 1), due |-> Max(of(taken, t))]
                         ELSE IF of(seen, t) # {} THEN locked[n][t] ELSE Unlocked]
             jobs == {Job(e, 0) : e \in taken}
  <1>1. /\ TypeOK /\ StoreOK /\ StoreInv /\ NodesOK
        /\ Never \in Nat /\ Time = 0..Never /\ 0 \in Time
    <2>1. TypeOK /\ StoreOK /\ StoreInv /\ NodesOK
      BY DEF TaskInv, TypeOK
    <2>2. Never \in Nat /\ Time = 0..Never /\ 0 \in Time
      BY TaskAssumption DEF Never, Time
    <2> QED
      BY <2>1, <2>2
  <1>2. todo' = [todo EXCEPT ![n] = jobs] /\ locked' = [locked EXCEPT ![n] = row]
    BY DEF Collect
  <1>3. \A e \in taken : e \in dues /\ e.id \in Enabled[n]
    OBVIOUS
  <1>4. \A j \in jobs : j \in Jobs /\ j.id \in Enabled[n] /\ j.id \in scheduled
    BY <1>1, <1>3 DEF Job, Jobs, StoreOK, StoreInv
  <1>5. ASSUME NEW t \in Tasks PROVE row[t] \in [expires : Time, due : Time]
    <2>1. CASE of(taken, t) # {}
      <3>1. of(taken, t) \subseteq 0..Never
        BY <1>1, <1>3 DEF StoreOK
      <3>2. Max(of(taken, t)) \in Time
        <4> HIDE DEF taken, of
        <4> QED
          BY <1>1, <2>1, <3>1, MaxBounded
      <3>3. LockExpiry + 1 \in Nat
        BY TaskAssumption
      <3>4. After(LockExpiry + 1) \in Time
        BY <1>1, <3>3, AfterIsTime
      <3> HIDE DEF taken, of, seen
      <3> QED
        BY <2>1, <3>2, <3>4
    <2>2. CASE of(taken, t) = {}
      <3>1. row[t] = locked[n][t] \/ row[t] = Unlocked
        BY <2>2
      <3>2. Unlocked \in [expires : Time, due : Time]
        BY <1>1 DEF Unlocked
      <3> HIDE DEF row
      <3> QED
        BY <1>1, <3>1, <3>2 DEF NodesOK
    <2> QED
      BY <2>1, <2>2
  <1>6. row \in [Tasks -> [expires : Time, due : Time]]
    BY <1>5
  <1> HIDE DEF row, jobs
  <1> QED
    BY <1>1, <1>2, <1>4, <1>6 DEF NodesOK

\* The job that a worker takes goes to its batch if its task could be read, and
\* nowhere if not.
LEMMA ReceiveIs ==
    ASSUME TaskInv, NEW n \in Nodes, Receive(n)
    PROVE  /\ chan[n] \in Seq(Jobs) /\ chan[n] # <<>> /\ batch[n] \in Seq(Entries)
           /\ wpc[n] \in {"idle", "collect"} /\ Len(batch[n]) < BatchSize
           /\ chan' = [chan EXCEPT ![n] = Tail(chan[n])]
           /\ \E b, pc :
                /\ batch' = [batch EXCEPT ![n] = b] /\ wpc' = [wpc EXCEPT ![n] = pc]
                /\ b \in Seq(Entries)
                /\ \/ b = batch[n]
                   \/ /\ task[Head(chan[n]).id] # Absent
                      /\ b = Append(batch[n], [job |-> Head(chan[n]),
                                               task |-> task[Head(chan[n]).id]])
                /\ pc \in {"idle", "collect", "run"}
                /\ pc = "idle" => b = <<>>
                /\ pc = "collect" => Len(b) < BatchSize
           /\ UNCHANGED <<now, store, lease, manager, adm, scheduled, history>>
  <1> DEFINE j == Head(chan[n])
             entry == [job |-> j, task |-> task[j.id]]
             last == BatchSize = 1 \/ Len(chan[n]) = 1
             pcOf(b) == IF b # <<>> /\ (last \/ Len(b) = BatchSize) THEN "run"
                        ELSE IF last THEN "idle" ELSE "collect"
             got(b) == batch' = [batch EXCEPT ![n] = b] /\ wpc' = [wpc EXCEPT ![n] = pcOf(b)]
  <1>1. /\ StoreOK /\ chan[n] \in Seq(Jobs) /\ chan[n] # <<>> /\ batch[n] \in Seq(Entries)
        /\ wpc[n] \in {"idle", "collect"} /\ BatchSize \in Nat /\ BatchSize # 0
        /\ wpc[n] = "idle" => batch[n] = <<>>
        /\ wpc[n] = "collect" => Len(batch[n]) < BatchSize
    BY TaskAssumption DEF TaskInv, TypeOK, NodesOK, NodesInv, Entries, Receive
  <1>2. Len(batch[n]) < BatchSize
    BY <1>1
  <1>3. j \in Jobs /\ entry \in Entries
    <2>1. j \in Jobs
      BY <1>1, HeadTailProperties
    <2> QED
      BY <1>1, <2>1 DEF Jobs, Entries, StoreOK
  <1>4. \/ task[j.id] # Absent /\ got(Append(batch[n], entry))
        \/ got(batch[n])
    BY DEF Receive
  <1>5. /\ chan' = [chan EXCEPT ![n] = Tail(chan[n])]
        /\ UNCHANGED <<now, store, lease, manager, adm, scheduled, history>>
    BY DEF Receive
  <1>6. ASSUME NEW b \in Seq(Entries), Len(b) <= BatchSize
        PROVE  /\ pcOf(b) \in {"idle", "collect", "run"}
               /\ pcOf(b) = "idle" => b = <<>>
               /\ pcOf(b) = "collect" => Len(b) < BatchSize
    <2>1. b = <<>> => Len(b) = 0
      OBVIOUS
    <2>2. Len(b) \in Nat
      OBVIOUS
    <2> QED
      BY <1>1, <1>6, <2>1, <2>2
  <1>7. Append(batch[n], entry) \in Seq(Entries)
        /\ Len(Append(batch[n], entry)) <= BatchSize /\ Len(batch[n]) <= BatchSize
    BY <1>1, <1>2, <1>3, AppendProperties
  <1> HIDE DEF pcOf
  <1>8. \E b, pc :
                /\ batch' = [batch EXCEPT ![n] = b] /\ wpc' = [wpc EXCEPT ![n] = pc]
                /\ b \in Seq(Entries)
                /\ \/ b = batch[n]
                   \/ /\ task[Head(chan[n]).id] # Absent
                      /\ b = Append(batch[n], [job |-> Head(chan[n]),
                                               task |-> task[Head(chan[n]).id]])
                /\ pc \in {"idle", "collect", "run"}
                /\ pc = "idle" => b = <<>>
                /\ pc = "collect" => Len(b) < BatchSize
    <2>1. CASE got(batch[n])
      BY <1>1, <1>6, <1>7, <2>1
    <2>2. CASE task[j.id] # Absent /\ got(Append(batch[n], entry))
      BY <1>1, <1>6, <1>7, <2>2
    <2> QED
      BY <1>4, <2>1, <2>2
  <1> QED
    BY <1>1, <1>2, <1>5, <1>8

\* update_tasks leaves the jobs of its batch, without their tasks, to be unlocked.
LEMMA UpdatedBatch ==
    ASSUME TypeOK, NEW n \in Nodes
    PROVE  LET b == [i \in DOMAIN batch[n] |-> [batch[n][i] EXCEPT !.task = Absent]] IN
           /\ b \in Seq(Entries) /\ DOMAIN b = DOMAIN batch[n] /\ Len(b) = Len(batch[n])
           /\ \A i \in DOMAIN b : b[i].job = batch[n][i].job
  <1> DEFINE b == [i \in DOMAIN batch[n] |-> [batch[n][i] EXCEPT !.task = Absent]]
  <1>0. batch[n] \in Seq(Entries)
    BY DEF TypeOK, NodesOK, Entries
  <1>1. Absent \in Task
    BY DEF Task
  <1>2. ASSUME NEW i \in DOMAIN batch[n]
        PROVE  b[i] \in Entries /\ b[i].job = batch[n][i].job
    <2>1. batch[n][i] \in Entries
      BY <1>0
    <2>2. b[i] = [job |-> batch[n][i].job, task |-> Absent]
      BY <2>1 DEF Entries
    <2> QED
      BY <1>1, <2>1, <2>2 DEF Entries
  <1>3. DOMAIN b = 1..Len(batch[n]) /\ Len(batch[n]) \in Nat /\ DOMAIN b = DOMAIN batch[n]
    BY <1>0
  <1>4. b = [i \in 1..Len(batch[n]) |-> b[i]]
    BY <1>0, <1>3
  <1> HIDE DEF b
  <1>5. b \in [1..Len(batch[n]) -> Entries]
    BY <1>2, <1>3, <1>4
  <1>6. b \in Seq(Entries)
    BY <1>3, <1>5, SeqDef
  <1>7. Len(b) = Len(batch[n])
    BY <1>3, <1>6, LenProperties
  <1> QED
    BY <1>2, <1>3, <1>6, <1>7 DEF b

\* Every step keeps the jobs of the nodes and the states of their workers.
LEMMA StepNodes ==
    ASSUME TaskInv, [Next]_vars
    PROVE  NodesOK' /\ NodesInv'
  <1>1. TypeOK /\ StoreOK /\ StoreInv /\ NodesOK /\ NodesInv /\ scheduled \subseteq scheduled'
    BY ScheduledGrows DEF TaskInv, TypeOK
  <1>2. CASE UNCHANGED <<locked, todo, chan, wpc, batch>>
    BY <1>1, <1>2 DEF NodesOK, NodesInv
  <1>3. ASSUME NEW n \in Nodes, NEW read \in SUBSET dues, Wakes(n), Collect(n, read)
        PROVE  NodesOK' /\ NodesInv'
    <2>1. UNCHANGED <<chan, wpc, batch>>
      BY <1>3 DEF Wakes, worker
    <2>2. /\ locked' \in [Nodes -> [Tasks -> [expires : Time, due : Time]]]
          /\ todo' \in [Nodes -> SUBSET Jobs]
          /\ \A m \in Nodes : \A j \in todo'[m] :
                j \in todo[m] \/ (m = n /\ j.id \in Enabled[n] /\ j.id \in scheduled)
      BY <1>3, CollectNodes
    <2>3. NodesOK'
      BY <1>1, <2>1, <2>2 DEF NodesOK
    <2> QED
      BY <1>1, <2>1, <2>2, <2>3 DEF NodesInv
  <1>4. ASSUME NEW n \in Nodes, NEW j \in todo[n],
               Dispatch(n, j) \/ DispatchRefused(n, j) \/ ChannelFull(n, j)
        PROVE  NodesOK' /\ NodesInv'
    <2>1. /\ UNCHANGED <<wpc, batch>> /\ todo' = [todo EXCEPT ![n] = @ \ {j}]
          /\ locked' = locked \/ locked' = [locked EXCEPT ![n][j.id] = Unlocked]
          /\ \/ chan' = chan
             \/ /\ Len(chan[n]) < Capacity
                /\ chan' = [chan EXCEPT ![n] = Append(@, Job(j, After(LockExpiry)))]
      BY <1>4 DEF Dispatch, DispatchRefused, ChannelFull, Handled, worker
    <2>2. j \in Jobs /\ j.id \in Tasks /\ j.id \in scheduled
      BY <1>1 DEF NodesOK, NodesInv, Jobs
    <2>3. /\ Job(j, After(LockExpiry)) \in Jobs /\ Job(j, After(LockExpiry)).id = j.id
          /\ Unlocked \in [expires : Time, due : Time]
      BY <1>1, <2>2, AfterIsTime, TaskAssumption DEF Job, Jobs, Unlocked
    <2>4. locked' \in [Nodes -> [Tasks -> [expires : Time, due : Time]]]
      <3> DEFINE row == [locked[n] EXCEPT ![j.id] = Unlocked]
      <3>1. locked \in [Nodes -> [Tasks -> [expires : Time, due : Time]]]
        BY <1>1 DEF NodesOK
      <3>2. row \in [Tasks -> [expires : Time, due : Time]]
        BY <2>2, <2>3, <3>1
      <3>3. locked' = locked \/ locked' = [locked EXCEPT ![n] = row]
        BY <2>1
      <3> HIDE DEF row
      <3> QED
        BY <3>1, <3>2, <3>3
    <2>5. /\ todo' \in [Nodes -> SUBSET Jobs]
          /\ \A m \in Nodes : todo'[m] \subseteq todo[m]
      BY <1>1, <2>1 DEF NodesOK
    <2>6. /\ chan' \in [Nodes -> Seq(Jobs)]
          /\ \A m \in Nodes : Len(chan'[m]) <= Capacity
          /\ \A m \in Nodes : \A i \in DOMAIN chan'[m] : chan'[m][i].id \in scheduled
      <3>1. CASE chan' = chan
        BY <1>1, <3>1 DEF NodesOK, NodesInv
      <3>2. CASE /\ Len(chan[n]) < Capacity
                 /\ chan' = [chan EXCEPT ![n] = Append(@, Job(j, After(LockExpiry)))]
        <4> DEFINE new == Job(j, After(LockExpiry))
                   c == Append(chan[n], new)
        <4>1. /\ c \in Seq(Jobs) /\ Len(c) <= Capacity
              /\ \A i \in DOMAIN c : c[i].id \in scheduled
          <5>1. chan[n] \in Seq(Jobs) /\ new \in Jobs /\ Capacity \in Nat
            BY <1>1, <2>3, TaskAssumption DEF NodesOK
          <5> HIDE DEF new
          <5>2. /\ c \in Seq(Jobs) /\ Len(c) = Len(chan[n]) + 1
                /\ \A i \in 1..Len(chan[n]) : c[i] = chan[n][i]
                /\ c[Len(chan[n]) + 1] = new
            BY <5>1, AppendProperties
          <5>3. ASSUME NEW i \in DOMAIN c PROVE c[i].id \in scheduled
            <6>1. i \in 1..Len(chan[n]) \/ i = Len(chan[n]) + 1
              BY <5>1, <5>2
            <6> HIDE DEF c
            <6> QED
              BY <1>1, <2>2, <2>3, <5>1, <5>2, <6>1 DEF NodesInv, new
          <5>4. Len(chan[n]) \in Nat
            BY <5>1
          <5> HIDE DEF c
          <5> QED
            BY <3>2, <5>1, <5>2, <5>3, <5>4
        <4>2. chan' = [chan EXCEPT ![n] = c]
          BY <3>2
        <4> HIDE DEF c
        <4> QED
          BY <1>1, <4>1, <4>2 DEF NodesOK, NodesInv
      <3> QED
        BY <2>1, <3>1, <3>2
    <2>7. NodesOK'
      BY <1>1, <2>1, <2>4, <2>5, <2>6 DEF NodesOK
    <2> QED
      BY <1>1, <2>1, <2>5, <2>6, <2>7 DEF NodesInv
  <1>5. ASSUME NEW n \in Nodes, Receive(n) PROVE NodesOK' /\ NodesInv'
    <2>1. /\ chan[n] \in Seq(Jobs) /\ chan[n] # <<>> /\ batch[n] \in Seq(Entries)
          /\ wpc[n] \in {"idle", "collect"} /\ Len(batch[n]) < BatchSize
          /\ chan' = [chan EXCEPT ![n] = Tail(chan[n])]
          /\ UNCHANGED <<locked, todo, scheduled>>
      BY <1>5, ReceiveIs DEF manager
    <2>2. PICK b, pc :
                /\ batch' = [batch EXCEPT ![n] = b] /\ wpc' = [wpc EXCEPT ![n] = pc]
                /\ b \in Seq(Entries)
                /\ \/ b = batch[n]
                   \/ /\ task[Head(chan[n]).id] # Absent
                      /\ b = Append(batch[n], [job |-> Head(chan[n]),
                                               task |-> task[Head(chan[n]).id]])
                /\ pc \in {"idle", "collect", "run"}
                /\ pc = "idle" => b = <<>>
                /\ pc = "collect" => Len(b) < BatchSize
      BY <1>5, ReceiveIs
    <2>3. /\ Tail(chan[n]) \in Seq(Jobs) /\ Len(Tail(chan[n])) <= Capacity
          /\ \A i \in DOMAIN Tail(chan[n]) : Tail(chan[n])[i].id \in scheduled
          /\ Head(chan[n]).id \in scheduled
      <3>1. /\ Len(Tail(chan[n])) = Len(chan[n]) - 1 /\ Tail(chan[n]) \in Seq(Jobs)
            /\ Head(chan[n]) = chan[n][1]
            /\ \A i \in 1..Len(Tail(chan[n])) : Tail(chan[n])[i] = chan[n][i + 1]
        BY <2>1, HeadTailProperties
      <3>2. Len(chan[n]) \in Nat /\ Len(chan[n]) > 0 /\ Len(chan[n]) <= Capacity
            /\ Capacity \in Nat
        BY <1>1, <2>1, TaskAssumption DEF NodesOK
      <3>3. \A i \in 1..Len(chan[n]) : chan[n][i].id \in scheduled
        BY <1>1, <2>1 DEF NodesInv
      <3>4. ASSUME NEW i \in DOMAIN Tail(chan[n]) PROVE Tail(chan[n])[i].id \in scheduled
        <4>1. i \in 1..Len(Tail(chan[n])) /\ i + 1 \in 1..Len(chan[n])
          BY <3>1, <3>2
        <4> QED
          BY <3>1, <3>3, <4>1
      <3> QED
        BY <3>1, <3>2, <3>3, <3>4
    <2>4. /\ Len(b) <= BatchSize
          /\ \A i \in DOMAIN b : b[i].job.id \in scheduled /\ b[i].task # Absent
      <3>1. /\ \A i \in DOMAIN batch[n] : /\ batch[n][i].job.id \in scheduled
                                          /\ batch[n][i].task # Absent
            /\ Len(batch[n]) < BatchSize /\ Len(batch[n]) \in Nat /\ BatchSize \in Nat
        <4>1. wpc[n] = "idle" => batch[n] = <<>>
          BY <1>1 DEF NodesInv
        <4>2. wpc[n] = "idle" => \A i \in DOMAIN batch[n] : batch[n][i].task # Absent
          BY <4>1
        <4>3. wpc[n] = "collect" => \A i \in DOMAIN batch[n] : batch[n][i].task # Absent
          BY <1>1 DEF NodesInv
        <4>4. \A i \in DOMAIN batch[n] : batch[n][i].job.id \in scheduled
          BY <1>1 DEF NodesInv
        <4> QED
          BY <2>1, <4>2, <4>3, <4>4, TaskAssumption
      <3>2. CASE b = batch[n]
        BY <3>1, <3>2
      <3>3. CASE /\ task[Head(chan[n]).id] # Absent
                 /\ b = Append(batch[n], [job |-> Head(chan[n]),
                                          task |-> task[Head(chan[n]).id]])
        <4> DEFINE entry == [job |-> Head(chan[n]), task |-> task[Head(chan[n]).id]]
        <4>0. entry \in Entries
          <5>1. Head(chan[n]) \in Jobs
            BY <2>1, HeadTailProperties
          <5> QED
            BY <1>1, <5>1 DEF Jobs, Entries, StoreOK
        <4>1. entry.task # Absent /\ entry.job.id \in scheduled
          BY <2>3, <3>3
        <4> HIDE DEF entry
        <4>2. /\ Len(b) = Len(batch[n]) + 1 /\ b[Len(batch[n]) + 1] = entry
              /\ \A i \in 1..Len(batch[n]) : b[i] = batch[n][i]
          BY <2>1, <3>3, <4>0, AppendProperties DEF entry
        <4>3. ASSUME NEW i \in DOMAIN b
              PROVE  i \in 1..Len(batch[n]) \/ i = Len(batch[n]) + 1
          BY <2>2, <3>1, <4>2
        <4>4. ASSUME NEW i \in DOMAIN b
              PROVE  b[i].job.id \in scheduled /\ b[i].task # Absent
          BY <2>1, <3>1, <4>1, <4>2, <4>3
        <4> QED
          BY <3>1, <4>2, <4>4
      <3> QED
        BY <2>2, <3>2, <3>3
    <2>5. NodesOK'
      BY <1>1, <2>1, <2>2, <2>3, <2>4 DEF NodesOK, Entries
    <2>6. ASSUME NEW m \in Nodes
          PROVE  /\ \A j \in todo'[m] : j.id \in scheduled'
                 /\ \A i \in DOMAIN chan'[m] : chan'[m][i].id \in scheduled'
                 /\ \A i \in DOMAIN batch'[m] : batch'[m][i].job.id \in scheduled'
                 /\ wpc'[m] = "idle" => batch'[m] = <<>>
                 /\ wpc'[m] = "collect" => Len(batch'[m]) < BatchSize
                 /\ wpc'[m] \in {"collect", "run"} =>
                       \A i \in DOMAIN batch'[m] : batch'[m][i].task # Absent
      <3>1. CASE m = n
        <4>1. batch'[m] = b /\ wpc'[m] = pc /\ chan'[m] = Tail(chan[n])
          BY <1>1, <2>1, <2>2, <3>1 DEF NodesOK
        <4> QED
          BY <1>1, <2>1, <2>2, <2>3, <2>4, <3>1, <4>1 DEF NodesInv
      <3>2. CASE m # n
        <4>1. batch'[m] = batch[m] /\ wpc'[m] = wpc[m] /\ chan'[m] = chan[m]
          BY <1>1, <2>1, <2>2, <3>2 DEF NodesOK
        <4> QED
          BY <1>1, <2>1, <4>1 DEF NodesInv
      <3> QED
        BY <3>1, <3>2
    <2> QED
      BY <2>5, <2>6 DEF NodesInv
  <1>6. ASSUME NEW n \in Nodes, UpdateTasks(n) PROVE NodesOK' /\ NodesInv'
    <2> DEFINE b == [i \in DOMAIN batch[n] |-> [batch[n][i] EXCEPT !.task = Absent]]
    <2>1. /\ UNCHANGED <<locked, todo, chan>> /\ wpc' = [wpc EXCEPT ![n] = "unlock"]
          /\ batch' = [batch EXCEPT ![n] = b]
      BY <1>6 DEF UpdateTasks, manager
    <2>2. batch[n] \in Seq(Entries) /\ Len(batch[n]) <= BatchSize
      BY <1>1 DEF NodesOK, Entries
    <2>3. /\ b \in Seq(Entries) /\ DOMAIN b = DOMAIN batch[n] /\ Len(b) = Len(batch[n])
          /\ \A i \in DOMAIN b : b[i].job.id = batch[n][i].job.id
      BY <1>1, UpdatedBatch
    <2> HIDE DEF b
    <2>4. NodesOK'
      BY <1>1, <2>1, <2>2, <2>3 DEF NodesOK, Entries
    <2>5. ASSUME NEW m \in Nodes
          PROVE  /\ \A j \in todo'[m] : j.id \in scheduled'
                 /\ \A i \in DOMAIN chan'[m] : chan'[m][i].id \in scheduled'
                 /\ \A i \in DOMAIN batch'[m] : batch'[m][i].job.id \in scheduled'
                 /\ wpc'[m] = "idle" => batch'[m] = <<>>
                 /\ wpc'[m] = "collect" => Len(batch'[m]) < BatchSize
                 /\ wpc'[m] \in {"collect", "run"} =>
                       \A i \in DOMAIN batch'[m] : batch'[m][i].task # Absent
      <3>1. \A t \in scheduled : t \in scheduled'
        BY <1>1
      <3>2. /\ \A j \in todo'[m] : j.id \in scheduled'
            /\ \A i \in DOMAIN chan'[m] : chan'[m][i].id \in scheduled'
        BY <1>1, <2>1, <3>1 DEF NodesInv
      <3>3. CASE m = n
        <4>1. batch'[m] = b /\ wpc'[m] = "unlock"
          BY <1>1, <2>1, <3>3 DEF NodesOK
        <4>2. \A i \in DOMAIN b : b[i].job.id \in scheduled'
          <5>1. \A i \in DOMAIN batch[n] : batch[n][i].job.id \in scheduled
            BY <1>1 DEF NodesInv
          <5> QED
            BY <2>3, <3>1, <5>1
        <4> QED
          BY <3>2, <4>1, <4>2
      <3>4. CASE m # n
        <4>1. batch'[m] = batch[m] /\ wpc'[m] = wpc[m]
          BY <1>1, <2>1, <3>4 DEF NodesOK
        <4> QED
          BY <1>1, <3>1, <3>2, <4>1 DEF NodesInv
      <3> QED
        BY <3>3, <3>4
    <2> QED
      BY <2>4, <2>5 DEF NodesInv
  <1>7. ASSUME NEW n \in Nodes, Unlock(n) \/ Crash(n) PROVE NodesOK' /\ NodesInv'
    <2>1. /\ wpc' = [wpc EXCEPT ![n] = "idle"] /\ batch' = [batch EXCEPT ![n] = <<>>]
          /\ chan' = chan \/ chan' = [chan EXCEPT ![n] = <<>>]
          /\ todo' = todo \/ todo' = [todo EXCEPT ![n] = {}]
          /\ \/ locked' = locked
             \/ locked' = [locked EXCEPT ![n] = [t \in Tasks |-> Unlocked]]
      BY <1>7 DEF Unlock, Crash, manager
    <2>2. [t \in Tasks |-> Unlocked] \in [Tasks -> [expires : Time, due : Time]]
      <3>1. 0 \in Time
        BY <1>1, AfterIsTime, TaskAssumption
      <3> QED
        BY <3>1 DEF Unlocked
    <2>3. Capacity \in Nat /\ BatchSize \in Nat /\ BatchSize # 0
      BY TaskAssumption
    <2> DEFINE row == [t \in Tasks |-> Unlocked]
    <2>4. /\ locked' \in [Nodes -> [Tasks -> [expires : Time, due : Time]]]
          /\ todo' \in [Nodes -> SUBSET Jobs]
          /\ \A m \in Nodes : todo'[m] \subseteq todo[m]
      <3>1. /\ locked \in [Nodes -> [Tasks -> [expires : Time, due : Time]]]
            /\ todo \in [Nodes -> SUBSET Jobs]
        BY <1>1 DEF NodesOK
      <3> HIDE DEF row
      <3>2. locked' \in [Nodes -> [Tasks -> [expires : Time, due : Time]]]
        BY <2>1, <2>2, <3>1 DEF row
      <3>3. CASE todo' = todo
        BY <3>1, <3>2, <3>3
      <3>4. CASE todo' = [todo EXCEPT ![n] = {}]
        BY <3>1, <3>2, <3>4
      <3> QED
        BY <2>1, <3>2, <3>3, <3>4
    <2>5. /\ chan' \in [Nodes -> Seq(Jobs)]
          /\ \A m \in Nodes : chan'[m] = chan[m] \/ chan'[m] = <<>>
      <3>1. chan \in [Nodes -> Seq(Jobs)] /\ <<>> \in Seq(Jobs)
        BY <1>1 DEF NodesOK
      <3>2. CASE chan' = chan
        BY <3>1, <3>2
      <3>3. CASE chan' = [chan EXCEPT ![n] = <<>>]
        BY <3>1, <3>3
      <3> QED
        BY <2>1, <3>2, <3>3
    <2>6. /\ batch' \in [Nodes -> Seq([job : Jobs, task : Task])]
          /\ wpc' \in [Nodes -> {"idle", "collect", "run", "unlock"}]
          /\ \A m \in Nodes :
               \/ batch'[m] = batch[m] /\ wpc'[m] = wpc[m]
               \/ batch'[m] = <<>> /\ wpc'[m] = "idle"
      <3>1. /\ batch \in [Nodes -> Seq(Entries)]
            /\ wpc \in [Nodes -> {"idle", "collect", "run", "unlock"}]
            /\ <<>> \in Seq(Entries)
        <4>1. <<>> \in Seq(Entries)
          OBVIOUS
        <4> QED
          BY <1>1, <4>1 DEF NodesOK, Entries
      <3>2. /\ batch' \in [Nodes -> Seq(Entries)]
            /\ wpc' \in [Nodes -> {"idle", "collect", "run", "unlock"}]
        BY <2>1, <3>1
      <3>3. ASSUME NEW m \in Nodes
            PROVE  \/ batch'[m] = batch[m] /\ wpc'[m] = wpc[m]
                   \/ batch'[m] = <<>> /\ wpc'[m] = "idle"
        BY <2>1, <3>1
      <3>4. batch' \in [Nodes -> Seq([job : Jobs, task : Task])]
        BY <3>2 DEF Entries
      <3> QED
        BY <3>2, <3>3, <3>4
    <2>7. NodesOK'
      <3>1. \A m \in Nodes : \A j \in todo'[m] : j.id \in Enabled[m]
        BY <1>1, <2>4 DEF NodesOK
      <3>2. \A m \in Nodes : Len(chan'[m]) <= Capacity /\ Len(batch'[m]) <= BatchSize
        BY <1>1, <2>3, <2>5, <2>6 DEF NodesOK
      <3> QED
        BY <2>4, <2>5, <2>6, <3>1, <3>2 DEF NodesOK
    <2>8. ASSUME NEW m \in Nodes
          PROVE  /\ \A j \in todo'[m] : j.id \in scheduled'
                 /\ \A i \in DOMAIN chan'[m] : chan'[m][i].id \in scheduled'
                 /\ \A i \in DOMAIN batch'[m] : batch'[m][i].job.id \in scheduled'
                 /\ wpc'[m] = "idle" => batch'[m] = <<>>
                 /\ wpc'[m] = "collect" => Len(batch'[m]) < BatchSize
                 /\ wpc'[m] \in {"collect", "run"} =>
                       \A i \in DOMAIN batch'[m] : batch'[m][i].task # Absent
      <3>1. \A i \in DOMAIN chan'[m] : chan'[m][i].id \in scheduled'
        BY <1>1, <2>5 DEF NodesInv
      <3>2. \A j \in todo'[m] : j.id \in scheduled'
        BY <1>1, <2>4 DEF NodesInv
      <3>3. CASE batch'[m] = batch[m] /\ wpc'[m] = wpc[m]
        BY <1>1, <3>1, <3>2, <3>3 DEF NodesInv
      <3>4. CASE batch'[m] = <<>> /\ wpc'[m] = "idle"
        BY <3>1, <3>2, <3>4
      <3> QED
        BY <2>6, <3>3, <3>4
    <2> QED
      BY <2>7, <2>8 DEF NodesInv
  <1>8. CASE Tick
    <2>1. /\ UNCHANGED <<todo, chan, wpc, batch>>
          /\ locked' = [n \in Nodes |-> [t \in Tasks |->
                           IF locked[n][t].expires > now' THEN locked[n][t] ELSE Unlocked]]
      BY <1>8 DEF Tick, worker
    <2>2. Unlocked \in [expires : Time, due : Time]
      <3>1. 0 \in Time
        BY <1>1, AfterIsTime, TaskAssumption
      <3> QED
        BY <3>1 DEF Unlocked
    <2>3. NodesOK'
      BY <1>1, <2>1, <2>2 DEF NodesOK
    <2> QED
      BY <1>1, <2>1, <2>3 DEF NodesInv
  <1> QED
    BY <1>2, <1>3, <1>4, <1>5, <1>6, <1>7, <1>8, NodesCases
-----------------------------------------------------------------------------
(* Time, leases and requests                                               *)

\* What happens is counted, up to the bound.
LEMMA EventsCounted ==
    ASSUME [Next]_vars
    PROVE  events' = events \/ (events < MaxEvents /\ events' = events + 1)
  <1> DEFINE counted == events' = events \/ (events < MaxEvents /\ events' = events + 1)
  <1> USE DEF NoFault, Fault, Request
  <1>1. ASSUME NEW n \in Nodes, ManagerStep(n) PROVE counted
    <2>1. CASE Scan(n) \/ ScanFails(n)
      BY <2>1 DEF Scan, ScanFails
    <2>2. ASSUME NEW j \in todo[n],
                 Dispatch(n, j) \/ DispatchRefused(n, j) \/ ChannelFull(n, j)
          PROVE  counted
      BY <2>2 DEF Dispatch, DispatchRefused, ChannelFull
    <2> HIDE DEF counted
    <2> QED
      BY <1>1, <2>1, <2>2 DEF ManagerStep
  <1>2. ASSUME NEW n \in Nodes, Receive(n) \/ Unlock(n) \/ Crash(n) PROVE counted
    BY <1>2 DEF Receive, Unlock, Crash
  <1>3. ASSUME NEW n \in Nodes, UpdateTasks(n) PROVE counted
    BY <1>3 DEF UpdateTasks
  <1>4. ASSUME NEW t, NEW kind, AdminRead(t, kind) PROVE counted
    BY <1>4 DEF AdminRead
  <1>5. ASSUME NEW t, NEW due, Schedule(t, due) \/ MoveReport(t, due) PROVE counted
    BY <1>5 DEF Schedule, MoveReport
  <1>6. CASE AdminStep
    BY <1>6 DEF AdminStep, AdminLock, AdminUpdate, AdminDestroy, AdminFails, AdminUnlock
  <1>7. CASE Tick \/ UNCHANGED vars
    BY <1>7 DEF Tick, vars
  <1> HIDE DEF counted
  <1> QED
    BY <1>1, <1>2, <1>3, <1>4, <1>5, <1>6, <1>7 DEF Next, WorkerStep, counted

\* A step is one that takes or leaves a lease, of a request or of the clock, or
\* leaves all of these as they are.
LEMMA RestCases ==
    ASSUME [Next]_vars
    PROVE  \/ UNCHANGED <<now, lease, adm, intruded, overwritten>>
           \/ \E n \in Nodes : \E j \in todo[n] : Dispatch(n, j)
           \/ \E n \in Nodes : Unlock(n)
           \/ \E t \in Tasks, kind \in {"update", "destroy"} : AdminRead(t, kind)
           \/ AdminStep \/ Tick
  <1> DEFINE kept == UNCHANGED <<now, lease, adm, intruded, overwritten>>
  <1> USE DEF history
  <1>1. ASSUME NEW n \in Nodes, Scan(n) \/ ScanFails(n) PROVE kept
    BY <1>1 DEF Scan, ScanFails, Wakes
  <1>2. ASSUME NEW n \in Nodes, NEW j, DispatchRefused(n, j) \/ ChannelFull(n, j)
        PROVE  kept
    BY <1>2 DEF DispatchRefused, ChannelFull
  <1>3. ASSUME NEW n \in Nodes, Receive(n) \/ UpdateTasks(n) \/ Crash(n) PROVE kept
    BY <1>3 DEF Receive, UpdateTasks, Crash
  <1>4. ASSUME NEW t, NEW due, Schedule(t, due) \/ MoveReport(t, due) PROVE kept
    BY <1>4 DEF Schedule, MoveReport
  <1>5. CASE UNCHANGED vars
    BY <1>5 DEF vars
  <1> HIDE DEF kept
  <1> QED
    BY <1>1, <1>2, <1>3, <1>4, <1>5 DEF Next, ManagerStep, WorkerStep, kept

\* Every step keeps the types of these, and what is known of a request's task.
LEMMA StepRest ==
    ASSUME TaskInv, [Next]_vars
    PROVE  /\ now' \in 1..Horizon /\ lease' \in [Tasks -> Time]
           /\ adm' \in [pc : {"none", "lock", "write", "unlock"}, kind : AllRequests,
                        id : Tasks \cup {0}, read : Task, until : Time]
           /\ events' \in 0..MaxEvents
           /\ intruded' \in BOOLEAN /\ overwritten' \in BOOLEAN
           /\ AdmInv'
  <1> DEFINE Adm == [pc : {"none", "lock", "write", "unlock"}, kind : AllRequests,
                     id : Tasks \cup {0}, read : Task, until : Time]
             goal == /\ now' \in 1..Horizon /\ lease' \in [Tasks -> Time] /\ adm' \in Adm
                     /\ intruded' \in BOOLEAN /\ overwritten' \in BOOLEAN
                     /\ AdmInv'
  <1>1. /\ TypeOK /\ StoreOK /\ StoreInv /\ NodesOK /\ AdmInv /\ scheduled \subseteq scheduled'
        /\ now \in 1..Horizon /\ lease \in [Tasks -> Time] /\ adm \in Adm
        /\ intruded \in BOOLEAN /\ overwritten \in BOOLEAN /\ events \in 0..MaxEvents
    BY ScheduledGrows DEF TaskInv, TypeOK
  <1>2. events' \in 0..MaxEvents
    BY <1>1, EventsCounted, TaskAssumption
  <1>3. /\ After(LockExpiry) \in Time /\ 0 \in Time
        /\ NoRequest \in Adm /\ NoRequest.pc = "none" /\ NoRequest.read.status # "failed"
    BY <1>1, AfterIsTime, TaskAssumption DEF NoRequest, Absent, Task, AllRequests
  <1>4. adm' = adm => AdmInv'
    BY <1>1 DEF AdmInv
  <1>5. adm' = NoRequest => AdmInv'
    BY <1>3 DEF AdmInv
  <1> USE DEF history
  <1>6. ASSUME UNCHANGED <<now, lease, adm, intruded, overwritten>> PROVE goal
    BY <1>1, <1>4, <1>6
  <1>7. ASSUME NEW n \in Nodes, NEW j \in todo[n], Dispatch(n, j) PROVE goal
    <2>1. j.id \in Tasks
      BY <1>1 DEF NodesOK, Jobs
    <2>2. /\ UNCHANGED <<now, adm, intruded, overwritten>>
          /\ lease' = [lease EXCEPT ![j.id] = After(LockExpiry)]
      BY <1>7 DEF Dispatch
    <2> QED
      BY <1>1, <1>3, <1>4, <2>1, <2>2
  <1>8. ASSUME NEW n \in Nodes, Unlock(n) PROVE goal
    <2>1. UNCHANGED <<now, adm, overwritten>>
      BY <1>8 DEF Unlock
    <2>2. lease' \in [Tasks -> Time]
      <3>1. \/ lease' = lease
            \/ \E ids : lease' = [t \in Tasks |-> IF t \in ids THEN 0 ELSE lease[t]]
        BY <1>8 DEF Unlock
      <3> QED
        BY <1>1, <1>3, <3>1
    <2>3. intruded' \in BOOLEAN
      BY <1>1, <1>8, Zenon DEF Unlock
    <2> QED
      BY <1>1, <1>4, <2>1, <2>2, <2>3
  <1>9. ASSUME NEW t \in Tasks, NEW kind \in {"update", "destroy"}, AdminRead(t, kind)
        PROVE  goal
    <2>1. UNCHANGED <<now, lease, intruded, overwritten>> /\ task[t] # Absent
      BY <1>9 DEF AdminRead
    <2>2. /\ adm'.pc \in {"lock", "write"} /\ adm'.id = t /\ adm'.read = task[t]
          /\ adm' \in Adm
      BY <1>1, <1>3, <1>9 DEF AdminRead, NoRequest, StoreOK, AllRequests
    <2>3. t \in scheduled /\ (task[t].status = "failed" => task[t].due = Never)
      BY <1>1, <2>1 DEF StoreOK, StoreInv, Stored
    <2>4. AdmInv'
      BY <1>1, <2>1, <2>2, <2>3 DEF AdmInv
    <2> QED
      BY <1>1, <2>1, <2>2, <2>4
  <1>10. ASSUME AdminLock \/ AdminFails PROVE goal
    <2>1. UNCHANGED <<now, intruded, overwritten>>
      BY <1>10 DEF AdminLock, AdminFails
    <2>2. ASSUME adm' = NoRequest, lease' = lease PROVE goal
      BY <1>1, <1>3, <1>5, <2>1, <2>2
    <2>3. ASSUME adm.pc # "none", lease' = [lease EXCEPT ![adm.id] = After(LockExpiry)],
                 adm' = [adm EXCEPT !.pc = "write", !.until = After(LockExpiry)]
          PROVE  goal
      <3>1. lease' \in [Tasks -> Time] /\ adm' \in Adm
            /\ adm'.id = adm.id /\ adm'.read = adm.read
        BY <1>1, <1>3, <2>3
      <3>2. AdmInv'
        BY <1>1, <2>3, <3>1 DEF AdmInv
      <3> QED
        BY <1>1, <2>1, <3>1, <3>2
    <2> QED
      BY <1>10, <2>2, <2>3 DEF AdminLock, AdminFails
  <1>11. ASSUME AdminUpdate \/ AdminDestroy PROVE goal
    <2>1. UNCHANGED <<now, lease, intruded>> /\ adm' = [adm EXCEPT !.pc = "unlock"]
          /\ adm.pc # "none"
      BY <1>11 DEF AdminUpdate, AdminDestroy
    <2>2. overwritten' \in BOOLEAN
      BY <1>1, <1>11, Zenon DEF AdminUpdate, AdminDestroy
    <2>3. adm' \in Adm /\ adm'.id = adm.id /\ adm'.read = adm.read
      BY <1>1, <2>1
    <2>4. AdmInv'
      BY <1>1, <2>1, <2>3 DEF AdmInv
    <2> QED
      BY <1>1, <2>1, <2>2, <2>3, <2>4
  <1>12. ASSUME AdminUnlock PROVE goal
    <2>1. UNCHANGED <<now, overwritten>> /\ lease' = [lease EXCEPT ![adm.id] = 0]
          /\ adm' = NoRequest
      BY <1>12 DEF AdminUnlock
    <2>2. intruded' \in BOOLEAN
      BY <1>1, <1>12, Zenon DEF AdminUnlock
    <2> QED
      BY <1>1, <1>3, <1>5, <2>1, <2>2
  <1>13. ASSUME Tick PROVE goal
    <2>1. /\ UNCHANGED <<adm, intruded, overwritten>> /\ now < Horizon /\ now' = now + 1
          /\ lease' = [t \in Tasks |-> IF lease[t] > now' THEN lease[t] ELSE 0]
      BY <1>13 DEF Tick
    <2>2. now' \in 1..Horizon
      BY <1>1, <2>1, TaskAssumption
    <2>3. lease' \in [Tasks -> Time]
      BY <1>1, <1>3, <2>1
    <2> QED
      BY <1>1, <1>4, <2>1, <2>2, <2>3
  <1> HIDE DEF goal
  <1>14. goal
    BY <1>6, <1>7, <1>8, <1>9, <1>10, <1>11, <1>12, <1>13, RestCases
       DEF AdminStep, goal
  <1> QED
    BY <1>2, <1>14 DEF goal
-----------------------------------------------------------------------------
(* Leases                                                                  *)

\* Of the places of a worker's jobs those after `a` are what was `d` further on.
Shift(n, a, d, m, i) == IF m = n /\ i > a THEN i + d ELSE i

\* The jobs that are left of node n, in its channel and its batch, are those that
\* it had, in their order; those of the other nodes are the same.
Moved(n, a, d) ==
    \A m \in Nodes : \A i \in Places(batch', chan', m) :
        /\ Shift(n, a, d, m, i) \in Places(batch, chan, m)
        /\ JobAt(batch', chan', m, i) = JobAt(batch, chan, m, Shift(n, a, d, m, i))

\* A place is one of x or one of the y after them.
LEMMA PlaceIs ==
    ASSUME NEW x \in Nat, NEW y \in Nat
    PROVE  /\ \A i \in 1..(x + y) : i \in Int /\ i >= 1 /\ (i > x => i - x \in 1..y)
           /\ 1..x \subseteq 1..(x + y)
           /\ \A i \in 1..y : i + x \in 1..(x + y)
  OBVIOUS

\* A place has a job, whose lease ends at a time.
LEMMA JobAtIs ==
    ASSUME TypeOK, NEW n \in Nodes
    PROVE  /\ batch[n] \in Seq(Entries) /\ chan[n] \in Seq(Jobs)
           /\ Len(batch[n]) \in Nat /\ Len(chan[n]) \in Nat
           /\ \A i \in Places(batch, chan, n) : JobAt(batch, chan, n, i) \in Jobs
  <1>1. batch[n] \in Seq(Entries) /\ chan[n] \in Seq(Jobs)
    BY DEF TypeOK, NodesOK, Entries
  <1>2. Len(batch[n]) \in Nat /\ Len(chan[n]) \in Nat
    BY <1>1
  <1>3. ASSUME NEW i \in Places(batch, chan, n) PROVE JobAt(batch, chan, n, i) \in Jobs
    <2>1. i \in Int /\ i >= 1 /\ (i > Len(batch[n]) => i - Len(batch[n]) \in 1..Len(chan[n]))
      BY <1>2, PlaceIs DEF Places
    <2>2. CASE i <= Len(batch[n])
      <3>1. batch[n][i] \in Entries
        BY <1>1, <2>1, <2>2
      <3> QED
        BY <2>2, <3>1 DEF JobAt, Entries
    <2>3. CASE ~(i <= Len(batch[n]))
      <3>1. i - Len(batch[n]) \in 1..Len(chan[n])
        BY <1>2, <2>1, <2>3
      <3>2. chan[n][i - Len(batch[n])] \in Jobs
        BY <1>1, <3>1
      <3> QED
        BY <2>3, <3>2 DEF JobAt
    <2> QED
      BY <2>2, <2>3
  <1> QED
    BY <1>1, <1>2, <1>3

\* A lease in force stays that of its job when no job is added, and the leases of
\* jobs and of the request, where they stay in force, are left as they are.
LEMMA LeaseKept ==
    ASSUME TaskInv, [Next]_vars, NEW n, NEW a \in Nat, NEW d \in Nat, Moved(n, a, d),
           ~intruded, now' >= now,
           \A m \in Nodes : \A i \in Places(batch', chan', m) : \A t \in Tasks :
               Holds(m, Shift(n, a, d, m, i), t) /\ lease[t] > now' =>
                   lease'[t] = lease[t],
           adm'.until > now' =>
               /\ adm'.id = adm.id /\ adm'.until = adm.until
               /\ lease'[adm.id] = lease[adm.id]
    PROVE  LeaseInv'
  <1>1. /\ TypeOK /\ LeaseInv /\ now \in Int /\ now' \in Int /\ lease \in [Tasks -> Time]
        /\ adm.until \in Int
    <2>1. TypeOK /\ LeaseInv
      BY DEF TaskInv
    <2>2. now \in Int /\ lease \in [Tasks -> Time] /\ adm.until \in Time
      BY <2>1 DEF TypeOK
    <2>3. now' \in Int
      BY StepRest
    <2> QED
      BY <2>1, <2>2, <2>3, TaskAssumption DEF Time, Never
  <1> DEFINE s(m, i) == Shift(n, a, d, m, i)
             job(m, i) == JobAt(batch, chan, m, i)
             after(m, i) == JobAt(batch', chan', m, i)
  <1>2. ASSUME NEW m \in Nodes, NEW i \in Places(batch', chan', m)
        PROVE  /\ s(m, i) \in Places(batch, chan, m) /\ after(m, i) = job(m, s(m, i))
               /\ after(m, i).until \in Int /\ i \in Int
    <2>1. s(m, i) \in Places(batch, chan, m) /\ after(m, i) = job(m, s(m, i))
      BY DEF Moved
    <2>2. after(m, i).until \in Time
      BY <1>1, <2>1, JobAtIs DEF Jobs
    <2>3. i \in Int
      BY DEF Places
    <2> HIDE DEF after
    <2> QED
      BY <2>1, <2>2, <2>3, TaskAssumption DEF Time, Never
  <1>3. ASSUME NEW m \in Nodes, NEW i \in Places(batch', chan', m), NEW t \in Tasks,
               after(m, i).id = t, after(m, i).until > now'
        PROVE  Holds(m, s(m, i), t)
    <2>1. after(m, i).until > now
      BY <1>1, <1>2, <1>3
    <2> QED
      BY <1>2, <1>3, <2>1 DEF Holds, InForce
  <1>4. ASSUME NEW m \in Nodes, NEW i \in Places(batch', chan', m), NEW t \in Tasks,
               after(m, i).id = t, after(m, i).until > now'
        PROVE  /\ lease'[t] = after(m, i).until
               /\ \A q \in Nodes : \A k \in Places(batch', chan', q) :
                     after(q, k).id = t /\ after(q, k).until > now' => q = m /\ k = i
               /\ ~(adm'.id = t /\ adm'.until > now')
    <2>1. Holds(m, s(m, i), t) /\ s(m, i) \in Places(batch, chan, m)
      BY <1>2, <1>3, <1>4
    <2>2. lease[t] = job(m, s(m, i)).until /\ ~(adm.id = t /\ InForce(adm.until))
          /\ \A q \in Nodes : \A k \in Places(batch, chan, q) :
                Holds(q, k, t) => q = m /\ k = s(m, i)
      BY <1>1, <2>1 DEF LeaseInv
    <2>3. lease'[t] = after(m, i).until
      BY <1>2, <1>4, <2>1, <2>2
    <2>4. ASSUME NEW q \in Nodes, NEW k \in Places(batch', chan', q),
                 after(q, k).id = t, after(q, k).until > now'
          PROVE  q = m /\ k = i
      <3>1. q = m /\ s(q, k) = s(m, i)
        BY <1>2, <1>3, <2>2, <2>4
      <3>2. k \in Int /\ i \in Int
        BY <1>2
      <3> QED
        BY <3>1, <3>2 DEF Shift
    <2>5. ~(adm'.id = t /\ adm'.until > now')
      <3>1. adm.until > now' => adm.until > now
        BY <1>1
      <3> QED
        BY <2>2, <3>1 DEF InForce
    <2> QED
      BY <2>3, <2>4, <2>5
  <1>5. adm'.until > now' => adm'.id \in Tasks /\ lease'[adm'.id] = adm'.until
    <2>1. adm.until > now' => adm.until > now
      BY <1>1
    <2> QED
      BY <1>1, <2>1 DEF LeaseInv, InForce
  <1> HIDE DEF s, job
  <1> QED
    BY <1>4, <1>5 DEF LeaseInv, Holds, InForce

\* A step is one that moves jobs, or that takes or leaves a lease, or that ends or
\* begins a request, or leaves all of these as they are.
LEMMA LeaseCases ==
    ASSUME [Next]_vars
    PROVE  \/ UNCHANGED <<now, lease, adm, intruded, chan, batch>>
           \/ \E n \in Nodes : \E j \in todo[n] : Dispatch(n, j)
           \/ \E n \in Nodes : Receive(n) \/ UpdateTasks(n) \/ Unlock(n) \/ Crash(n)
           \/ \E t \in Tasks, kind \in {"update", "destroy"} : AdminRead(t, kind)
           \/ AdminStep \/ Tick
  <1> DEFINE kept == UNCHANGED <<now, lease, adm, intruded, chan, batch>>
  <1> USE DEF history, worker
  <1>1. ASSUME NEW n \in Nodes, Scan(n) \/ ScanFails(n) PROVE kept
    BY <1>1 DEF Scan, ScanFails, Wakes
  <1>2. ASSUME NEW n \in Nodes, NEW j, DispatchRefused(n, j) \/ ChannelFull(n, j)
        PROVE  kept
    BY <1>2 DEF DispatchRefused, ChannelFull
  <1>3. ASSUME NEW t, NEW due, Schedule(t, due) \/ MoveReport(t, due) PROVE kept
    BY <1>3 DEF Schedule, MoveReport
  <1>4. CASE UNCHANGED vars
    BY <1>4 DEF vars
  <1> HIDE DEF kept
  <1> QED
    BY <1>1, <1>2, <1>3, <1>4 DEF Next, ManagerStep, WorkerStep, kept

\* Nothing moves when the channels and batches are as they were.
LEMMA MovedNothing ==
    ASSUME UNCHANGED <<chan, batch>>, NEW n
    PROVE  Moved(n, 0, 0)
  <1> SUFFICES ASSUME NEW m \in Nodes, NEW i \in Places(batch', chan', m)
               PROVE  Shift(n, 0, 0, m, i) = i
    BY DEF Moved
  <1>1. i \in Int
    BY DEF Places
  <1> QED
    BY <1>1 DEF Shift

\* A worker's job moves from its channel to its batch, in place, or is passed over.
LEMMA ReceiveMoves ==
    ASSUME TaskInv, NEW n \in Nodes, Receive(n)
    PROVE  \E a, d \in Nat : Moved(n, a, d)
  <1> DEFINE b == batch[n]
             c == chan[n]
             x == Len(b)
             y == Len(c) - 1
  <1>1. /\ b \in Seq(Entries) /\ c \in Seq(Jobs) /\ c # <<>>
        /\ chan' = [chan EXCEPT ![n] = Tail(c)]
        /\ batch \in [Nodes -> Seq(Entries)] /\ chan \in [Nodes -> Seq(Jobs)]
    BY ReceiveIs DEF TaskInv, TypeOK, NodesOK, Entries
  <1>2. \/ batch' = batch
        \/ batch' = [batch EXCEPT ![n] = Append(b, [job |-> Head(c), task |-> task[Head(c).id]])]
    BY <1>1, ReceiveIs
  <1>3. /\ Len(Tail(c)) = y /\ Head(c) = c[1]
        /\ \A i \in 1..y : Tail(c)[i] = c[i + 1]
        /\ x \in Nat /\ y \in Nat /\ Len(c) = y + 1
    <2>1. Len(c) \in Nat /\ Len(c) # 0
      BY <1>1
    <2> QED
      BY <1>1, <2>1, HeadTailProperties
  <1>4. ASSUME NEW m \in Nodes, m # n
        PROVE  batch'[m] = batch[m] /\ chan'[m] = chan[m]
    BY <1>1, <1>2, <1>4
  <1>5. chan'[n] = Tail(c)
    BY <1>1
  <1>6. ASSUME NEW a, NEW d, NEW m \in Nodes, m # n, NEW i \in Places(batch', chan', m)
        PROVE  /\ Shift(n, a, d, m, i) \in Places(batch, chan, m)
               /\ JobAt(batch', chan', m, i) = JobAt(batch, chan, m, Shift(n, a, d, m, i))
    BY <1>4, <1>6 DEF Shift, Places, JobAt
  <1> HIDE DEF x, y
  <1>7. CASE batch' = batch
    <2>1. ASSUME NEW i \in Places(batch', chan', n)
          PROVE  /\ Shift(n, x, 1, n, i) \in Places(batch, chan, n)
                 /\ JobAt(batch', chan', n, i) = JobAt(batch, chan, n, Shift(n, x, 1, n, i))
      <3>1. i \in 1..(x + y)
        BY <1>3, <1>5, <1>7 DEF Places, x
      <3>2. i \in Int /\ i >= 1 /\ i <= x + y
        BY <1>3, <3>1
      <3>3. CASE i <= x
        <4>1. Shift(n, x, 1, n, i) = i
          BY <1>3, <3>2, <3>3 DEF Shift
        <4>2. i \in 1..(x + (y + 1))
          BY <1>3, <3>2
        <4>3. JobAt(batch', chan', n, i) = b[i].job /\ JobAt(batch, chan, n, i) = b[i].job
          BY <1>7, <3>3 DEF JobAt, x
        <4> QED
          BY <1>3, <4>1, <4>2, <4>3 DEF Places, x
      <3>4. CASE ~(i <= x)
        <4>1. Shift(n, x, 1, n, i) = i + 1
          BY <1>3, <3>2, <3>4 DEF Shift
        <4>2. i + 1 \in 1..(x + (y + 1)) /\ ~(i + 1 <= x) /\ i - x \in 1..y
              /\ (i + 1) - x = (i - x) + 1
          BY <1>3, <3>2, <3>4
        <4>3. JobAt(batch', chan', n, i) = Tail(c)[i - x]
          BY <1>5, <1>7, <3>4 DEF JobAt, x
        <4>4. JobAt(batch, chan, n, i + 1) = c[(i + 1) - x]
          BY <4>2 DEF JobAt, x
        <4>5. Tail(c)[i - x] = c[(i - x) + 1]
          BY <1>3, <4>2
        <4> QED
          BY <1>3, <4>1, <4>2, <4>3, <4>4, <4>5 DEF Places, x
      <3> QED
        BY <3>3, <3>4
    <2>2. Moved(n, x, 1)
      BY <1>6, <2>1 DEF Moved
    <2> QED
      BY <1>3, <2>2
  <1>8. CASE batch' = [batch EXCEPT ![n] = Append(b, [job |-> Head(c), task |-> task[Head(c).id]])]
    <2> DEFINE entry == [job |-> Head(c), task |-> task[Head(c).id]]
    <2>1. entry.job = c[1]
      BY <1>3
    <2>2. /\ batch'[n] = Append(b, entry) /\ Len(batch'[n]) = x + 1
          /\ batch'[n][x + 1] = entry
          /\ \A i \in 1..x : batch'[n][i] = b[i]
      <3>1. batch'[n] = Append(b, entry)
        BY <1>1, <1>8
      <3> HIDE DEF entry
      <3>2. Len(Append(b, entry)) = Len(b) + 1 /\ Append(b, entry)[Len(b) + 1] = entry
            /\ \A i \in 1..Len(b) : Append(b, entry)[i] = b[i]
        <4>1. entry \in Entries
          <5>1. StoreOK /\ Head(c) \in Jobs
            BY <1>1, HeadTailProperties DEF TaskInv, TypeOK
          <5> QED
            BY <5>1 DEF entry, Entries, Jobs, StoreOK
        <4> QED
          BY <1>1, <4>1, AppendProperties
      <3> QED
        BY <3>1, <3>2 DEF x
    <2> HIDE DEF entry
    <2>3. ASSUME NEW i \in Places(batch', chan', n)
          PROVE  /\ Shift(n, 0, 0, n, i) \in Places(batch, chan, n)
                 /\ JobAt(batch', chan', n, i) = JobAt(batch, chan, n, Shift(n, 0, 0, n, i))
      <3>1. i \in 1..((x + 1) + y)
        BY <1>3, <1>5, <2>2 DEF Places
      <3>2. i \in Int /\ i >= 1 /\ i <= x + 1 + y
        BY <1>3, <3>1
      <3>3. Shift(n, 0, 0, n, i) = i
        BY <3>2 DEF Shift
      <3>4. i \in 1..(x + (y + 1))
        BY <1>3, <3>2
      <3>5. CASE i <= x
        <4>1. i <= x + 1 /\ i \in 1..x
          BY <1>3, <3>2, <3>5
        <4>2. JobAt(batch', chan', n, i) = b[i].job
          BY <2>2, <4>1 DEF JobAt
        <4>3. JobAt(batch, chan, n, i) = b[i].job
          BY <3>5 DEF JobAt, x
        <4> QED
          BY <1>3, <3>3, <3>4, <4>2, <4>3 DEF Places, x
      <3>6. CASE i = x + 1
        <4>1. ~(i <= x) /\ i <= x + 1 /\ i - x = 1
          BY <1>3, <3>6
        <4>2. JobAt(batch', chan', n, i) = c[1]
          BY <2>1, <2>2, <3>6, <4>1 DEF JobAt
        <4>3. JobAt(batch, chan, n, i) = c[1]
          BY <4>1 DEF JobAt, x
        <4> QED
          BY <1>3, <3>3, <3>4, <4>2, <4>3 DEF Places, x
      <3>7. CASE i > x + 1
        <4>1. ~(i <= x) /\ ~(i <= x + 1) /\ i - (x + 1) \in 1..y
              /\ (i - (x + 1)) + 1 = i - x
          BY <1>3, <3>2, <3>7
        <4>2. JobAt(batch', chan', n, i) = Tail(c)[i - (x + 1)]
          BY <1>5, <2>2, <4>1 DEF JobAt
        <4>3. Tail(c)[i - (x + 1)] = c[(i - (x + 1)) + 1]
          BY <1>3, <4>1
        <4>4. JobAt(batch, chan, n, i) = c[i - x]
          BY <4>1 DEF JobAt, x
        <4> QED
          BY <1>3, <3>3, <3>4, <4>1, <4>2, <4>3, <4>4 DEF Places, x
      <3> QED
        BY <1>3, <3>2, <3>5, <3>6, <3>7
    <2>4. Moved(n, 0, 0)
      BY <1>6, <2>3 DEF Moved
    <2> QED
      BY <2>4
  <1> QED
    BY <1>2, <1>7, <1>8

\* A lease that a node takes is that of the job it puts into its channel.
LEMMA DispatchLease ==
    ASSUME TaskInv, [Next]_vars, ~intruded, NEW n \in Nodes, NEW j \in todo[n],
           Dispatch(n, j)
    PROVE  LeaseInv'
  <1> DEFINE b == batch[n]
             c == chan[n]
             until == After(LockExpiry)
             new == Job(j, until)
             last == Len(b) + Len(c) + 1
             job(m, i) == JobAt(batch, chan, m, i)
             after(m, i) == JobAt(batch', chan', m, i)
  <1>1. /\ TypeOK /\ LeaseInv /\ now \in Int /\ lease \in [Tasks -> Time]
        /\ b \in Seq(Entries) /\ c \in Seq(Jobs) /\ Len(b) \in Nat /\ Len(c) \in Nat
        /\ chan \in [Nodes -> Seq(Jobs)] /\ j.id \in Tasks /\ j \in Jobs
    <2>1. TypeOK /\ LeaseInv /\ NodesOK
      BY DEF TaskInv, TypeOK
    <2>2. j \in Jobs /\ j.id \in Tasks
      BY <2>1 DEF NodesOK, Jobs
    <2>3. b \in Seq(Entries) /\ c \in Seq(Jobs) /\ Len(b) \in Nat /\ Len(c) \in Nat
      BY <2>1, JobAtIs
    <2>4. now \in Int /\ lease \in [Tasks -> Time]
      BY <2>1 DEF TypeOK
    <2>5. chan \in [Nodes -> Seq(Jobs)]
      BY <2>1 DEF NodesOK
    <2> QED
      BY <2>1, <2>2, <2>3, <2>4, <2>5
  <1>2. new \in Jobs /\ new.id = j.id /\ new.until = until
    BY <1>1, AfterIsTime, TaskAssumption DEF Job, Jobs
  <1>3. /\ UNCHANGED <<now, batch, adm>> /\ ~(lease[j.id] > now)
        /\ lease' = [lease EXCEPT ![j.id] = until]
        /\ chan' = [chan EXCEPT ![n] = Append(c, new)]
    BY DEF Dispatch, worker, InForce
  <1> HIDE DEF until, new
  <1>4. /\ chan'[n] = Append(c, new) /\ Len(Append(c, new)) = Len(c) + 1
        /\ Append(c, new)[Len(c) + 1] = new
        /\ \A i \in 1..Len(c) : Append(c, new)[i] = c[i]
        /\ \A m \in Nodes : m # n => chan'[m] = chan[m]
    BY <1>1, <1>2, <1>3, AppendProperties
  <1>5. ASSUME NEW m \in Nodes, NEW i \in Places(batch', chan', m)
        PROVE  \/ i \in Places(batch, chan, m) /\ after(m, i) = job(m, i)
               \/ m = n /\ i = last /\ after(m, i) = new
    <2>1. CASE m # n
      <3>1. batch'[m] = batch[m] /\ chan'[m] = chan[m]
        BY <1>3, <1>4, <2>1
      <3>2. i \in Places(batch, chan, m) /\ after(m, i) = job(m, i)
        BY <3>1 DEF Places, JobAt
      <3> QED
        BY <3>2
    <2>2. CASE m = n
      <3> DEFINE x == Len(b)
                 y == Len(c)
      <3>1. i \in 1..(x + (y + 1)) /\ x \in Nat /\ y \in Nat
        BY <1>1, <1>3, <1>4, <2>2 DEF Places
      <3> HIDE DEF x, y
      <3>2. i \in Int /\ i >= 1 /\ i <= x + y + 1
        BY <3>1
      <3>3. CASE i <= x
        <4>1. i \in 1..(x + y)
          BY <3>1, <3>2, <3>3
        <4> QED
          BY <1>3, <2>2, <3>3, <4>1 DEF Places, JobAt, x, y
      <3>4. CASE i > x /\ i <= x + y
        <4>1. i \in 1..(x + y) /\ i - x \in 1..y /\ ~(i <= x)
          BY <3>1, <3>2, <3>4
        <4>2. Append(c, new)[i - x] = c[i - x]
          BY <1>4, <4>1 DEF y
        <4> QED
          BY <1>3, <1>4, <2>2, <4>1, <4>2 DEF Places, JobAt, x, y
      <3>5. CASE i = x + y + 1
        <4>1. i - x = y + 1 /\ ~(i <= x)
          BY <3>1, <3>5
        <4>2. JobAt(batch', chan', n, i) = Append(c, new)[i - x]
          BY <1>3, <1>4, <4>1 DEF JobAt, x
        <4> QED
          BY <1>4, <2>2, <3>5, <4>1, <4>2 DEF x, y
      <3>6. i <= x \/ (i > x /\ i <= x + y) \/ i = x + y + 1
        BY <3>1, <3>2
      <3> HIDE DEF last, job, after
      <3> QED
        BY <3>3, <3>4, <3>5, <3>6
    <2> QED
      BY <2>1, <2>2
  <1>6. ASSUME NEW m \in Nodes, NEW i \in Places(batch, chan, m), NEW t \in Tasks, Holds(m, i, t)
        PROVE  t # j.id
    <2>1. lease[t] = job(m, i).until /\ job(m, i).until > now
      BY <1>1, <1>6 DEF LeaseInv, Holds, InForce
    <2> QED
      BY <1>3, <2>1
  <1>7. adm.until > now => adm.id # j.id
    BY <1>1, <1>3 DEF LeaseInv, InForce
  <1> HIDE DEF b, c, last
  <1>8. ASSUME NEW m \in Nodes, NEW i \in Places(batch', chan', m), NEW t \in Tasks,
               after(m, i).id = t, after(m, i).until > now
        PROVE  /\ lease'[t] = after(m, i).until
               /\ \A q \in Nodes : \A k \in Places(batch', chan', q) :
                     after(q, k).id = t /\ after(q, k).until > now => q = m /\ k = i
               /\ ~(adm.id = t /\ adm.until > now)
    <2>1. CASE m = n /\ i = last /\ after(m, i) = new
      <3>1. t = j.id /\ lease'[t] = until
        BY <1>1, <1>2, <1>3, <1>8, <2>1
      <3>2. ASSUME NEW q \in Nodes, NEW k \in Places(batch', chan', q),
                   after(q, k).id = t, after(q, k).until > now
            PROVE  q = m /\ k = i
        <4>1. ~(k \in Places(batch, chan, q) /\ after(q, k) = job(q, k))
          BY <1>6, <3>1, <3>2 DEF Holds, InForce
        <4> QED
          BY <1>5, <2>1, <4>1
      <3> QED
        BY <1>2, <1>7, <2>1, <3>1, <3>2
    <2>2. CASE i \in Places(batch, chan, m) /\ after(m, i) = job(m, i)
      <3>1. Holds(m, i, t)
        BY <1>8, <2>2 DEF Holds, InForce
      <3>2. t # j.id
        BY <1>6, <2>2, <3>1
      <3>3. /\ lease[t] = job(m, i).until /\ ~(adm.id = t /\ InForce(adm.until))
            /\ \A q \in Nodes : \A k \in Places(batch, chan, q) :
                  Holds(q, k, t) => q = m /\ k = i
        BY <1>1, <2>2, <3>1 DEF LeaseInv
      <3>4. ASSUME NEW q \in Nodes, NEW k \in Places(batch', chan', q),
                   after(q, k).id = t, after(q, k).until > now
            PROVE  q = m /\ k = i
        <4>1. after(q, k) # new
          BY <1>2, <3>2, <3>4
        <4>2. k \in Places(batch, chan, q) /\ Holds(q, k, t)
          BY <1>5, <3>4, <4>1 DEF Holds, InForce
        <4> QED
          BY <3>3, <4>2
      <3>5. lease'[t] = after(m, i).until
        BY <1>1, <1>3, <2>2, <3>2, <3>3
      <3> QED
        BY <3>3, <3>4, <3>5 DEF InForce
    <2> QED
      BY <1>5, <2>1, <2>2
  <1>9. adm.until > now => adm.id \in Tasks /\ lease'[adm.id] = adm.until
    BY <1>1, <1>3, <1>7 DEF LeaseInv, InForce
  <1>10. \A m \in Nodes : \A i \in Places(batch', chan', m) : \A t \in Tasks :
            after(m, i).id = t /\ after(m, i).until > now' =>
               /\ lease'[t] = after(m, i).until
               /\ \A q \in Nodes : \A k \in Places(batch', chan', q) :
                     after(q, k).id = t /\ after(q, k).until > now' => q = m /\ k = i
               /\ ~(adm'.id = t /\ adm'.until > now')
    <2>1. now' = now /\ adm' = adm
      BY <1>3
    <2> HIDE DEF after, job
    <2>2. SUFFICES ASSUME NEW m \in Nodes, NEW i \in Places(batch', chan', m), NEW t \in Tasks,
                          after(m, i).id = t, after(m, i).until > now'
                   PROVE  /\ lease'[t] = after(m, i).until
                          /\ \A q \in Nodes : \A k \in Places(batch', chan', q) :
                                after(q, k).id = t /\ after(q, k).until > now'
                                    => q = m /\ k = i
                          /\ ~(adm'.id = t /\ adm'.until > now')
      OBVIOUS
    <2>3. after(m, i).until > now
      BY <2>1, <2>2
    <2> QED
      BY <1>8, <2>1, <2>2, <2>3
  <1>11. adm'.until > now' => adm'.id \in Tasks /\ lease'[adm'.id] = adm'.until
    BY <1>3, <1>9
  <1> HIDE DEF job
  <1> QED
    BY <1>10, <1>11 DEF LeaseInv, Holds, InForce

\* A worker that ends removes the leases of its batch, which no other party has
\* while nobody is intruded on.
LEMMA UnlockLease ==
    ASSUME TaskInv, [Next]_vars, ~intruded, ~intruded', NEW n \in Nodes, Unlock(n)
    PROVE  LeaseInv'
  <1> DEFINE b == batch[n]
             x == Len(b)
             y == Len(chan[n])
             jobs == {b[i].job : i \in DOMAIN b}
             ids == {j.id : j \in jobs}
  <1>1. /\ TypeOK /\ LeaseInv /\ now \in Int /\ lease \in [Tasks -> Time]
        /\ b \in Seq(Entries) /\ x \in Nat /\ y \in Nat /\ DOMAIN b = 1..x
        /\ batch \in [Nodes -> Seq(Entries)]
    <2>1. TypeOK /\ LeaseInv /\ NodesOK
      BY DEF TaskInv, TypeOK
    <2>2. b \in Seq(Entries) /\ x \in Nat /\ y \in Nat
      BY <2>1, JobAtIs
    <2>3. DOMAIN b = 1..x
      BY <2>2
    <2>4. now \in Int /\ lease \in [Tasks -> Time]
      BY <2>1 DEF TypeOK
    <2>5. batch \in [Nodes -> Seq(Entries)]
      BY <2>1 DEF NodesOK, Entries
    <2> QED
      BY <2>1, <2>2, <2>3, <2>4, <2>5
  <1>2. /\ UNCHANGED <<now, adm, chan>> /\ batch' = [batch EXCEPT ![n] = <<>>]
        /\ \/ lease' = lease
           \/ /\ lease' = [t \in Tasks |-> IF t \in ids THEN 0 ELSE lease[t]]
              /\ \A j \in jobs : ~Removes(j.id, j.until)
    BY DEF Unlock
  <1>3. Moved(n, 0, x)
    <2>1. ASSUME NEW m \in Nodes, NEW i \in Places(batch', chan', m)
          PROVE  /\ Shift(n, 0, x, m, i) \in Places(batch, chan, m)
                 /\ JobAt(batch', chan', m, i) = JobAt(batch, chan, m, Shift(n, 0, x, m, i))
      <3>1. CASE m # n
        <4>1. batch'[m] = batch[m] /\ chan'[m] = chan[m]
          BY <1>1, <1>2, <3>1
        <4> QED
          BY <3>1, <4>1 DEF Shift, Places, JobAt
      <3>2. CASE m = n
        <4>1. batch'[n] = <<>> /\ chan'[n] = chan[n] /\ Len(<<>>) = 0
          BY <1>1, <1>2
        <4> HIDE DEF x, y
        <4>2. i \in 1..(0 + y)
          BY <3>2, <4>1 DEF Places, y
        <4>3. i \in Int /\ i >= 1 /\ i <= y
          BY <1>1, <4>2
        <4>4. Shift(n, 0, x, n, i) = i + x
          BY <4>3 DEF Shift
        <4>5. i + x \in 1..(x + y) /\ ~(i + x <= x) /\ (i + x) - x = i /\ ~(i <= 0) /\ i - 0 = i
          BY <1>1, <4>3
        <4>6. JobAt(batch', chan', n, i) = chan[n][i]
          BY <4>1, <4>5 DEF JobAt
        <4>7. JobAt(batch, chan, n, i + x) = chan[n][i]
          BY <4>5 DEF JobAt, x
        <4> QED
          BY <3>2, <4>4, <4>5, <4>6, <4>7 DEF Places, x, y
      <3> QED
        BY <3>1, <3>2
    <2> QED
      BY <2>1 DEF Moved
  <1>4. CASE lease' = lease
    <2>1. adm' = adm /\ now' >= now
      BY <1>1, <1>2
    <2>2. adm'.until > now' => lease'[adm.id] = lease[adm.id]
      BY <1>4
    <2> HIDE DEF x
    <2> QED
      BY <1>1, <1>3, <1>4, <2>1, <2>2, LeaseKept
  <1>5. CASE /\ lease' = [t \in Tasks |-> IF t \in ids THEN 0 ELSE lease[t]]
             /\ \A j \in jobs : ~Removes(j.id, j.until)
    <2>1. ASSUME NEW t \in ids, lease[t] > now
          PROVE  \E k \in Places(batch, chan, n) : k \in 1..x /\ Holds(n, k, t)
      <3>1. PICK k \in DOMAIN b : b[k].job.id = t
        OBVIOUS
      <3>2. b[k].job \in jobs
        OBVIOUS
      <3>3. lease[t] = b[k].job.until
        BY <1>5, <2>1, <3>1, <3>2 DEF Removes, InForce
      <3> HIDE DEF x, y
      <3>4. k \in 1..x /\ k <= x /\ k \in 1..(x + y)
        BY <1>1
      <3>5. JobAt(batch, chan, n, k) = b[k].job
        <4>1. k <= Len(batch[n])
          BY <3>4, Zenon DEF x
        <4> QED
          BY <4>1, Zenon DEF JobAt
      <3>6. k \in Places(batch, chan, n)
        BY <3>4, Zenon DEF Places, x, y
      <3>7. Holds(n, k, t)
        <4>1. b[k].job.id = t /\ b[k].job.until > now
          BY <2>1, <3>1, <3>3
        <4> QED
          BY <3>5, <4>1 DEF Holds, InForce
      <3> QED
        BY <3>4, <3>6, <3>7, Zenon
    <2> HIDE DEF ids, jobs
    <2>2. ASSUME NEW m \in Nodes, NEW i \in Places(batch', chan', m), NEW t \in Tasks,
                 Holds(m, Shift(n, 0, x, m, i), t), lease[t] > now'
          PROVE  lease'[t] = lease[t]
      <3> DEFINE s == Shift(n, 0, x, m, i)
      <3>1. CASE t \in ids
        <4>1. PICK k \in Places(batch, chan, n) : k \in 1..x /\ Holds(n, k, t)
          BY <1>2, <2>1, <2>2, <3>1
        <4>2. s \in Places(batch, chan, m)
          BY <1>3 DEF Moved
        <4>3. m = n /\ s = k
          <5> HIDE DEF s
          <5>1. Holds(m, s, t)
            BY <2>2 DEF s
          <5> QED
            BY <1>1, <4>1, <4>2, <5>1 DEF LeaseInv
        <4>4. i \in Int /\ i >= 1
          <5>1. batch'[n] = <<>> /\ chan'[n] = chan[n] /\ Len(<<>>) = 0
            BY <1>1, <1>2
          <5>2. i \in 1..(0 + y)
            BY <4>3, <5>1 DEF Places
          <5> HIDE DEF y
          <5> QED
            BY <1>1, <5>2
        <4>5. s = i + x /\ k \in Int /\ k <= x
          BY <1>1, <4>1, <4>3, <4>4 DEF Shift
        <4> HIDE DEF s, x
        <4> QED
          BY <1>1, <4>3, <4>4, <4>5
      <3>2. CASE t \notin ids
        BY <1>5, <3>2
      <3> QED
        BY <3>1, <3>2
    <2>3. ASSUME adm.until > now PROVE lease'[adm.id] = lease[adm.id]
      <3>1. adm.id \in Tasks /\ lease[adm.id] = adm.until
        BY <1>1, <2>3 DEF LeaseInv, InForce
      <3>2. CASE adm.id \in ids
        <4>1. PICK k \in Places(batch, chan, n) : Holds(n, k, adm.id)
          BY <2>1, <2>3, <3>1, <3>2
        <4> QED
          BY <1>1, <2>3, <3>1, <4>1 DEF LeaseInv, InForce
      <3>3. CASE adm.id \notin ids
        BY <1>5, <3>1, <3>3
      <3> QED
        BY <3>2, <3>3
    <2>4. now' = now /\ adm' = adm
      BY <1>2
    <2>5. now' >= now
      BY <1>1, <2>4
    <2>6. adm'.until > now' =>
               /\ adm'.id = adm.id /\ adm'.until = adm.until
               /\ lease'[adm.id] = lease[adm.id]
      BY <2>3, <2>4
    <2> HIDE DEF x
    <2> QED
      BY <1>1, <1>3, <2>2, <2>5, <2>6, LeaseKept
  <1> QED
    BY <1>2, <1>4, <1>5

\* The jobs of a batch stay in their places when it has run, and those of a node
\* that stops are gone.
LEMMA RunMoves ==
    ASSUME TaskInv, NEW n \in Nodes, UpdateTasks(n) \/ Crash(n)
    PROVE  Moved(n, 0, 0)
  <1>1. TypeOK /\ batch \in [Nodes -> Seq(Entries)] /\ chan \in [Nodes -> Seq(Jobs)]
        /\ Len(batch[n]) \in Nat /\ Len(chan[n]) \in Nat
    BY JobAtIs DEF TaskInv, TypeOK, NodesOK, Entries
  <1>2. ASSUME NEW m \in Nodes, NEW i \in Places(batch', chan', m),
               batch'[m] = batch[m], chan'[m] = chan[m]
        PROVE  /\ Shift(n, 0, 0, m, i) \in Places(batch, chan, m)
               /\ JobAt(batch', chan', m, i) = JobAt(batch, chan, m, Shift(n, 0, 0, m, i))
    <2>1. i \in Int
      BY DEF Places
    <2>2. Shift(n, 0, 0, m, i) = i
      BY <2>1 DEF Shift
    <2> QED
      BY <1>2, <2>2 DEF Places, JobAt
  <1>3. CASE UpdateTasks(n)
    <2> DEFINE b == [i \in DOMAIN batch[n] |-> [batch[n][i] EXCEPT !.task = Absent]]
    <2>1. chan' = chan /\ batch' = [batch EXCEPT ![n] = b]
      BY <1>3 DEF UpdateTasks
    <2>2. /\ b \in Seq(Entries) /\ DOMAIN b = DOMAIN batch[n] /\ Len(b) = Len(batch[n])
          /\ \A i \in DOMAIN b : b[i].job = batch[n][i].job
      BY <1>1, UpdatedBatch
    <2> HIDE DEF b
    <2>3. batch'[n] = b /\ \A m \in Nodes : m # n => batch'[m] = batch[m]
      BY <1>1, <2>1
    <2>4. ASSUME NEW i \in Places(batch', chan', n)
          PROVE  /\ Shift(n, 0, 0, n, i) \in Places(batch, chan, n)
                 /\ JobAt(batch', chan', n, i) = JobAt(batch, chan, n, Shift(n, 0, 0, n, i))
      <3>1. i \in Places(batch, chan, n)
        BY <2>1, <2>2, <2>3 DEF Places
      <3>2. i \in Int /\ i >= 1
        BY <1>1, <3>1, PlaceIs DEF Places
      <3>3. Shift(n, 0, 0, n, i) = i
        BY <3>2 DEF Shift
      <3>4. CASE i <= Len(batch[n])
        <4>1. i \in DOMAIN b
          BY <1>1, <2>2, <3>2, <3>4
        <4> QED
          BY <2>2, <2>3, <3>1, <3>3, <3>4, <4>1 DEF JobAt
      <3>5. CASE ~(i <= Len(batch[n]))
        BY <2>1, <2>2, <2>3, <3>1, <3>3, <3>5 DEF JobAt
      <3> QED
        BY <3>4, <3>5
    <2> QED
      BY <1>2, <2>1, <2>3, <2>4 DEF Moved
  <1>4. CASE Crash(n)
    <2>1. batch' = [batch EXCEPT ![n] = <<>>] /\ chan' = [chan EXCEPT ![n] = <<>>]
      BY <1>4 DEF Crash
    <2>2. /\ batch'[n] = <<>> /\ chan'[n] = <<>> /\ Len(<<>>) = 0
          /\ \A m \in Nodes : m # n => batch'[m] = batch[m] /\ chan'[m] = chan[m]
      BY <1>1, <2>1
    <2>3. Places(batch', chan', n) = {}
      BY <2>2 DEF Places
    <2> QED
      BY <1>2, <2>2, <2>3 DEF Moved
  <1> QED
    BY <1>3, <1>4

\* An administrator's request takes the lease of its task when nobody has it, and
\* leaves it as it came.
LEMMA AdminLease ==
    ASSUME TaskInv, [Next]_vars, ~intruded, ~intruded', AdminLock \/ AdminUnlock
    PROVE  LeaseInv'
  <1>1. /\ TypeOK /\ LeaseInv /\ now \in Int /\ now >= 1 /\ lease \in [Tasks -> Time]
        /\ adm \in [pc : {"none", "lock", "write", "unlock"}, kind : AllRequests,
                    id : Tasks \cup {0}, read : Task, until : Time]
    BY DEF TaskInv, TypeOK
  <1>2. UNCHANGED <<now, chan, batch>> /\ now' >= now
    BY <1>1 DEF AdminLock, AdminUnlock, worker
  <1>3. Moved(0, 0, 0)
    BY <1>2, MovedNothing
  <1>4. ~(NoRequest.until > now')
    BY <1>1, <1>2 DEF NoRequest
  <1>5. CASE adm' = NoRequest /\ lease' = lease
    BY <1>2, <1>3, <1>4, <1>5, LeaseKept
  <1>6. ASSUME ~InForce(lease[adm.id]), NEW m \in Nodes,
               NEW i \in Places(batch, chan, m), NEW t \in Tasks, Holds(m, i, t)
        PROVE  t # adm.id
    BY <1>1, <1>6 DEF LeaseInv, Holds, InForce
  <1>7. CASE /\ ~InForce(lease[adm.id]) /\ adm.pc = "lock"
             /\ lease' = [lease EXCEPT ![adm.id] = After(LockExpiry)]
             /\ adm' = [adm EXCEPT !.pc = "write", !.until = After(LockExpiry)]
    <2> DEFINE until == After(LockExpiry)
    <2>1. adm'.id = adm.id /\ adm'.until = until
      BY <1>1, <1>7
    <2>2. adm.id \in Tasks
      BY <1>7 DEF TaskInv, TypeOK, StoreOK, AdmInv
    <2>3. lease'[adm.id] = until /\ \A t \in Tasks : t # adm.id => lease'[t] = lease[t]
      BY <1>1, <1>7, <2>2
    <2> HIDE DEF until
    <2>4. ASSUME NEW m \in Nodes, NEW i \in Places(batch, chan, m), NEW t \in Tasks,
                 Holds(m, i, t)
          PROVE  /\ lease'[t] = JobAt(batch, chan, m, i).until
                 /\ \A q \in Nodes : \A k \in Places(batch, chan, q) :
                       Holds(q, k, t) => q = m /\ k = i
                 /\ adm'.id # t
      BY <1>1, <1>6, <1>7, <2>1, <2>3, <2>4 DEF LeaseInv
    <2>5. batch' = batch /\ chan' = chan /\ now' = now
      BY <1>2
    <2> QED
      BY <2>1, <2>2, <2>3, <2>4, <2>5 DEF LeaseInv, Holds, InForce
  <1>8. CASE AdminUnlock
    <2>1. /\ lease' = [lease EXCEPT ![adm.id] = 0] /\ adm' = NoRequest
          /\ ~Removes(adm.id, adm.until)
      BY <1>8 DEF AdminUnlock
    <2>2. ASSUME NEW m \in Nodes, NEW i \in Places(batch', chan', m), NEW t \in Tasks,
                 Holds(m, Shift(0, 0, 0, m, i), t), lease[t] > now'
          PROVE  lease'[t] = lease[t]
      <3> DEFINE k == Shift(0, 0, 0, m, i)
      <3>1. k \in Places(batch, chan, m)
        BY <1>3 DEF Moved
      <3> HIDE DEF k
      <3>2. ~(adm.id = t /\ InForce(adm.until))
        BY <1>1, <2>2, <3>1 DEF LeaseInv, k
      <3>3. lease[t] > now
        BY <1>2, <2>2
      <3>4. adm.id # t
        BY <2>1, <3>2, <3>3 DEF Removes, InForce
      <3> QED
        BY <1>1, <2>1, <3>4
    <2> QED
      BY <1>2, <1>3, <1>4, <2>1, <2>2, LeaseKept
  <1> QED
    BY <1>5, <1>7, <1>8 DEF AdminLock

\* Every step keeps the leases with their jobs and requests.
LEMMA StepLease ==
    ASSUME TaskInv, [Next]_vars
    PROVE  LeaseInv'
  <1>1. CASE intruded'
    BY <1>1 DEF LeaseInv
  <1>2. CASE ~intruded'
    <2>1. ~intruded
      <3>1. ASSUME NEW n \in Nodes, Unlock(n), intruded PROVE intruded'
        BY <3>1, Zenon DEF Unlock
      <3>2. ASSUME AdminStep, intruded PROVE intruded'
        BY <3>2, Zenon
           DEF AdminStep, AdminLock, AdminUpdate, AdminDestroy, AdminFails, AdminUnlock,
               history
      <3>3. ASSUME NEW n, NEW j, Dispatch(n, j) PROVE intruded' = intruded
        BY <3>3 DEF Dispatch, history
      <3>4. ASSUME NEW t, NEW kind, AdminRead(t, kind) PROVE intruded' = intruded
        BY <3>4 DEF AdminRead, history
      <3>5. ASSUME Tick PROVE intruded' = intruded
        BY <3>5 DEF Tick, history
      <3> QED
        BY <1>2, <3>1, <3>2, <3>3, <3>4, <3>5, RestCases
    <2>2. /\ TypeOK /\ now \in Int /\ now >= 1 /\ lease \in [Tasks -> Time]
          /\ adm \in [pc : {"none", "lock", "write", "unlock"}, kind : AllRequests,
                      id : Tasks \cup {0}, read : Task, until : Time]
      BY DEF TaskInv, TypeOK
    <2>3. ASSUME NEW n, NEW a \in Nat, NEW d \in Nat, Moved(n, a, d), now' = now,
                 lease' = lease,
                 (adm'.id = adm.id /\ adm'.until = adm.until) \/ adm'.until = 0
          PROVE  LeaseInv'
      <3>1. now' >= now /\ ~(0 > now')
        BY <2>2, <2>3
      <3>2. adm'.until > now' =>
               /\ adm'.id = adm.id /\ adm'.until = adm.until
               /\ lease'[adm.id] = lease[adm.id]
        BY <2>3, <3>1
      <3> QED
        BY <2>1, <2>3, <3>1, <3>2, LeaseKept
    <2>4. CASE UNCHANGED <<now, lease, adm, intruded, chan, batch>>
      <3>1. Moved(0, 0, 0)
        BY <2>4, MovedNothing
      <3> QED
        BY <2>3, <2>4, <3>1
    <2>5. ASSUME NEW n \in Nodes, NEW j \in todo[n], Dispatch(n, j) PROVE LeaseInv'
      BY <2>1, <2>5, DispatchLease
    <2>6. ASSUME NEW n \in Nodes, Receive(n) \/ UpdateTasks(n) \/ Crash(n) PROVE LeaseInv'
      <3>1. UNCHANGED <<now, lease, adm>>
        BY <2>6 DEF Receive, UpdateTasks, Crash
      <3>2. \E a, d \in Nat : Moved(n, a, d)
        BY <2>6, ReceiveMoves, RunMoves
      <3> QED
        BY <2>3, <3>1, <3>2
    <2>7. ASSUME NEW n \in Nodes, Unlock(n) PROVE LeaseInv'
      BY <1>2, <2>1, <2>7, UnlockLease
    <2>8. ASSUME NEW t \in Tasks, NEW kind \in {"update", "destroy"}, AdminRead(t, kind)
          PROVE  LeaseInv'
      <3>1. UNCHANGED <<now, lease, chan, batch>> /\ adm'.until = 0
        BY <2>8 DEF AdminRead, worker, NoRequest
      <3> QED
        BY <2>3, <3>1, MovedNothing
    <2>9. CASE AdminLock \/ AdminUnlock
      BY <1>2, <2>1, <2>9, AdminLease
    <2>10. CASE AdminUpdate \/ AdminDestroy \/ AdminFails
      <3>1. UNCHANGED <<now, lease, chan, batch>>
        BY <2>10 DEF AdminUpdate, AdminDestroy, AdminFails, worker
      <3>2. (adm'.id = adm.id /\ adm'.until = adm.until) \/ adm'.until = 0
        <4>1. adm' = [adm EXCEPT !.pc = "unlock"] \/ adm' = NoRequest
          BY <2>10 DEF AdminUpdate, AdminDestroy, AdminFails
        <4>2. NoRequest.until = 0
          BY DEF NoRequest
        <4> QED
          BY <2>2, <4>1, <4>2
      <3> QED
        BY <2>3, <3>1, <3>2, MovedNothing
    <2>11. CASE Tick
      <3>1. /\ UNCHANGED <<adm, chan, batch>> /\ now' = now + 1
            /\ lease' = [t \in Tasks |-> IF lease[t] > now' THEN lease[t] ELSE 0]
        BY <2>11 DEF Tick, worker
      <3>2. now' >= now /\ Moved(0, 0, 0)
        BY <2>2, <3>1, MovedNothing
      <3>3. ASSUME adm'.until > now' PROVE lease'[adm.id] = lease[adm.id]
        <4>1. adm.until > now
          <5>1. adm.until \in Int
            BY <2>2, TaskAssumption DEF Time, Never
          <5> QED
            BY <2>2, <3>1, <3>3, <5>1
        <4>2. adm.id \in Tasks /\ lease[adm.id] = adm.until
          BY <2>1, <4>1 DEF TaskInv, LeaseInv, InForce
        <4> QED
          BY <3>1, <3>3, <4>2
      <3>4. \A t \in Tasks : lease[t] > now' => lease'[t] = lease[t]
        BY <3>1
      <3> QED
        BY <2>1, <3>1, <3>2, <3>3, <3>4, LeaseKept
    <2> QED
      BY <2>4, <2>5, <2>6, <2>7, <2>8, <2>9, <2>10, <2>11, LeaseCases DEF AdminStep
  <1> QED
    BY <1>1, <1>2
-----------------------------------------------------------------------------
(* The theorems                                                            *)

\* At the start nothing is stored, due or leased.
LEMMA InitTaskInv ==
    ASSUME Init
    PROVE  TaskInv
  <1>1. /\ Horizon \in Nat /\ Horizon # 0 /\ 0 \in Time /\ MaxEvents \in Nat
        /\ Reports \subseteq Tasks /\ Capacity \in Nat /\ BatchSize \in Nat /\ BatchSize # 0
    BY TaskAssumption DEF Time, Never
  <1>2. Absent \in Task /\ Absent.status = "absent"
    BY DEF Task, Absent
  <1>3. StoreOK /\ StoreInv
    <2>1. /\ task = [t \in Tasks |-> Absent] /\ dues = {} /\ scheduled = {}
          /\ deliver_at = [t \in Reports |-> 0]
      BY DEF Init
    <2> QED
      BY <1>1, <1>2, <2>1 DEF StoreOK, StoreInv, Findable, Stored
  <1>4. /\ batch = [n \in Nodes |-> <<>>] /\ chan = [n \in Nodes |-> <<>>]
        /\ \A n \in Nodes : batch[n] = <<>> /\ chan[n] = <<>> /\ Len(<<>>) = 0
    BY DEF Init
  <1>5. NodesOK /\ NodesInv
    <2>1. locked = [n \in Nodes |-> [t \in Tasks |-> Unlocked]]
          /\ Unlocked \in [expires : Time, due : Time]
      BY <1>1 DEF Init, Unlocked
    <2>2. locked \in [Nodes -> [Tasks -> [expires : Time, due : Time]]]
      BY <2>1
    <2>3. /\ todo \in [Nodes -> SUBSET Jobs] /\ \A n \in Nodes : todo[n] = {}
          /\ wpc \in [Nodes -> {"idle", "collect", "run", "unlock"}]
          /\ \A n \in Nodes : wpc[n] = "idle"
      BY DEF Init
    <2>4. chan \in [Nodes -> Seq(Jobs)]
      BY <1>4
    <2>5. batch \in [Nodes -> Seq([job : Jobs, task : Task])]
      <3>1. batch \in [Nodes -> Seq(Entries)]
        BY <1>4
      <3> QED
        BY <3>1 DEF Entries
    <2> QED
      BY <1>1, <1>4, <2>2, <2>3, <2>4, <2>5 DEF NodesOK, NodesInv
  <1>6. /\ adm = NoRequest /\ AdmInv
        /\ adm \in [pc : {"none", "lock", "write", "unlock"}, kind : AllRequests,
                    id : Tasks \cup {0}, read : Task, until : Time]
    BY <1>1, <1>2 DEF Init, NoRequest, AdmInv, AllRequests
  <1>7. /\ now \in 1..Horizon /\ now = 1 /\ events \in 0..MaxEvents
        /\ lease \in [Tasks -> Time] /\ intruded \in BOOLEAN /\ overwritten \in BOOLEAN
    <2>1. lease \in [Tasks -> Time]
      BY <1>1 DEF Init
    <2>2. intruded \in BOOLEAN /\ overwritten \in BOOLEAN
      BY Zenon DEF Init
    <2>3. now = 1 /\ events = 0
      BY DEF Init
    <2>4. now \in 1..Horizon /\ events \in 0..MaxEvents
      BY <1>1, <2>3
    <2> QED
      BY <2>1, <2>2, <2>3, <2>4
  <1>8. LeaseInv
    <2>1. \A n \in Nodes : Places(batch, chan, n) = {}
      BY <1>4 DEF Places
    <2>2. ~InForce(adm.until)
      BY <1>6, <1>7 DEF NoRequest, InForce
    <2> QED
      BY <2>1, <2>2 DEF LeaseInv
  <1>9. TypeOK
    BY <1>3, <1>5, <1>6, <1>7 DEF TypeOK
  <1> QED
    BY <1>3, <1>5, <1>6, <1>8, <1>9 DEF TaskInv

\* Every step keeps the inductive invariant.
LEMMA StepTaskInv ==
    ASSUME TaskInv, [Next]_vars
    PROVE  TaskInv'
  <1>1. StoreOK' /\ StoreInv'
    BY StepStore
  <1>2. NodesOK' /\ NodesInv'
    BY StepNodes
  <1>3. TypeOK'
    BY <1>1, <1>2, StepRest DEF TypeOK
  <1> QED
    BY <1>1, <1>2, <1>3, StepRest, StepLease DEF TaskInv

\* The inductive invariant holds.
LEMMA TaskInvariant == Spec => []TaskInv
  <1>1. Init => TaskInv
    BY InitTaskInv
  <1>2. TaskInv /\ [Next]_vars => TaskInv'
    BY StepTaskInv
  <1> QED
    BY <1>1, <1>2, PTL DEF Spec

\* The variables have their types, and no channel or batch is larger than it may be.
THEOREM TaskTypeOK == Spec => []TypeOK
  <1>1. TaskInv => TypeOK
    BY DEF TaskInv
  <1> QED
    BY <1>1, TaskInvariant, PTL

\* A stored task that has not failed has an event whose time comes.
THEOREM TaskFindable == Spec => []Findable
  <1>1. TaskInv => Findable
    BY DEF TaskInv, StoreInv
  <1> QED
    BY <1>1, TaskInvariant, PTL

\* Under leases in force no task is run by two workers, or twice by one.
THEOREM TaskRunAlone == Spec => []RunAlone
  <1>1. ASSUME TaskInv PROVE RunAlone
    <2> SUFFICES ASSUME ~intruded, NEW t \in Tasks
                 PROVE  Cardinality(Running(t)) <= 1
      BY DEF RunAlone
    <2>1. TypeOK /\ LeaseInv
      BY <1>1 DEF TaskInv
    <2>2. ASSUME NEW w \in Running(t)
          PROVE  /\ w \in Nodes \X (1..BatchSize) /\ w[1] \in Nodes
                 /\ w[2] \in Places(batch, chan, w[1]) /\ Holds(w[1], w[2], t)
      <3>1. /\ w \in Nodes \X (1..BatchSize) /\ w[1] \in Nodes /\ w[2] \in DOMAIN batch[w[1]]
            /\ batch[w[1]][w[2]].job.id = t /\ InForce(batch[w[1]][w[2]].job.until)
        BY DEF Running
      <3> DEFINE n == w[1]
                 i == w[2]
                 x == Len(batch[n])
                 y == Len(chan[n])
      <3>2. i \in 1..x /\ x \in Nat /\ y \in Nat
        BY <2>1, <3>1, JobAtIs
      <3>3. i \in Places(batch, chan, n)
        BY <3>2, PlaceIs DEF Places
      <3>4. i <= x
        <4> HIDE DEF x, i
        <4> QED
          BY <3>2
      <3>5. JobAt(batch, chan, n, i) = batch[n][i].job
        BY <3>4 DEF JobAt
      <3> QED
        BY <3>1, <3>3, <3>5 DEF Holds
    <2>3. ASSUME NEW v \in Running(t), NEW w \in Running(t) PROVE v = w
      <3>1. v[1] = w[1] /\ v[2] = w[2]
        BY <2>1, <2>2 DEF LeaseInv
      <3>2. v \in Nodes \X (1..BatchSize) /\ w \in Nodes \X (1..BatchSize)
        BY <2>2
      <3>3. v = <<v[1], v[2]>> /\ w = <<w[1], w[2]>>
        BY <3>2
      <3> QED
        BY <3>1, <3>3
    <2>4. CASE Running(t) = {}
      BY <2>4, FS_EmptySet
    <2>5. CASE Running(t) # {}
      <3>1. PICK w : w \in Running(t)
        BY <2>5
      <3>2. Running(t) = {w}
        BY <2>3, <3>1
      <3>3. Cardinality({w}) = 1
        BY FS_Singleton
      <3> QED
        BY <3>2, <3>3
    <2> QED
      BY <2>4, <2>5
  <1> QED
    BY <1>1, TaskInvariant, PTL

\* No step brings back a task that has ended, but a late write of an administrator.
THEOREM TaskNoReturn == Spec => NoReturn
  <1> DEFINE Returns == \E t \in scheduled :
                 task[t] = Absent /\ task'[t] # Absent /\ ~overwritten'
  <1>1. ASSUME TaskInv, [Next]_vars PROVE ~Returns
    <2> SUFFICES ASSUME NEW t \in scheduled, task[t] = Absent, task'[t] # Absent,
                        ~overwritten'
                 PROVE  FALSE
      OBVIOUS
    <2>1. /\ StoreOK /\ NodesOK /\ AdmInv /\ t \in Tasks /\ task \in [Tasks -> Task]
      BY <1>1 DEF TaskInv, TypeOK, StoreOK
    <2>2. CASE UNCHANGED <<task, dues, deliver_at, scheduled, overwritten>>
      BY <2>2
    <2>3. ASSUME NEW n \in Nodes, UpdateTasks(n) PROVE FALSE
      <3>1. PICK results \in [DOMAIN batch[n] -> Results], new \in SUBSET (Tasks \ scheduled) :
              \/ /\ ~Gone(n, results)
                 /\ task' = [u \in Tasks |-> TaskAfter(batch[n], results, u,
                              IF u \in new THEN Pending(now) ELSE task[u])]
              \/ UNCHANGED task
        BY <2>3 DEF UpdateTasks
      <3>2. /\ ~Gone(n, results)
            /\ task'[t] = TaskAfter(batch[n], results, t, Absent)
        BY <2>1, <3>1
      <3>3. batch[n] \in Seq(Entries)
        BY <2>1 DEF NodesOK, Entries
      <3>4. PICK i \in DOMAIN batch[n] :
              batch[n][i].job.id = t /\ task'[t] = Outcome(batch[n][i], results[i])
        BY <3>2, <3>3, TaskAfterIs
      <3>5. Failure(results[i]) /\ i \in DOMAIN results
        BY <3>4 DEF Outcome
      <3> QED
        BY <3>2, <3>4, <3>5 DEF Gone
    <2>4. ASSUME NEW u \in Tasks, NEW d \in Delays, Schedule(u, After(d)) PROVE FALSE
      BY <2>1, <2>4 DEF Schedule
    <2>5. CASE AdminUpdate
      <3>1. adm.read # Absent
        BY <2>1, <2>5 DEF AdminUpdate, AdmInv
      <3>2. task[adm.id] = adm.read
        BY <2>5 DEF AdminUpdate
      <3>3. adm.id # t => task'[t] = task[t]
        BY <2>1, <2>5 DEF AdminUpdate
      <3> QED
        BY <3>1, <3>2, <3>3
    <2>6. CASE AdminDestroy
      BY <2>1, <2>6 DEF AdminDestroy
    <2>7. ASSUME NEW u \in Reports, NEW d \in Delays, MoveReport(u, After(d)) PROVE FALSE
      BY <2>7 DEF MoveReport
    <2> QED
      BY <1>1, <2>2, <2>3, <2>4, <2>5, <2>6, <2>7, StoreCases
  <1>2. TaskInv /\ [Next]_vars =>
          [\A t \in scheduled : task[t] = Absent /\ task'[t] # Absent => overwritten']_vars
    BY <1>1
  <1> QED
    BY <1>2, TaskInvariant, PTL DEF Spec, NoReturn

\* An event becomes a stray in a step of somebody who writes what follows from an
\* older version of its task, who has it twice, or who moves the report it is of.
THEOREM TaskStraysNeedRace == Spec => StraysNeedRace
  <1> DEFINE Fine == Stray' \subseteq Stray \/ Outdated \/ Doubled \/ ReportMoves
  <1>1. ASSUME TaskInv, [Next]_vars PROVE Fine
    <2> SUFFICES ASSUME ~Outdated, ~Doubled, ~ReportMoves,
                        NEW e \in dues', task'[e.id].due # e.due
                 PROVE  e \in dues /\ task[e.id].due # e.due
      BY DEF Stray
    <2>1. /\ StoreOK /\ StoreInv /\ NodesOK /\ NodesInv /\ task \in [Tasks -> Task]
          /\ TypeOK /\ AdmInv
          /\ \A f \in dues : f.id \in scheduled /\ f.id \in Tasks
      BY <1>1 DEF TaskInv, TypeOK, StoreOK, StoreInv
    <2>2. CASE UNCHANGED <<task, dues, deliver_at, scheduled, overwritten>>
      BY <2>2
    <2>3. ASSUME NEW n \in Nodes, UpdateTasks(n)
          PROVE  e \in dues /\ task[e.id].due # e.due
      <3> DEFINE b == batch[n]
      <3>1. PICK results \in [DOMAIN b -> Results], new \in SUBSET (Tasks \ scheduled) :
              \/ /\ task' = [u \in Tasks |-> TaskAfter(b, results, u,
                              IF u \in new THEN Pending(now) ELSE task[u])]
                 /\ dues' = DuesAfter(b, results, dues \cup {Event(u, now) : u \in new})
              \/ UNCHANGED <<task, dues>>
        BY <2>3 DEF UpdateTasks
      <3>2. CASE UNCHANGED <<task, dues>>
        BY <3>2
      <3>3. CASE /\ task' = [u \in Tasks |-> TaskAfter(b, results, u,
                              IF u \in new THEN Pending(now) ELSE task[u])]
                 /\ dues' = DuesAfter(b, results, dues \cup {Event(u, now) : u \in new})
        <4>1. wpc[n] = "run" /\ b \in Seq(Entries)
          BY <2>1, <2>3 DEF UpdateTasks, NodesOK, Entries
        <4>2. \A i \in DOMAIN b : /\ b[i].job.id \in scheduled /\ b[i].job.id \in Tasks
                                  /\ b[i].job.due = task[b[i].job.id].due
          BY <2>1, <4>1 DEF Outdated, NodesInv, StoreOK
        <4>3. ASSUME NEW i \in DOMAIN b, NEW k \in DOMAIN b, b[i].job.id = b[k].job.id
              PROVE  i = k
          <5>1. i \in Int /\ k \in Int
            BY <4>1
          <5>2. ~(i < k) /\ ~(k < i)
            BY <4>1, <4>3 DEF Doubled
          <5> QED
            BY <5>1, <5>2
        <4> DEFINE start == dues \cup {Event(u, now) : u \in new}
                   out(i) == Outcome(b[i], results[i])
        <4>4. CASE /\ e \in start
                   /\ \A i \in DOMAIN b : b[i].job.id = e.id => e.due # b[i].job.due
          <5>1. e \in dues \/ \E u \in new : e = Event(u, now)
            BY <4>4
          <5>2. e.id \in Tasks
            BY <2>1, <5>1 DEF Event
          <5>3. CASE \E i \in DOMAIN b : b[i].job.id = e.id
            <6>1. e.id \in scheduled /\ task[e.id].due # e.due
              BY <4>2, <4>4, <5>3
            <6>2. e \in dues
              BY <5>1, <6>1 DEF Event
            <6> QED
              BY <6>1, <6>2
          <5>4. CASE \A i \in DOMAIN b : b[i].job.id # e.id
            <6>1. task'[e.id] = IF e.id \in new THEN Pending(now) ELSE task[e.id]
              BY <3>3, <4>1, <5>2, <5>4, TaskAfterIs
            <6>2. CASE e.id \in new
              <7>1. e.due = now
                BY <2>1, <5>1, <6>2 DEF Event
              <7> QED
                BY <6>1, <6>2, <7>1 DEF Pending
            <6>3. CASE e.id \notin new
              BY <5>1, <6>1, <6>3 DEF Event
            <6> QED
              BY <6>2, <6>3
          <5> QED
            BY <5>3, <5>4
        <4>5. CASE \E i \in DOMAIN b : out(i) # Absent /\ e = Event(b[i].job.id, out(i).due)
          <5>1. PICK i \in DOMAIN b : out(i) # Absent /\ e = Event(b[i].job.id, out(i).due)
            BY <4>5
          <5>2. e.id = b[i].job.id /\ e.due = out(i).due
            BY <5>1 DEF Event
          <5>3. task'[e.id] = TaskAfter(b, results, e.id,
                                  IF e.id \in new THEN Pending(now) ELSE task[e.id])
            BY <3>3, <4>2, <5>2
          <5>4. task'[e.id] = out(i)
            <6> HIDE DEF b
            <6> QED
              BY <4>1, <4>3, <5>2, <5>3, TaskAfterIs
          <5> QED
            BY <5>2, <5>4
        <4> QED
          BY <3>3, <4>4, <4>5, DuesAfterIs
      <3> QED
        BY <3>1, <3>2, <3>3
    <2>4. ASSUME NEW u \in Tasks, NEW d \in Delays, Schedule(u, After(d))
          PROVE  e \in dues /\ task[e.id].due # e.due
      <3>1. /\ u \notin scheduled /\ task' = [task EXCEPT ![u] = Pending(After(d))]
            /\ dues' = dues \cup {Event(u, After(d))}
        BY <2>4 DEF Schedule
      <3>2. Pending(After(d)).due = After(d) /\ Event(u, After(d)).id = u
            /\ Event(u, After(d)).due = After(d)
        BY DEF Pending, Event
      <3> QED
        BY <2>1, <3>1, <3>2
    <2>5. CASE AdminUpdate
      <3>1. PICK due \in {now, adm.read.due} \ {Never} :
              LET t == adm.id
                  moved == due # adm.read.due
                  left == {f \in dues : ~(f.id = t /\ f.due \in {adm.read.due, due})}
              IN  /\ task' = [task EXCEPT ![t] =
                      [adm.read EXCEPT !.due = due,
                                       !.status = IF @ = "failed" THEN "retry" ELSE @]]
                  /\ dues' = IF moved THEN left \cup {Event(t, due)} ELSE dues
        BY <2>5 DEF AdminUpdate
      <3>2. /\ adm.id \in Tasks /\ adm.read \in Task /\ adm.read = task[adm.id]
            /\ adm.read # Absent
        BY <2>1, <2>5 DEF AdminUpdate, AdmInv, TypeOK, StoreOK, Outdated
      <3>3. /\ task'[adm.id].due = due
            /\ \A t \in Tasks : t # adm.id => task'[t] = task[t]
        <4> DEFINE new == [adm.read EXCEPT !.due = due,
                                           !.status = IF @ = "failed" THEN "retry" ELSE @]
        <4>1. new.due = due
          BY <3>2 DEF Task, Absent
        <4>2. task' = [task EXCEPT ![adm.id] = new]
          BY <3>1
        <4> HIDE DEF new
        <4> QED
          BY <2>1, <3>2, <4>1, <4>2
      <3>4. \/ e \in dues /\ due = adm.read.due
            \/ e \in dues /\ ~(e.id = adm.id /\ e.due \in {adm.read.due, due})
            \/ e = Event(adm.id, due)
        BY <3>1
      <3> QED
        BY <2>1, <3>2, <3>3, <3>4 DEF Event
    <2>6. CASE AdminDestroy
      <3>1. /\ task' = [task EXCEPT ![adm.id] = Absent]
            /\ dues' = dues \ EventsOf(adm.id, adm.read.due)
            /\ adm.read = task[adm.id]
        BY <2>6 DEF AdminDestroy, Outdated
      <3> QED
        BY <2>1, <3>1 DEF EventsOf
    <2>7. ASSUME NEW u \in Reports, NEW d \in Delays, MoveReport(u, After(d)) PROVE FALSE
      BY <2>7 DEF ReportMoves
    <2> QED
      BY <1>1, <2>2, <2>3, <2>4, <2>5, <2>6, <2>7, StoreCases
  <1>2. TaskInv /\ [Next]_vars =>
          [Stray' \subseteq Stray \/ Outdated \/ Doubled \/ ReportMoves]_vars
    BY <1>1
  <1> QED
    BY <1>2, TaskInvariant, PTL DEF Spec, StraysNeedRace

=============================================================================
