---------------------------- MODULE MtaCopyProofs ----------------------------
(***************************************************************************)
(* Workers of different virtual queues work on copies of one message at    *)
(* once, and each writes over the store.  As long as leases hold and nobody*)
(* edits the message, they do not undo each other's work.                  *)
(* With a single queue, the quota of a message that is gone is given back, *)
(* it does not come back, and only those who failed are bounced.           *)
(***************************************************************************)
EXTENDS MtaLossProofs

-----------------------------------------------------------------------------
(* Copies                                                                  *)

\* w has a copy of the message that it has not written back.
Working(w) == pc[w] \in {"route", "deliver", "save", "remove"}

\* Its copy will be saved as a whole: every recipient that was pending when it was
\* read was in the queue of w.
Plain(w) ==
    pc[w] \in {"route", "deliver", "save"} /\ ~wrap[w].is_multi_queue

\* In the copy, r is in the queue of w, which may try it and write it; r is pending.
Own(w, r) == wrap[w].message.rcpts[r].queue = job[w][1]
Left(w, r) == Pending(wrap[w].message.rcpts[r])

\* The lease of its queue is held by whoever is past try_lock_event.
Leased ==
    \A w \in Workers :
        pc[w] \in {"read", "route", "deliver", "save", "remove", "unlock"}
            => lock[job[w][1]] = w

\* There is no copy of a message that was not queued.
NotYetQueued ==
    ~queued => ~exists /\ events = {} /\ \A w \in Workers : pc[w] = "idle"

\* Workers try the recipients of their queue.
TriesOwn ==
    \A w \in Workers : pc[w] = "deliver" =>
        \A r \in wrap[w].tried : Own(w, r) /\ Left(w, r)

\* What a worker may write is where the store has it, and still pending if the copy
\* says so.
OwnCurrent ==
    exists => \A w \in Workers, r \in Rcpts : Working(w) /\ Own(w, r) =>
        /\ Left(w, r) => Pending(msg.rcpts[r])
        /\ Pending(msg.rcpts[r]) => msg.rcpts[r].queue = job[w][1]

\* What a worker writes as a whole has no pending recipient that the store does not
\* have pending, in its queue, and misses none.
PlainCurrent ==
    exists => \A w \in Workers, r \in Rcpts : Plain(w) =>
        /\ Left(w, r) => Pending(msg.rcpts[r])
        /\ Pending(msg.rcpts[r]) => msg.rcpts[r].queue = job[w][1]

\* Two workers have no pending recipient in common.
Disjoint ==
    \A w, v \in Workers, r \in Rcpts :
        w # v /\ Working(w) /\ Working(v) /\ Own(w, r) /\ Own(v, r) => ~Left(w, r)

\* Next to a worker that writes the whole copy, the others have nothing left to try,
\* and what they have tried is not pending in that copy.
PlainAlone ==
    \A w, v \in Workers : w # v /\ Plain(w) /\ Working(v) =>
        /\ ~Plain(v)
        /\ \A r \in Rcpts : Own(v, r) => ~Left(v, r) /\ ~Left(w, r)

Copies == OwnCurrent /\ PlainCurrent /\ Disjoint /\ PlainAlone

CopyInv ==
    /\ TypeOK
    /\ admin.op = "none"
    /\ Leased /\ NotYetQueued /\ TriesOwn
    /\ Copies

-----------------------------------------------------------------------------
(* What the steps make of the copies                                       *)

\* send_dsn does not move a recipient.
LEMMA AccountedQueue ==
    ASSUME NEW rc \in Recipient, NEW t \in Nat
    PROVE  Accounted(rc, t).queue = rc.queue
  <1>1. ASSUME NEW x \in Recipient
        PROVE  DsnBuilt(x).queue = x.queue /\ DoubleBounce(x, t).queue = x.queue
    BY DEF DsnBuilt, DoubleBounce, Recipient
  <1>2. ASSUME NEW x \in Recipient PROVE NextDsn(x, t).queue = x.queue
    BY DEF NextDsn, Recipient
  <1> QED
    BY <1>1, <1>2, DsnMarksType DEF Accounted

\* A worker reads a copy of what the store has: expired recipients are no longer
\* pending in it, and all pending ones are in its queue when it is not one of several.
LEMMA ReadCopy ==
    ASSUME TypeOK, NEW w \in Workers, ReadMessage(w)
    PROVE  /\ exists /\ pc[w] = "read" /\ job' = job /\ pc'[w] \in Steps
           /\ \A r \in Rcpts :
                /\ Own(w, r)' <=> msg.rcpts[r].queue = job[w][1]
                /\ Left(w, r)' => Pending(msg.rcpts[r])
           /\ Plain(w)' =>
                /\ \A r \in Rcpts : Pending(msg.rcpts[r]) =>
                                        msg.rcpts[r].queue = job[w][1]
                /\ \E r \in Rcpts : Pending(msg.rcpts[r])
  <1>t. /\ now \in Nat /\ msg \in Message
        /\ pc \in [Workers -> Steps] /\ wrap \in [Workers -> MessageWrapper]
    BY ScheduleAssumption DEF TypeOK
  <1> DEFINE x == MarkExpired(msg, now)
             m == AfterDsn(x, now)
  <1>1. x \in Message
    BY <1>t, MarkExpiredType
  <1>2. m \in Message
    BY <1>t, <1>1, AfterDsnType
  <1>3. ASSUME NEW r \in Rcpts
        PROVE  /\ m.rcpts[r].queue = msg.rcpts[r].queue
               /\ Pending(m.rcpts[r]) => Pending(msg.rcpts[r])
    <2>1. /\ x.rcpts[r] \in Recipient /\ msg.rcpts[r] \in Recipient
      BY <1>t, <1>1 DEF Message
    <2>2. /\ x.rcpts[r].queue = msg.rcpts[r].queue
          /\ Pending(x.rcpts[r]) => Pending(msg.rcpts[r])
      BY <1>t, <2>1 DEF MarkExpired, Message, Recipient, Pending
    <2>3. m.rcpts[r] = Accounted(x.rcpts[r], now)
      BY <1>1 DEF AfterDsn, Message
    <2>4. m.rcpts[r].status = x.rcpts[r].status /\ m.rcpts[r].queue = x.rcpts[r].queue
      BY <1>t, <2>1, <2>3, AccountedType, AccountedQueue
    <2> QED
      BY <2>2, <2>4 DEF Pending
  <1> HIDE DEF m
  <1>4. wrap'[w] = [message |-> m, is_multi_queue |-> IsMultiQueue(msg, job[w][1]),
                    tried |-> {}]
    BY <1>t DEF ReadMessage, m, x
  <1>5. /\ exists /\ pc[w] = "read" /\ job' = job
        /\ pc'[w] \in {"route", "save", "remove"}
        /\ pc'[w] \in {"route", "save"} => HasPending(m)
    BY <1>t DEF ReadMessage, Goto, m, x
  <1>6. ASSUME NEW r \in Rcpts
        PROVE  /\ Own(w, r)' <=> msg.rcpts[r].queue = job[w][1]
               /\ Left(w, r)' => Pending(msg.rcpts[r])
    BY <1>3, <1>4, <1>5 DEF Own, Left
  <1>7. Plain(w)' => ~IsMultiQueue(msg, job[w][1]) /\ HasPending(m)
    BY <1>4, <1>5 DEF Plain
  <1> QED
    BY <1>3, <1>5, <1>6, <1>7 DEF IsMultiQueue, PendingRcpts, HasPending, Steps

\* A worker that throttles, groups or tries recipients takes none on: what is its own
\* and pending afterwards was so before.
LEMMA KeepCopy ==
    ASSUME TypeOK, TriesOwn, NEW w \in Workers,
           ThrottleSender(w) \/ Route(w) \/ Deliver(w)
    PROVE  /\ pc[w] \in {"route", "deliver"} /\ pc'[w] \in {"deliver", "save", "remove"}
           /\ UNCHANGED <<exists, msg, lock, job, queued, events>>
           /\ wrap'[w].is_multi_queue = wrap[w].is_multi_queue
           /\ \A r \in Rcpts : /\ Own(w, r)' => Own(w, r)
                               /\ Left(w, r)' => Left(w, r)
           /\ pc'[w] = "deliver" =>
                \A r \in wrap'[w].tried : Own(w, r)' /\ Left(w, r)'
  <1>t. /\ now \in Nat
        /\ pc \in [Workers -> Steps] /\ wrap \in [Workers -> MessageWrapper]
        /\ wrap[w] \in MessageWrapper /\ wrap[w].message \in Message
        /\ wrap[w].message.rcpts \in [Rcpts -> Recipient]
        /\ wrap[w].tried \subseteq Rcpts
    BY ScheduleAssumption DEF TypeOK, MessageWrapper, Message
  <1> DEFINE old == wrap[w].message.rcpts
  <1>1. CASE ThrottleSender(w)
    <2> DEFINE Late(r) == [old[r] EXCEPT !.status = "temp", !.due = now + Retry[1]]
               new == [r \in Rcpts |->
                          IF r \in DueRcpts(wrap[w].message, job[w][1], now)
                            THEN Late(r) ELSE old[r]]
    <2>1. /\ wrap'[w].message.rcpts = new /\ wrap'[w].tried = wrap[w].tried
          /\ wrap'[w].is_multi_queue = wrap[w].is_multi_queue
          /\ pc[w] = "route" /\ pc'[w] = "save"
          /\ UNCHANGED <<exists, msg, lock, job, queued, events>>
      BY <1>1, <1>t DEF ThrottleSender, Goto, MessageWrapper, Message, stored, hist
    <2>2. ASSUME NEW r \in Rcpts
          PROVE  new[r].queue = old[r].queue /\ (Pending(new[r]) <=> Pending(old[r]))
      <3>1. r \in DueRcpts(wrap[w].message, job[w][1], now) => Pending(old[r])
        BY DEF DueRcpts, PendingRcpts
      <3>2. Late(r).queue = old[r].queue /\ Pending(Late(r))
        BY <1>t DEF Recipient, Pending
      <3> QED
        BY <3>1, <3>2
    <2> HIDE DEF new
    <2> QED
      BY <1>t, <2>1, <2>2 DEF TriesOwn, Own, Left
  <1>2. CASE Route(w)
    <2>1. /\ wrap'[w].message = wrap[w].message
          /\ wrap'[w].tried = DueRcpts(wrap[w].message, job[w][1], now)
          /\ wrap'[w].is_multi_queue = wrap[w].is_multi_queue
          /\ pc[w] = "route" /\ pc'[w] = "deliver"
          /\ UNCHANGED <<exists, msg, lock, job, queued, events>>
      BY <1>2, <1>t DEF Route, Goto, MessageWrapper, stored, hist
    <2> QED
      BY <2>1 DEF Own, Left, DueRcpts, PendingRcpts
  <1>3. CASE Deliver(w)
    <2> DEFINE M(new) == [wrap[w].message EXCEPT !.rcpts = new]
    <2>1. PICK new \in [Rcpts -> UNION {Outcomes(old[r], now) : r \in wrap[w].tried}
                                   \cup {old[r] : r \in Rcpts}] :
            /\ \A r \in Rcpts : new[r] \in IF r \in wrap[w].tried
                                             THEN Outcomes(old[r], now)
                                             ELSE {old[r]}
            /\ wrap' = [wrap EXCEPT ![w].message = AfterDsn(M(new), now),
                                    ![w].tried = {}]
            /\ Goto(w, IF HasPending(M(new)) THEN "save" ELSE "remove")
      BY <1>3 DEF Deliver
    <2>2. /\ wrap'[w].message = AfterDsn(M(new), now) /\ wrap'[w].tried = {}
          /\ wrap'[w].is_multi_queue = wrap[w].is_multi_queue
          /\ pc[w] = "deliver" /\ pc'[w] \in {"save", "remove"}
          /\ UNCHANGED <<exists, msg, lock, job, queued, events>>
      BY <1>3, <1>t, <2>1 DEF Deliver, Goto, MessageWrapper, stored
    <2>3. new \in [Rcpts -> Recipient]
      BY <1>t, <2>1, OutcomesType
    <2>4. ASSUME NEW r \in Rcpts, r \notin wrap[w].tried
          PROVE  /\ AfterDsn(M(new), now).rcpts[r].queue = old[r].queue
                 /\ Pending(AfterDsn(M(new), now).rcpts[r]) => Pending(old[r])
      <3>1. AfterDsn(M(new), now).rcpts[r] = Accounted(old[r], now)
        BY <1>t, <2>1, <2>3, <2>4 DEF AfterDsn, Message
      <3>2. Accounted(old[r], now).status = old[r].status
        BY <1>t, AccountedType
      <3>3. Accounted(old[r], now).queue = old[r].queue
        BY <1>t, AccountedQueue
      <3> QED
        BY <3>1, <3>2, <3>3 DEF Pending
    <2>5. ASSUME NEW r \in Rcpts
          PROVE  (Own(w, r)' => Own(w, r)) /\ (Left(w, r)' => Left(w, r))
      <3>1. CASE r \in wrap[w].tried
        BY <2>2, <3>1 DEF TriesOwn
      <3>2. CASE r \notin wrap[w].tried
        BY <2>2, <2>4, <3>2 DEF Own, Left
      <3> QED
        BY <3>1, <3>2
    <2> QED
      BY <2>2, <2>5
  <1> QED
    BY <1>1, <1>2, <1>3

\* What holds of the copies goes on to hold when workers stop, take nothing on and
\* leave the store alone or empty.
LEMMA CopiesShrink ==
    ASSUME Copies,
           exists' => UNCHANGED <<exists, msg>>,
           \A w \in Workers : Working(w)' =>
               /\ Working(w)
               /\ job'[w] = job[w] /\ wrap'[w].is_multi_queue = wrap[w].is_multi_queue
               /\ \A r \in Rcpts : (Own(w, r)' => Own(w, r)) /\ (Left(w, r)' => Left(w, r)),
           \A w \in Workers : Plain(w)' => Plain(w)
    PROVE  Copies'
  <1>w. \A w \in Workers : Plain(w) => Working(w)
    BY DEF Plain, Working
  <1>p. \A w \in Workers : Plain(w)' => Working(w)'
    BY DEF Plain, Working
  <1>1. OwnCurrent'
    BY DEF Copies, OwnCurrent
  <1>2. PlainCurrent'
    BY <1>p DEF Copies, PlainCurrent
  <1>3. Disjoint'
    BY DEF Copies, Disjoint
  <1>4. PlainAlone'
    BY <1>p DEF Copies, PlainAlone
  <1> QED
    BY <1>1, <1>2, <1>3, <1>4 DEF Copies

\* A worker that reads takes on nothing of what another has.
LEMMA CopiesRead ==
    ASSUME TypeOK, Copies, Leased, NEW w \in Workers, ReadMessage(w)
    PROVE  Copies'
  <1>r. /\ exists /\ pc[w] = "read" /\ job' = job
        /\ \A r \in Rcpts :
             /\ Own(w, r)' <=> msg.rcpts[r].queue = job[w][1]
             /\ Left(w, r)' => Pending(msg.rcpts[r])
        /\ Plain(w)' =>
             /\ \A r \in Rcpts : Pending(msg.rcpts[r]) => msg.rcpts[r].queue = job[w][1]
             /\ \E r \in Rcpts : Pending(msg.rcpts[r])
    BY ReadCopy
  <1>u. UNCHANGED <<exists, msg>>
    BY DEF ReadMessage, stored
  <1>o. ASSUME NEW v \in Workers, v # w
        PROVE  /\ Working(v)' <=> Working(v)
               /\ Plain(v)' <=> Plain(v)
               /\ \A r \in Rcpts : /\ Own(v, r)' <=> Own(v, r)
                                   /\ Left(v, r)' <=> Left(v, r)
    <2>1. wrap'[v] = wrap[v] /\ pc'[v] = pc[v] /\ job'[v] = job[v]
      BY <1>o, OthersKeep DEF WorkerStep
    <2> QED
      BY <2>1 DEF Working, Plain, Own, Left
  <1>d. ASSUME NEW v \in Workers, v # w, Working(v) PROVE job[v][1] # job[w][1]
    BY <1>d, <1>r DEF Leased, Working
  <1>p. \A v \in Workers : Plain(v) => Working(v)
    BY DEF Plain, Working
  <1>c. \A v \in Workers, r \in Rcpts : Working(v) /\ Own(v, r) =>
            /\ Left(v, r) => Pending(msg.rcpts[r])
            /\ Pending(msg.rcpts[r]) => msg.rcpts[r].queue = job[v][1]
    BY <1>r DEF Copies, OwnCurrent
  <1>e. \A v \in Workers, r \in Rcpts : Plain(v) =>
            /\ Left(v, r) => Pending(msg.rcpts[r])
            /\ Pending(msg.rcpts[r]) => msg.rcpts[r].queue = job[v][1]
    BY <1>r DEF Copies, PlainCurrent
  <1>1. OwnCurrent'
    BY <1>r, <1>u, <1>o, <1>c DEF OwnCurrent
  <1>2. PlainCurrent'
    BY <1>r, <1>u, <1>o, <1>e DEF PlainCurrent
  <1>3. Disjoint'
    BY <1>r, <1>o, <1>c, <1>d DEF Copies, Disjoint
  <1>4. PlainAlone'
    <2> SUFFICES ASSUME NEW v \in Workers, NEW x \in Workers, v # x,
                        Plain(v)', Working(x)'
                 PROVE  /\ ~Plain(x)'
                        /\ \A r \in Rcpts : Own(x, r)' => ~Left(x, r)' /\ ~Left(v, r)'
      BY DEF PlainAlone
    <2>1. CASE v = w
      BY <1>r, <1>o, <1>c, <1>d, <1>e, <1>p, <2>1
    <2>2. CASE x = w
      BY <1>r, <1>o, <1>c, <1>d, <1>e, <1>p, <2>2
    <2>3. CASE v # w /\ x # w
      BY <1>o, <2>3 DEF Copies, PlainAlone
    <2> QED
      BY <2>1, <2>2, <2>3
  <1> QED
    BY <1>1, <1>2, <1>3, <1>4 DEF Copies

\* save_changes writes the recipients of the worker's queue, or all of them.
LEMMA SavedCopy ==
    ASSUME TypeOK, NEW w \in Workers, SaveChanges(w), NEW r \in Rcpts
    PROVE  msg'.rcpts[r] = IF wrap[w].is_multi_queue /\ ~Own(w, r)
                             THEN msg.rcpts[r] ELSE wrap[w].message.rcpts[r]
  <1>0. wrap[w].message \in Message /\ msg \in Message
    BY DEF TypeOK, MessageWrapper
  <1> DEFINE saved == [wrap[w].message EXCEPT !.keys = @ \ Released(wrap[w].message)]
  <1>1. saved.rcpts = wrap[w].message.rcpts
    BY <1>0 DEF Message
  <1>2. msg' = IF wrap[w].is_multi_queue THEN Merged(saved, job[w][1]) ELSE saved
    BY DEF SaveChanges, Save
  <1> HIDE DEF saved
  <1> QED
    BY <1>0, <1>1, <1>2 DEF Merged, Message, Own

\* A worker that saves writes, of what others have, nothing that is pending.
LEMMA CopiesSave ==
    ASSUME TypeOK, Copies, Leased, NEW w \in Workers, SaveChanges(w)
    PROVE  /\ Copies'
           /\ exists => \A r \in Rcpts : Pending(msg'.rcpts[r]) => Pending(msg.rcpts[r])
  <1>t. wrap[w].message \in Message /\ msg \in Message /\ pc \in [Workers -> Steps]
    BY DEF TypeOK, MessageWrapper
  <1>1. /\ pc[w] = "save" /\ exists' /\ UNCHANGED <<job, wrap>>
        /\ wrap[w].is_multi_queue => exists
        /\ \A v \in Workers : v # w => pc'[v] = pc[v]
        /\ pc'[w] = "unlock"
    BY <1>t DEF SaveChanges, Save, SaveApplies, Goto
  <1>2. ASSUME NEW r \in Rcpts
        PROVE  msg'.rcpts[r] = IF wrap[w].is_multi_queue /\ ~Own(w, r)
                                 THEN msg.rcpts[r] ELSE wrap[w].message.rcpts[r]
    BY SavedCopy
  <1>o. ASSUME NEW v \in Workers
        PROVE  /\ Working(v)' <=> Working(v) /\ v # w
               /\ Plain(v)' <=> Plain(v) /\ v # w
               /\ \A r \in Rcpts : /\ Own(v, r)' <=> Own(v, r)
                                   /\ Left(v, r)' <=> Left(v, r)
    BY <1>1 DEF Working, Plain, Own, Left
  <1>w. Working(w) /\ (Plain(w) <=> ~wrap[w].is_multi_queue)
    BY <1>1 DEF Working, Plain
  <1>p. \A v \in Workers : Plain(v) => Working(v)
    BY DEF Plain, Working
  <1>d. ASSUME NEW v \in Workers, v # w, Working(v) PROVE job[v][1] # job[w][1]
    BY <1>d, <1>1 DEF Leased, Working
  <1>l. \A r \in Rcpts : Pending(wrap[w].message.rcpts[r]) <=> Left(w, r)
    BY DEF Left
  <1>3. Disjoint'
    BY <1>o DEF Copies, Disjoint
  <1>4. PlainAlone'
    BY <1>o DEF Copies, PlainAlone
  <1>5. CASE wrap[w].is_multi_queue
    <2>0. exists
      BY <1>1, <1>5
    <2>c. \A v \in Workers, r \in Rcpts : Working(v) /\ Own(v, r) =>
            /\ Left(v, r) => Pending(msg.rcpts[r])
            /\ Pending(msg.rcpts[r]) => msg.rcpts[r].queue = job[v][1]
      BY <2>0 DEF Copies, OwnCurrent
    <2>e. \A v \in Workers, r \in Rcpts : Plain(v) =>
            /\ Left(v, r) => Pending(msg.rcpts[r])
            /\ Pending(msg.rcpts[r]) => msg.rcpts[r].queue = job[v][1]
      BY <2>0 DEF Copies, PlainCurrent
    <2>1. ASSUME NEW r \in Rcpts, Pending(msg'.rcpts[r]) PROVE Pending(msg.rcpts[r])
      <3>1. CASE ~Own(w, r)
        BY <1>2, <1>5, <2>1, <3>1
      <3>2. CASE Own(w, r)
        <4>1. Left(w, r)
          BY <1>2, <2>1, <3>2 DEF Left
        <4> QED
          BY <1>w, <2>c, <3>2, <4>1
      <3> QED
        BY <3>1, <3>2
    <2>2. OwnCurrent'
      <3> SUFFICES ASSUME NEW v \in Workers, NEW r \in Rcpts, v # w, Working(v), Own(v, r)
                   PROVE  /\ Left(v, r) => Pending(msg'.rcpts[r])
                          /\ Pending(msg'.rcpts[r]) => msg'.rcpts[r].queue = job[v][1]
        BY <1>1, <1>o DEF OwnCurrent
      <3>1. CASE ~Own(w, r)
        BY <1>2, <1>5, <2>c, <3>1
      <3>2. CASE Own(w, r)
        <4>1. ~Left(v, r) /\ ~Left(w, r)
          BY <1>w, <3>2 DEF Copies, Disjoint
        <4> QED
          BY <1>2, <1>l, <3>2, <4>1
      <3> QED
        BY <3>1, <3>2
    <2>3. PlainCurrent'
      <3> SUFFICES ASSUME NEW v \in Workers, NEW r \in Rcpts, v # w, Plain(v)
                   PROVE  /\ Left(v, r) => Pending(msg'.rcpts[r])
                          /\ Pending(msg'.rcpts[r]) => msg'.rcpts[r].queue = job[v][1]
        BY <1>1, <1>o DEF PlainCurrent
      <3>1. CASE ~Own(w, r)
        BY <1>2, <1>5, <2>e, <3>1
      <3>2. CASE Own(w, r)
        <4>1. ~Left(v, r) /\ ~Left(w, r)
          BY <1>w, <3>2 DEF Copies, PlainAlone
        <4> QED
          BY <1>2, <1>l, <3>2, <4>1
      <3> QED
        BY <3>1, <3>2
    <2> QED
      BY <1>3, <1>4, <2>1, <2>2, <2>3 DEF Copies
  <1>6. CASE ~wrap[w].is_multi_queue
    <2>0. Plain(w) /\ \A r \in Rcpts : msg'.rcpts[r] = wrap[w].message.rcpts[r]
      BY <1>2, <1>6, <1>w
    <2>a. ASSUME NEW v \in Workers, v # w, Working(v)
          PROVE  ~Plain(v) /\ \A r \in Rcpts : Own(v, r) => ~Left(v, r) /\ ~Left(w, r)
      BY <2>0, <2>a DEF Copies, PlainAlone
    <2>1. exists => \A r \in Rcpts : Pending(msg'.rcpts[r]) => Pending(msg.rcpts[r])
      BY <1>l, <2>0 DEF Copies, PlainCurrent
    <2>2. OwnCurrent'
      <3> SUFFICES ASSUME NEW v \in Workers, NEW r \in Rcpts, v # w, Working(v), Own(v, r)
                   PROVE  /\ Left(v, r) => Pending(msg'.rcpts[r])
                          /\ Pending(msg'.rcpts[r]) => msg'.rcpts[r].queue = job[v][1]
        BY <1>1, <1>o DEF OwnCurrent
      <3> QED
        BY <1>l, <2>0, <2>a
    <2>3. PlainCurrent'
      BY <1>o, <1>p, <2>a DEF PlainCurrent
    <2> QED
      BY <1>3, <1>4, <2>1, <2>2, <2>3 DEF Copies
  <1> QED
    BY <1>5, <1>6
-----------------------------------------------------------------------------
(* A final status is final                                                 *)

\* Leases hold and nobody edits the message.  Crashes, refused writes and failed
\* reads are allowed.
Undisturbed == Faults \cap {"overrun", "update", "destroy"} = {}

\* A worker past try_lock_event keeps the lease of its queue to the end, when no lease
\* is overrun, and no message exists before one is queued.
LEMMA StepLeased ==
    ASSUME Undisturbed, CopyInv, [Next]_vars
    PROVE  Leased' /\ NotYetQueued' /\ admin'.op = "none"
  <1>t. /\ pc \in [Workers -> Steps] /\ job \in [Workers -> Queues \X Nat]
        /\ lock \in [Queues -> Workers \cup {NoWorker}]
        /\ \A v \in Workers : job[v][1] \in Queues
    BY DEF CopyInv, TypeOK
  <1>i. Leased /\ NotYetQueued /\ admin.op = "none"
    BY DEF CopyInv
  <1>1. ASSUME NEW w \in Workers, Dispatch(w) \/ WorkerStep(w) \/ Crash(w)
        PROVE  Leased' /\ NotYetQueued' /\ admin'.op = "none"
    <2>o. \A v \in Workers : v # w => pc'[v] = pc[v] /\ job'[v] = job[v]
      BY <1>1, OthersKeep DEF CopyInv
    <2>n. NoWorker \notin Workers
      BY QueueAssumption
    <2>s. queued /\ UNCHANGED <<admin, queued>>
      <3>1. queued
        BY <1>1, <1>i DEF NotYetQueued, WorkerStep, Dispatch, LockEvent, LockRefused,
           ReadMessage, ReadNone, ThrottleSender, Route, Deliver, SaveChanges,
           RemoveMessage, WriteFails, UnlockEvent, Crash
      <3>2. UNCHANGED <<admin, queued>>
        BY <1>1 DEF mgmt, hist, WorkerStep, Dispatch, LockEvent, LockRefused, ReadMessage,
           ReadNone, ThrottleSender, Route, Deliver, SaveChanges, RemoveMessage,
           WriteFails, UnlockEvent, Crash
      <3> QED
        BY <3>1, <3>2
    <2>1. CASE LockEvent(w)
      <3>1. /\ lock[job[w][1]] = NoWorker /\ lock' = [lock EXCEPT ![job[w][1]] = w]
            /\ job' = job
        BY <2>1 DEF LockEvent
      <3> QED
        BY <1>t, <1>i, <2>o, <2>n, <2>s, <3>1 DEF Leased, NotYetQueued
    <2>2. CASE UnlockEvent(w)
      <3>1. /\ lock[job[w][1]] = w /\ lock' = [lock EXCEPT ![job[w][1]] = NoWorker]
            /\ pc'[w] = "idle"
        BY <1>t, <1>i, <2>2 DEF UnlockEvent, End, Goto, Leased
      <3> QED
        BY <1>t, <1>i, <2>o, <2>s, <3>1 DEF Leased, NotYetQueued
    <2>3. CASE ~(LockEvent(w) \/ UnlockEvent(w))
      <3>1. lock' = lock
        BY <1>1, <2>3 DEF local, WorkerStep, Dispatch, LockRefused, ReadMessage, ReadNone,
           ThrottleSender, Route, Deliver, SaveChanges, RemoveMessage, WriteFails, Crash
      <3>2. \/ pc'[w] \in {"idle", "lock"}
            \/ /\ job' = job
               /\ pc[w] \in {"read", "route", "deliver", "save", "remove", "unlock"}
        BY <1>1, <1>t, <2>3 DEF WorkerStep, Goto, End, Dispatch, LockRefused, ReadMessage,
           ReadNone, ThrottleSender, Route, Deliver, SaveChanges, RemoveMessage,
           WriteFails, Crash
      <3> QED
        BY <1>t, <1>i, <2>o, <2>s, <3>1, <3>2 DEF Leased, NotYetQueued
    <2> QED
      BY <2>1, <2>2, <2>3
  <1>2. ASSUME NEW q \in Queues, ExpireLease(q)
        PROVE  Leased' /\ NotYetQueued' /\ admin'.op = "none"
    <2>1. /\ \/ pc[lock[q]] \in {"idle", "lock"} \/ job[lock[q]][1] # q
          /\ lock' = [lock EXCEPT ![q] = NoWorker]
          /\ UNCHANGED <<stored, pc, job, mgmt, hist>>
      BY <1>2 DEF ExpireLease, Undisturbed
    <2> QED
      BY <1>t, <1>i, <2>1 DEF Leased, NotYetQueued, stored, mgmt, hist
  <1>3. CASE AdminStep
    BY <1>3, <1>i DEF AdminStep, AdminRead, AdminWrite, AdminFails, DestroyRead,
       DestroyWrite, Undisturbed
  <1>4. CASE QueueMessage
    BY <1>4, <1>i DEF QueueMessage, local, mgmt, Leased, NotYetQueued
  <1>5. CASE Tick \/ UNCHANGED vars
    BY <1>5, <1>i DEF Tick, vars, stored, local, mgmt, hist, Leased, NotYetQueued
  <1> QED
    BY <1>1, <1>2, <1>3, <1>4, <1>5 DEF Next

\* Every step keeps the copies of the workers apart, whoever saves first.
LEMMA StepCopyInv ==
    ASSUME Undisturbed, CopyInv, [Next]_vars
    PROVE  CopyInv'
  <1>t. /\ TypeOK /\ TypeOK' /\ TriesOwn /\ Copies /\ Leased
        /\ pc \in [Workers -> Steps] /\ wrap \in [Workers -> MessageWrapper]
    BY StepType DEF CopyInv, TypeOK
  <1>l. Leased' /\ NotYetQueued' /\ admin'.op = "none"
    BY StepLeased
  <1>1. ASSUME NEW w \in Workers, Dispatch(w) \/ WorkerStep(w) \/ Crash(w)
        PROVE  TriesOwn' /\ Copies'
    <2>o. ASSUME NEW v \in Workers, v # w
          PROVE  wrap'[v] = wrap[v] /\ pc'[v] = pc[v] /\ job'[v] = job[v]
      BY <1>1, <1>t, <2>o, OthersKeep
    <2>t. ASSUME pc'[w] = "deliver" =>
                    \A r \in wrap'[w].tried : Own(w, r)' /\ Left(w, r)'
          PROVE  TriesOwn'
      BY <1>t, <2>o, <2>t DEF TriesOwn, Own, Left
    <2>1. CASE ReadMessage(w)
      <3>1. wrap'[w].tried = {}
        BY <1>t, <2>1 DEF ReadMessage
      <3> QED
        BY <1>t, <2>1, <2>t, <3>1, CopiesRead
    <2>2. CASE ThrottleSender(w) \/ Route(w) \/ Deliver(w)
      <3>1. /\ pc[w] \in {"route", "deliver"} /\ pc'[w] \in {"deliver", "save", "remove"}
            /\ UNCHANGED <<exists, msg, job>>
            /\ wrap'[w].is_multi_queue = wrap[w].is_multi_queue
            /\ \A r \in Rcpts : /\ Own(w, r)' => Own(w, r)
                                /\ Left(w, r)' => Left(w, r)
            /\ pc'[w] = "deliver" =>
                 \A r \in wrap'[w].tried : Own(w, r)' /\ Left(w, r)'
        BY <1>t, <2>2, KeepCopy
      <3>2. ASSUME NEW v \in Workers
            PROVE  /\ Working(v)' => Working(v)
                   /\ job'[v] = job[v]
                   /\ wrap'[v].is_multi_queue = wrap[v].is_multi_queue
                   /\ \A r \in Rcpts : /\ Own(v, r)' => Own(v, r)
                                       /\ Left(v, r)' => Left(v, r)
                   /\ Plain(v)' => Plain(v)
        BY <2>o, <3>1 DEF Working, Plain, Own, Left
      <3> QED
        BY <1>t, <2>t, <3>1, <3>2, CopiesShrink
    <2>3. CASE SaveChanges(w)
      <3>1. pc'[w] # "deliver"
        BY <1>t, <2>3 DEF SaveChanges, Goto
      <3> QED
        BY <1>t, <2>3, <2>t, <3>1, CopiesSave
    <2>4. CASE ~(ReadMessage(w) \/ ThrottleSender(w) \/ Route(w) \/ Deliver(w)
                   \/ SaveChanges(w))
      <3>1. /\ pc'[w] \in {"lock", "read", "unlock", "idle"}
            /\ exists' => UNCHANGED <<exists, msg>>
        BY <1>1, <1>t, <2>4 DEF WorkerStep, Goto, End, Dispatch, LockEvent, LockRefused,
           ReadNone, RemoveMessage, Remove, WriteFails, UnlockEvent, Crash, stored
      <3>2. ASSUME NEW v \in Workers
            PROVE  /\ Working(v)' =>
                        /\ Working(v) /\ job'[v] = job[v]
                        /\ wrap'[v].is_multi_queue = wrap[v].is_multi_queue
                        /\ \A r \in Rcpts : /\ Own(v, r)' => Own(v, r)
                                            /\ Left(v, r)' => Left(v, r)
                   /\ Plain(v)' => Plain(v)
        BY <2>o, <3>1 DEF Working, Plain, Own, Left
      <3> QED
        BY <1>t, <2>t, <3>1, <3>2, CopiesShrink
    <2> QED
      BY <2>1, <2>2, <2>3, <2>4
  <1>2. ASSUME QueueMessage PROVE TriesOwn' /\ Copies'
    <2>1. \A w \in Workers : pc'[w] = "idle"
      BY <1>2 DEF QueueMessage, CopyInv, NotYetQueued, local
    <2>2. \A w \in Workers : ~Working(w)' /\ ~Plain(w)'
      BY <2>1 DEF Working, Plain
    <2>3. Copies'
      BY <2>2 DEF Copies, OwnCurrent, PlainCurrent, Disjoint, PlainAlone
    <2> QED
      BY <2>1, <2>3 DEF TriesOwn
  <1>3. ASSUME UNCHANGED <<exists, msg, pc, job, wrap>> PROVE TriesOwn' /\ Copies'
    <2>1. ASSUME NEW w \in Workers
          PROVE  /\ Working(w)' <=> Working(w)
                 /\ Plain(w)' <=> Plain(w)
                 /\ \A r \in Rcpts : Own(w, r)' = Own(w, r) /\ Left(w, r)' = Left(w, r)
      BY <1>3 DEF Working, Plain, Own, Left
    <2>2. Copies'
      BY <1>t, <1>3, <2>1, CopiesShrink
    <2>3. TriesOwn'
      BY <1>t, <1>3 DEF TriesOwn, Own, Left
    <2> QED
      BY <2>2, <2>3
  <1>4. \/ \E w \in Workers : Dispatch(w) \/ WorkerStep(w) \/ Crash(w)
        \/ QueueMessage \/ UNCHANGED <<exists, msg, pc, job, wrap>>
    BY DEF CopyInv, Undisturbed, Next, vars, stored, local, ExpireLease, Tick, AdminStep,
       AdminRead, AdminWrite, AdminFails, DestroyRead, DestroyWrite
  <1> QED
    BY <1>t, <1>l, <1>1, <1>2, <1>3, <1>4 DEF CopyInv

\* At the start nobody has a copy.
LEMMA InitCopyInv == Init => CopyInv
  <1> SUFFICES ASSUME Init PROVE CopyInv
    OBVIOUS
  <1>1. \A w \in Workers : pc[w] = "idle"
    BY DEF Init
  <1>2. Copies
    BY <1>1 DEF Copies, OwnCurrent, PlainCurrent, Disjoint, PlainAlone, Working, Plain
  <1>3. Leased /\ TriesOwn
    BY <1>1 DEF Leased, TriesOwn
  <1>4. NotYetQueued /\ admin.op = "none"
    BY <1>1 DEF Init, NotYetQueued, NoRequest
  <1> QED
    BY <1>2, <1>3, <1>4, InitType DEF CopyInv

\* Only save_changes changes the recipients of a message that stays in the store.
LEMMA OnlySaves ==
    ASSUME Undisturbed, CopyInv, [Next]_vars, exists, exists'
    PROVE  UNCHANGED msg \/ \E w \in Workers : SaveChanges(w)
  BY DEF CopyInv, NotYetQueued, Undisturbed, Next, vars, stored, QueueMessage, WorkerStep,
     Dispatch, LockEvent, LockRefused, ReadMessage, ReadNone, ThrottleSender, Route,
     Deliver, RemoveMessage, Remove, WriteFails, UnlockEvent, Crash, ExpireLease, Tick,
     AdminStep, AdminRead, AdminWrite, AdminFails, DestroyRead, DestroyWrite

\* Once the store has a recipient as delivered or failed, it stays so as long as the
\* message does: workers of different queues save copies of different age over each
\* other, some of them as a whole, and no copy makes it pending again.  This holds for
\* any number of queues, recipients that move between them, and workers that crash,
\* as long as leases hold and nobody edits the message.
THEOREM MtaFinalStatus ==
    ASSUME Undisturbed
    PROVE  Spec => FinalStatus
  <1>1. ASSUME CopyInv, [Next]_vars
        PROVE  [exists /\ exists' => \A r \in Rcpts :
                   ~Pending(msg.rcpts[r]) => ~Pending(msg'.rcpts[r])]_vars
    <2> SUFFICES ASSUME exists, exists', NEW r \in Rcpts, ~Pending(msg.rcpts[r])
                 PROVE  ~Pending(msg'.rcpts[r])
      OBVIOUS
    <2>1. CASE UNCHANGED msg
      BY <2>1
    <2>2. CASE \E w \in Workers : SaveChanges(w)
      BY <1>1, <2>2, CopiesSave DEF CopyInv
    <2> QED
      BY <1>1, <2>1, <2>2, OnlySaves
  <1>2. CopyInv /\ [Next]_vars => CopyInv'
    BY StepCopyInv
  <1> QED
    BY <1>1, <1>2, InitCopyInv, PTL DEF Spec, FinalStatus
-----------------------------------------------------------------------------
(* Nobody is handed over twice                                             *)

\* A recipient that was delivered is tried by nobody, and is not pending in a copy
\* that is written as a whole; if the store has it as pending, the worker that
\* delivered it has yet to write it.
HandedOver(r) ==
    /\ delivered[r] = 1
    /\ \A w \in Workers : Working(w) /\ Own(w, r) => ~Left(w, r)
    /\ \A w \in Workers : Plain(w) => ~Left(w, r)
    /\ exists /\ Pending(msg.rcpts[r]) =>
         \E w \in Workers : pc[w] \in {"save", "remove"} /\ Own(w, r)

OnceInv ==
    /\ CopyInv
    /\ \A r \in Rcpts : delivered[r] > 0 => queued /\ HandedOver(r)

\* A worker that crashes or whose write is refused forgets what it was told; the store
\* may fail to read, and a next hop may not be heard.
NoResultLost == Faults \subseteq {"read", "reply"}

\* A recipient is delivered by a worker that has it, and is done in its copy.
LEMMA DeliverCounts ==
    ASSUME TypeOK, TriesOwn, NEW w \in Workers, Deliver(w), NEW r \in Rcpts
    PROVE  \/ delivered'[r] = delivered[r]
           \/ /\ delivered'[r] = Bump(delivered[r])
              /\ Own(w, r) /\ Left(w, r) /\ Own(w, r)' /\ ~Left(w, r)'
  <1>t. /\ now \in Nat
        /\ wrap \in [Workers -> MessageWrapper]
        /\ wrap[w] \in MessageWrapper /\ wrap[w].message \in Message
        /\ wrap[w].message.rcpts \in [Rcpts -> Recipient]
        /\ delivered \in [Rcpts -> 0..Many]
    BY ScheduleAssumption DEF TypeOK, MessageWrapper, Message
  <1> DEFINE old == wrap[w].message.rcpts
             M(new) == [wrap[w].message EXCEPT !.rcpts = new]
  <1>1. PICK new \in [Rcpts -> UNION {Outcomes(old[s], now) : s \in wrap[w].tried}
                                 \cup {old[s] : s \in Rcpts}] :
          /\ \A s \in Rcpts : new[s] \in IF s \in wrap[w].tried
                                           THEN Outcomes(old[s], now)
                                           ELSE {old[s]}
          /\ delivered' = [s \in Rcpts |->
                 IF s \in wrap[w].tried /\ new[s].status = "done"
                   THEN Bump(delivered[s]) ELSE delivered[s]]
          /\ wrap' = [wrap EXCEPT ![w].message = AfterDsn(M(new), now),
                                  ![w].tried = {}]
    BY DEF Deliver
  <1>2. CASE ~(r \in wrap[w].tried /\ new[r].status = "done")
    BY <1>1, <1>2
  <1>3. CASE r \in wrap[w].tried /\ new[r].status = "done"
    <2>1. Own(w, r) /\ Left(w, r) /\ delivered'[r] = Bump(delivered[r])
      BY <1>1, <1>3 DEF TriesOwn, Deliver
    <2>2. new[r] = [old[r] EXCEPT !.status = "done"]
      <3>1. ASSUME NEW x \in Recipient, NEW y \in Refused(x, now) PROVE y.status # "done"
        BY <3>1 DEF Refused, Deferred, Recipient
      <3>2. RateLimited(old[r], now).status # "done"
        BY <1>t DEF RateLimited, Recipient
      <3>3. Refused(old[r], now) \subseteq Recipient
        BY <1>t, RefusedType
      <3>4. new[r] \in Outcomes(old[r], now)
        BY <1>1, <1>3
      <3> QED
        BY <1>t, <1>3, <3>1, <3>2, <3>3, <3>4 DEF Outcomes, NextHop
    <2>3. new[r].queue = old[r].queue /\ ~Pending(new[r]) /\ new[r] \in Recipient
      BY <1>t, <2>2 DEF Recipient, Pending, Statuses
    <2>4. wrap'[w].message.rcpts[r] = Accounted(new[r], now)
      BY <1>t, <1>1 DEF AfterDsn, MessageWrapper, Message
    <2>5. /\ Accounted(new[r], now).queue = old[r].queue
          /\ ~Pending(Accounted(new[r], now))
      BY <1>t, <2>3, AccountedType, AccountedQueue DEF Pending
    <2>6. job' = job
      BY DEF Deliver
    <2> QED
      BY <2>1, <2>4, <2>5, <2>6 DEF Own, Left
  <1> QED
    BY <1>2, <1>3

\* A recipient that a next hop accepted without being heard was the worker's to try,
\* and nothing else is recorded of it.
LEMMA DeliverTakes ==
    ASSUME TypeOK, TriesOwn, NEW w \in Workers, Deliver(w), NEW r \in Rcpts,
           r \in unanswered', r \notin unanswered
    PROVE  /\ Own(w, r) /\ Left(w, r)
           /\ delivered'[r] = delivered[r] /\ bounced'[r] = bounced[r]
  <1>t. /\ wrap[w].message \in Message
        /\ wrap[w].message.rcpts \in [Rcpts -> Recipient]
        /\ delivered \in [Rcpts -> 0..Many] /\ bounced \in [Rcpts -> 0..Many]
    BY DEF TypeOK, MessageWrapper, Message
  <1> DEFINE old == wrap[w].message.rcpts
             M(new) == [wrap[w].message EXCEPT !.rcpts = new]
  <1>1. PICK new \in [Rcpts -> UNION {Outcomes(old[s], now) : s \in wrap[w].tried}
                                 \cup {old[s] : s \in Rcpts}] :
          /\ delivered' = [s \in Rcpts |->
                 IF s \in wrap[w].tried /\ new[s].status = "done"
                   THEN Bump(delivered[s]) ELSE delivered[s]]
          /\ \E taken \in SUBSET {s \in wrap[w].tried :
                                    new[s] \in Unheard(old[s], now)} :
                unanswered' = unanswered \cup taken
          /\ QueueDsn(M(new))
    BY DEF Deliver
  <1>2. r \in wrap[w].tried /\ new[r] \in Unheard(old[r], now)
    BY <1>1
  <1>3. new[r].status = "temp"
    BY <1>2, <1>t DEF Unheard, Deferred, Recipient
  <1>4. r \notin Reported(M(new))
    BY <1>3, <1>t DEF Reported, Message
  <1>5. delivered'[r] = delivered[r] /\ bounced'[r] = bounced[r]
    BY <1>1, <1>3, <1>4, <1>t DEF QueueDsn
  <1>6. Own(w, r) /\ Left(w, r)
    BY <1>2 DEF TriesOwn, Deliver
  <1> QED
    BY <1>5, <1>6

\* Workers have work only after the message has been queued.
LEMMA QueuedFirst ==
    ASSUME CopyInv, NEW w \in Workers, Dispatch(w) \/ WorkerStep(w)
    PROVE  queued /\ queued'
  <1>1. queued
    BY DEF CopyInv, NotYetQueued, WorkerStep, Dispatch, LockEvent, LockRefused, ReadMessage,
       ReadNone, ThrottleSender, Route, Deliver, SaveChanges, RemoveMessage, WriteFails,
       UnlockEvent
  <1>2. UNCHANGED queued
    BY DEF hist, WorkerStep, Dispatch, LockEvent, LockRefused, ReadMessage, ReadNone,
       ThrottleSender, Route, Deliver, SaveChanges, RemoveMessage, WriteFails, UnlockEvent
  <1> QED
    BY <1>1, <1>2

\* Every step keeps what was delivered in line with what is pending.
LEMMA StepOnceInv ==
    ASSUME NoResultLost, OnceInv, [Next]_vars
    PROVE  OnceInv'
  <1>u. Undisturbed
    BY DEF NoResultLost, Undisturbed
  <1>t. /\ CopyInv /\ CopyInv'
        /\ TypeOK /\ TriesOwn /\ Copies /\ Leased
        /\ pc \in [Workers -> Steps] /\ delivered \in [Rcpts -> 0..Many]
    BY <1>u, StepCopyInv DEF OnceInv, CopyInv, TypeOK
  <1>w. \A v \in Workers : /\ Plain(v) => Working(v)
                           /\ pc[v] \in {"save", "remove"} => Working(v)
    BY DEF Plain, Working
  <1> SUFFICES ASSUME NEW r \in Rcpts, delivered'[r] > 0
               PROVE  queued' /\ HandedOver(r)'
    BY <1>t DEF OnceInv
  <1>i. delivered[r] > 0 => queued /\ HandedOver(r)
    BY DEF OnceInv
  <1>1. ASSUME NEW w \in Workers, Dispatch(w) \/ WorkerStep(w)
        PROVE  queued' /\ HandedOver(r)'
    <2>q. queued'
      BY <1>1, <1>t, QueuedFirst
    <2>o. ASSUME NEW v \in Workers, v # w
          PROVE  /\ Working(v)' <=> Working(v)
                 /\ Plain(v)' <=> Plain(v)
                 /\ Own(v, r)' <=> Own(v, r)
                 /\ Left(v, r)' <=> Left(v, r)
                 /\ pc'[v] = pc[v]
      <3>1. wrap'[v] = wrap[v] /\ pc'[v] = pc[v] /\ job'[v] = job[v]
        BY <1>1, <1>t, <2>o, OthersKeep
      <3> QED
        BY <3>1 DEF Working, Plain, Own, Left
    <2>1. CASE ReadMessage(w)
      <3>1. delivered' = delivered /\ HandedOver(r) /\ UNCHANGED <<exists, msg>>
        BY <1>i, <2>1 DEF ReadMessage, stored
      <3>2. /\ exists /\ pc[w] = "read"
            /\ Own(w, r)' <=> msg.rcpts[r].queue = job[w][1]
            /\ Left(w, r)' => Pending(msg.rcpts[r])
            /\ Plain(w)' /\ Pending(msg.rcpts[r]) => msg.rcpts[r].queue = job[w][1]
        BY <1>t, <2>1, ReadCopy
      <3>3. Pending(msg.rcpts[r]) => msg.rcpts[r].queue # job[w][1]
        <4> SUFFICES ASSUME Pending(msg.rcpts[r]) PROVE msg.rcpts[r].queue # job[w][1]
          OBVIOUS
        <4>1. PICK v \in Workers : pc[v] \in {"save", "remove"} /\ Own(v, r)
          BY <3>1, <3>2 DEF HandedOver
        <4>2. msg.rcpts[r].queue = job[v][1]
          BY <1>t, <1>w, <3>2, <4>1 DEF Copies, OwnCurrent
        <4>3. job[v][1] # job[w][1]
          BY <1>t, <3>2, <4>1 DEF Leased
        <4> QED
          BY <4>2, <4>3
      <3>4. exists' /\ Pending(msg'.rcpts[r]) =>
               \E v \in Workers : pc'[v] \in {"save", "remove"} /\ Own(v, r)'
        BY <2>o, <3>1, <3>2 DEF HandedOver
      <3> QED
        BY <2>q, <2>o, <3>1, <3>2, <3>3, <3>4 DEF HandedOver
    <2>2. CASE ThrottleSender(w) \/ Route(w) \/ Deliver(w)
      <3>1. /\ pc[w] \in {"route", "deliver"} /\ pc'[w] \in {"deliver", "save", "remove"}
            /\ UNCHANGED <<exists, msg>>
            /\ wrap'[w].is_multi_queue = wrap[w].is_multi_queue
            /\ (Own(w, r)' => Own(w, r)) /\ (Left(w, r)' => Left(w, r))
        BY <1>t, <2>2, KeepCopy
      <3>2. Working(w) /\ (Plain(w)' => Plain(w))
        BY <3>1 DEF Working, Plain
      <3>3. CASE delivered'[r] = delivered[r]
        <4>1. HandedOver(r)
          BY <1>i, <3>3
        <4>2. exists' /\ Pending(msg'.rcpts[r]) =>
                 \E v \in Workers : pc'[v] \in {"save", "remove"} /\ Own(v, r)'
          BY <2>o, <3>1, <4>1 DEF HandedOver
        <4> QED
          BY <2>q, <2>o, <3>1, <3>2, <3>3, <4>1, <4>2 DEF HandedOver
      <3>4. CASE delivered'[r] # delivered[r]
        <4>1. Deliver(w)
          BY <2>2, <3>4 DEF ThrottleSender, Route, hist
        <4>2. /\ delivered'[r] = Bump(delivered[r])
              /\ Own(w, r) /\ Left(w, r) /\ Own(w, r)' /\ ~Left(w, r)'
          BY <1>t, <3>4, <4>1, DeliverCounts
        <4>3. delivered[r] = 0
          BY <1>t, <1>i, <3>2, <4>2 DEF HandedOver
        <4>4. delivered'[r] = 1
          BY <4>2, <4>3 DEF Bump, Many
        <4>5. pc'[w] \in {"save", "remove"}
          BY <1>t, <4>1 DEF Deliver, Goto
        <4>6. ASSUME NEW v \in Workers, v # w
              PROVE  /\ Working(v) => ~Own(v, r)
                     /\ Plain(v) => ~Left(v, r)
          BY <1>t, <3>2, <4>2, <4>6 DEF Copies, Disjoint, PlainAlone
        <4> QED
          BY <2>q, <2>o, <4>2, <4>4, <4>5, <4>6 DEF HandedOver
      <3> QED
        BY <3>3, <3>4
    <2>3. CASE SaveChanges(w)
      <3>1. delivered' = delivered /\ HandedOver(r)
        BY <1>i, <2>3 DEF SaveChanges, hist
      <3>2. /\ pc[w] = "save" /\ pc'[w] = "unlock"
            /\ wrap[w].is_multi_queue => exists
        BY <1>t, <2>3 DEF SaveChanges, Save, SaveApplies, Goto
      <3>3. msg'.rcpts[r] = IF wrap[w].is_multi_queue /\ ~Own(w, r)
                              THEN msg.rcpts[r] ELSE wrap[w].message.rcpts[r]
        BY <1>t, <2>3, SavedCopy
      <3>4. Working(w) /\ (Plain(w) <=> ~wrap[w].is_multi_queue) /\ ~Working(w)'
            /\ ~Plain(w)'
        BY <3>2 DEF Working, Plain
      <3>5. ~Own(w, r) \/ ~Left(w, r)
        BY <3>1, <3>4 DEF HandedOver
      <3>6. Pending(msg'.rcpts[r]) => /\ exists /\ Pending(msg.rcpts[r]) /\ ~Own(w, r)
        <4>1. CASE wrap[w].is_multi_queue /\ ~Own(w, r)
          BY <3>2, <3>3, <4>1
        <4>2. CASE ~(wrap[w].is_multi_queue /\ ~Own(w, r))
          <5>1. ~Left(w, r)
            BY <3>1, <3>4, <3>5, <4>2 DEF HandedOver
          <5> QED
            BY <3>3, <4>2, <5>1 DEF Left
        <4> QED
          BY <4>1, <4>2
      <3>7. exists' /\ Pending(msg'.rcpts[r]) =>
               \E v \in Workers : pc'[v] \in {"save", "remove"} /\ Own(v, r)'
        BY <2>o, <3>1, <3>6 DEF HandedOver
      <3> QED
        BY <2>q, <2>o, <3>1, <3>4, <3>7 DEF HandedOver
    <2>4. CASE ~(ReadMessage(w) \/ ThrottleSender(w) \/ Route(w) \/ Deliver(w)
                   \/ SaveChanges(w))
      <3>1. delivered' = delivered /\ HandedOver(r)
        BY <1>1, <1>i, <2>4 DEF hist, WorkerStep, Dispatch, LockEvent, LockRefused,
           ReadNone, RemoveMessage, WriteFails, UnlockEvent
      <3>2. pc'[w] \in {"lock", "read", "unlock", "idle"}
        BY <1>1, <1>t, <2>4 DEF WorkerStep, Goto, End, Dispatch, LockEvent, LockRefused,
           ReadNone, RemoveMessage, WriteFails, UnlockEvent
      <3>3. \/ ~exists'
            \/ UNCHANGED <<exists, msg>> /\ pc[w] \notin {"save", "remove"}
        BY <1>1, <1>t, <2>4 DEF WorkerStep, Dispatch, LockEvent, LockRefused, ReadNone,
           RemoveMessage, Remove, WriteFails, SaveApplies, UnlockEvent, stored,
           NoResultLost
      <3>4. ~Working(w)' /\ ~Plain(w)'
        BY <3>2 DEF Working, Plain
      <3>5. exists' /\ Pending(msg'.rcpts[r]) =>
               \E v \in Workers : pc'[v] \in {"save", "remove"} /\ Own(v, r)'
        BY <2>o, <3>1, <3>3 DEF HandedOver
      <3> QED
        BY <2>q, <2>o, <3>1, <3>4, <3>5 DEF HandedOver
    <2> QED
      BY <2>1, <2>2, <2>3, <2>4
  <1>2. CASE QueueMessage
    BY <1>2, <1>i DEF QueueMessage
  <1>3. CASE UNCHANGED <<exists, msg, pc, job, wrap, delivered, queued>>
    <2>1. ASSUME NEW v \in Workers
          PROVE  /\ Working(v)' <=> Working(v)
                 /\ Plain(v)' <=> Plain(v)
                 /\ Own(v, r)' <=> Own(v, r)
                 /\ Left(v, r)' <=> Left(v, r)
      BY <1>3 DEF Working, Plain, Own, Left
    <2> QED
      BY <1>3, <1>i, <2>1 DEF HandedOver
  <1>4. \/ \E w \in Workers : Dispatch(w) \/ WorkerStep(w)
        \/ QueueMessage \/ UNCHANGED <<exists, msg, pc, job, wrap, delivered, queued>>
    BY <1>t, <1>u DEF CopyInv, Undisturbed, NoResultLost, Next, vars, stored, local,
       hist, ExpireLease, Tick, Crash, AdminStep, AdminRead, AdminWrite, AdminFails,
       DestroyRead, DestroyWrite
  <1> QED
    BY <1>1, <1>2, <1>3, <1>4

\* A recipient that was handed over is left alone by the step that follows.
LEMMA OnceStep ==
    ASSUME OnceInv, [Next]_vars, NEW r \in Rcpts, delivered[r] > 0
    PROVE  delivered'[r] = delivered[r] /\ (r \in unanswered' => r \in unanswered)
  <1>t. TypeOK /\ TriesOwn /\ HandedOver(r)
    BY DEF OnceInv, CopyInv
  <1>1. ASSUME NEW w \in Workers, Deliver(w)
        PROVE  delivered'[r] = delivered[r] /\ (r \in unanswered' => r \in unanswered)
    <2>1. ~(Own(w, r) /\ Left(w, r))
      BY <1>1, <1>t DEF HandedOver, Working, Deliver
    <2> QED
      BY <1>1, <1>t, <2>1, DeliverCounts, DeliverTakes
  <1>2. ASSUME NEW w \in Workers, ReadMessage(w)
        PROVE  UNCHANGED <<delivered, unanswered>>
    BY <1>2 DEF ReadMessage
  <1> QED
    BY <1>1, <1>2, OtherHistory DEF outcomes

\* Once a next hop was heard to accept a recipient, the recipient is not handed to one
\* again, heard or not: for any number of queues, recipients that move between them and
\* workers, with next hops that are not heard, as long as leases hold, nobody edits the
\* message and no worker loses its result to a crash or a refused write.  Removals and
\* late saves of workers of other queues are included.
THEOREM MtaDeliveredOnce ==
    ASSUME NoResultLost
    PROVE  Spec => DeliveredOnce
  <1>1. Init => OnceInv
    BY InitCopyInv DEF Init, OnceInv
  <1>2. OnceInv /\ [Next]_vars =>
          [\A r \in Rcpts : delivered[r] > 0 =>
              /\ delivered'[r] = delivered[r]
              /\ r \in unanswered' => r \in unanswered]_vars
    BY OnceStep
  <1>3. OnceInv /\ [Next]_vars => OnceInv'
    BY StepOnceInv
  <1> QED
    BY <1>1, <1>2, <1>3, PTL DEF Spec, DeliveredOnce
-----------------------------------------------------------------------------
(* A message in a single queue                                             *)

\* With one queue there is one lease, and whoever holds it has what is in the store:
\* nobody else removes it or takes quota keys from it.
SingleInv ==
    /\ CopyInv
    /\ \A w \in Workers : Working(w) =>
         exists /\ ~wrap[w].is_multi_queue /\ wrap[w].message.keys = msg.keys
    /\ QuotaBalanced

\* Every failed recipient of m has been reported, or has nobody to be reported to.
AllReported(m) == \A r \in Rcpts : m.rcpts[r].status = "failed" => m.rcpts[r].dsn_sent

\* A recipient that was delivered or reported once is finished in the copy of the
\* worker that has one, and in the store if no worker does.
Finished(r) ==
    /\ bounced[r] + delivered[r] = 1
    /\ \A w \in Workers : Working(w) => ~Left(w, r)
    /\ exists /\ (\A w \in Workers : ~Working(w)) => ~Pending(msg.rcpts[r])

HonestInv ==
    /\ SingleInv
    /\ AllReported(msg)
    /\ \A w \in Workers : Working(w) => AllReported(wrap[w].message)
    /\ \A r \in Rcpts : bounced[r] + delivered[r] > 0 => queued /\ Finished(r)

\* There is one virtual queue: no copy of a message is ever partial.
Single == Queues = {Default}

\* The counter does not go below what is left, so that releasing keys it has takes
\* them off.
LEMMA ReleaseExact ==
    ASSUME quota \in Int, NEW n \in Nat, n <= quota, Release(n)
    PROVE  quota' = quota - n
  <1> DEFINE S == {quota - n, -1}
  <1>1. \A y \in S : quota - n >= y
    OBVIOUS
  <1>2. \A x \in S : (\A y \in S : x >= y) => x = quota - n
    OBVIOUS
  <1>3. Max(S) = quota - n
    BY <1>1, <1>2 DEF Max
  <1> QED
    BY <1>3 DEF Release

\* At most one worker is past try_lock_event.
LEMMA OneHolder ==
    ASSUME Single, TypeOK, Leased,
           NEW v \in Workers, pc[v] \in {"read", "route", "deliver", "save", "remove"},
           NEW w \in Workers, pc[w] \in {"read", "route", "deliver", "save", "remove"}
    PROVE  v = w
  <1>1. job[v][1] = Default /\ job[w][1] = Default
    BY DEF Single, TypeOK
  <1> QED
    BY <1>1 DEF Leased

\* Every step keeps the quota keys of the copies those of the store, in a system of one
\* queue.
LEMMA StepSingleInv ==
    ASSUME Single, Undisturbed, SingleInv, [Next]_vars
    PROVE  SingleInv'
  <1> DEFINE Has(w) ==
        Working(w) => exists /\ ~wrap[w].is_multi_queue /\ wrap[w].message.keys = msg.keys
  <1>t. /\ CopyInv /\ CopyInv' /\ TypeOK /\ TriesOwn /\ Leased
        /\ pc \in [Workers -> Steps] /\ msg \in Message
        /\ quota \in Int /\ QuotaBalanced
        /\ \A w \in Workers : Has(w)
    BY StepCopyInv DEF SingleInv, CopyInv, TypeOK
  <1> SUFFICES (\A v \in Workers : Has(v)') /\ QuotaBalanced'
    BY <1>t DEF SingleInv
  <1>1. ASSUME NEW w \in Workers, Dispatch(w) \/ WorkerStep(w) \/ Crash(w)
        PROVE  (\A v \in Workers : Has(v)') /\ QuotaBalanced'
    <2>o. ASSUME NEW v \in Workers, v # w
          PROVE  wrap'[v] = wrap[v] /\ (Working(v)' <=> Working(v))
      BY <1>1, <1>t, <2>o, OthersKeep DEF Working
    <2>a. ASSUME pc[w] \in {"read", "route", "deliver", "save", "remove"},
                 NEW v \in Workers, v # w
          PROVE  ~Working(v)'
      BY <1>t, <2>a, <2>o, OneHolder DEF Working
    <2>1. CASE ReadMessage(w)
      <3>1. pc[w] = "read" /\ exists /\ UNCHANGED <<exists, msg, quota>>
        BY <2>1 DEF ReadMessage, stored
      <3>2. wrap'[w].message.keys = msg.keys
        BY <1>t, <2>1, KeysKept
      <3>3. ~wrap'[w].is_multi_queue
        <4>1. wrap'[w].is_multi_queue = IsMultiQueue(msg, job[w][1])
          BY <1>t, <2>1 DEF ReadMessage, TypeOK
        <4>2. \A r \in Rcpts : msg.rcpts[r].queue = Default
          BY <1>t DEF Single, Message, Recipient
        <4>3. job[w][1] = Default
          BY <1>t DEF Single, TypeOK
        <4> QED
          BY <4>1, <4>2, <4>3 DEF IsMultiQueue, PendingRcpts
      <3> QED
        BY <1>t, <2>a, <3>1, <3>2, <3>3 DEF QuotaBalanced
    <2>2. CASE ThrottleSender(w) \/ Route(w) \/ Deliver(w)
      <3>1. /\ pc[w] \in {"route", "deliver"} /\ UNCHANGED <<exists, msg>>
            /\ wrap'[w].is_multi_queue = wrap[w].is_multi_queue
        BY <1>t, <2>2, KeepCopy
      <3>2. wrap'[w].message.keys = wrap[w].message.keys
        BY <1>t, <2>2, KeysKept
      <3>3. UNCHANGED quota
        BY <2>2 DEF ThrottleSender, Route, Deliver, stored
      <3>4. Working(w)
        BY <3>1 DEF Working
      <3> QED
        BY <1>t, <2>a, <3>1, <3>2, <3>3, <3>4 DEF QuotaBalanced
    <2>3. CASE SaveChanges(w)
      <3> DEFINE m == wrap[w].message
                 saved == [m EXCEPT !.keys = m.keys \ Released(m)]
      <3>1. pc[w] = "save" /\ pc'[w] = "unlock"
        BY <1>t, <2>3 DEF SaveChanges, Goto
      <3>2. exists /\ ~wrap[w].is_multi_queue /\ m.keys = msg.keys
        BY <1>t, <3>1 DEF Working
      <3>3. exists' /\ msg' = saved /\ Release(Cardinality(Released(m)))
        BY <2>3, <3>2 DEF SaveChanges, Save
      <3>4. m \in Message
        BY <1>t DEF TypeOK, MessageWrapper
      <3>5. Released(m) \subseteq m.keys /\ m.keys \subseteq Rcpts \cup {Sender}
        BY <3>4 DEF Released, Message
      <3>6. quota = Cardinality(m.keys)
        BY <1>t, <3>2 DEF QuotaBalanced
      <3>7. quota' = Cardinality(m.keys \ Released(m))
        BY <1>t, <3>3, <3>5, <3>6, KeysLeftOver, ReleaseExact
      <3>8. msg'.keys = m.keys \ Released(m)
        BY <3>3, <3>4 DEF Message
      <3>9. ~Working(w)'
        BY <3>1 DEF Working
      <3> QED
        BY <2>a, <3>1, <3>3, <3>7, <3>8, <3>9 DEF QuotaBalanced
    <2>4. CASE RemoveMessage(w)
      <3>1. pc[w] = "remove" /\ pc'[w] = "unlock"
        BY <1>t, <2>4 DEF RemoveMessage, Goto
      <3>2. exists /\ wrap[w].message.keys = msg.keys
        BY <1>t, <3>1 DEF Working
      <3>3. ~exists' /\ Release(Cardinality(msg.keys))
        BY <2>4, <3>2 DEF RemoveMessage, Remove
      <3>4. Cardinality(msg.keys) \in Nat /\ quota = Cardinality(msg.keys)
        BY <1>t, <3>2, KeysFinite DEF QuotaBalanced, Message
      <3>5. quota' = 0
        BY <1>t, <3>3, <3>4, ReleaseExact
      <3>6. ~Working(w)'
        BY <3>1 DEF Working
      <3> QED
        BY <2>a, <3>1, <3>3, <3>5, <3>6 DEF QuotaBalanced
    <2>5. CASE ~(ReadMessage(w) \/ ThrottleSender(w) \/ Route(w) \/ Deliver(w)
                   \/ SaveChanges(w) \/ RemoveMessage(w))
      <3>1. UNCHANGED <<exists, msg, quota>>
        BY <1>1, <2>5 DEF WorkerStep, Dispatch, LockEvent, LockRefused, ReadNone,
           WriteFails, UnlockEvent, Crash, stored
      <3>2. pc'[w] \in {"lock", "read", "unlock", "idle"}
        BY <1>1, <1>t, <2>5 DEF WorkerStep, Goto, End, Dispatch, LockEvent, LockRefused,
           ReadNone, WriteFails, UnlockEvent, Crash
      <3>3. ~Working(w)'
        BY <3>2 DEF Working
      <3> QED
        BY <1>t, <2>o, <3>1, <3>3 DEF QuotaBalanced
    <2> QED
      BY <2>1, <2>2, <2>3, <2>4, <2>5
  <1>2. ASSUME QueueMessage PROVE (\A v \in Workers : Has(v)') /\ QuotaBalanced'
    <2>1. \A w \in Workers : pc'[w] = "idle"
      BY <1>2, <1>t DEF QueueMessage, CopyInv, NotYetQueued, local
    <2>2. QuotaBalanced'
      BY <1>2 DEF QueueMessage, QuotaBalanced
    <2> QED
      BY <2>1, <2>2 DEF Working
  <1>3. ASSUME UNCHANGED <<exists, msg, quota, pc, wrap>>
        PROVE  (\A v \in Workers : Has(v)') /\ QuotaBalanced'
    BY <1>3, <1>t DEF Working, QuotaBalanced
  <1>4. \/ \E w \in Workers : Dispatch(w) \/ WorkerStep(w) \/ Crash(w)
        \/ QueueMessage \/ UNCHANGED <<exists, msg, quota, pc, wrap>>
    BY <1>t DEF CopyInv, Undisturbed, Next, vars, stored, local, ExpireLease, Tick,
       AdminStep, AdminRead, AdminWrite, AdminFails, DestroyRead, DestroyWrite
  <1> QED
    BY <1>1, <1>2, <1>3, <1>4

\* At the start there is no quota to give back.
LEMMA InitSingleInv == Init => SingleInv
  BY InitCopyInv DEF Init, SingleInv, QuotaBalanced, Working

\* With a single queue, what the message has taken from the quota counters is what its
\* keys will give back, whatever crashes and refused writes do: recipients that are
\* done or have failed give back their keys once, and a removal gives back the rest.
THEOREM MtaQuotaBalanced ==
    ASSUME Single, Undisturbed
    PROVE  Spec => []QuotaBalanced
  <1>1. SingleInv => QuotaBalanced
    BY DEF SingleInv
  <1>2. SingleInv /\ [Next]_vars => SingleInv'
    BY StepSingleInv
  <1> QED
    BY <1>1, <1>2, InitSingleInv, PTL DEF Spec

\* With a single queue, a message that was removed is not put back by a worker that
\* still has a copy of it.
THEOREM MtaNoResurrection ==
    ASSUME Single, Undisturbed
    PROVE  Spec => NoResurrection
  <1>1. ASSUME SingleInv, [Next]_vars
        PROVE  [queued /\ ~exists => ~exists']_vars
    <2> SUFFICES ASSUME queued, ~exists PROVE ~exists'
      OBVIOUS
    <2>1. \A w \in Workers : ~SaveChanges(w)
      BY <1>1 DEF SingleInv, Working, SaveChanges
    <2> QED
      BY <1>1, <2>1 DEF SingleInv, CopyInv, Undisturbed, Next, vars, stored, QueueMessage,
         WorkerStep, Dispatch, LockEvent, LockRefused, ReadMessage, ReadNone,
         ThrottleSender, Route, Deliver, RemoveMessage, Remove, WriteFails, UnlockEvent,
         Crash, ExpireLease, Tick, AdminStep, AdminRead, AdminWrite, AdminFails,
         DestroyRead, DestroyWrite
  <1>2. SingleInv /\ [Next]_vars => SingleInv'
    BY StepSingleInv
  <1> QED
    BY <1>1, <1>2, InitSingleInv, PTL DEF Spec, NoResurrection

-----------------------------------------------------------------------------
(* Reports of a message in a single queue                                  *)

\* send_dsn marks every failed recipient, also when there is nobody to report to.
LEMMA DsnReports ==
    ASSUME NEW m \in Message, NEW t \in Nat
    PROVE  AllReported(AfterDsn(m, t))
  <1>1. m.rcpts \in [Rcpts -> Recipient]
    BY DEF Message
  <1>2. ASSUME NEW rc \in Recipient, rc.status = "failed"
        PROVE  DsnBuilt(rc).dsn_sent /\ DoubleBounce(rc, t).dsn_sent
    <2> DEFINE built == rc.dsn_sent \/ ~Pending(rc)
               pushed == rc.dsn_sent \/ rc.status = "failed"
               later == IF rc.notify > t THEN rc.notify
                        ELSE IF rc.expires.kind = "ttl"
                          THEN ExpirationTime(rc) + 10 ELSE Never
    <2>1. built /\ pushed
      BY <1>2 DEF Pending
    <2>2. /\ DsnBuilt(rc) = [rc EXCEPT !.dsn_sent = built]
          /\ DoubleBounce(rc, t) = [rc EXCEPT !.dsn_sent = pushed, !.notify = later]
      BY DEF DsnBuilt, DoubleBounce
    <2> HIDE DEF built, pushed, later
    <2>3. DsnBuilt(rc).dsn_sent = built /\ DoubleBounce(rc, t).dsn_sent = pushed
      BY <2>2 DEF Recipient
    <2> QED
      BY <2>1, <2>3, Zenon
  <1>3. ASSUME NEW rc \in Recipient, rc.status = "failed"
        PROVE  NextDsn(rc, t) = rc
    BY <1>3 DEF NextDsn, Pending
  <1>4. ASSUME NEW r \in Rcpts, AfterDsn(m, t).rcpts[r].status = "failed"
        PROVE  AfterDsn(m, t).rcpts[r].dsn_sent
    <2>1. AfterDsn(m, t).rcpts[r] = Accounted(m.rcpts[r], t)
      BY <1>1 DEF AfterDsn, Message
    <2>2. m.rcpts[r] \in Recipient /\ m.rcpts[r].status = "failed"
      BY <1>1, <1>4, <2>1, AccountedType
    <2>3. /\ DsnBuilt(m.rcpts[r]) \in Recipient
          /\ DsnBuilt(m.rcpts[r]).status = "failed"
          /\ DoubleBounce(m.rcpts[r], t) \in Recipient
          /\ DoubleBounce(m.rcpts[r], t).status = "failed"
      BY <2>2, DsnMarksType
    <2>4. Accounted(m.rcpts[r], t) = IF NullSender THEN DoubleBounce(m.rcpts[r], t)
                                                   ELSE DsnBuilt(m.rcpts[r])
      BY <1>3, <2>3 DEF Accounted
    <2> QED
      BY <1>2, <2>1, <2>2, <2>4
  <1> QED
    BY <1>4 DEF AllReported

\* A worker that reads reports what expires, and one that tries counts a recipient
\* once, as delivered or as reported, and only if it was pending.
LEMMA ReadReports ==
    ASSUME TypeOK, AllReported(msg), NEW w \in Workers, ReadMessage(w), NEW r \in Rcpts
    PROVE  /\ AllReported(wrap'[w].message)
           /\ delivered' = delivered
           /\ \/ bounced'[r] = bounced[r]
              \/ /\ bounced'[r] = Bump(bounced[r])
                 /\ Pending(msg.rcpts[r]) /\ ~Left(w, r)'
  <1>t. /\ now \in Nat /\ msg \in Message /\ msg.rcpts \in [Rcpts -> Recipient]
        /\ wrap \in [Workers -> MessageWrapper]
    BY ScheduleAssumption DEF TypeOK, Message
  <1> DEFINE x == MarkExpired(msg, now)
             m == AfterDsn(x, now)
  <1>1. x \in Message
    BY <1>t, MarkExpiredType
  <1>2. wrap'[w].message = m /\ QueueDsn(x) /\ delivered' = delivered
    BY <1>t DEF ReadMessage
  <1>b. bounced \in [Rcpts -> 0..Many]
    BY DEF TypeOK
  <1>3. AllReported(m)
    BY <1>t, <1>1, DsnReports
  <1>4. CASE ~(r \in Reported(x) /\ ~NullSender)
    <2>1. bounced'[r] = bounced[r]
      BY <1>2, <1>4 DEF QueueDsn
    <2> QED
      BY <1>2, <1>3, <2>1
  <1>5. CASE r \in Reported(x) /\ ~NullSender
    <2>1. bounced'[r] = Bump(bounced[r]) \/ bounced'[r] = bounced[r]
      BY <1>2, <1>5, <1>b DEF QueueDsn
    <2>2. x.rcpts[r].status = "failed" /\ ~x.rcpts[r].dsn_sent
      BY <1>5 DEF Reported
    <2>3. Pending(msg.rcpts[r])
      <3>1. ~Pending(msg.rcpts[r]) => x.rcpts[r] = msg.rcpts[r]
        BY <1>t DEF MarkExpired, Message
      <3> QED
        BY <2>2, <3>1 DEF AllReported
    <2>4. ~Left(w, r)'
      <3>1. m.rcpts[r] = Accounted(x.rcpts[r], now) /\ x.rcpts[r] \in Recipient
        BY <1>1 DEF AfterDsn, Message
      <3>2. m.rcpts[r].status = "failed"
        BY <1>t, <2>2, <3>1, AccountedType
      <3> QED
        BY <1>2, <3>2 DEF Left, Pending
    <2> QED
      BY <1>2, <1>3, <2>1, <2>3, <2>4
  <1> QED
    BY <1>4, <1>5

\* A delivery answers for a recipient once, with a delivery or with a bounce, and only
\* when it ends that recipient.
LEMMA DeliverReports ==
    ASSUME TypeOK, TriesOwn, NEW w \in Workers, AllReported(wrap[w].message),
           Deliver(w), NEW r \in Rcpts
    PROVE  /\ AllReported(wrap'[w].message)
           /\ \/ bounced'[r] = bounced[r] /\ delivered'[r] = delivered[r]
              \/ /\ \/ bounced'[r] = bounced[r] /\ delivered'[r] = Bump(delivered[r])
                    \/ bounced'[r] = Bump(bounced[r]) /\ delivered'[r] = delivered[r]
                 /\ Left(w, r) /\ ~Left(w, r)'
  <1>t. /\ now \in Nat
        /\ wrap \in [Workers -> MessageWrapper]
        /\ wrap[w] \in MessageWrapper /\ wrap[w].message \in Message
        /\ wrap[w].message.rcpts \in [Rcpts -> Recipient]
        /\ wrap[w].tried \subseteq Rcpts
    BY ScheduleAssumption DEF TypeOK, MessageWrapper, Message
  <1> DEFINE old == wrap[w].message.rcpts
             M(new) == [wrap[w].message EXCEPT !.rcpts = new]
  <1>1. PICK new \in [Rcpts -> UNION {Outcomes(old[s], now) : s \in wrap[w].tried}
                                 \cup {old[s] : s \in Rcpts}] :
          /\ \A s \in Rcpts : new[s] \in IF s \in wrap[w].tried
                                           THEN Outcomes(old[s], now)
                                           ELSE {old[s]}
          /\ delivered' = [s \in Rcpts |->
                 IF s \in wrap[w].tried /\ new[s].status = "done"
                   THEN Bump(delivered[s]) ELSE delivered[s]]
          /\ QueueDsn(M(new))
          /\ wrap' = [wrap EXCEPT ![w].message = AfterDsn(M(new), now),
                                  ![w].tried = {}]
    BY DEF Deliver
  <1>2. new \in [Rcpts -> Recipient]
    BY <1>t, <1>1, OutcomesType
  <1>3. M(new) \in Message /\ M(new).rcpts = new
    BY <1>t, <1>2 DEF Message
  <1>4. wrap'[w].message = AfterDsn(M(new), now)
    BY <1>t, <1>1 DEF MessageWrapper
  <1>5. AllReported(wrap'[w].message)
    BY <1>t, <1>3, <1>4, DsnReports
  <1>6. Left(w, r)' <=> Pending(new[r])
    <2>1. wrap'[w].message.rcpts[r] = Accounted(new[r], now)
      BY <1>3, <1>4 DEF AfterDsn, Message
    <2> QED
      BY <1>t, <1>2, <2>1, AccountedType DEF Left, Pending
  <1>7. r \in wrap[w].tried => Left(w, r)
    BY DEF TriesOwn, Deliver
  <1>8. r \notin wrap[w].tried => r \notin Reported(M(new))
    BY <1>1, <1>3 DEF Reported, AllReported
  <1>9. /\ delivered'[r] = IF r \in wrap[w].tried /\ new[r].status = "done"
                             THEN Bump(delivered[r]) ELSE delivered[r]
        /\ \/ bounced'[r] = bounced[r]
           \/ r \in Reported(M(new)) /\ bounced'[r] = Bump(bounced[r])
        /\ r \in Reported(M(new)) => new[r].status = "failed"
    BY <1>1, <1>3 DEF QueueDsn, Reported
  <1> QED
    BY <1>5, <1>6, <1>7, <1>8, <1>9 DEF Pending

\* A throttled sender leaves no failure unreported.
LEMMA ThrottleReports ==
    ASSUME TypeOK, NEW w \in Workers, AllReported(wrap[w].message), ThrottleSender(w)
    PROVE  AllReported(wrap'[w].message)
  <1>t. /\ wrap \in [Workers -> MessageWrapper]
        /\ wrap[w] \in MessageWrapper /\ wrap[w].message \in Message
        /\ wrap[w].message.rcpts \in [Rcpts -> Recipient]
    BY DEF TypeOK, MessageWrapper, Message
  <1> DEFINE old == wrap[w].message.rcpts
             Late(r) == [old[r] EXCEPT !.status = "temp", !.due = now + Retry[1]]
             new == [r \in Rcpts |->
                        IF r \in DueRcpts(wrap[w].message, job[w][1], now)
                          THEN Late(r) ELSE old[r]]
  <1>1. wrap'[w].message.rcpts = new
    BY <1>t DEF ThrottleSender, MessageWrapper, Message
  <1>2. ASSUME NEW r \in Rcpts PROVE new[r] = old[r] \/ new[r].status = "temp"
    BY <1>t DEF Recipient
  <1> HIDE DEF new
  <1> QED
    BY <1>1, <1>2 DEF AllReported

\* Every step keeps what was bounced in line with what was reported as failed.
LEMMA StepHonestInv ==
    ASSUME Single, NoResultLost, HonestInv, [Next]_vars
    PROVE  HonestInv'
  <1>u. Undisturbed
    BY DEF NoResultLost, Undisturbed
  <1>t. /\ SingleInv /\ SingleInv'
        /\ CopyInv /\ TypeOK /\ TypeOK' /\ TriesOwn /\ Leased
        /\ AllReported(msg) /\ msg \in Message
        /\ pc \in [Workers -> Steps]
        /\ delivered \in [Rcpts -> 0..Many] /\ bounced \in [Rcpts -> 0..Many]
    BY <1>u, StepSingleInv, StepType DEF HonestInv, SingleInv, CopyInv, TypeOK
  <1>q. \A r \in Rcpts : bounced'[r] + delivered'[r] > 0 => queued'
    <2>1. CASE \E w \in Workers : Dispatch(w) \/ WorkerStep(w)
      BY <1>t, <2>1, QueuedFirst
    <2>2. CASE QueueMessage
      BY <2>2 DEF QueueMessage
    <2>3. CASE UNCHANGED <<bounced, delivered, queued>>
      BY <2>3 DEF HonestInv
    <2> QED
      BY <1>t, <1>u, <2>1, <2>2, <2>3 DEF CopyInv, Undisturbed, NoResultLost, Next, vars,
         hist, ExpireLease, Tick, Crash, AdminStep, AdminRead, AdminWrite, AdminFails,
         DestroyRead, DestroyWrite
  <1> SUFFICES /\ AllReported(msg)'
               /\ \A v \in Workers : Working(v)' => AllReported(wrap[v].message)'
               /\ \A r \in Rcpts : bounced'[r] + delivered'[r] > 0 => Finished(r)'
    BY <1>t, <1>q DEF HonestInv
  <1>i. \A r \in Rcpts : bounced[r] + delivered[r] > 0 => Finished(r)
    BY DEF HonestInv
  <1>c. \A v \in Workers : Working(v) => AllReported(wrap[v].message)
    BY DEF HonestInv
  <1>1. ASSUME NEW w \in Workers, Dispatch(w) \/ WorkerStep(w)
        PROVE  /\ AllReported(msg)'
               /\ \A v \in Workers : Working(v)' => AllReported(wrap[v].message)'
               /\ \A r \in Rcpts : bounced'[r] + delivered'[r] > 0 => Finished(r)'
    <2>o. ASSUME NEW v \in Workers, v # w
          PROVE  /\ Working(v)' <=> Working(v)
                 /\ wrap'[v] = wrap[v]
                 /\ \A r \in Rcpts : Left(v, r)' <=> Left(v, r)
      BY <1>1, <1>t, <2>o, OthersKeep DEF Working, Left
    <2>a. ASSUME pc[w] \in {"read", "route", "deliver", "save", "remove"},
                 NEW v \in Workers, v # w
          PROVE  ~Working(v) /\ ~Working(v)'
      BY <1>t, <2>a, <2>o, OneHolder DEF Working
    <2>1. CASE ReadMessage(w)
      <3>1. /\ exists /\ pc[w] = "read" /\ UNCHANGED <<exists, msg>>
            /\ delivered' = delivered
        BY <2>1 DEF ReadMessage, stored
      <3>2. AllReported(wrap'[w].message)
        BY <1>t, <2>1, ReadReports, QueueAssumption
      <3>3. ASSUME NEW r \in Rcpts, bounced'[r] + delivered'[r] > 0
            PROVE  Finished(r)'
        <4>0. ~Working(w)
          BY <3>1 DEF Working
        <4>1. Pending(msg.rcpts[r]) => bounced[r] + delivered[r] = 0
          BY <1>t, <1>i, <2>a, <3>1, <4>0 DEF Finished
        <4>2. \/ bounced'[r] = bounced[r]
              \/ /\ bounced'[r] = Bump(bounced[r])
                 /\ Pending(msg.rcpts[r]) /\ ~Left(w, r)'
          BY <1>t, <2>1, ReadReports
        <4>3. Left(w, r)' => Pending(msg.rcpts[r])
          BY <1>t, <2>1, ReadCopy
        <4>4. bounced'[r] + delivered'[r] = 1 /\ ~Left(w, r)'
          <5>1. CASE bounced'[r] = bounced[r]
            BY <1>i, <3>1, <3>3, <4>1, <4>3, <5>1 DEF Finished
          <5>2. CASE bounced'[r] # bounced[r]
            BY <1>t, <3>1, <4>1, <4>2, <5>2 DEF Bump, Many
          <5> QED
            BY <5>1, <5>2
        <4>5. Working(w)' \/ ~Pending(msg.rcpts[r])
          <5>1. pc'[w] \in {"route", "save", "remove"}
            BY <1>t, <2>1 DEF ReadMessage, Goto
          <5> QED
            BY <5>1 DEF Working
        <4> QED
          BY <2>a, <3>1, <4>4, <4>5 DEF Finished
      <3> QED
        BY <1>t, <2>a, <3>1, <3>2, <3>3
    <2>2. CASE ThrottleSender(w) \/ Route(w) \/ Deliver(w)
      <3>1. /\ pc[w] \in {"route", "deliver"} /\ pc'[w] \in {"deliver", "save", "remove"}
            /\ UNCHANGED <<exists, msg>>
            /\ \A r \in Rcpts : Left(w, r)' => Left(w, r)
        BY <1>t, <2>2, KeepCopy
      <3>2. Working(w) /\ Working(w)'
        BY <3>1 DEF Working
      <3>3. AllReported(wrap'[w].message)
        <4>1. CASE ThrottleSender(w)
          BY <1>t, <1>c, <3>2, <4>1, ThrottleReports
        <4>2. CASE Route(w)
          <5>1. wrap'[w].message = wrap[w].message
            BY <1>t, <4>2 DEF Route, TypeOK, MessageWrapper
          <5> QED
            BY <1>c, <3>2, <5>1
        <4>3. CASE Deliver(w)
          BY <1>t, <1>c, <3>2, <4>3, DeliverReports, QueueAssumption
        <4> QED
          BY <2>2, <4>1, <4>2, <4>3
      <3>4. ASSUME NEW r \in Rcpts, bounced'[r] + delivered'[r] > 0
            PROVE  Finished(r)'
        <4>1. Left(w, r) => bounced[r] + delivered[r] = 0
          <5>1. Finished(r) => ~Left(w, r)
            BY <3>2 DEF Finished
          <5>2. ~Finished(r) => bounced[r] + delivered[r] = 0
            BY <1>t, <1>i
          <5> QED
            BY <5>1, <5>2
        <4>2. \/ bounced'[r] = bounced[r] /\ delivered'[r] = delivered[r]
              \/ /\ \/ bounced'[r] = bounced[r] /\ delivered'[r] = Bump(delivered[r])
                    \/ bounced'[r] = Bump(bounced[r]) /\ delivered'[r] = delivered[r]
                 /\ Left(w, r) /\ ~Left(w, r)'
          <5>1. CASE Deliver(w)
            BY <1>t, <1>c, <3>2, <5>1, DeliverReports
          <5>2. CASE ThrottleSender(w) \/ Route(w)
            BY <5>2 DEF ThrottleSender, Route, hist
          <5> QED
            BY <2>2, <5>1, <5>2
        <4>3. bounced'[r] + delivered'[r] = 1 /\ ~Left(w, r)'
          <5>1. CASE bounced'[r] = bounced[r] /\ delivered'[r] = delivered[r]
            BY <1>i, <3>1, <3>2, <3>4, <5>1 DEF Finished
          <5>2. CASE ~(bounced'[r] = bounced[r] /\ delivered'[r] = delivered[r])
            BY <1>t, <4>1, <4>2, <5>2 DEF Bump, Many
          <5> QED
            BY <5>1, <5>2
        <4> QED
          BY <2>a, <3>1, <3>2, <4>3 DEF Finished
      <3> QED
        BY <1>t, <2>a, <3>1, <3>3, <3>4
    <2>3. CASE SaveChanges(w)
      <3>1. pc[w] = "save" /\ pc'[w] = "unlock" /\ UNCHANGED <<bounced, delivered>>
        BY <1>t, <2>3 DEF SaveChanges, Goto, hist
      <3>2. Working(w) /\ ~Working(w)'
        BY <3>1 DEF Working
      <3>3. ~wrap[w].is_multi_queue
        BY <1>t, <3>2 DEF SingleInv
      <3>4. \A r \in Rcpts : msg'.rcpts[r] = wrap[w].message.rcpts[r]
        BY <1>t, <2>3, <3>3, SavedCopy
      <3>5. AllReported(msg')
        BY <1>c, <3>2, <3>4 DEF AllReported
      <3>6. ASSUME NEW r \in Rcpts, bounced'[r] + delivered'[r] > 0
            PROVE  Finished(r)'
        BY <1>i, <2>a, <3>1, <3>2, <3>4, <3>6 DEF Finished, Left
      <3> QED
        BY <2>a, <3>1, <3>2, <3>5, <3>6
    <2>4. CASE RemoveMessage(w)
      <3>1. /\ pc[w] = "remove" /\ pc'[w] = "unlock" /\ UNCHANGED <<bounced, delivered>>
            /\ ~exists' /\ msg' = NewMessage
        BY <1>t, <2>4 DEF RemoveMessage, Remove, Goto, hist
      <3>2. ~Working(w)'
        BY <3>1 DEF Working
      <3>3. AllReported(msg')
        BY <3>1 DEF AllReported, NewMessage
      <3> QED
        BY <1>i, <2>a, <3>1, <3>2, <3>3 DEF Finished
    <2>5. CASE ~(ReadMessage(w) \/ ThrottleSender(w) \/ Route(w) \/ Deliver(w)
                   \/ SaveChanges(w) \/ RemoveMessage(w))
      <3>1. UNCHANGED <<exists, msg, bounced, delivered>>
        BY <1>1, <2>5 DEF WorkerStep, Dispatch, LockEvent, LockRefused, ReadNone,
           WriteFails, UnlockEvent, stored, hist
      <3>2. /\ pc'[w] \in {"lock", "read", "unlock", "idle"}
            /\ pc[w] \in {"idle", "lock", "read", "unlock"}
               \/ (pc[w] = "save" /\ wrap[w].is_multi_queue)
        BY <1>1, <1>t, <2>5 DEF WorkerStep, Goto, End, Dispatch, LockEvent, LockRefused,
           ReadNone, WriteFails, SaveApplies, UnlockEvent, NoResultLost
      <3>3. ~Working(w) /\ ~Working(w)'
        BY <1>t, <3>2 DEF Working, SingleInv
      <3> QED
        BY <1>t, <1>i, <1>c, <2>o, <3>1, <3>3 DEF Finished
    <2> QED
      BY <2>1, <2>2, <2>3, <2>4, <2>5
  <1>2. CASE QueueMessage
    <2>1. /\ \A w \in Workers : ~Working(w)' /\ ~Working(w)
          /\ UNCHANGED <<bounced, delivered>> /\ msg' = NewMessage
      BY <1>2, <1>t DEF QueueMessage, CopyInv, NotYetQueued, local, Working
    <2>2. AllReported(msg')
      BY <2>1 DEF AllReported, NewMessage
    <2>3. \A r \in Rcpts : bounced[r] + delivered[r] = 0
      BY <1>2, <1>t DEF HonestInv, QueueMessage
    <2> QED
      BY <2>1, <2>2, <2>3
  <1>3. CASE UNCHANGED <<exists, msg, pc, wrap, bounced, delivered>>
    <2>1. ASSUME NEW v \in Workers
          PROVE  /\ Working(v)' <=> Working(v)
                 /\ \A r \in Rcpts : Left(v, r)' <=> Left(v, r)
      BY <1>3 DEF Working, Left
    <2> QED
      BY <1>3, <1>t, <1>i, <1>c, <2>1 DEF Finished
  <1>4. \/ \E w \in Workers : Dispatch(w) \/ WorkerStep(w)
        \/ QueueMessage \/ UNCHANGED <<exists, msg, pc, wrap, bounced, delivered>>
    BY <1>t, <1>u DEF CopyInv, Undisturbed, NoResultLost, Next, vars, stored, local, hist,
       ExpireLease, Tick, Crash, AdminStep, AdminRead, AdminWrite, AdminFails,
       DestroyRead, DestroyWrite
  <1> QED
    BY <1>1, <1>2, <1>3, <1>4

\* At the start nothing has been sent.
LEMMA InitHonestInv == Init => HonestInv
  <1> SUFFICES ASSUME Init PROVE HonestInv
    OBVIOUS
  <1>1. SingleInv
    BY InitSingleInv
  <1>2. AllReported(msg) /\ \A w \in Workers : ~Working(w)
    BY DEF Init, AllReported, NewMessage, Working
  <1> QED
    BY <1>1, <1>2 DEF Init, HonestInv

\* With a single queue, the sender gets at most one report of failure for a recipient,
\* and none for one that a next hop was heard to accept, for any number of recipients
\* and workers, as long as leases hold, nobody edits the message and no worker loses its
\* result.  A recipient whose next hop was not heard may yet be reported as failed.
THEOREM MtaHonestBounces ==
    ASSUME Single, NoResultLost
    PROVE  Spec => []HonestBounces
  <1>1. Init => HonestInv
    BY InitHonestInv
  <1>2. HonestInv => HonestBounces
    BY DEF HonestInv, Finished, HonestBounces, SingleInv, CopyInv, TypeOK
  <1>3. HonestInv /\ [Next]_vars => HonestInv'
    BY StepHonestInv
  <1> QED
    BY <1>1, <1>2, <1>3, PTL DEF Spec

-----------------------------------------------------------------------------
(* The promise of the queue                                                *)

\* What became of each recipient, as MailQueue sees it.
Fates == [r \in Rcpts |-> FateOf(delivered[r], bounced[r])]

\* A recipient has one fate, the message leaves when all have theirs, and its text
\* stays as long as it does; no administrator is in the way, and no report is refused.
FateInv ==
    /\ HonestInv /\ LossInv /\ NothingUnreported
    /\ blob = exists
    /\ gone = FALSE /\ cancelled = {}

\* Deliveries and reports are not taken back, so that a fate stays what it is while a
\* recipient has only one.
LEMMA FateStays ==
    ASSUME NEW d \in 0..Many, NEW b \in 0..Many, NEW e \in 0..Many, NEW c \in 0..Many,
           e >= d, c >= b, e + c <= 1
    PROVE  /\ FateOf(e, c) \in {"pending", "delivered", "returned"}
           /\ FateOf(d, b) # "pending" => FateOf(e, c) = FateOf(d, b)
  BY DEF FateOf, Many

\* Recipients meet their fate in the two steps that send something, which leave the
\* message where it is, in the store.
LEMMA SettledInPlace ==
    ASSUME NoResultLost, HonestInv, [Next]_vars,
           ~UNCHANGED <<delivered, bounced, unanswered>>
    PROVE  exists /\ UNCHANGED <<exists, blob, queued>>
  <1>t. /\ TypeOK /\ admin.op = "none"
        /\ \A w \in Workers : Working(w) => exists
    BY DEF HonestInv, SingleInv, CopyInv
  <1>1. PICK w \in Workers : ReadMessage(w) \/ Deliver(w)
    BY OtherHistory DEF outcomes
  <1>2. exists
    BY <1>1, <1>t DEF ReadMessage, Deliver, Working
  <1>3. UNCHANGED <<exists, blob, queued>>
    BY <1>1 DEF ReadMessage, Deliver, stored
  <1> QED
    BY <1>2, <1>3

\* Who comes to be in doubt has met no fate, and meets none in that step.
LEMMA DoubtPending ==
    ASSUME HonestInv, [Next]_vars, NEW r \in Rcpts, r \in unanswered', r \notin unanswered
    PROVE  /\ delivered[r] = 0 /\ bounced[r] = 0
           /\ delivered'[r] = 0 /\ bounced'[r] = 0
  <1>t. /\ TypeOK /\ TriesOwn
        /\ delivered \in [Rcpts -> 0..Many] /\ bounced \in [Rcpts -> 0..Many]
        /\ bounced[r] + delivered[r] > 0 => Finished(r)
    BY DEF HonestInv, SingleInv, CopyInv, TypeOK
  <1>1. ASSUME NEW w \in Workers, ReadMessage(w) PROVE UNCHANGED unanswered
    BY <1>1 DEF ReadMessage
  <1>2. PICK w \in Workers : Deliver(w)
    BY <1>1, OtherHistory DEF outcomes
  <1>3. /\ Left(w, r)
        /\ delivered'[r] = delivered[r] /\ bounced'[r] = bounced[r]
    BY <1>2, <1>t, DeliverTakes
  <1>4. ~Finished(r)
    BY <1>2, <1>3 DEF Finished, Working, Deliver
  <1> QED
    BY <1>t, <1>3, <1>4

\* Otherwise the message is accepted, leaves, or stays where it is.
LEMMA PlaceSteps ==
    ASSUME NoResultLost, FateInv, [Next]_vars
    PROVE  \/ ~queued /\ ~exists /\ queued' /\ exists' /\ blob'
           \/ queued /\ exists /\ queued' /\ ~exists' /\ ~blob'
           \/ UNCHANGED <<exists, blob, queued>>
  <1>t. /\ TypeOK /\ admin.op = "none" /\ exists \in BOOLEAN /\ NotYetQueued
        /\ \A w \in Workers : Working(w) => exists
    BY DEF FateInv, HonestInv, SingleInv, CopyInv, TypeOK
  <1>1. CASE QueueMessage
    BY <1>1, <1>t DEF QueueMessage, NotYetQueued
  <1>2. ASSUME NEW w \in Workers, SaveChanges(w)
        PROVE  UNCHANGED <<exists, blob, queued>>
    <2>1. exists
      BY <1>2, <1>t DEF SaveChanges, Working
    <2>2. exists' = TRUE /\ blob' = blob /\ queued' = queued
      BY <1>2 DEF SaveChanges, Save, hist
    <2> QED
      BY <1>t, <2>1, <2>2
  <1>3. ASSUME NEW w \in Workers, RemoveMessage(w)
        PROVE  queued /\ exists /\ queued' /\ ~exists' /\ ~blob'
    <2>1. exists /\ queued
      BY <1>3, <1>t DEF RemoveMessage, Working, NotYetQueued
    <2>2. ~exists' /\ ~blob' /\ queued' = queued
      BY <1>3 DEF RemoveMessage, Remove, hist
    <2> QED
      BY <2>1, <2>2
  <1>4. CASE UNCHANGED <<exists, blob, queued>>
    BY <1>4
  <1>5. \/ QueueMessage \/ UNCHANGED <<exists, blob, queued>>
        \/ \E w \in Workers : SaveChanges(w) \/ RemoveMessage(w)
    <2>1. ASSUME NEW w \in Workers, Dispatch(w) \/ WorkerStep(w) \/ Crash(w),
                 ~SaveChanges(w), ~RemoveMessage(w)
          PROVE  UNCHANGED <<exists, blob, queued>>
      <3>1. CASE Dispatch(w) \/ Crash(w)
        BY <3>1 DEF Dispatch, Crash, stored, hist
      <3>2. CASE LockEvent(w) \/ LockRefused(w) \/ ReadMessage(w) \/ ReadNone(w)
        BY <3>2 DEF LockEvent, LockRefused, ReadMessage, ReadNone, stored, hist
      <3>3. CASE ThrottleSender(w) \/ Route(w) \/ WriteFails(w) \/ UnlockEvent(w)
        BY <3>3 DEF ThrottleSender, Route, WriteFails, UnlockEvent, stored, hist
      <3>4. CASE Deliver(w)
        BY <3>4 DEF Deliver, stored
      <3> QED
        BY <2>1, <3>1, <3>2, <3>3, <3>4, Zenon DEF WorkerStep
    <2>2. ASSUME AdminStep PROVE UNCHANGED <<exists, blob, queued>>
      BY <1>t, <2>2 DEF AdminStep, AdminRead, AdminWrite, AdminFails, DestroyRead,
         DestroyWrite, stored, hist
    <2>3. ASSUME (\E q \in Queues : ExpireLease(q)) \/ Tick \/ UNCHANGED vars
          PROVE  UNCHANGED <<exists, blob, queued>>
      BY <2>3 DEF ExpireLease, Tick, vars, stored, hist
    <2> QED
      BY <2>1, <2>2, <2>3, Zenon DEF Next
  <1> QED
    BY <1>1, <1>2, <1>3, <1>4, <1>5

\* Every step keeps the message and its text together, and every recipient with one
\* fate.
LEMMA StepFateInv ==
    ASSUME Single, NoResultLost, NullSender = FALSE, FateInv, [Next]_vars
    PROVE  FateInv'
  <1>1. HonestInv'
    BY StepHonestInv DEF FateInv
  <1>2. LossInv'
    BY StepLossInv DEF FateInv
  <1>3. blob' = exists'
    <2>1. /\ blob = exists
          /\ exists' \in BOOLEAN /\ blob' \in BOOLEAN
      BY <1>2 DEF FateInv, LossInv, TypeOK
    <2> QED
      BY <2>1, PlaceSteps
  <1>4. gone' = gone /\ cancelled' = cancelled
    BY DEF NoResultLost, FateInv, HonestInv, SingleInv, CopyInv, Next, vars, hist,
       QueueMessage, WorkerStep, Dispatch, LockEvent, LockRefused, ReadMessage, ReadNone,
       ThrottleSender, Route, Deliver, SaveChanges, RemoveMessage, WriteFails,
       UnlockEvent, Crash, ExpireLease, AdminStep, AdminRead, AdminWrite, AdminFails,
       DestroyRead, DestroyWrite, Tick
  <1>5. NothingUnreported'
    BY StepUnreported DEF NoResultLost, FateInv
  <1> QED
    BY <1>1, <1>2, <1>3, <1>4, <1>5 DEF FateInv

\* Every step is one of MailQueue, or none that it sees.
LEMMA StepPromised ==
    ASSUME NoResultLost, FateInv, FateInv', [Next]_vars
    PROVE  [Promised!Next]_<<Place, Fates, unanswered>>
  <1>t. /\ TypeOK /\ TypeOK' /\ NotYetQueued
        /\ delivered \in [Rcpts -> 0..Many] /\ bounced \in [Rcpts -> 0..Many]
        /\ delivered' \in [Rcpts -> 0..Many] /\ bounced' \in [Rcpts -> 0..Many]
        /\ blob = exists /\ blob' = exists'
        /\ HonestInv
    BY DEF FateInv, HonestInv, SingleInv, CopyInv, TypeOK
  <1>p. /\ Place = IF exists THEN "queued" ELSE IF queued THEN "gone" ELSE "new"
        /\ Place' = IF exists' THEN "queued" ELSE IF queued' THEN "gone" ELSE "new"
    BY <1>t DEF Place
  <1>1. CASE ~UNCHANGED <<delivered, bounced, unanswered>>
    <2>1. Place = "queued" /\ Place' = Place
      BY <1>1, <1>p, <1>t, SettledInPlace
    <2>2. ASSUME NEW r \in Rcpts
          PROVE  /\ Fates'[r] \in {"pending", "delivered", "returned"}
                 /\ Fates[r] # "pending" => Fates'[r] = Fates[r]
      <3>1. bounced'[r] >= bounced[r] /\ delivered'[r] >= delivered[r]
        BY <1>t, HistoryGrows
      <3>2. delivered'[r] + bounced'[r] <= 1
        BY <1>t DEF FateInv, HonestInv, Finished
      <3>3. /\ Fates[r] = FateOf(delivered[r], bounced[r])
            /\ Fates'[r] = FateOf(delivered'[r], bounced'[r])
        BY DEF Fates
      <3> QED
        BY <1>t, <3>1, <3>2, <3>3, FateStays
    <2>3. Fates' = [r \in Rcpts |-> Fates'[r]]
      BY DEF Fates
    <2>4. Fates' \in [Rcpts -> {"pending", "delivered", "returned"}]
      BY <2>2, <2>3
    <2>5. /\ unanswered \subseteq unanswered' /\ unanswered' \subseteq Rcpts
          /\ \A r \in unanswered' \ unanswered :
                Fates[r] = "pending" /\ Fates'[r] = "pending"
      <3>1. unanswered \subseteq unanswered'
        BY UnansweredGrows
      <3>2. unanswered' \subseteq Rcpts
        BY <1>t DEF TypeOK
      <3>3. ASSUME NEW r \in Rcpts, r \in unanswered', r \notin unanswered
            PROVE  Fates[r] = "pending" /\ Fates'[r] = "pending"
        BY <1>t, <3>3, DoubtPending DEF Fates, FateOf
      <3> QED
        BY <3>1, <3>2, <3>3
    <2>6. Promised!Settle
      BY <2>1, <2>2, <2>4, <2>5 DEF Promised!Settle, Fates
    <2> QED
      BY <2>6 DEF Promised!Next
  <1>2. CASE UNCHANGED <<delivered, bounced, unanswered>>
    <2>1. Fates' = Fates
      BY <1>2 DEF Fates
    <2>2. CASE ~queued /\ ~exists /\ queued' /\ exists' /\ blob'
      <3>1. Promised!Accept
        BY <1>p, <1>2, <2>1, <2>2 DEF Promised!Accept, Fates
      <3> QED
        BY <3>1 DEF Promised!Next
    <2>3. CASE queued /\ exists /\ queued' /\ ~exists' /\ ~blob'
      <3>1. \A r \in Rcpts : delivered'[r] > 0 \/ bounced'[r] > 0
        BY <2>3 DEF FateInv, LossInv, NoSilentLoss, NothingUnreported
      <3>2. \A r \in Rcpts : Fates[r] # "pending"
        BY <1>2, <1>t, <3>1 DEF Fates, FateOf
      <3>3. Promised!Leave
        BY <1>p, <1>2, <2>1, <2>3, <3>2 DEF Promised!Leave, Fates
      <3> QED
        BY <3>3 DEF Promised!Next
    <2>4. CASE UNCHANGED <<exists, blob, queued>>
      BY <1>p, <1>2, <2>1, <2>4
    <2> QED
      BY <2>2, <2>3, <2>4, PlaceSteps
  <1> QED
    BY <1>1, <1>2

\* With a single queue, the queue keeps the message with its text until every recipient
\* is known to be with a next hop or was reported to the sender, one of the two and once,
\* and then the message leaves for good; a recipient whose next hop was not heard stays
\* until it ends like any other.  The steps of the workers implement MailQueue, for any
\* number of recipients and workers, as long as leases hold, nobody edits the message
\* and no worker loses its result.
THEOREM MtaKeepsPromise ==
    ASSUME Single, NoResultLost, NullSender = FALSE
    PROVE  Spec => KeepsPromise
  <1>1. Init => FateInv
    <2> SUFFICES ASSUME Init PROVE FateInv
      OBVIOUS
    <2>1. HonestInv
      BY InitHonestInv
    <2>2. LossInv
      BY InitLossInv
    <2> QED
      BY <2>1, <2>2 DEF Init, FateInv, NothingUnreported
  <1>2. FateInv /\ [Next]_vars => FateInv'
    BY StepFateInv
  <1>3. Init => Promised!Init
    <2> SUFFICES ASSUME Init PROVE Promised!Init
      OBVIOUS
    <2>1. Place = "new"
      BY DEF Init, Place
    <2>2. Fates = [r \in Rcpts |-> "pending"] /\ unanswered = {}
      BY DEF Init, Fates, FateOf
    <2> QED
      BY <2>1, <2>2 DEF Promised!Init, Fates
  <1>4. FateInv /\ FateInv' /\ [Next]_vars => [Promised!Next]_<<Place, Fates, unanswered>>
    BY StepPromised
  <1>5. Spec => [][Promised!Next]_<<Place, Fates, unanswered>>
    BY <1>1, <1>2, <1>4, PTL DEF Spec
  <1> QED
    BY <1>3, <1>5, PTL DEF Spec, KeepsPromise, Promised!Spec, Fates

=============================================================================
