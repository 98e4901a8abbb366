---------------------------- MODULE MtaLossProofs ----------------------------
(***************************************************************************)
(* No recipient of a queued message is dropped in silence, whatever        *)
(* crashes, lost leases, administrators and failing stores do, for any     *)
(* number of recipients, virtual queues and workers.                       *)
(***************************************************************************)
EXTENDS MtaQueueProofs

\* The recipients whose fate somebody has been told: the next hop that accepted
\* them, the sender, or the administrator who cancelled them; and those of whom the
\* store has refused to tell the sender.
Settled ==
    cancelled \cup unreported \cup {r \in Rcpts : delivered[r] > 0 \/ bounced[r] > 0}

\* Every recipient of m that needs no more work is in S, and so is every one that
\* is marked as reported: should it be scheduled again, it would fail unreported.
Answered(m, S) ==
    \A r \in Rcpts : r \in S \/ (Pending(m.rcpts[r]) /\ ~m.rcpts[r].dsn_sent)

\* So it is in the store and in every copy.  Workers remove a message only with no
\* pending recipient left.
StoreAnswered == Answered(msg, Settled)
CopyAnswered(w) ==
    /\ Answered(wrap[w].message, Settled)
    /\ pc[w] = "remove" => ~HasPending(wrap[w].message)
RequestAnswered == Answered(admin.message, Settled \cup admin.cancel)

LossInv ==
    /\ TypeOK
    /\ StoreAnswered /\ RequestAnswered /\ \A w \in Workers : CopyAnswered(w)
    /\ NoSilentLoss

\* send_dsn marks the recipients that need no more work as reported, and no other.
LEMMA AccountedMark ==
    ASSUME NullSender = FALSE, NEW rc \in Recipient, NEW t \in Nat
    PROVE  Accounted(rc, t).dsn_sent <=> rc.dsn_sent \/ ~Pending(rc)
  <1> DEFINE marked == DsnBuilt(rc)
  <1>1. marked \in Recipient /\ marked.status = rc.status
    BY DsnMarksType
  <1>2. marked.dsn_sent <=> rc.dsn_sent \/ ~Pending(rc)
    <2> DEFINE sent == rc.dsn_sent \/ ~Pending(rc)
    <2>1. marked = [rc EXCEPT !.dsn_sent = sent]
      BY DEF DsnBuilt
    <2> HIDE DEF sent
    <2>2. marked.dsn_sent = sent
      BY <2>1 DEF Recipient
    <2> QED
      BY <2>2, Zenon DEF sent
  <1>3. Accounted(rc, t) = NextDsn(marked, t)
    BY DEF Accounted
  <1> HIDE DEF marked
  <1>4. NextDsn(marked, t).dsn_sent = marked.dsn_sent
    <2>1. CASE ~Pending(marked) \/ marked.notify > t
      BY <2>1 DEF NextDsn
    <2>2. CASE ~(~Pending(marked) \/ marked.notify > t)
      <3> DEFINE once == [marked EXCEPT !.nth = marked.nth + 1]
      <3>1. once.dsn_sent = marked.dsn_sent /\ once \in Recipient
        BY <1>1 DEF Recipient
      <3>2. \/ NextDsn(marked, t) =
                 [once EXCEPT !.notify = t + Notify[marked.nth + 2]]
            \/ NextDsn(marked, t) = [marked EXCEPT !.notify = Never]
        BY <2>2 DEF NextDsn
      <3> HIDE DEF once
      <3> QED
        BY <1>1, <3>1, <3>2 DEF Recipient
    <2> QED
      BY <2>1, <2>2
  <1> QED
    BY <1>2, <1>3, <1>4

\* A message that is answered for stays so when send_dsn is done with it.
LEMMA AnsweredDsn ==
    ASSUME NullSender = FALSE, NEW m \in Message, NEW t \in Nat, NEW S, Answered(m, S)
    PROVE  Answered(AfterDsn(m, t), S)
  <1>1. m.rcpts \in [Rcpts -> Recipient]
    BY DEF Message
  <1> SUFFICES ASSUME NEW r \in Rcpts
               PROVE  LET rc == AfterDsn(m, t).rcpts[r]
                      IN  r \in S \/ (Pending(rc) /\ ~rc.dsn_sent)
    BY DEF Answered
  <1>2. AfterDsn(m, t).rcpts[r] = Accounted(m.rcpts[r], t)
    BY <1>1 DEF AfterDsn, Message
  <1>3. /\ Accounted(m.rcpts[r], t).status = m.rcpts[r].status
        /\ Accounted(m.rcpts[r], t).dsn_sent
               <=> m.rcpts[r].dsn_sent \/ ~Pending(m.rcpts[r])
    BY <1>1, AccountedType, AccountedMark
  <1>4. Pending(Accounted(m.rcpts[r], t)) <=> Pending(m.rcpts[r])
    BY <1>3 DEF Pending
  <1> QED
    BY <1>2, <1>3, <1>4, Zenon DEF Answered

\* What an attempt makes of a recipient is marked as reported when the recipient was.
LEMMA OutcomesMark ==
    ASSUME NEW rc \in Recipient, NEW t \in Nat, NEW x \in Outcomes(rc, t)
    PROVE  x.dsn_sent = rc.dsn_sent
  <1>1. ASSUME NEW y \in Recipient, NEW z \in Refused(y, t)
        PROVE  z.dsn_sent = y.dsn_sent
    BY <1>1 DEF Refused, Deferred, Recipient
  <1>2. ASSUME NEW y \in Refused(rc, t), NEW z \in Refused(y, t)
        PROVE  z.dsn_sent = rc.dsn_sent
    BY <1>1, RefusedType
  <1> QED
    BY <1>1, <1>2 DEF Outcomes, NextHop, RateLimited, Recipient

\* More may be settled.
LEMMA AnsweredMore ==
    ASSUME NEW m, NEW S, NEW T, S \subseteq T, Answered(m, S)
    PROVE  Answered(m, T)
  BY Zenon DEF Answered

\* A recipient that expires is answered for by the report that follows.
LEMMA AnsweredExpired ==
    ASSUME NEW m \in Message, NEW t \in Nat, NEW S, Answered(m, S)
    PROVE  Answered(MarkExpired(m, t), S \cup Reported(MarkExpired(m, t)))
  <1> DEFINE x == MarkExpired(m, t)
  <1>1. m.rcpts \in [Rcpts -> Recipient]
    BY DEF Message
  <1> SUFFICES ASSUME NEW r \in Rcpts
               PROVE  \/ r \in S \cup Reported(x)
                      \/ Pending(x.rcpts[r]) /\ ~x.rcpts[r].dsn_sent
    BY DEF Answered
  <1>2. x.rcpts[r] = m.rcpts[r] \/ (x.rcpts[r] = [m.rcpts[r] EXCEPT !.status = "failed"]
                                      /\ Pending(m.rcpts[r]))
    BY <1>1 DEF MarkExpired, Message
  <1>3. CASE x.rcpts[r] = m.rcpts[r]
    BY <1>3 DEF Answered
  <1>4. CASE /\ x.rcpts[r] = [m.rcpts[r] EXCEPT !.status = "failed"]
             /\ Pending(m.rcpts[r])
    <2>1. x.rcpts[r].status = "failed" /\ x.rcpts[r].dsn_sent = m.rcpts[r].dsn_sent
      BY <1>1, <1>4 DEF Recipient
    <2>2. r \in S \/ ~m.rcpts[r].dsn_sent
      BY Zenon DEF Answered
    <2>3. r \in S \/ r \in Reported(x)
      BY <2>1, <2>2, Zenon DEF Reported
    <2> QED
      BY <2>3, Zenon
  <1> QED
    BY <1>2, <1>3, <1>4, Zenon

\* What became of the recipients, as far as anybody knows.
outcomes == <<delivered, unanswered, bounced, unreported>>

\* Only the steps that end in send_dsn deliver or report.
LEMMA OtherHistory ==
    ASSUME [Next]_vars
    PROVE  \/ UNCHANGED outcomes
           \/ \E w \in Workers : ReadMessage(w) \/ Deliver(w)
  BY DEF Next, vars, hist, outcomes, QueueMessage, WorkerStep, Dispatch, LockEvent, LockRefused,
     ReadNone, ThrottleSender, Route, SaveChanges, RemoveMessage, WriteFails,
     UnlockEvent, Crash, ExpireLease, AdminStep, AdminRead, AdminWrite, AdminFails,
     DestroyRead, DestroyWrite, Tick

\* Nobody takes back a delivery or a report.
LEMMA HistoryGrows ==
    ASSUME TypeOK, [Next]_vars
    PROVE  /\ \A r \in Rcpts : bounced'[r] >= bounced[r] /\ delivered'[r] >= delivered[r]
           /\ unreported \subseteq unreported'
  <1>1. delivered \in [Rcpts -> 0..Many] /\ bounced \in [Rcpts -> 0..Many]
    BY DEF TypeOK
  <1>2. ASSUME NEW m, QueueDsn(m)
        PROVE  /\ \A r \in Rcpts : bounced'[r] >= bounced[r]
               /\ unreported \subseteq unreported'
    BY <1>1, <1>2 DEF QueueDsn, Bump, Many
  <1>3. ASSUME NEW w \in Workers, ReadMessage(w)
        PROVE  /\ \A r \in Rcpts : bounced'[r] >= bounced[r] /\ delivered'[r] >= delivered[r]
               /\ unreported \subseteq unreported'
    BY <1>1, <1>2, <1>3 DEF ReadMessage
  <1>4. ASSUME NEW w \in Workers, Deliver(w)
        PROVE  /\ \A r \in Rcpts : bounced'[r] >= bounced[r] /\ delivered'[r] >= delivered[r]
               /\ unreported \subseteq unreported'
    <2> DEFINE D(f) == [r \in Rcpts |-> IF r \in wrap[w].tried /\ f[r].status = "done"
                                          THEN Bump(delivered[r]) ELSE delivered[r]]
    <2>1. \E f : delivered' = D(f)
      BY <1>4 DEF Deliver
    <2>2. \A r \in Rcpts : delivered'[r] >= delivered[r]
      BY <1>1, <2>1 DEF Bump, Many
    <2>3. \E m : QueueDsn(m)
      BY <1>4 DEF Deliver
    <2> QED
      BY <1>2, <2>2, <2>3
  <1>5. \/ UNCHANGED outcomes
        \/ \E w \in Workers : ReadMessage(w) \/ Deliver(w)
    BY OtherHistory
  <1> QED
    BY <1>1, <1>3, <1>4, <1>5 DEF outcomes

\* Nor does anybody take back what a next hop accepted without being heard.
LEMMA UnansweredGrows ==
    ASSUME [Next]_vars PROVE unanswered \subseteq unanswered'
  <1>1. ASSUME NEW w \in Workers, ReadMessage(w) PROVE unanswered' = unanswered
    BY <1>1 DEF ReadMessage
  <1>2. ASSUME NEW w \in Workers, Deliver(w) PROVE unanswered \subseteq unanswered'
    <2>1. \E taken : unanswered' = unanswered \cup taken
      BY <1>2 DEF Deliver
    <2> QED
      BY <2>1
  <1> QED
    BY <1>1, <1>2, OtherHistory DEF outcomes

\* What has been answered for is never taken back, and a report answers for the
\* recipients it names.
LEMMA SettledGrows ==
    ASSUME TypeOK, [Next]_vars
    PROVE  Settled \subseteq Settled'
  <1>1. delivered \in [Rcpts -> 0..Many] /\ bounced \in [Rcpts -> 0..Many]
    BY DEF TypeOK
  <1>2. /\ \A r \in Rcpts : bounced'[r] >= bounced[r] /\ delivered'[r] >= delivered[r]
        /\ unreported \subseteq unreported'
    BY HistoryGrows
  <1>3. cancelled \subseteq cancelled'
    BY DEF Next, vars, hist, QueueMessage, WorkerStep, Dispatch, LockEvent, LockRefused,
       ReadMessage, ReadNone, ThrottleSender, Route, Deliver, SaveChanges, RemoveMessage,
       WriteFails, UnlockEvent, Crash, ExpireLease, AdminStep, AdminRead, AdminWrite,
       AdminFails, DestroyRead, DestroyWrite, Tick
  <1> QED
    <2>1. delivered' \in [Rcpts -> 0..Many] /\ bounced' \in [Rcpts -> 0..Many]
      BY StepType DEF TypeOK
    <2> QED
      BY <1>1, <1>2, <1>3, <2>1 DEF Settled

\* Who is reported to a sender that can be written to has been answered for, and so,
\* by definition, has who should have been.
LEMMA ReportedSettled ==
    ASSUME NullSender = FALSE, bounced \in [Rcpts -> 0..Many], NEW m, QueueDsn(m)
    PROVE  Reported(m) \subseteq Settled'
  BY DEF QueueDsn, Bump, Many, Reported, Settled

\* The three stores of recipients stay answered for when nobody writes them.
LEMMA AnsweredFrame ==
    ASSUME Settled \subseteq Settled'
    PROVE  /\ StoreAnswered /\ UNCHANGED msg => StoreAnswered'
           /\ RequestAnswered /\ UNCHANGED admin => RequestAnswered'
           /\ \A w : CopyAnswered(w) /\ wrap'[w] = wrap[w] /\ pc'[w] = pc[w]
                        => CopyAnswered(w)'
  <1>1. StoreAnswered /\ UNCHANGED msg => StoreAnswered'
    BY AnsweredMore DEF StoreAnswered
  <1>2. RequestAnswered /\ UNCHANGED admin => RequestAnswered'
    BY AnsweredMore, Settled \cup admin.cancel \subseteq Settled' \cup admin.cancel
       DEF RequestAnswered
  <1>3. ASSUME NEW w, CopyAnswered(w), wrap'[w] = wrap[w], pc'[w] = pc[w]
        PROVE  CopyAnswered(w)'
    BY <1>3, AnsweredMore DEF CopyAnswered, HasPending
  <1> QED
    BY <1>1, <1>2, <1>3

\* What save_changes leaves in the store has been answered for in the copy or in
\* the store.
LEMMA SaveAnswered ==
    ASSUME msg \in Message, NEW m \in Message, NEW q, NEW is_multi, NEW clear, NEW S,
           Save(m, q, is_multi, clear), Answered(m, S), Answered(msg, S)
    PROVE  Answered(msg', S)
  <1> DEFINE saved == [m EXCEPT !.keys = @ \ Released(m)]
  <1>1. saved.rcpts = m.rcpts
    BY DEF Message
  <1>2. msg' = Merged(saved, q) \/ msg' = saved
    BY DEF Save
  <1> HIDE DEF saved
  <1>3. \A r \in Rcpts : msg'.rcpts[r] = m.rcpts[r] \/ msg'.rcpts[r] = msg.rcpts[r]
    BY <1>1, <1>2 DEF Merged, Message
  <1> SUFFICES ASSUME NEW r \in Rcpts
               PROVE  r \in S \/ (Pending(msg'.rcpts[r]) /\ ~msg'.rcpts[r].dsn_sent)
    BY DEF Answered
  <1> QED
    BY <1>3 DEF Answered

\* A new message has no recipient to answer for.
LEMMA AnsweredNew == ASSUME NEW S PROVE Answered(NewMessage, S)
  BY DEF Answered, NewMessage, Pending

\* A step of a worker that reads, tries and saves keeps what is answered for.
LEMMA WorkerCopyAnswered ==
    ASSUME NullSender = FALSE, LossInv, NEW w \in Workers,
           Dispatch(w) \/ WorkerStep(w) \/ Crash(w),
           Settled \subseteq Settled'
    PROVE  CopyAnswered(w)'
  <1>t. /\ now \in Nat
        /\ pc \in [Workers -> Steps] /\ wrap \in [Workers -> MessageWrapper]
        /\ msg \in Message
        /\ bounced \in [Rcpts -> 0..Many] /\ delivered \in [Rcpts -> 0..Many]
    BY ScheduleAssumption DEF LossInv, TypeOK
  <1>a. StoreAnswered /\ CopyAnswered(w)
    BY DEF LossInv
  <1>1. CASE ReadMessage(w)
    <2> DEFINE x == MarkExpired(msg, now)
               m == AfterDsn(x, now)
    <2>1. x \in Message
      BY <1>t, MarkExpiredType
    <2>2. Answered(x, Settled \cup Reported(x))
      BY <1>t, <1>a, AnsweredExpired DEF StoreAnswered
    <2>3. Reported(x) \subseteq Settled'
      BY <1>1, <1>t, ReportedSettled DEF ReadMessage
    <2>4. Answered(x, Settled')
      BY <2>2, <2>3, AnsweredMore
    <2>5. Answered(m, Settled')
      BY <1>t, <2>1, <2>4, AnsweredDsn
    <2>6. wrap'[w].message = m /\ wrap'[w].tried = {}
      BY <1>1, <1>t DEF ReadMessage
    <2>7. pc'[w] = "remove" => ~HasPending(m)
      BY <1>1, <1>t DEF ReadMessage, Goto
    <2> HIDE DEF m
    <2> QED
      BY <2>5, <2>6, <2>7 DEF CopyAnswered, HasPending
  <1>2. CASE ThrottleSender(w)
    <2> DEFINE old == wrap[w].message.rcpts
               Late(r) == [old[r] EXCEPT !.status = "temp", !.due = now + Retry[1]]
               new == [r \in Rcpts |->
                          IF r \in DueRcpts(wrap[w].message, job[w][1], now)
                            THEN Late(r) ELSE old[r]]
    <2>1. /\ wrap[w] \in MessageWrapper /\ wrap[w].message \in Message
          /\ old \in [Rcpts -> Recipient]
      BY <1>t DEF MessageWrapper, Message
    <2>2. /\ wrap'[w].message.rcpts = new /\ wrap'[w].tried = wrap[w].tried
          /\ pc'[w] = "save"
      BY <1>2, <1>t, <2>1 DEF ThrottleSender, Goto, MessageWrapper, Message
    <2>3. ASSUME NEW r \in Rcpts
          PROVE  /\ new[r].dsn_sent = old[r].dsn_sent
                 /\ Pending(new[r]) <=> Pending(old[r])
      <3>1. r \in DueRcpts(wrap[w].message, job[w][1], now) => Pending(old[r])
        BY DEF DueRcpts, PendingRcpts
      <3>2. Late(r).dsn_sent = old[r].dsn_sent /\ Pending(Late(r))
        BY <2>1 DEF Recipient, Pending
      <3> QED
        BY <3>1, <3>2
    <2> HIDE DEF new
    <2>4. Answered(wrap'[w].message, Settled')
      BY <1>a, <2>2, <2>3, Zenon DEF CopyAnswered, Answered
    <2> QED
      BY <2>2, <2>4 DEF CopyAnswered
  <1>3. CASE Deliver(w)
    <2> DEFINE old == wrap[w].message.rcpts
               M(new) == [wrap[w].message EXCEPT !.rcpts = new]
    <2>1. PICK new \in [Rcpts -> UNION {Outcomes(old[r], now) : r \in wrap[w].tried}
                                   \cup {old[r] : r \in Rcpts}] :
            /\ \A r \in Rcpts : new[r] \in IF r \in wrap[w].tried
                                             THEN Outcomes(old[r], now)
                                             ELSE {old[r]}
            /\ delivered' = [r \in Rcpts |->
                   IF r \in wrap[w].tried /\ new[r].status = "done"
                     THEN Bump(delivered[r]) ELSE delivered[r]]
            /\ QueueDsn(M(new))
            /\ wrap' = [wrap EXCEPT ![w].message = AfterDsn(M(new), now),
                                    ![w].tried = {}]
            /\ Goto(w, IF HasPending(M(new)) THEN "save" ELSE "remove")
      BY <1>3 DEF Deliver
    <2>2. old \in [Rcpts -> Recipient] /\ wrap[w].tried \subseteq Rcpts
      BY <1>t DEF MessageWrapper, Message
    <2>3. new \in [Rcpts -> Recipient]
      BY <1>t, <2>1, <2>2, OutcomesType
    <2>4. M(new) \in Message /\ M(new).rcpts = new
      BY <1>t, <2>3 DEF MessageWrapper, Message
    <2>5. Reported(M(new)) \subseteq Settled'
      BY <1>t, <2>1, ReportedSettled
    <2>6. Answered(M(new), Settled')
      <3> SUFFICES ASSUME NEW r \in Rcpts
                   PROVE  r \in Settled' \/ (Pending(new[r]) /\ ~new[r].dsn_sent)
        BY <2>4 DEF Answered
      <3>1. CASE r \in Settled
        BY <3>1
      <3>2. CASE r \notin wrap[w].tried
        BY <1>a, <2>1, <3>2 DEF CopyAnswered, Answered
      <3>3. CASE r \in wrap[w].tried /\ r \notin Settled
        <4>1. new[r] \in Outcomes(old[r], now)
          BY <2>1, <3>3
        <4>2. ~old[r].dsn_sent
          BY <1>a, <3>3, Zenon DEF CopyAnswered, Answered
        <4>3. ~new[r].dsn_sent
          BY <1>t, <2>2, <4>1, <4>2, OutcomesMark
        <4>4. CASE new[r].status = "done"
          <5>1. delivered'[r] = Bump(delivered[r])
            BY <2>1, <3>3, <4>4
          <5> QED
            BY <1>t, <5>1 DEF Settled, Bump, Many
        <4>5. CASE new[r].status = "failed"
          <5>1. r \in Reported(M(new))
            BY <2>4, <4>3, <4>5, Zenon DEF Reported
          <5> QED
            BY <2>5, <5>1
        <4>6. CASE Pending(new[r])
          BY <4>3, <4>6, Zenon
        <4> QED
          BY <2>3, <4>4, <4>5, <4>6 DEF Recipient, Statuses, Pending
      <3> QED
        BY <3>1, <3>2, <3>3
    <2>7. Answered(AfterDsn(M(new), now), Settled')
      BY <1>t, <2>4, <2>6, AnsweredDsn
    <2>8. HasPending(AfterDsn(M(new), now)) <=> HasPending(M(new))
      BY <1>t, <2>4, AfterDsnType
    <2>9. wrap'[w].message = AfterDsn(M(new), now) /\ wrap'[w].tried = {}
      BY <1>t, <2>1 DEF MessageWrapper
    <2>10. pc'[w] = "remove" => ~HasPending(M(new))
      BY <1>t, <2>1 DEF Goto
    <2> QED
      BY <2>7, <2>8, <2>9, <2>10 DEF CopyAnswered, HasPending
  <1>4. CASE Route(w)
    <2>1. /\ wrap'[w].message = wrap[w].message
          /\ wrap'[w].tried = DueRcpts(wrap[w].message, job[w][1], now)
          /\ pc'[w] = "deliver"
      BY <1>4, <1>t DEF Route, Goto, MessageWrapper
    <2>2. Answered(wrap'[w].message, Settled')
      BY <1>a, <2>1, AnsweredMore DEF CopyAnswered
    <2> QED
      BY <2>1, <2>2 DEF CopyAnswered
  <1>5. CASE UnlockEvent(w) \/ Crash(w)
    <2>1. wrap'[w] = Idle /\ pc'[w] = "idle"
      BY <1>5, <1>t DEF UnlockEvent, Crash, End, Goto
    <2>2. Answered(NewMessage, Settled')
      BY AnsweredNew
    <2> QED
      BY <2>1, <2>2 DEF CopyAnswered, Idle
  <1>6. CASE ~(ReadMessage(w) \/ ThrottleSender(w) \/ Deliver(w) \/ Route(w)
                 \/ UnlockEvent(w) \/ Crash(w))
    <2>1. wrap'[w] = wrap[w] /\ pc'[w] # "remove"
      BY <1>6, <1>t DEF WorkerStep, Goto, Dispatch, LockEvent, LockRefused, ReadNone,
         SaveChanges, RemoveMessage, WriteFails
    <2>2. Answered(wrap'[w].message, Settled')
      BY <1>a, <2>1, AnsweredMore DEF CopyAnswered
    <2> QED
      BY <1>a, <2>1, <2>2 DEF CopyAnswered
  <1> QED
    BY <1>1, <1>2, <1>3, <1>4, <1>5, <1>6

\* Every step keeps what is answered for in the store and in the request of an
\* administrator, and empties the store only when everybody is.
LEMMA StoreAnsweredStep ==
    ASSUME LossInv, [Next]_vars, Settled \subseteq Settled'
    PROVE  StoreAnswered' /\ RequestAnswered' /\ NoSilentLoss'
  <1>t. /\ msg \in Message /\ admin.message \in Message
        /\ wrap \in [Workers -> MessageWrapper]
    BY TypeParts DEF LossInv, StoreOK, MgmtOK, LocalOK, Request
  <1>a. /\ StoreAnswered /\ RequestAnswered /\ NoSilentLoss
        /\ Answered(msg, Settled')
    BY AnsweredMore DEF LossInv, StoreAnswered
  <1>n. ASSUME UNCHANGED <<exists, queued, gone>> PROVE NoSilentLoss'
    BY <1>a, <1>n DEF NoSilentLoss, Settled
  <1>s. ASSUME exists' PROVE NoSilentLoss'
    BY <1>s DEF NoSilentLoss
  <1>k. RequestAnswered /\ UNCHANGED admin => RequestAnswered'
    BY AnsweredFrame
  <1>0. Answered(NoRequest.message, Settled' \cup NoRequest.cancel)
    BY AnsweredNew DEF NoRequest
  <1>1. ASSUME NEW w \in Workers, SaveChanges(w)
        PROVE  StoreAnswered' /\ RequestAnswered' /\ NoSilentLoss'
    <2>1. wrap[w].message \in Message /\ Answered(wrap[w].message, Settled')
      BY <1>t, AnsweredMore DEF LossInv, CopyAnswered, MessageWrapper
    <2>2. Answered(msg', Settled')
      BY <1>1, <1>t, <1>a, <2>1, SaveAnswered DEF SaveChanges
    <2>3. exists' /\ UNCHANGED admin
      BY <1>1 DEF SaveChanges, Save, mgmt
    <2> QED
      BY <1>a, <1>s, <1>k, <2>2, <2>3 DEF StoreAnswered
  <1>2. ASSUME NEW w \in Workers, RemoveMessage(w)
        PROVE  StoreAnswered' /\ RequestAnswered' /\ NoSilentLoss'
    <2>1. Answered(wrap[w].message, Settled') /\ ~HasPending(wrap[w].message)
      BY <1>2, AnsweredMore DEF LossInv, CopyAnswered, RemoveMessage
    <2>2. Rcpts \subseteq Settled'
      BY <2>1 DEF Answered, HasPending
    <2>3. msg' = NewMessage /\ UNCHANGED admin
      BY <1>2 DEF RemoveMessage, Remove, mgmt
    <2> QED
      BY <1>a, <1>k, <2>2, <2>3, AnsweredNew DEF StoreAnswered, NoSilentLoss, Settled
  <1>3. CASE AdminWrite
    <2> DEFINE S == Settled' \cup admin.cancel
    <2>1. admin.cancel \subseteq cancelled' /\ S \subseteq Settled'
      BY <1>3 DEF AdminWrite, Settled
    <2>2. Answered(admin.message, S)
      BY AnsweredMore, Settled \cup admin.cancel \subseteq S DEF LossInv, RequestAnswered
    <2>3. Answered(admin.message, Settled')
      BY <2>1, <2>2, AnsweredMore
    <2>4. RequestAnswered'
      BY <1>3, <1>0 DEF AdminWrite, RequestAnswered
    <2>5. CASE HasPending(admin.message)
      <3>1. Answered(msg', Settled')
        BY <1>3, <1>t, <1>a, <2>3, <2>5, SaveAnswered DEF AdminWrite
      <3>2. exists'
        BY <1>3, <2>5 DEF AdminWrite, Save
      <3> QED
        BY <1>s, <2>4, <3>1, <3>2 DEF StoreAnswered
    <2>6. CASE ~HasPending(admin.message)
      <3>1. Rcpts \subseteq Settled'
        BY <2>3, <2>6 DEF Answered, HasPending
      <3>2. msg' = NewMessage
        BY <1>3, <2>6 DEF AdminWrite, Remove
      <3> QED
        BY <2>4, <3>1, <3>2, AnsweredNew DEF StoreAnswered, NoSilentLoss, Settled
    <2> QED
      BY <2>5, <2>6
  <1>4. CASE AdminRead
    <2>1. StoreAnswered' /\ NoSilentLoss'
      BY <1>4, <1>a, <1>n DEF AdminRead, stored, hist, StoreAnswered
    <2>2. PICK C \in SUBSET Rcpts : \E x \in Patched(C) :
              UpdateRequest([msg EXCEPT !.rcpts = x], C)
      BY <1>4 DEF AdminRead
    <2>3. PICK new \in Patched(C) : UpdateRequest([msg EXCEPT !.rcpts = new], C)
      BY <2>2
    <2>4. admin'.message.rcpts = new /\ admin'.cancel = C
      BY <1>t, <2>3 DEF UpdateRequest, Message
    <2>5. ASSUME NEW r \in Rcpts
          PROVE  r \in Settled' \cup C \/ (Pending(new[r]) /\ ~new[r].dsn_sent)
      <3>1. CASE r \notin C
        <4>1. new[r] \in Edited(msg.rcpts[r])
          BY <3>1 DEF Patched
        <4>2. /\ new[r].dsn_sent = msg.rcpts[r].dsn_sent
              /\ new[r].status \in {msg.rcpts[r].status, "scheduled"}
          BY <4>1 DEF Edited
        <4> QED
          BY <1>a, <4>2 DEF Answered, Pending
      <3> QED
        BY <3>1
    <2> QED
      BY <2>1, <2>4, <2>5, Zenon DEF RequestAnswered, Answered
  <1>5. CASE AdminFails
    BY <1>5, <1>0, <1>a, <1>n DEF AdminFails, stored, hist, StoreAnswered, RequestAnswered
  <1>6. CASE DestroyRead
    BY <1>6, <1>a, <1>n DEF DestroyRead, stored, hist, StoreAnswered, RequestAnswered
  <1>7. CASE DestroyWrite
    <2>1. gone' /\ msg' = NewMessage /\ admin' = NoRequest
      BY <1>7 DEF DestroyWrite, Remove
    <2> QED
      BY <1>0, <2>1, AnsweredNew DEF StoreAnswered, RequestAnswered, NoSilentLoss
  <1>8. CASE QueueMessage
    <2>1. exists' /\ msg' = NewMessage /\ UNCHANGED admin
      BY <1>8 DEF QueueMessage, mgmt
    <2> QED
      BY <1>a, <1>s, <1>k, <2>1, AnsweredNew DEF StoreAnswered
  <1>9. ASSUME UNCHANGED <<exists, msg, admin, queued, gone>>
        PROVE  StoreAnswered' /\ RequestAnswered' /\ NoSilentLoss'
    <2>1. msg' = msg /\ admin' = admin
      BY <1>9
    <2>2. StoreAnswered'
      BY <1>a, <2>1, Zenon DEF StoreAnswered
    <2>3. RequestAnswered'
      BY <1>a, <1>k, <2>1, Zenon
    <2>4. NoSilentLoss'
      BY <1>9, <1>n
    <2> QED
      BY <2>2, <2>3, <2>4
  <1>10. \/ UNCHANGED <<exists, msg, admin, queued, gone>>
         \/ \E w \in Workers : SaveChanges(w) \/ RemoveMessage(w)
         \/ QueueMessage \/ AdminStep
    <2>2. ASSUME NEW w \in Workers, Dispatch(w) \/ WorkerStep(w) \/ Crash(w),
                 ~SaveChanges(w), ~RemoveMessage(w)
          PROVE  UNCHANGED <<exists, msg, admin, queued, gone>>
      <3>1. CASE Dispatch(w) \/ Crash(w)
        BY <3>1 DEF Dispatch, Crash, stored, hist, mgmt
      <3>2. CASE LockEvent(w) \/ LockRefused(w) \/ ReadMessage(w) \/ ReadNone(w)
        BY <3>2 DEF LockEvent, LockRefused, ReadMessage, ReadNone, stored, hist, mgmt
      <3>3. CASE ThrottleSender(w) \/ Route(w) \/ WriteFails(w) \/ UnlockEvent(w)
        BY <3>3 DEF ThrottleSender, Route, WriteFails, UnlockEvent, stored, hist, mgmt
      <3>4. CASE Deliver(w)
        BY <3>4 DEF Deliver, stored, hist, mgmt
      <3> QED
        BY <2>2, <3>1, <3>2, <3>3, <3>4, Zenon DEF WorkerStep
    <2>3. ASSUME (\E q \in Queues : ExpireLease(q)) \/ Tick
          PROVE  UNCHANGED <<exists, msg, admin, queued, gone>>
      BY <2>3 DEF ExpireLease, Tick, stored, hist, mgmt
    <2>4. CASE UNCHANGED vars
      BY <2>4 DEF vars, stored, hist, mgmt
    <2>5. CASE Next
      BY <2>2, <2>3, <2>5, Zenon DEF Next
    <2> QED
      BY <2>4, <2>5
  <1> QED
    BY <1>1, <1>2, <1>3, <1>4, <1>5, <1>6, <1>7, <1>8, <1>9, <1>10 DEF AdminStep

\* Every step keeps every recipient in the store or answered for.
LEMMA StepLossInv == NullSender = FALSE /\ LossInv /\ [Next]_vars => LossInv'
  <1> SUFFICES ASSUME NullSender = FALSE, LossInv, [Next]_vars PROVE LossInv'
    OBVIOUS
  <1>1. TypeOK /\ TypeOK'
    BY StepType DEF LossInv
  <1>2. Settled \subseteq Settled'
    BY <1>1, SettledGrows
  <1>3. StoreAnswered' /\ RequestAnswered' /\ NoSilentLoss'
    BY <1>2, StoreAnsweredStep
  <1>4. ASSUME NEW v \in Workers PROVE CopyAnswered(v)'
    <2>1. CASE \E w \in Workers : Dispatch(w) \/ WorkerStep(w) \/ Crash(w)
      <3>1. PICK w \in Workers : Dispatch(w) \/ WorkerStep(w) \/ Crash(w)
        BY <2>1
      <3>2. CASE v = w
        BY <1>2, <3>1, <3>2, WorkerCopyAnswered
      <3>3. CASE v # w
        BY <1>1, <1>2, <3>1, <3>3, OthersKeep, AnsweredFrame DEF LossInv
      <3> QED
        BY <3>2, <3>3
    <2>2. CASE ~(\E w \in Workers : Dispatch(w) \/ WorkerStep(w) \/ Crash(w))
      <3>1. UNCHANGED <<wrap, pc>>
        BY <2>2 DEF Next, vars, local, QueueMessage, ExpireLease, AdminStep, AdminRead,
           AdminWrite, AdminFails, DestroyRead, DestroyWrite, Tick
      <3> QED
        BY <1>2, <3>1, AnsweredFrame DEF LossInv
    <2> QED
      BY <2>1, <2>2
  <1> QED
    BY <1>1, <1>3, <1>4 DEF LossInv

\* At the start every copy is that of a new message.
LEMMA InitLossInv == Init => LossInv
  <1> SUFFICES ASSUME Init PROVE LossInv
    OBVIOUS
  <1>1. TypeOK
    BY InitType
  <1>2. StoreAnswered /\ RequestAnswered /\ \A w \in Workers : CopyAnswered(w)
    BY AnsweredNew DEF Init, StoreAnswered, RequestAnswered, CopyAnswered, NoRequest, Idle
  <1>3. NoSilentLoss
    BY DEF Init, NoSilentLoss
  <1> QED
    BY <1>1, <1>2, <1>3 DEF LossInv

\* A message leaves the queue only when every recipient has been accepted by a next
\* hop, reported to the sender or cancelled, or the message was destroyed: for any
\* number of recipients, queues and workers and any schedule, with crashes, lost
\* leases, lost replies, requests of administrators, failed reads and refused writes.
\* The one exception is a recipient whose report was itself refused by the store
\* (unreported), which send_dsn does not look at.  A message with an empty return path
\* has nobody to report to.
THEOREM MtaNoSilentLoss ==
    ASSUME NullSender = FALSE
    PROVE  Spec => []NoSilentLoss
  <1>1. Init => LossInv
    BY InitLossInv
  <1>2. LossInv => NoSilentLoss
    BY DEF LossInv
  <1> QED
    BY <1>1, <1>2, StepLossInv, PTL DEF Spec

\* No failure report was refused by the store.
NothingUnreported == unreported = {}

\* A report is refused by a store that refuses a write.
LEMMA StepUnreported ==
    ASSUME "write" \notin Faults, NothingUnreported, [Next]_vars
    PROVE  NothingUnreported'
  <1>1. ASSUME NEW m, QueueDsn(m) PROVE unreported' = {}
    BY <1>1 DEF QueueDsn, NothingUnreported
  <1>2. ASSUME NEW w \in Workers, ReadMessage(w) \/ Deliver(w) PROVE unreported' = {}
    <2>1. \E m : QueueDsn(m)
      BY <1>2 DEF ReadMessage, Deliver
    <2> QED
      BY <1>1, <2>1
  <1> QED
    BY <1>2, OtherHistory DEF outcomes, NothingUnreported

\* That exception takes a store that refuses a write: as long as none does, every
\* failure report that is due is queued, whatever else goes wrong.
THEOREM MtaReportsQueued ==
    ASSUME "write" \notin Faults
    PROVE  Spec => []NothingUnreported
  <1>1. Init => NothingUnreported
    BY DEF Init, NothingUnreported
  <1>2. NothingUnreported /\ [Next]_vars => NothingUnreported'
    BY StepUnreported
  <1> QED
    BY <1>1, <1>2, PTL DEF Spec

-----------------------------------------------------------------------------
(* The quota counters                                                      *)

\* The counters have no more of the message than the keys of the store, of any copy
\* and of any request would give back: each of them may yet be written or removed.
\* Before the message is queued there is no other copy than NewMessage.
QuotaInv ==
    /\ TypeOK
    /\ quota >= -1
    /\ quota <= Cardinality(msg.keys) /\ (~exists => quota <= 0)
    /\ \A w \in Workers : quota <= Cardinality(wrap[w].message.keys)
    /\ quota <= Cardinality(admin.message.keys)
    /\ quota <= Cardinality(NewMessage.keys)
    /\ ~queued => /\ ~exists /\ events = {} /\ admin = NoRequest
                  /\ \A w \in Workers : pc[w] = "idle" /\ wrap[w] = Idle

\* A batch that takes n keys from the counters leaves less in them, and takes all n
\* unless they run out.
LEMMA ReleaseBound ==
    ASSUME quota \in Int, quota >= -1, NEW n \in Nat, Release(n)
    PROVE  /\ quota' \in Int /\ quota' >= -1 /\ quota' <= quota
           /\ quota' = quota - n \/ quota' = -1
  <1> DEFINE S == {quota - n, -1}
  <1>1. \E x \in S : \A y \in S : x >= y
    OBVIOUS
  <1>2. Max(S) \in S /\ \A y \in S : Max(S) >= y
    BY <1>1 DEF Max
  <1>3. quota' = Max(S)
    BY DEF Release
  <1> HIDE DEF S
  <1>4. quota' \in S /\ \A y \in S : quota' >= y
    BY <1>2, <1>3
  <1> QED
    BY <1>4 DEF S

\* save_changes takes from the counters what it takes from the keys it saves, and a
\* merge leaves the keys of the store.
LEMMA SaveQuota ==
    ASSUME TypeOK, quota >= -1, NEW m \in Message, quota <= Cardinality(m.keys),
           quota <= Cardinality(msg.keys),
           NEW q, NEW is_multi \in BOOLEAN, NEW clear, Save(m, q, is_multi, clear)
    PROVE  /\ quota' \in Int /\ quota' >= -1 /\ quota' <= quota /\ exists'
           /\ quota' <= Cardinality(msg'.keys)
  <1> DEFINE R == Released(m)
             saved == [m EXCEPT !.keys = m.keys \ R]
  <1>1. R \subseteq m.keys /\ m.keys \subseteq Rcpts \cup {Sender}
    BY DEF Released, Message
  <1>2. /\ Cardinality(R) \in Nat /\ Cardinality(m.keys) \in Nat
        /\ Cardinality(m.keys \ R) \in Nat
        /\ Cardinality(m.keys \ R) = Cardinality(m.keys) - Cardinality(R)
    <2>1. m.keys \ R \subseteq Rcpts \cup {Sender}
      BY <1>1
    <2> QED
      BY <1>1, <2>1, KeysLeftOver, KeysFinite
  <1>3. Release(Cardinality(R)) /\ exists' /\ msg' = IF is_multi THEN Merged(saved, q) ELSE saved
    BY DEF Save
  <1>4. saved.keys = m.keys \ R
    BY DEF Message
  <1>5. Merged(saved, q).keys = msg.keys
    BY DEF Merged, TypeOK, Message
  <1>6. msg'.keys = msg.keys \/ msg'.keys = m.keys \ R
    BY <1>3, <1>4, <1>5
  <1>7. quota \in Int
    BY DEF TypeOK
  <1>8. /\ quota' \in Int /\ quota' >= -1 /\ quota' <= quota
        /\ quota' = quota - Cardinality(R) \/ quota' = -1
    BY <1>2, <1>3, <1>7, ReleaseBound
  <1>9. Cardinality(msg.keys) \in Nat
    BY KeysFinite DEF TypeOK, Message
  <1> HIDE DEF R, saved
  <1>10. quota' <= Cardinality(msg'.keys)
    <2>1. CASE msg'.keys = msg.keys
      BY <1>7, <1>8, <1>9, <2>1
    <2>2. CASE msg'.keys = m.keys \ R
      <3>1. Cardinality(msg'.keys) = Cardinality(m.keys) - Cardinality(R)
        BY <1>2, <2>2
      <3>2. Cardinality(msg'.keys) \in Nat
        BY <1>2, <2>2
      <3> QED
        BY <1>2, <1>7, <1>8, <3>1, <3>2
    <2> QED
      BY <1>6, <2>1, <2>2
  <1> QED
    BY <1>3, <1>8, <1>10

\* remove gives back every key of its copy.
LEMMA RemoveQuota ==
    ASSUME TypeOK, quota >= -1, NEW m \in Message, quota <= Cardinality(m.keys),
           NEW clear, Remove(m, clear)
    PROVE  /\ quota' \in Int /\ quota' >= -1 /\ quota' <= quota /\ quota' <= 0
           /\ ~exists' /\ msg' = NewMessage
  <1>1. Cardinality(m.keys) \in Nat
    BY KeysFinite DEF Message
  <1>2. Release(Cardinality(m.keys)) /\ ~exists' /\ msg' = NewMessage
    BY DEF Remove
  <1>3. quota \in Int
    BY DEF TypeOK
  <1>4. /\ quota' \in Int /\ quota' >= -1 /\ quota' <= quota
        /\ quota' = quota - Cardinality(m.keys) \/ quota' = -1
    BY <1>1, <1>2, <1>3, ReleaseBound
  <1> QED
    BY <1>1, <1>2, <1>3, <1>4

\* The step of a worker keeps the counters covered.  Nobody has put anything back into
\* them since the message was queued, so what an old copy covers stays covered.
LEMMA WorkerQuotaInv ==
    ASSUME QuotaInv, TypeOK', NEW w \in Workers, Dispatch(w) \/ WorkerStep(w) \/ Crash(w)
    PROVE  QuotaInv'
  <1>t. /\ TypeOK /\ quota \in Int /\ quota' \in Int
        /\ pc \in [Workers -> Steps] /\ wrap \in [Workers -> MessageWrapper]
        /\ \A v \in Workers : wrap[v].message \in Message
        /\ msg \in Message
    BY DEF QuotaInv, TypeOK, MessageWrapper
  <1>q. queued /\ queued'
    <2>1. queued
      BY <1>t DEF QuotaInv, WorkerStep, Dispatch, LockEvent, LockRefused, ReadMessage,
         ReadNone, ThrottleSender, Route, Deliver, SaveChanges, RemoveMessage, WriteFails,
         UnlockEvent, Crash
    <2>2. UNCHANGED queued
      BY DEF hist, WorkerStep, Dispatch, LockEvent, LockRefused, ReadMessage, ReadNone,
         ThrottleSender, Route, Deliver, SaveChanges, RemoveMessage, WriteFails,
         UnlockEvent, Crash
    <2> QED
      BY <2>1, <2>2
  <1>a. admin' = admin
    BY DEF mgmt, WorkerStep, Dispatch, LockEvent, LockRefused, ReadMessage, ReadNone,
       ThrottleSender, Route, Deliver, SaveChanges, RemoveMessage, WriteFails,
       UnlockEvent, Crash
  <1>o. \A v \in Workers : v # w => wrap'[v] = wrap[v]
    BY <1>t, OthersKeep
  <1>n. /\ Cardinality(msg.keys) \in Int /\ Cardinality(admin.message.keys) \in Int
        /\ Cardinality(NewMessage.keys) \in Int
        /\ \A v \in Workers : Cardinality(wrap[v].message.keys) \in Int
    BY <1>t, KeysFinite, NewMessageType DEF TypeOK, Message
  <1>s. SUFFICES /\ quota' >= -1 /\ quota' <= quota
                 /\ quota' <= Cardinality(msg'.keys) /\ (~exists' => quota' <= 0)
                 /\ \/ wrap'[w] = wrap[w] \/ wrap'[w] = Idle
                    \/ wrap'[w].message.keys = wrap[w].message.keys
                    \/ wrap'[w].message.keys = msg.keys
    <2>1. quota' <= Cardinality(wrap'[w].message.keys)
      BY <1>t, <1>n, <1>s DEF QuotaInv, Idle
    <2>2. \A v \in Workers : quota' <= Cardinality(wrap'[v].message.keys)
      BY <1>t, <1>n, <1>o, <1>s, <2>1 DEF QuotaInv
    <2>3. /\ quota' <= Cardinality(admin'.message.keys)
          /\ quota' <= Cardinality(NewMessage.keys)
      BY <1>t, <1>n, <1>a, <1>s DEF QuotaInv
    <2> QED
      BY <1>q, <1>s, <2>2, <2>3 DEF QuotaInv
  <1>k. quota <= Cardinality(msg.keys) /\ quota >= -1 /\ (~exists => quota <= 0)
    BY DEF QuotaInv
  <1>1. CASE SaveChanges(w)
    <2>1. quota <= Cardinality(wrap[w].message.keys)
      BY DEF QuotaInv
    <2>2. wrap[w].is_multi_queue \in BOOLEAN
      BY <1>t DEF MessageWrapper
    <2>3. /\ Save(wrap[w].message, job[w][1], wrap[w].is_multi_queue, {job[w]})
          /\ wrap' = wrap
      BY <1>1 DEF SaveChanges
    <2>4. /\ quota' >= -1 /\ quota' <= quota /\ exists'
          /\ quota' <= Cardinality(msg'.keys)
      BY <1>t, <1>k, <2>1, <2>2, <2>3, SaveQuota
    <2> QED
      BY <2>3, <2>4
  <1>2. CASE RemoveMessage(w)
    <2>1. quota <= Cardinality(wrap[w].message.keys)
      BY DEF QuotaInv
    <2>2. Remove(wrap[w].message, {job[w]}) /\ wrap' = wrap
      BY <1>2 DEF RemoveMessage
    <2>3. /\ quota' >= -1 /\ quota' <= quota /\ quota' <= 0 /\ msg' = NewMessage
      BY <1>t, <1>k, <2>1, <2>2, RemoveQuota
    <2>4. Cardinality(NewMessage.keys) \in Nat
      BY KeysFinite, NewMessageType DEF Message
    <2> QED
      BY <1>t, <2>2, <2>3, <2>4
  <1>3. CASE ~SaveChanges(w) /\ ~RemoveMessage(w)
    <2>1. UNCHANGED <<exists, msg, quota>>
      BY <1>3 DEF WorkerStep, Dispatch, LockEvent, LockRefused, ReadMessage, ReadNone,
         ThrottleSender, Route, Deliver, WriteFails, UnlockEvent, Crash, stored
    <2>2. \/ wrap'[w] = wrap[w] \/ wrap'[w] = Idle
          \/ wrap'[w].message.keys = wrap[w].message.keys
          \/ wrap'[w].message.keys = msg.keys
      <3>1. CASE ReadMessage(w) \/ ThrottleSender(w) \/ Route(w) \/ Deliver(w)
        BY <1>t, <3>1, KeysKept
      <3>2. CASE UnlockEvent(w) \/ Crash(w)
        BY <1>t, <3>2 DEF UnlockEvent, Crash, End
      <3>3. CASE \/ Dispatch(w) \/ LockEvent(w) \/ LockRefused(w) \/ ReadNone(w)
                 \/ WriteFails(w)
        BY <3>3 DEF Dispatch, LockEvent, LockRefused, ReadNone, WriteFails
      <3> QED
        BY <1>3, <3>1, <3>2, <3>3, Zenon DEF WorkerStep
    <2> QED
      BY <1>k, <1>t, <2>1, <2>2
  <1> QED
    BY <1>1, <1>2, <1>3

\* So does the step of an administrator, whose copy no worker knows of.
LEMMA AdminQuotaInv ==
    ASSUME QuotaInv, TypeOK', AdminStep
    PROVE  QuotaInv'
  <1>t. /\ TypeOK /\ quota \in Int /\ quota' \in Int
        /\ msg \in Message /\ admin.message \in Message
        /\ admin.is_multi_queue \in BOOLEAN /\ wrap \in [Workers -> MessageWrapper]
        /\ \A v \in Workers : wrap[v].message \in Message
    BY DEF QuotaInv, TypeOK, MessageWrapper
  <1>q. queued /\ queued'
    <2>1. queued
      BY DEF QuotaInv, AdminStep, AdminRead, AdminWrite, AdminFails, DestroyRead,
         DestroyWrite, NoRequest
    <2>2. UNCHANGED queued
      BY DEF hist, AdminStep, AdminRead, AdminWrite, AdminFails, DestroyRead, DestroyWrite
    <2> QED
      BY <2>1, <2>2
  <1>w. wrap' = wrap
    BY DEF local, AdminStep, AdminRead, AdminWrite, AdminFails, DestroyRead, DestroyWrite
  <1>n. /\ Cardinality(msg.keys) \in Int /\ Cardinality(NewMessage.keys) \in Int
        /\ Cardinality(NewMessage.keys) >= 0
        /\ \A v \in Workers : Cardinality(wrap[v].message.keys) \in Int
    BY <1>t, KeysFinite, NewMessageType DEF Message
  <1>k. /\ quota <= Cardinality(msg.keys) /\ quota >= -1 /\ (~exists => quota <= 0)
        /\ quota <= Cardinality(admin.message.keys)
        /\ quota <= Cardinality(NewMessage.keys)
    BY DEF QuotaInv
  <1>s. SUFFICES /\ quota' >= -1 /\ quota' <= quota
                 /\ quota' <= Cardinality(msg'.keys) /\ (~exists' => quota' <= 0)
                 /\ admin'.message = NewMessage \/ admin'.message.keys = msg.keys
    <2>1. \A v \in Workers : quota' <= Cardinality(wrap'[v].message.keys)
      BY <1>t, <1>n, <1>s, <1>w DEF QuotaInv
    <2>2. /\ quota' <= Cardinality(admin'.message.keys)
          /\ quota' <= Cardinality(NewMessage.keys)
      BY <1>t, <1>n, <1>k, <1>s
    <2> QED
      BY <1>q, <1>s, <2>1, <2>2 DEF QuotaInv
  <1>1. CASE AdminRead
    <2>1. UNCHANGED <<exists, msg, quota>>
      BY <1>1 DEF AdminRead, stored
    <2>2. \A x : [msg EXCEPT !.rcpts = x].keys = msg.keys
      BY <1>t DEF Message
    <2>3. PICK C \in SUBSET Rcpts :
            \E x \in Patched(C) : UpdateRequest([msg EXCEPT !.rcpts = x], C)
      BY <1>1, Zenon DEF AdminRead
    <2>4. PICK x \in Patched(C) : UpdateRequest([msg EXCEPT !.rcpts = x], C)
      BY <2>3
    <2>5. admin'.message.keys = msg.keys
      BY <2>2, <2>4 DEF UpdateRequest
    <2> QED
      BY <1>k, <1>t, <2>1, <2>5
  <1>2. CASE AdminWrite
    <2>1. admin'.message = NewMessage
      BY <1>2 DEF AdminWrite, NoRequest
    <2>2. CASE HasPending(admin.message)
      <3>1. Save(admin.message, Default, admin.is_multi_queue, admin.clear)
        BY <1>2, <2>2 DEF AdminWrite
      <3> QED
        BY <1>t, <1>k, <2>1, <3>1, SaveQuota
    <2>3. CASE ~HasPending(admin.message)
      <3>1. Remove(admin.message, admin.clear)
        BY <1>2, <2>3 DEF AdminWrite
      <3>2. quota' >= -1 /\ quota' <= quota /\ quota' <= 0 /\ msg' = NewMessage
        BY <1>t, <1>k, <3>1, RemoveQuota
      <3> QED
        BY <1>n, <1>t, <2>1, <3>2
    <2> QED
      BY <2>2, <2>3
  <1>3. CASE AdminFails
    <2>1. UNCHANGED <<exists, msg, quota>> /\ admin' = NoRequest
      BY <1>3 DEF AdminFails, stored
    <2> QED
      BY <1>k, <1>t, <2>1 DEF NoRequest
  <1>4. CASE DestroyRead
    <2>1. UNCHANGED <<exists, msg, quota>> /\ admin'.message = msg
      BY <1>4 DEF DestroyRead, stored
    <2> QED
      BY <1>k, <1>t, <2>1
  <1>5. CASE DestroyWrite
    <2>1. Remove(admin.message, admin.clear) /\ admin'.message = NewMessage
      BY <1>5 DEF DestroyWrite, NoRequest
    <2>2. quota' >= -1 /\ quota' <= quota /\ quota' <= 0 /\ msg' = NewMessage
      BY <1>t, <1>k, <2>1, RemoveQuota
    <2> QED
      BY <1>n, <1>t, <2>1, <2>2
  <1> QED
    BY <1>1, <1>2, <1>3, <1>4, <1>5 DEF AdminStep

\* Queueing the message takes its quota once, when there is no copy of it yet.
LEMMA StepQuotaInv == QuotaInv /\ [Next]_vars => QuotaInv'
  <1> SUFFICES ASSUME QuotaInv, [Next]_vars PROVE QuotaInv'
    OBVIOUS
  <1>t. TypeOK'
    BY StepType DEF QuotaInv
  <1>1. CASE \E w \in Workers : Dispatch(w) \/ WorkerStep(w) \/ Crash(w)
    BY <1>1, <1>t, WorkerQuotaInv
  <1>2. CASE AdminStep
    BY <1>2, <1>t, AdminQuotaInv
  <1>3. CASE QueueMessage
    <2>1. /\ ~queued /\ queued' /\ exists' /\ msg' = NewMessage
          /\ quota' = Cardinality(NewMessage.keys) /\ wrap' = wrap /\ admin' = admin
      BY <1>3 DEF QueueMessage, local, mgmt
    <2>2. admin = NoRequest /\ \A w \in Workers : wrap[w] = Idle
      BY <2>1 DEF QuotaInv
    <2>3. Cardinality(NewMessage.keys) \in Nat
      BY KeysFinite, NewMessageType DEF Message
    <2> QED
      BY <1>t, <2>1, <2>2, <2>3 DEF QuotaInv, NoRequest, Idle
  <1>4. CASE UNCHANGED <<stored, queued, pc, wrap, mgmt>>
    BY <1>4, <1>t DEF QuotaInv, stored, mgmt
  <1>5. \/ \E w \in Workers : Dispatch(w) \/ WorkerStep(w) \/ Crash(w)
        \/ AdminStep \/ QueueMessage \/ UNCHANGED <<stored, queued, pc, wrap, mgmt>>
    <2>1. CASE (\E q \in Queues : ExpireLease(q)) \/ Tick \/ UNCHANGED vars
      BY <2>1 DEF ExpireLease, Tick, vars, local, hist
    <2> QED
      BY <2>1, Zenon DEF Next
  <1> QED
    BY <1>1, <1>2, <1>3, <1>4, <1>5

\* The counters never keep more of a message than its quota keys will give back, and
\* nothing once it has left, whatever interleaving of workers of several queues and
\* administrators, and whatever crashes, lost leases and failed writes there are, for
\* any number of recipients, queues and workers.
THEOREM MtaQuotaNotLeaked == Spec => []QuotaNotLeaked
  <1>1. Init => QuotaInv
    <2> SUFFICES ASSUME Init PROVE QuotaInv
      OBVIOUS
    <2>1. TypeOK
      BY InitType
    <2>2. Cardinality(NewMessage.keys) \in Nat
      BY KeysFinite, NewMessageType DEF Message
    <2> QED
      BY <2>1, <2>2 DEF Init, QuotaInv, NoRequest, Idle
  <1>2. QuotaInv => QuotaNotLeaked
    BY DEF QuotaInv, QuotaNotLeaked
  <1>3. QuotaInv /\ [Next]_vars => QuotaInv'
    BY StepQuotaInv
  <1> QED
    BY <1>1, <1>2, <1>3, PTL DEF Spec

=============================================================================
