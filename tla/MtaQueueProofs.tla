--------------------------- MODULE MtaQueueProofs ---------------------------
(***************************************************************************)
(* A message in the outbound queue always has an event that will wake some *)
(* queue manager, for any number of recipients, virtual queues, workers    *)
(* and administrators, under crashes, lost leases and refused writes, as   *)
(* long as reads of the message do not fail.                               *)
(***************************************************************************)
EXTENDS MtaQueue, FiniteSetTheorems, WellFoundedInduction, TLAPS

-----------------------------------------------------------------------------
(* The operators the model is built from                                   *)

\* Min of FiniteSetsExt is the least element of a non-empty set of naturals:
\* what next_event and next_events compute is one of the recipients' events.
LEMMA NatMin ==
    ASSUME NEW S, S \subseteq Nat, S # {}
    PROVE  Min(S) \in S /\ \A y \in S : Min(S) <= y
  <1> DEFINE R == {ss \in Nat \X Nat : ss[1] < ss[2]}
  <1>1. IsWellFoundedOn(R, Nat)
    BY NatLessThanWellFounded, Zenon DEF OpToRel
  <1>2. PICK x \in S : \A y \in S : ~ (<<y, x>> \in R)
    BY <1>1, WFMin, Zenon
  <1>3. ASSUME NEW y \in S PROVE x <= y
    <2>1. ~ (<<y, x>> \in R)
      BY <1>2
    <2>2. ~ (y < x)
      BY <2>1
    <2> QED
      BY <2>2
  <1> QED
    BY <1>2, <1>3 DEF Min

\* The larger of two integers, which the release of a quota uses, is one of
\* them.
LEMMA MaxOfTwo ==
    ASSUME NEW a \in Int, NEW b \in Int
    PROVE  Max({a, b}) \in Int
  <1>1. \E x \in {a, b} : \A y \in {a, b} : x >= y
    OBVIOUS
  <1>2. Max({a, b}) \in {a, b}
    BY <1>1 DEF Max
  <1> QED
    BY <1>2

\* build_message makes a well-formed message.
LEMMA NewMessageType == NewMessage \in Message
  BY QueueAssumption DEF NewMessage, Message, Recipient, Statuses

\* The earliest event of a recipient is a time.
LEMMA EarlierEventType ==
    ASSUME NEW rc \in Recipient PROVE EarlierEvent(rc) \in Nat
  <1>1. ExpirationTime(rc) \in Nat
    BY ScheduleAssumption DEF ExpirationTime, Recipient, QueueExpiry
  <1>2. {rc.due, rc.notify, ExpirationTime(rc)} \subseteq Nat
    BY <1>1 DEF Recipient
  <1> QED
    BY <1>2, NatMin DEF EarlierEvent

\* next_events yields events of the message's queues, and yields one whenever
\* a recipient is pending.
LEMMA NextEventsType ==
    ASSUME NEW m \in Message
    PROVE  /\ NextEvents(m) \subseteq Queues \X Nat
           /\ HasPending(m) => NextEvents(m) # {}
  <1> DEFINE Times(q) == {EarlierEvent(m.rcpts[r]) :
                 r \in {s \in PendingRcpts(m) : m.rcpts[s].queue = q}}
             Qs == {m.rcpts[r].queue : r \in PendingRcpts(m)}
  <1>0. m.rcpts \in [Rcpts -> Recipient]
    BY DEF Message
  <1>1. NextEvents(m) = {<<q, Min(Times(q))>> : q \in Qs}
    BY DEF NextEvents
  <1>2. ASSUME NEW q \in Qs PROVE <<q, Min(Times(q))>> \in Queues \X Nat
    <2>1. q \in Queues
      BY <1>0 DEF PendingRcpts, Recipient
    <2>2. Times(q) \subseteq Nat
      BY <1>0, EarlierEventType DEF PendingRcpts
    <2>3. Times(q) # {}
      OBVIOUS
    <2>4. Min(Times(q)) \in Nat
      BY <2>2, <2>3, NatMin
    <2> QED
      BY <2>1, <2>4
  <1>3. HasPending(m) => Qs # {}
    BY DEF HasPending, PendingRcpts
  <1> HIDE DEF Times, Qs
  <1> QED
    BY <1>1, <1>2, <1>3

\* Failing the expired recipients leaves a message.
LEMMA MarkExpiredType ==
    ASSUME NEW m \in Message, NEW t \in Nat
    PROVE  MarkExpired(m, t) \in Message
  <1>1. m.rcpts \in [Rcpts -> Recipient]
    BY DEF Message
  <1>2. ASSUME NEW r \in Rcpts
        PROVE  [m.rcpts[r] EXCEPT !.status = "failed"] \in Recipient
    BY <1>1 DEF Recipient, Statuses
  <1> QED
    BY <1>1, <1>2 DEF MarkExpired, Message

\* build_dsn and handle_double_bounce change neither the status nor the type
\* of a recipient.
LEMMA DsnMarksType ==
    ASSUME NEW rc \in Recipient, NEW t \in Nat
    PROVE  /\ DsnBuilt(rc) \in Recipient /\ DsnBuilt(rc).status = rc.status
           /\ DoubleBounce(rc, t) \in Recipient
           /\ DoubleBounce(rc, t).status = rc.status
  <1>1. ExpirationTime(rc) \in Nat
    BY ScheduleAssumption DEF ExpirationTime, Recipient, QueueExpiry
  <1>2. DsnBuilt(rc) \in Recipient /\ DsnBuilt(rc).status = rc.status
    BY DEF DsnBuilt, Recipient
  <1>3. /\ DoubleBounce(rc, t) \in Recipient
        /\ DoubleBounce(rc, t).status = rc.status
    <2> DEFINE sent == rc.dsn_sent \/ rc.status = "failed"
               next == IF rc.notify > t THEN rc.notify
                       ELSE IF rc.expires.kind = "ttl"
                         THEN ExpirationTime(rc) + 10 ELSE Never
    <2>1. sent \in BOOLEAN
      BY Zenon DEF Recipient
    <2>2. next \in Nat
      BY <1>1, ScheduleAssumption DEF Recipient
    <2>3. DoubleBounce(rc, t) = [rc EXCEPT !.dsn_sent = sent, !.notify = next]
      BY DEF DoubleBounce
    <2> HIDE DEF sent, next
    <2> QED
      BY <2>1, <2>2, <2>3 DEF Recipient
  <1> QED
    BY <1>2, <1>3

\* update_next_dsn changes neither the status nor the type of a recipient.
LEMMA NextDsnType ==
    ASSUME NEW rc \in Recipient, NEW t \in Nat
    PROVE  NextDsn(rc, t) \in Recipient /\ NextDsn(rc, t).status = rc.status
  <1>1. CASE ~Pending(rc) \/ rc.notify > t
    BY <1>1 DEF NextDsn
  <1>2. CASE ~(~Pending(rc) \/ rc.notify > t) /\ rc.nth + 2 <= Len(Notify)
    <2> DEFINE next == t + Notify[rc.nth + 2]
    <2>1. next \in Nat
      <3>1. rc.nth + 2 \in 1..Len(Notify)
        BY <1>2, ScheduleAssumption DEF Recipient
      <3>2. Notify[rc.nth + 2] \in Nat
        BY <3>1, ScheduleAssumption
      <3> QED
        BY <3>2
    <2> DEFINE once == [rc EXCEPT !.nth = rc.nth + 1]
    <2>2. NextDsn(rc, t) = [once EXCEPT !.notify = next]
      BY <1>2 DEF NextDsn
    <2>3. once \in Recipient /\ once.status = rc.status
      BY DEF Recipient
    <2> HIDE DEF next, once
    <2> QED
      BY <2>1, <2>2, <2>3 DEF Recipient
  <1>3. CASE ~(~Pending(rc) \/ rc.notify > t) /\ ~(rc.nth + 2 <= Len(Notify))
    <2>1. NextDsn(rc, t) = [rc EXCEPT !.notify = Never]
      BY <1>3 DEF NextDsn
    <2> QED
      BY <2>1, ScheduleAssumption DEF Recipient
  <1> QED
    BY <1>1, <1>2, <1>3

\* A message is a message whatever recipients it is given.
LEMMA MessageUpdate ==
    ASSUME NEW m \in Message, NEW rcpts \in [Rcpts -> Recipient]
    PROVE  [m EXCEPT !.rcpts = rcpts] \in Message
  BY DEF Message

\* A wrapper is a wrapper whatever message it is given.
LEMMA WrapperUpdate ==
    ASSUME NEW x \in MessageWrapper, NEW m \in Message
    PROVE  [x EXCEPT !.message = m] \in MessageWrapper
  BY DEF MessageWrapper

\* Neither do both parts of send_dsn together.
LEMMA AccountedType ==
    ASSUME NEW rc \in Recipient, NEW t \in Nat
    PROVE  Accounted(rc, t) \in Recipient /\ Accounted(rc, t).status = rc.status
  <1>1. CASE NullSender
    <2> DEFINE marked == DoubleBounce(rc, t)
    <2>1. Accounted(rc, t) = NextDsn(marked, t)
      BY <1>1 DEF Accounted
    <2>2. marked \in Recipient /\ marked.status = rc.status
      BY DsnMarksType
    <2> HIDE DEF marked
    <2> QED
      BY <2>1, <2>2, NextDsnType
  <1>2. CASE ~NullSender
    <2> DEFINE marked == DsnBuilt(rc)
    <2>1. Accounted(rc, t) = NextDsn(marked, t)
      BY <1>2 DEF Accounted
    <2>2. marked \in Recipient /\ marked.status = rc.status
      BY DsnMarksType
    <2> HIDE DEF marked
    <2> QED
      BY <2>1, <2>2, NextDsnType
  <1> QED
    BY <1>1, <1>2

\* send_dsn leaves a message, and the same recipients pending.
LEMMA AfterDsnType ==
    ASSUME NEW m \in Message, NEW t \in Nat
    PROVE  /\ AfterDsn(m, t) \in Message
           /\ HasPending(AfterDsn(m, t)) <=> HasPending(m)
  <1> DEFINE After(r) == Accounted(m.rcpts[r], t)
  <1>1. m.rcpts \in [Rcpts -> Recipient]
    BY DEF Message
  <1>2. ASSUME NEW r \in Rcpts
        PROVE  After(r) \in Recipient /\ After(r).status = m.rcpts[r].status
    BY <1>1, AccountedType
  <1>3. AfterDsn(m, t) = [m EXCEPT !.rcpts = [r \in Rcpts |-> After(r)]]
    BY DEF AfterDsn
  <1> HIDE DEF After
  <1>4. AfterDsn(m, t) \in Message
    <2> DEFINE rcpts == [r \in Rcpts |-> After(r)]
    <2>1. rcpts \in [Rcpts -> Recipient]
      BY <1>2
    <2>2. AfterDsn(m, t) = [m EXCEPT !.rcpts = rcpts]
      BY <1>3
    <2> HIDE DEF rcpts
    <2> QED
      BY <2>1, <2>2, MessageUpdate
  <1>5. ASSUME NEW r \in Rcpts PROVE AfterDsn(m, t).rcpts[r] = After(r)
    BY <1>3 DEF Message
  <1>6. HasPending(AfterDsn(m, t)) <=> HasPending(m)
    BY <1>2, <1>5 DEF HasPending, Pending
  <1> QED
    BY <1>4, <1>6

\* A refusal (set_rcpt_status) makes a recipient of a recipient: in particular
\* the retry delay it looks up exists, however many attempts were made.
LEMMA RefusedType ==
    ASSUME NEW rc \in Recipient, NEW t \in Nat
    PROVE  Refused(rc, t) \subseteq Recipient
  <1>1. Len(Retry) \in Nat \ {0} /\ \A i \in 1..Len(Retry) : Retry[i] \in Nat
    BY ScheduleAssumption
  <1>2. Min({rc.tries + 1, Len(Retry)}) \in 1..Len(Retry)
    <2>1. {rc.tries + 1, Len(Retry)} \subseteq Nat
      BY <1>1 DEF Recipient
    <2> DEFINE S == {rc.tries + 1, Len(Retry)}
    <2>2. Min(S) \in S /\ \A y \in S : Min(S) <= y
      BY <2>1, NatMin
    <2> QED
      BY <1>1, <2>2 DEF Recipient
  <1>3. ASSUME NEW q \in Requeue[rc.queue] PROVE Deferred(rc, q, t) \in Recipient
    <2>1. q \in Queues /\ Expiry[q] \in QueueExpiry
      BY QueueAssumption DEF Recipient
    <2> DEFINE due == t + Retry[Min({rc.tries + 1, Len(Retry)})]
    <2>2. due \in Nat
      BY <1>1, <1>2
    <2> DEFINE later == [rc EXCEPT !.status = "temp", !.due = due]
               again == [later EXCEPT !.tries = rc.tries + 1]
    <2>3. Deferred(rc, q, t) = [again EXCEPT !.expires = Expiry[q], !.queue = q]
      BY DEF Deferred
    <2> HIDE DEF due
    <2>4. later \in Recipient
      BY <2>2 DEF Recipient, Statuses
    <2> HIDE DEF later
    <2>5. again \in Recipient
      BY <2>4 DEF Recipient
    <2> HIDE DEF again
    <2> QED
      BY <2>1, <2>3, <2>5 DEF Recipient
  <1>4. [rc EXCEPT !.status = "failed"] \in Recipient
    BY DEF Recipient, Statuses
  <1> QED
    BY <1>3, <1>4 DEF Refused

\* An attempt makes a recipient of a recipient, refused twice or not.
LEMMA OutcomesType ==
    ASSUME NEW rc \in Recipient, NEW t \in Nat
    PROVE  Outcomes(rc, t) \subseteq Recipient
  <1>1. t + Retry[1] \in Nat
    <2>1. Retry[1] \in Nat
      BY ScheduleAssumption
    <2> QED
      BY <2>1
  <1>2. /\ [rc EXCEPT !.status = "done"] \in Recipient
        /\ RateLimited(rc, t) \in Recipient
    BY <1>1 DEF RateLimited, Recipient, Statuses
  <1>3. Refused(rc, t) \subseteq Recipient
    BY RefusedType
  <1>4. ASSUME NEW x \in Refused(rc, t) PROVE Refused(x, t) \subseteq Recipient
    BY <1>3, RefusedType
  <1> QED
    BY <1>2, <1>3, <1>4 DEF Outcomes, NextHop

-----------------------------------------------------------------------------
(* Type correctness                                                        *)

StoreOK ==
    /\ exists \in BOOLEAN
    /\ msg \in Message
    /\ events \subseteq Queues \X Nat
    /\ blob \in BOOLEAN
    /\ quota \in Int

LocalOK ==
    /\ lock \in [Queues -> Workers \cup {NoWorker}]
    /\ pc \in [Workers -> Steps]
    /\ job \in [Workers -> Queues \X Nat]
    /\ wrap \in [Workers -> MessageWrapper]

Request == [op : {"none", "update", "destroy"}, message : Message,
            is_multi_queue : BOOLEAN, clear : SUBSET (Queues \X Nat),
            cancel : SUBSET Rcpts]

MgmtOK == admin \in Request /\ requests \in 0..MaxRequests

HistOK ==
    /\ queued \in BOOLEAN
    /\ gone \in BOOLEAN
    /\ cancelled \subseteq Rcpts
    /\ delivered \in [Rcpts -> 0..Many]
    /\ unanswered \subseteq Rcpts
    /\ bounced \in [Rcpts -> 0..Many]
    /\ unreported \subseteq Rcpts

\* The type invariant in four parts: the store, the workers, the requests of
\* administrators and the history.
LEMMA TypeParts ==
    /\ TypeOK <=> now \in 0..MaxTime /\ StoreOK /\ LocalOK /\ MgmtOK /\ HistOK
    /\ TypeOK' <=> now' \in 0..MaxTime /\ StoreOK' /\ LocalOK' /\ MgmtOK' /\ HistOK'
  BY DEF TypeOK, StoreOK, LocalOK, MgmtOK, HistOK, Request

\* What a step leaves alone keeps its type.
LEMMA Frame ==
    /\ StoreOK /\ UNCHANGED stored => StoreOK'
    /\ LocalOK /\ UNCHANGED local => LocalOK'
    /\ MgmtOK /\ UNCHANGED mgmt => MgmtOK'
    /\ HistOK /\ UNCHANGED hist => HistOK'
  <1>1. StoreOK /\ UNCHANGED stored => StoreOK'
    BY DEF StoreOK, stored
  <1>2. LocalOK /\ UNCHANGED local => LocalOK'
    BY DEF LocalOK, local
  <1>3. MgmtOK /\ UNCHANGED mgmt => MgmtOK'
    BY DEF MgmtOK, mgmt
  <1>4. HistOK /\ UNCHANGED hist => HistOK'
    BY DEF HistOK, hist
  <1> QED
    BY <1>1, <1>2, <1>3, <1>4

\* The number of quota keys a batch releases is a number.
LEMMA KeysFinite ==
    ASSUME NEW K \in SUBSET (Rcpts \cup {Sender})
    PROVE  Cardinality(K) \in Nat
  <1>1. IsFiniteSet(Rcpts \cup {Sender})
    BY QueueAssumption, FS_AddElement
  <1>2. IsFiniteSet(K)
    BY <1>1, FS_Subset
  <1> QED
    BY <1>2, FS_CardinalityType

\* A batch that releases keys of a message leaves the others.
LEMMA KeysLeftOver ==
    ASSUME NEW K \in SUBSET (Rcpts \cup {Sender}), NEW R \in SUBSET K
    PROVE  /\ Cardinality(R) \in Nat /\ Cardinality(R) <= Cardinality(K)
           /\ Cardinality(K \ R) = Cardinality(K) - Cardinality(R)
  <1>1. IsFiniteSet(K)
    <2>1. IsFiniteSet(Rcpts \cup {Sender})
      BY QueueAssumption, FS_AddElement
    <2> QED
      BY <2>1, FS_Subset
  <1>2. /\ IsFiniteSet(R) /\ Cardinality(R) <= Cardinality(K)
    BY <1>1, FS_Subset
  <1>3. Cardinality(R) \in Nat
    BY <1>2, FS_CardinalityType
  <1>4. Cardinality(K \ R) = Cardinality(K) - Cardinality(K \cap R)
    BY <1>1, FS_Difference
  <1>5. K \cap R = R
    OBVIOUS
  <1> QED
    BY <1>2, <1>3, <1>4, <1>5

\* Releasing keys leaves the counter an integer.
LEMMA ReleaseType ==
    ASSUME quota \in Int, NEW n \in Nat, Release(n)
    PROVE  quota' \in Int
  BY MaxOfTwo DEF Release

\* The batch of save_changes leaves a well-formed store, and an event in it if
\* a recipient of the copy is pending.
LEMMA SaveType ==
    ASSUME StoreOK, NEW m \in Message, NEW q \in Queues,
           NEW is_multi \in BOOLEAN, NEW clear, Save(m, q, is_multi, clear)
    PROVE  StoreOK' /\ (HasPending(m) => events' # {})
  <1> DEFINE saved == [m EXCEPT !.keys = @ \ Released(m)]
  <1>1. Released(m) \in SUBSET (Rcpts \cup {Sender})
    BY DEF Released, Message
  <1>2. saved \in Message /\ saved.rcpts = m.rcpts
    BY DEF Message
  <1>3. Merged(saved, q) \in Message
    <2>1. /\ msg.rcpts \in [Rcpts -> Recipient]
          /\ saved.rcpts \in [Rcpts -> Recipient]
      BY <1>2 DEF StoreOK, Message
    <2> HIDE DEF saved
    <2> QED
      BY <2>1 DEF Merged, StoreOK, Message
  <1>4. quota' \in Int
    BY <1>1, KeysFinite, ReleaseType DEF Save, StoreOK
  <1>5. /\ NextEvents(m) \subseteq Queues \X Nat
        /\ HasPending(m) => NextEvents(m) # {}
    BY NextEventsType
  <1>6. events' \subseteq Queues \X Nat /\ (HasPending(m) => events' # {})
    <2>1. events' = (events \ clear) \cup NextEvents(m)
      BY DEF Save
    <2> QED
      BY <1>5, <2>1 DEF StoreOK
  <1>7. msg' \in Message
    <2>1. msg' = IF is_multi THEN Merged(saved, q) ELSE saved
      BY DEF Save
    <2> HIDE DEF saved
    <2> QED
      BY <1>2, <1>3, <2>1
  <1>8. exists' \in BOOLEAN /\ blob' \in BOOLEAN
    BY DEF Save, StoreOK
  <1> QED
    BY <1>4, <1>6, <1>7, <1>8 DEF StoreOK

\* So does the batch of remove.
LEMMA RemoveType ==
    ASSUME StoreOK, NEW m \in Message, NEW clear, Remove(m, clear)
    PROVE  StoreOK'
  <1>1. Cardinality(m.keys) \in Nat
    BY KeysFinite DEF Message
  <1>2. quota' \in Int
    BY <1>1, ReleaseType DEF Remove, StoreOK
  <1> QED
    BY <1>2, NewMessageType DEF Remove, StoreOK

\* The number of failure reports stays within its bound, and what is not reported
\* is a recipient.
LEMMA QueueDsnType ==
    ASSUME bounced \in [Rcpts -> 0..Many], unreported \subseteq Rcpts,
           NEW m, QueueDsn(m)
    PROVE  bounced' \in [Rcpts -> 0..Many] /\ unreported' \subseteq Rcpts
  BY DEF QueueDsn, Reported, Bump, Many

\* A worker without a message has a well-formed copy, and no administrator's
\* request is one.
LEMMA IdleType ==
    Idle \in MessageWrapper /\ NoJob \in Queues \X Nat /\ NoRequest \in Request
  <1>1. NewMessage \in Message
    BY NewMessageType
  <1>2. Idle \in MessageWrapper
    BY <1>1 DEF Idle, MessageWrapper
  <1>3. NoJob \in Queues \X Nat
    BY QueueAssumption, ScheduleAssumption DEF NoJob
  <1>4. NoRequest \in Request
    BY <1>1 DEF NoRequest, Request
  <1> QED
    BY <1>2, <1>3, <1>4

\* Nothing is queued and every worker is idle at first.
LEMMA InitType == Init => TypeOK
  <1> SUFFICES ASSUME Init PROVE TypeOK
    OBVIOUS
  <1>1. now \in 0..MaxTime
    BY ScheduleAssumption DEF Init
  <1>2. StoreOK
    <2>1. exists \in BOOLEAN /\ blob \in BOOLEAN
      BY Zenon DEF Init
    <2> QED
      BY <2>1, NewMessageType DEF Init, StoreOK
  <1>3. LocalOK
    BY IdleType DEF Init, LocalOK, Steps
  <1>4. MgmtOK
    BY IdleType, ScheduleAssumption DEF Init, MgmtOK
  <1>5. HistOK
    <2>1. queued \in BOOLEAN /\ gone \in BOOLEAN
      BY Zenon DEF Init
    <2> QED
      BY <2>1 DEF Init, HistOK, Many
  <1> QED
    BY <1>1, <1>2, <1>3, <1>4, <1>5, TypeParts

\* Every step of a worker preserves the type of the state.
LEMMA WorkerType ==
    ASSUME TypeOK, NEW w \in Workers, Dispatch(w) \/ WorkerStep(w) \/ Crash(w)
    PROVE  TypeOK'
  <1>0. now \in 0..MaxTime /\ StoreOK /\ LocalOK /\ MgmtOK /\ HistOK
    BY TypeParts
  <1>t. now \in Nat
    BY <1>0, ScheduleAssumption
  <1>p. ASSUME NEW s \in Steps, Goto(w, s) PROVE pc' \in [Workers -> Steps]
    BY <1>0, <1>p DEF Goto, LocalOK
  <1>j. job[w] \in Queues \X Nat /\ job[w][1] \in Queues
    BY <1>0 DEF LocalOK
  <1>m. /\ wrap[w].message \in Message /\ wrap[w].is_multi_queue \in BOOLEAN
        /\ wrap[w].message.rcpts \in [Rcpts -> Recipient]
        /\ wrap[w].tried \subseteq Rcpts
    BY <1>0 DEF LocalOK, MessageWrapper, Message
  <1>1. CASE Dispatch(w)
    <2>1. job' \in [Workers -> Queues \X Nat]
      BY <1>0, <1>1 DEF Dispatch, StoreOK, LocalOK
    <2>2. LocalOK'
      BY <1>0, <1>1, <1>p, <2>1 DEF Dispatch, LocalOK, Steps
    <2> QED
      BY <1>0, <1>1, <2>2, TypeParts, Frame DEF Dispatch
  <1>2. CASE LockEvent(w) \/ LockRefused(w)
    <2>1. LocalOK'
      BY <1>0, <1>2, <1>p, <1>j, IdleType DEF LockEvent, LockRefused, LocalOK, Steps
    <2> QED
      BY <1>0, <1>2, <2>1, TypeParts, Frame DEF LockEvent, LockRefused
  <1>3. CASE ReadMessage(w)
    <2> DEFINE expired == MarkExpired(msg, now)
               m == AfterDsn(expired, now)
               copy == [message |-> m,
                        is_multi_queue |-> IsMultiQueue(msg, job[w][1]),
                        tried |-> {}]
    <2>1. m \in Message
      BY <1>0, <1>t, MarkExpiredType, AfterDsnType DEF StoreOK
    <2>2. copy \in MessageWrapper
      BY <2>1 DEF MessageWrapper, IsMultiQueue
    <2>3. wrap' = [wrap EXCEPT ![w] = copy] /\ pc' \in [Workers -> Steps]
      <3>1. Goto(w, "remove") \/ Goto(w, "route") \/ Goto(w, "save")
        BY <1>3 DEF ReadMessage
      <3> QED
        BY <1>3, <3>1, <1>p DEF ReadMessage, Steps
    <2>4. bounced' \in [Rcpts -> 0..Many] /\ unreported' \subseteq Rcpts
      BY <1>0, <1>3, QueueDsnType DEF ReadMessage, HistOK
    <2> HIDE DEF copy
    <2>5. LocalOK'
      BY <1>0, <1>3, <2>2, <2>3 DEF ReadMessage, LocalOK
    <2> QED
      <3>1. HistOK'
        BY <1>0, <1>3, <2>4 DEF ReadMessage, HistOK
      <3> QED
        BY <1>0, <1>3, <2>5, <3>1, TypeParts, Frame DEF ReadMessage
  <1>4. CASE ReadNone(w)
    <2>1. LocalOK' /\ StoreOK'
      BY <1>0, <1>4, <1>p DEF ReadNone, LocalOK, StoreOK, Steps
    <2> QED
      BY <1>0, <1>4, <2>1, TypeParts, Frame DEF ReadNone
  <1>5. CASE ThrottleSender(w)
    <2> DEFINE old == wrap[w].message.rcpts
               later(r) == [old[r] EXCEPT !.status = "temp",
                                          !.due = now + Retry[1]]
               new == [r \in Rcpts |->
                          IF r \in DueRcpts(wrap[w].message, job[w][1], now)
                            THEN later(r) ELSE old[r]]
    <2>1. ASSUME NEW r \in Rcpts PROVE later(r) \in Recipient
      <3>1. later(r) \in Outcomes(old[r], now)
        BY DEF Outcomes, RateLimited
      <3> QED
        BY <1>m, <1>t, <3>1, OutcomesType
    <2>2. new \in [Rcpts -> Recipient]
      BY <1>m, <2>1
    <2>3. wrap' = [wrap EXCEPT ![w].message.rcpts = new]
      BY <1>5 DEF ThrottleSender
    <2> HIDE DEF new
    <2>4. wrap' \in [Workers -> MessageWrapper]
      <3>1. wrap \in [Workers -> MessageWrapper]
        BY <1>0 DEF LocalOK
      <3>2. wrap[w] \in MessageWrapper /\ wrap[w].message \in Message
        BY <3>1 DEF MessageWrapper
      <3>3. [wrap[w].message EXCEPT !.rcpts = new] \in Message
        BY <2>2, <3>2, MessageUpdate
      <3>4. [wrap[w] EXCEPT !.message = [wrap[w].message EXCEPT !.rcpts = new]]
                \in MessageWrapper
        BY <3>2, <3>3, WrapperUpdate
      <3>5. wrap' = [wrap EXCEPT ![w] =
                        [wrap[w] EXCEPT !.message =
                            [wrap[w].message EXCEPT !.rcpts = new]]]
        BY <2>3, <3>2 DEF MessageWrapper, Message
      <3> QED
        BY <3>1, <3>4, <3>5
    <2>5. LocalOK'
      BY <1>0, <1>5, <1>p, <2>4 DEF ThrottleSender, LocalOK, Steps
    <2> QED
      BY <1>0, <1>5, <2>5, TypeParts, Frame DEF ThrottleSender
  <1>6. CASE Route(w)
    <2>1. wrap' \in [Workers -> MessageWrapper]
      BY <1>0, <1>6 DEF Route, LocalOK, MessageWrapper, DueRcpts, PendingRcpts
    <2>2. LocalOK'
      BY <1>0, <1>6, <1>p, <2>1 DEF Route, LocalOK, Steps
    <2> QED
      BY <1>0, <1>6, <2>2, TypeParts, Frame DEF Route
  <1>7. CASE Deliver(w)
    <2> DEFINE old == wrap[w].message.rcpts
               M(new) == [wrap[w].message EXCEPT !.rcpts = new]
    <2>1. PICK new \in [Rcpts -> UNION {Outcomes(old[r], now) : r \in wrap[w].tried}
                                   \cup {old[r] : r \in Rcpts}] :
            /\ \A r \in Rcpts : new[r] \in IF r \in wrap[w].tried
                                             THEN Outcomes(old[r], now)
                                             ELSE {old[r]}
            /\ delivered' = [r \in Rcpts |->
                   IF r \in wrap[w].tried /\ new[r].status = "done"
                     THEN Bump(delivered[r]) ELSE delivered[r]]
            /\ \E taken \in SUBSET {r \in wrap[w].tried :
                                       new[r] \in Unheard(old[r], now)} :
                   /\ taken # {} => "reply" \in Faults
                   /\ unanswered' = unanswered \cup taken
            /\ QueueDsn(M(new))
            /\ wrap' = [wrap EXCEPT ![w].message = AfterDsn(M(new), now),
                                    ![w].tried = {}]
            /\ Goto(w, IF HasPending(M(new)) THEN "save" ELSE "remove")
      BY <1>7 DEF Deliver
    <2>2. new \in [Rcpts -> Recipient]
      BY <1>m, <1>t, <2>1, OutcomesType
    <2>3. M(new) \in Message
      BY <1>m, <2>2 DEF Message
    <2>4. AfterDsn(M(new), now) \in Message
      BY <1>t, <2>3, AfterDsnType
    <2> DEFINE m == AfterDsn(M(new), now)
    <2>5. wrap' = [wrap EXCEPT ![w].message = m, ![w].tried = {}]
      BY <2>1
    <2>6. m \in Message
      BY <2>4
    <2> HIDE DEF m
    <2>7. wrap' \in [Workers -> MessageWrapper]
      <3>1. wrap \in [Workers -> MessageWrapper]
        BY <1>0 DEF LocalOK
      <3> DEFINE new_wrap == [wrap[w] EXCEPT !.message = m]
                 done_wrap == [new_wrap EXCEPT !.tried = {}]
      <3>2. new_wrap \in MessageWrapper
        BY <2>6, <3>1, WrapperUpdate
      <3>3. done_wrap \in MessageWrapper
        BY <3>2 DEF MessageWrapper
      <3>4. wrap' = [wrap EXCEPT ![w] = done_wrap]
        BY <2>5, <3>1
      <3> HIDE DEF done_wrap
      <3> QED
        BY <3>1, <3>3, <3>4
    <2>8. LocalOK'
      BY <1>0, <1>7, <1>p, <2>1, <2>7 DEF Deliver, LocalOK, Steps
    <2>9. HistOK'
      <3>1. delivered' \in [Rcpts -> 0..Many]
        BY <1>0, <2>1 DEF HistOK, Bump, Many
      <3>2. bounced' \in [Rcpts -> 0..Many] /\ unreported' \subseteq Rcpts
        BY <1>0, <2>1, QueueDsnType DEF HistOK
      <3>3. unanswered' \subseteq Rcpts
        BY <1>0, <1>m, <2>1 DEF HistOK
      <3> QED
        BY <1>0, <1>7, <3>1, <3>2, <3>3 DEF Deliver, HistOK
    <2> QED
      BY <1>0, <1>7, <2>8, <2>9, TypeParts, Frame DEF Deliver
  <1>8. CASE SaveChanges(w)
    <2>1. StoreOK'
      BY <1>0, <1>8, <1>j, <1>m, SaveType DEF SaveChanges
    <2>2. LocalOK'
      BY <1>0, <1>8, <1>p DEF SaveChanges, LocalOK, Steps
    <2> QED
      BY <1>0, <1>8, <2>1, <2>2, TypeParts, Frame DEF SaveChanges
  <1>9. CASE RemoveMessage(w)
    <2>1. StoreOK'
      BY <1>0, <1>9, <1>m, RemoveType DEF RemoveMessage
    <2>2. LocalOK'
      BY <1>0, <1>9, <1>p DEF RemoveMessage, LocalOK, Steps
    <2> QED
      BY <1>0, <1>9, <2>1, <2>2, TypeParts, Frame DEF RemoveMessage
  <1>10. CASE WriteFails(w)
    <2>1. LocalOK'
      BY <1>0, <1>10, <1>p DEF WriteFails, LocalOK, Steps
    <2> QED
      BY <1>0, <1>10, <2>1, TypeParts, Frame DEF WriteFails
  <1>11. CASE UnlockEvent(w) \/ Crash(w)
    <2>1. /\ job' = [job EXCEPT ![w] = NoJob]
          /\ wrap' = [wrap EXCEPT ![w] = Idle]
          /\ Goto(w, "idle")
          /\ lock' \in {lock, [lock EXCEPT ![job[w][1]] = NoWorker]}
      BY <1>11 DEF UnlockEvent, Crash, End
    <2>2. LocalOK'
      BY <1>0, <1>j, <1>p, <2>1, IdleType DEF LocalOK, Steps
    <2> QED
      BY <1>0, <1>11, <2>2, TypeParts, Frame DEF UnlockEvent, Crash
  <1> QED
    BY <1>1, <1>2, <1>3, <1>4, <1>5, <1>6, <1>7, <1>8, <1>9, <1>10, <1>11
       DEF WorkerStep

\* A worker does not touch the copies of the others.
LEMMA OthersKeep ==
    ASSUME TypeOK, NEW w \in Workers, Dispatch(w) \/ WorkerStep(w) \/ Crash(w),
           NEW v \in Workers, v # w
    PROVE  wrap'[v] = wrap[v] /\ pc'[v] = pc[v] /\ job'[v] = job[v]
  <1>t. /\ pc \in [Workers -> Steps] /\ wrap \in [Workers -> MessageWrapper]
        /\ job \in [Workers -> Queues \X Nat]
    BY DEF TypeOK
  <1>1. wrap'[v] = wrap[v]
    BY <1>t DEF WorkerStep, Dispatch, LockEvent, LockRefused, ReadMessage, ReadNone,
       ThrottleSender, Route, Deliver, SaveChanges, RemoveMessage, WriteFails,
       UnlockEvent, Crash, End
  <1>2. pc'[v] = pc[v]
    BY <1>t DEF WorkerStep, Goto, Dispatch, LockEvent, LockRefused, ReadMessage, ReadNone,
       ThrottleSender, Route, Deliver, SaveChanges, RemoveMessage, WriteFails,
       UnlockEvent, Crash, End
  <1>3. job'[v] = job[v]
    BY <1>t DEF WorkerStep, Dispatch, LockEvent, LockRefused, ReadMessage, ReadNone,
       ThrottleSender, Route, Deliver, SaveChanges, RemoveMessage, WriteFails,
       UnlockEvent, Crash, End
  <1> QED
    BY <1>1, <1>2, <1>3

\* Reading, throttling, grouping and trying leave the quota keys alone.
LEMMA KeysKept ==
    ASSUME TypeOK, NEW w \in Workers
    PROVE  /\ ReadMessage(w) => wrap'[w].message.keys = msg.keys
           /\ ThrottleSender(w) \/ Route(w) \/ Deliver(w) =>
                wrap'[w].message.keys = wrap[w].message.keys
  <1>t. /\ wrap \in [Workers -> MessageWrapper]
        /\ wrap[w] \in MessageWrapper /\ wrap[w].message \in Message /\ msg \in Message
    BY DEF TypeOK, MessageWrapper
  <1>1. /\ \A t : \A m \in Message : MarkExpired(m, t).keys = m.keys
        /\ \A t : \A m \in Message : AfterDsn(m, t).keys = m.keys
    BY DEF MarkExpired, AfterDsn, Message
  <1>2. ASSUME ReadMessage(w) PROVE wrap'[w].message.keys = msg.keys
    <2>1. MarkExpired(msg, now) \in Message
      BY <1>t, MarkExpiredType, ScheduleAssumption DEF TypeOK
    <2>2. wrap'[w].message = AfterDsn(MarkExpired(msg, now), now)
      BY <1>2, <1>t DEF ReadMessage
    <2> QED
      BY <1>t, <1>1, <2>1, <2>2
  <1>3. ASSUME ThrottleSender(w) PROVE wrap'[w].message.keys = wrap[w].message.keys
    <2>1. PICK new : wrap' = [wrap EXCEPT ![w].message.rcpts = new]
      BY <1>3 DEF ThrottleSender
    <2> QED
      BY <1>t, <2>1 DEF MessageWrapper, Message
  <1>4. Route(w) => wrap'[w].message.keys = wrap[w].message.keys
    BY <1>t DEF Route, MessageWrapper
  <1>5. ASSUME Deliver(w) PROVE wrap'[w].message.keys = wrap[w].message.keys
    <2>1. PICK new :
            wrap' = [wrap EXCEPT ![w].message =
                                   AfterDsn([wrap[w].message EXCEPT !.rcpts = new], now),
                                 ![w].tried = {}]
      BY <1>5 DEF Deliver
    <2>2. wrap'[w].message = AfterDsn([wrap[w].message EXCEPT !.rcpts = new], now)
      BY <1>t, <2>1 DEF MessageWrapper
    <2> QED
      BY <1>t, <2>2 DEF AfterDsn, Message
  <1> QED
    BY <1>2, <1>3, <1>4, <1>5

\* What an administrator makes of a recipient is a recipient.
LEMMA EditedType ==
    ASSUME NEW rc \in Recipient
    PROVE  Edited(rc) \subseteq Recipient /\ Canceled(rc) \in Recipient
  <1>1. /\ Edits.due \subseteq Nat /\ Edits.tries \subseteq Nat
        /\ Edits.notify \subseteq Nat /\ Edits.nth \subseteq Nat
        /\ Edits.expires \subseteq QueueExpiry
    BY QueueAssumption
  <1>2. Edited(rc) \subseteq Recipient
    BY <1>1 DEF Edited, Recipient, Statuses
  <1>3. Canceled(rc) \in Recipient
    BY DEF Canceled, Recipient, Statuses
  <1> QED
    BY <1>2, <1>3

\* What an update makes of the recipients are recipients.
LEMMA PatchedType ==
    ASSUME msg \in Message, NEW C \in SUBSET Rcpts
    PROVE  Patched(C) \subseteq [Rcpts -> Recipient]
  <1>1. msg.rcpts \in [Rcpts -> Recipient]
    BY DEF Message
  <1>2. ASSUME NEW r \in Rcpts
        PROVE  Edited(msg.rcpts[r]) \cup {Canceled(msg.rcpts[r])} \subseteq Recipient
    BY <1>1, EditedType
  <1> QED
    BY <1>2 DEF Patched

\* The event an update is about to clear is an event.
LEMMA NextEventType ==
    ASSUME NEW m \in Message, HasPending(m) PROVE NextEvent(m) \in Nat
  <1> DEFINE Times == {EarlierEvent(m.rcpts[r]) : r \in PendingRcpts(m)}
  <1>1. Times \subseteq Nat
    BY EarlierEventType DEF Message, PendingRcpts
  <1>2. Times # {}
    BY DEF HasPending, PendingRcpts
  <1>3. Min(Times) \in Nat
    BY <1>1, <1>2, NatMin
  <1> QED
    BY <1>3 DEF NextEvent

\* The requests of administrators preserve the type of the state.
LEMMA AdminType == TypeOK /\ AdminStep => TypeOK'
  <1> SUFFICES ASSUME TypeOK, AdminStep PROVE TypeOK'
    OBVIOUS
  <1>0. now \in 0..MaxTime /\ StoreOK /\ LocalOK /\ MgmtOK /\ HistOK
    BY TypeParts
  <1>t. now \in Nat /\ msg \in Message
    BY <1>0, ScheduleAssumption DEF StoreOK
  <1>a. /\ admin.message \in Message /\ admin.is_multi_queue \in BOOLEAN
        /\ admin.cancel \subseteq Rcpts
    BY <1>0 DEF MgmtOK, Request
  <1>n. NoRequest \in Request
    BY IdleType
  <1>1. CASE AdminRead
    <2>1. ASSUME NEW m \in Message, NEW C \in SUBSET Rcpts, UpdateRequest(m, C)
          PROVE  admin' \in Request
      <3> DEFINE clear == IF HasPending(msg) THEN {<<Default, NextEvent(msg)>>}
                                             ELSE {}
      <3>1. clear \in SUBSET (Queues \X Nat)
        BY <1>t, NextEventType, QueueAssumption
      <3>2. IsMultiQueue(m, Default) \in BOOLEAN
        BY DEF IsMultiQueue
      <3>3. admin' = [op |-> "update", message |-> m,
                      is_multi_queue |-> IsMultiQueue(m, Default),
                      clear |-> clear, cancel |-> C]
        BY <2>1 DEF UpdateRequest
      <3> HIDE DEF clear
      <3> QED
        BY <3>1, <3>2, <3>3 DEF Request
    <2>2. admin' \in Request
      <3>1. PICK C \in SUBSET Rcpts, new \in [Rcpts -> Recipient] :
                UpdateRequest([msg EXCEPT !.rcpts = new], C)
        BY <1>1, <1>t, PatchedType DEF AdminRead
      <3>2. [msg EXCEPT !.rcpts = new] \in Message
        BY <1>t, MessageUpdate
      <3> QED
        BY <2>1, <3>1, <3>2
    <2>3. MgmtOK'
      BY <1>0, <1>1, <2>2, ScheduleAssumption DEF AdminRead, MgmtOK
    <2> QED
      BY <1>0, <1>1, <2>3, TypeParts, Frame DEF AdminRead
  <1>2. CASE AdminWrite
    <2>1. StoreOK'
      BY <1>0, <1>2, <1>a, SaveType, RemoveType, QueueAssumption DEF AdminWrite
    <2>2. MgmtOK'
      BY <1>0, <1>2, <1>n DEF AdminWrite, MgmtOK
    <2>3. HistOK'
      BY <1>0, <1>2, <1>a DEF AdminWrite, HistOK
    <2> QED
      BY <1>0, <1>2, <2>1, <2>2, <2>3, TypeParts, Frame DEF AdminWrite
  <1>3. CASE AdminFails
    <2>1. MgmtOK'
      BY <1>0, <1>3, <1>n DEF AdminFails, MgmtOK
    <2> QED
      BY <1>0, <1>3, <2>1, TypeParts, Frame DEF AdminFails
  <1>4. CASE DestroyRead
    <2>1. NextEvents(msg) \subseteq Queues \X Nat
      BY <1>t, NextEventsType
    <2>2. admin' \in Request
      BY <1>4, <1>t, <2>1 DEF DestroyRead, Request
    <2>3. MgmtOK'
      BY <1>0, <1>4, <2>2, ScheduleAssumption DEF DestroyRead, MgmtOK
    <2> QED
      BY <1>0, <1>4, <2>3, TypeParts, Frame DEF DestroyRead
  <1>5. CASE DestroyWrite
    <2>1. StoreOK'
      BY <1>0, <1>5, <1>a, RemoveType DEF DestroyWrite
    <2>2. MgmtOK'
      BY <1>0, <1>5, <1>n DEF DestroyWrite, MgmtOK
    <2>3. gone' \in BOOLEAN
      BY <1>5, Zenon DEF DestroyWrite
    <2>4. HistOK'
      BY <1>0, <1>5, <2>3 DEF DestroyWrite, HistOK
    <2> QED
      BY <1>0, <1>5, <2>1, <2>2, <2>4, TypeParts, Frame DEF DestroyWrite
  <1> QED
    BY <1>1, <1>2, <1>3, <1>4, <1>5 DEF AdminStep

\* queue() stores a well-formed message.
LEMMA QueueType == TypeOK /\ QueueMessage => TypeOK'
  <1> SUFFICES ASSUME TypeOK, QueueMessage PROVE TypeOK'
    OBVIOUS
  <1>0. now \in 0..MaxTime /\ StoreOK /\ LocalOK /\ MgmtOK /\ HistOK
    BY TypeParts
  <1>1. Cardinality(NewMessage.keys) \in Nat
    BY KeysFinite, NewMessageType DEF Message
  <1>2. exists' \in BOOLEAN /\ blob' \in BOOLEAN /\ queued' \in BOOLEAN
    BY Zenon DEF QueueMessage
  <1>3. StoreOK'
    BY <1>1, <1>2, NewMessageType, NextEventsType DEF QueueMessage, StoreOK
  <1>4. HistOK'
    BY <1>0, <1>2 DEF QueueMessage, HistOK
  <1> QED
    BY <1>0, <1>3, <1>4, TypeParts, Frame DEF QueueMessage

\* Every step preserves the type of the state.
LEMMA StepType == TypeOK /\ [Next]_vars => TypeOK'
  <1> SUFFICES ASSUME TypeOK, [Next]_vars PROVE TypeOK'
    OBVIOUS
  <1>0. now \in 0..MaxTime /\ StoreOK /\ LocalOK /\ MgmtOK /\ HistOK
    BY TypeParts
  <1>1. CASE QueueMessage
    BY <1>1, QueueType
  <1>2. CASE \E w \in Workers : Dispatch(w) \/ WorkerStep(w) \/ Crash(w)
    BY <1>2, WorkerType
  <1>3. ASSUME NEW q \in Queues, ExpireLease(q) PROVE TypeOK'
    <2>1. LocalOK'
      BY <1>0, <1>3 DEF ExpireLease, LocalOK
    <2> QED
      BY <1>0, <1>3, <2>1, TypeParts, Frame DEF ExpireLease
  <1>4. CASE AdminStep
    BY <1>4, AdminType
  <1>5. CASE Tick
    <2>1. now' \in 0..MaxTime
      BY <1>0, <1>5, ScheduleAssumption DEF Tick
    <2> QED
      BY <1>0, <1>5, <2>1, TypeParts, Frame DEF Tick
  <1>6. CASE UNCHANGED vars
    BY <1>0, <1>6, TypeParts, Frame DEF vars
  <1> QED
    BY <1>1, <1>2, <1>3, <1>4, <1>5, <1>6 DEF Next

\* The state of the queue has its type in every reachable state: the stored
\* message, every copy of it, and the events keep the shape that the code of
\* all the other actors relies on.
THEOREM MtaTypeOK == Spec => []TypeOK
  BY InitType, StepType, PTL DEF Spec

-----------------------------------------------------------------------------
(* Nothing is stranded                                                     *)

\* A worker that is going to put its copy back has a pending recipient in it.
\* Without this fact the batch of save_changes could clear the last event of
\* the message and set none.
CopyPending ==
    \A w \in Workers :
        pc[w] \in {"route", "save"} => HasPending(wrap[w].message)

StrandInv == TypeOK /\ CopyPending /\ NeverStranded

\* The steps of a worker keep a pending recipient in a copy that will be saved.
LEMMA StepCopyPending ==
    ASSUME TypeOK, CopyPending, NEW w \in Workers,
           Dispatch(w) \/ WorkerStep(w) \/ Crash(w)
    PROVE  CopyPending'
  <1> SUFFICES ASSUME NEW v \in Workers, pc'[v] \in {"route", "save"}
               PROVE  HasPending(wrap'[v].message)
    BY DEF CopyPending, HasPending
  <1>t. /\ now \in Nat
        /\ pc \in [Workers -> Steps] /\ wrap \in [Workers -> MessageWrapper]
        /\ msg \in Message
    BY ScheduleAssumption DEF TypeOK
  <1>0. CASE v # w
    <2>1. pc'[v] = pc[v] /\ wrap'[v] = wrap[v]
      <3>1. pc'[v] = pc[v]
        BY <1>0, <1>t DEF WorkerStep, Goto, Dispatch, LockEvent, LockRefused,
             ReadMessage, ReadNone, ThrottleSender, Route, Deliver,
             SaveChanges, RemoveMessage, WriteFails, UnlockEvent, Crash, End
      <3>2. wrap'[v] = wrap[v]
        BY <1>0, <1>t DEF WorkerStep, Dispatch, LockEvent, LockRefused,
             ReadMessage, ReadNone, ThrottleSender, Route, Deliver,
             SaveChanges, RemoveMessage, WriteFails, UnlockEvent, Crash, End
      <3> QED
        BY <3>1, <3>2
    <2> QED
      BY <2>1 DEF CopyPending
  <1>1. CASE v = w /\ ReadMessage(w)
    <2> DEFINE m == AfterDsn(MarkExpired(msg, now), now)
    <2>1. wrap'[w].message = m
      BY <1>1, <1>t DEF ReadMessage
    <2>2. ~HasPending(m) => Goto(w, "remove")
      BY <1>1 DEF ReadMessage
    <2>3. HasPending(m)
      BY <1>1, <1>t, <2>2 DEF Goto
    <2> QED
      BY <1>1, <2>1, <2>3
  <1>2. CASE v = w /\ ThrottleSender(w)
    <2>1. pc[w] = "route"
      BY <1>2 DEF ThrottleSender
    <2>2. PICK r \in Rcpts : Pending(wrap[w].message.rcpts[r])
      BY <2>1 DEF CopyPending, HasPending
    <2>3. wrap'[w].message.rcpts[r] =
            IF r \in DueRcpts(wrap[w].message, job[w][1], now)
              THEN [wrap[w].message.rcpts[r] EXCEPT !.status = "temp",
                                                    !.due = now + Retry[1]]
              ELSE wrap[w].message.rcpts[r]
      BY <1>2, <1>t DEF ThrottleSender, MessageWrapper, Message
    <2>4. wrap[w].message.rcpts[r] \in Recipient
      BY <1>t DEF MessageWrapper, Message
    <2>5. Pending(wrap'[w].message.rcpts[r])
      BY <2>2, <2>3, <2>4 DEF Pending, Recipient
    <2> QED
      BY <1>2, <2>5 DEF HasPending
  <1>3. CASE v = w /\ Deliver(w)
    <2> DEFINE old == wrap[w].message.rcpts
               M(new) == [wrap[w].message EXCEPT !.rcpts = new]
    <2>1. PICK new \in [Rcpts -> UNION {Outcomes(old[r], now) : r \in wrap[w].tried}
                                   \cup {old[r] : r \in Rcpts}] :
            /\ \A r \in Rcpts : new[r] \in IF r \in wrap[w].tried
                                             THEN Outcomes(old[r], now)
                                             ELSE {old[r]}
            /\ wrap' = [wrap EXCEPT ![w].message = AfterDsn(M(new), now),
                                    ![w].tried = {}]
            /\ Goto(w, IF HasPending(M(new)) THEN "save" ELSE "remove")
      BY <1>3 DEF Deliver
    <2>2. old \in [Rcpts -> Recipient] /\ wrap[w].tried \subseteq Rcpts
      BY <1>t DEF MessageWrapper, Message
    <2>3. new \in [Rcpts -> Recipient]
      BY <1>t, <2>1, <2>2, OutcomesType
    <2>4. M(new) \in Message
      BY <1>t, <2>3 DEF MessageWrapper, Message
    <2>5. HasPending(M(new))
      BY <1>3, <1>t, <2>1 DEF Goto
    <2>6. HasPending(AfterDsn(M(new), now))
      BY <1>t, <2>4, <2>5, AfterDsnType
    <2>7. wrap'[w].message = AfterDsn(M(new), now)
      BY <1>t, <2>1 DEF MessageWrapper
    <2> QED
      BY <1>3, <2>6, <2>7
  <1>4. CASE v = w /\ ~(ReadMessage(w) \/ ThrottleSender(w) \/ Deliver(w))
    <2>1. pc'[w] \notin {"route", "save"}
      BY <1>4, <1>t DEF WorkerStep, Goto, Dispatch, LockEvent, LockRefused,
           ReadNone, Route, SaveChanges, RemoveMessage, WriteFails,
           UnlockEvent, Crash, End
    <2> QED
      BY <1>4, <2>1
  <1> QED
    BY <1>0, <1>1, <1>2, <1>3, <1>4

\* A worker leaves no message without an event: it deletes its event only with
\* the message, after the message is gone, or when it sets new ones.
LEMMA WorkerNeverStranded ==
    ASSUME StrandInv, "read" \notin Faults, NEW w \in Workers,
           Dispatch(w) \/ WorkerStep(w) \/ Crash(w)
    PROVE  NeverStranded'
  <1>1. CASE ReadNone(w)
    BY <1>1 DEF ReadNone, NeverStranded, StrandInv
  <1>2. CASE SaveChanges(w)
    <2>1. /\ wrap[w].message \in Message /\ wrap[w].is_multi_queue \in BOOLEAN
          /\ job[w][1] \in Queues
      BY DEF StrandInv, TypeOK, MessageWrapper
    <2>2. HasPending(wrap[w].message)
      BY <1>2 DEF StrandInv, CopyPending, SaveChanges
    <2>3. StoreOK
      BY TypeParts DEF StrandInv
    <2>4. events' # {}
      BY <1>2, <2>1, <2>2, <2>3, SaveType DEF SaveChanges
    <2> QED
      BY <2>4 DEF NeverStranded
  <1>3. CASE RemoveMessage(w)
    BY <1>3 DEF RemoveMessage, Remove, NeverStranded
  <1>4. CASE ~(ReadNone(w) \/ SaveChanges(w) \/ RemoveMessage(w))
    <2>1. UNCHANGED stored
      BY <1>4 DEF WorkerStep, Dispatch, LockEvent, LockRefused, ReadMessage,
           ThrottleSender, Route, Deliver, WriteFails, UnlockEvent, Crash
    <2> QED
      BY <2>1 DEF StrandInv, NeverStranded, stored
  <1> QED
    BY <1>1, <1>2, <1>3, <1>4

\* Nor does an administrator: an update that leaves a pending recipient sets
\* its events, any other deletes the message.
LEMMA AdminNeverStranded == StrandInv /\ AdminStep => NeverStranded'
  <1> SUFFICES ASSUME StrandInv, AdminStep PROVE NeverStranded'
    OBVIOUS
  <1>1. CASE AdminWrite
    <2>1. /\ admin.message \in Message /\ admin.is_multi_queue \in BOOLEAN
          /\ Default \in Queues /\ StoreOK
      BY TypeParts, QueueAssumption DEF StrandInv, TypeOK
    <2>2. CASE HasPending(admin.message)
      <3>1. events' # {}
        BY <1>1, <2>1, <2>2, SaveType DEF AdminWrite
      <3> QED
        BY <3>1 DEF NeverStranded
    <2>3. CASE ~HasPending(admin.message)
      BY <1>1, <2>3 DEF AdminWrite, Remove, NeverStranded
    <2> QED
      BY <2>2, <2>3
  <1>2. CASE DestroyWrite
    BY <1>2 DEF DestroyWrite, Remove, NeverStranded
  <1>3. CASE AdminRead \/ AdminFails \/ DestroyRead
    <2>1. UNCHANGED stored
      BY <1>3 DEF AdminRead, AdminFails, DestroyRead
    <2> QED
      BY <2>1 DEF StrandInv, NeverStranded, stored
  <1> QED
    BY <1>1, <1>2, <1>3 DEF AdminStep

\* A message in the store always has a queue event, whatever workers,
\* administrators, crashes, expired leases and refused writes do, for every
\* number of recipients, queues and workers and every schedule, as long as a
\* message that is there can be read.
THEOREM MtaNeverStranded ==
    ASSUME "read" \notin Faults
    PROVE  Spec => []NeverStranded
  <1>1. Init => StrandInv
    <2> SUFFICES ASSUME Init PROVE StrandInv
      OBVIOUS
    <2>1. TypeOK
      BY InitType
    <2>2. CopyPending /\ NeverStranded
      BY DEF Init, CopyPending, NeverStranded
    <2> QED
      BY <2>1, <2>2 DEF StrandInv
  <1>2. StrandInv /\ [Next]_vars => StrandInv'
    <2> SUFFICES ASSUME StrandInv, [Next]_vars PROVE StrandInv'
      OBVIOUS
    <2>0. TypeOK' /\ TypeOK
      BY StepType DEF StrandInv
    <2>1. CASE QueueMessage
      <3>1. HasPending(NewMessage)
        BY QueueAssumption DEF HasPending, Pending, NewMessage
      <3>2. NeverStranded'
        BY <2>1, <3>1, NewMessageType, NextEventsType
           DEF QueueMessage, NeverStranded
      <3>3. CopyPending'
        BY <2>1 DEF QueueMessage, local, StrandInv, CopyPending
      <3> QED
        BY <2>0, <3>2, <3>3 DEF StrandInv
    <2>2. CASE \E w \in Workers : Dispatch(w) \/ WorkerStep(w) \/ Crash(w)
      BY <2>0, <2>2, StepCopyPending, WorkerNeverStranded DEF StrandInv
    <2>3. CASE AdminStep
      <3>1. UNCHANGED local
        BY <2>3 DEF AdminStep, AdminRead, AdminWrite, AdminFails, DestroyRead,
             DestroyWrite
      <3>2. CopyPending'
        BY <3>1 DEF local, StrandInv, CopyPending
      <3> QED
        BY <2>0, <2>3, <3>2, AdminNeverStranded DEF StrandInv
    <2>4. CASE Tick \/ UNCHANGED vars \/ \E q \in Queues : ExpireLease(q)
      <3>1. UNCHANGED <<stored, pc, wrap>>
        BY <2>4 DEF Tick, vars, ExpireLease, local
      <3>2. CopyPending' /\ NeverStranded'
        BY <3>1 DEF StrandInv, CopyPending, NeverStranded, stored
      <3> QED
        BY <2>0, <3>2 DEF StrandInv
    <2> QED
      BY <2>1, <2>2, <2>3, <2>4 DEF Next
  <1>3. StrandInv => NeverStranded
    BY DEF StrandInv
  <1> QED
    BY <1>1, <1>2, <1>3, PTL DEF Spec

=============================================================================
