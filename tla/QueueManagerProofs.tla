------------------------- MODULE QueueManagerProofs -------------------------
(***************************************************************************)
(* Proofs about QueueManager, for any events, queues and thread counts and *)
(* for every disturbance: its types, that worker slots are counted exactly *)
(* and never exceeded, that an event is locked for good only by a worker,  *)
(* and that a manager nobody has paused wakes in time.                     *)
(***************************************************************************)
EXTENDS QueueManager, FunctionTheorems, FiniteSetTheorems, SequenceTheorems,
        WellFoundedInduction, TLAPS

-----------------------------------------------------------------------------
(* The inductive invariant                                                 *)

\* The reports in a channel about events of q.
Heard(c, q) == {i \in DOMAIN c : c[i].type = "WorkerDone" /\ QueueOf[c[i].key] = q}

\* The workers of q that have not reported, out of those that w says run.
Busy(p, q) == {w \in Workers : p[w] # "none" /\ QueueOf[w[1]] = q}

\* No slot is given back before its worker is heard of, and none is lost while
\* the channel is open.  A queue that has a worker has stats.
CountInv ==
    \A q \in Queues :
        LET due_back == Cardinality(Heard(rx, q)) + Cardinality(Busy(wpc, q))
        IN  /\ due_back <= in_flight[q]
            /\ ~closed => due_back = in_flight[q]
            /\ Heard(rx, q) # {} \/ Busy(wpc, q) # {} => q \in stats
            /\ max_in_flight[q] <= Max(Threads)

\* Nobody pauses the queue for good but the shutdown.
WakeInv ==
    "pause" \notin Controls =>
        /\ \A i \in DOMAIN rx : rx[i].type \notin {"Pause", "Resume"}
        /\ is_paused \/ next_refresh <= QueueRefresh

ManagerInv == TypeOK /\ CountInv /\ LocksHaveWorkers /\ WakeInv
-----------------------------------------------------------------------------
(* Facts about the operators                                               *)

\* Min of FiniteSetsExt is the least element of a nonempty set of naturals: the
\* next wake-up, and the number a new worker gets.
LEMMA NatMin ==
    ASSUME NEW S, S \subseteq Nat, S # {}
    PROVE  Min(S) \in S /\ \A y \in S : Min(S) <= y
  <1> DEFINE R == {ss \in Nat \X Nat : ss[1] < ss[2]}
  <1>1. IsWellFoundedOn(R, Nat)
    BY NatLessThanWellFounded, Zenon DEF OpToRel
  <1>2. PICK m \in S : \A y \in S : ~ (<<y, m>> \in R)
    BY <1>1, WFMin, Zenon
  <1>3. ASSUME NEW y \in S PROVE m <= y
    <2>1. ~ (<<y, m>> \in R)
      BY <1>2
    <2> QED
      BY <2>1
  <1> QED
    BY <1>2, <1>3 DEF Min

\* The capacity that Startable compares with: the smaller of two.
LEMMA MinOfTwo ==
    ASSUME NEW a \in Int, NEW b \in Int
    PROVE  Min({a, b}) <= a /\ Min({a, b}) <= b /\ Min({a, b}) \in {a, b}
  <1>1. \E x \in {a, b} : \A y \in {a, b} : x <= y
    OBVIOUS
  <1>2. Min({a, b}) \in {a, b} /\ \A y \in {a, b} : Min({a, b}) <= y
    BY <1>1 DEF Min
  <1> QED
    BY <1>2

\* And so is the larger.
LEMMA MaxOfTwo ==
    ASSUME NEW a \in Int, NEW b \in Int
    PROVE  Max({a, b}) \in {a, b}
  <1>1. \E x \in {a, b} : \A y \in {a, b} : x >= y
    OBVIOUS
  <1>2. Max({a, b}) \in {a, b}
    BY <1>1 DEF Max
  <1> QED
    BY <1>2

\* There is a largest thread count.
LEMMA MostThreads ==
    /\ Max(Threads) \in Threads /\ Max(Threads) \in Nat
    /\ \A t \in Threads : t <= Max(Threads)
  <1>1. \E t \in Threads : \A u \in Threads : t >= u
    BY ManagerAssumption
  <1>2. Max(Threads) \in Threads /\ \A u \in Threads : Max(Threads) >= u
    BY <1>1 DEF Max
  <1> QED
    BY <1>2, ManagerAssumption

\* There are finitely many workers.
LEMMA WorkersFinite == IsFiniteSet(Workers)
  <1>1. IsFiniteSet(1..Max(Threads))
    <2>1. 1 \in Int /\ Max(Threads) \in Int
      BY MostThreads
    <2> QED
      BY <2>1, FS_Interval, Zenon
  <1>2. IsFiniteSet(Events)
    BY ManagerAssumption
  <1> QED
    BY <1>1, <1>2, FS_Product, Zenon DEF Workers

\* So the busy ones of a queue can be counted.
LEMMA BusyFinite ==
    ASSUME NEW p, NEW q
    PROVE  IsFiniteSet(Busy(p, q)) /\ Cardinality(Busy(p, q)) \in Nat
  <1>1. Busy(p, q) \in SUBSET Workers
    BY DEF Busy
  <1> QED
    BY <1>1, WorkersFinite, FS_Subset, FS_CardinalityType

\* There are finitely many reports in the channel.
LEMMA HeardFinite ==
    ASSUME NEW c \in Seq(QueueEvents), NEW q
    PROVE  /\ IsFiniteSet(Heard(c, q)) /\ Cardinality(Heard(c, q)) \in Nat
           /\ Heard(c, q) # {} => Cardinality(Heard(c, q)) > 0
  <1>1. Heard(c, q) \in SUBSET (1..Len(c)) /\ Len(c) \in Nat
    BY DEF Heard
  <1>2. IsFiniteSet(Heard(c, q))
    <2>1. 1 \in Int /\ Len(c) \in Int
      BY <1>1
    <2>2. IsFiniteSet(1..Len(c))
      BY <2>1, FS_Interval, Zenon
    <2> QED
      BY <1>1, <2>2, FS_Subset, Zenon
  <1> QED
    BY <1>2, FS_CardinalityType, FS_EmptySet

\* A set of one type of messages shrinks by the head when it is received.
LEMMA HeardTail ==
    ASSUME NEW c \in Seq(QueueEvents), c # <<>>, NEW q
    PROVE  /\ Cardinality(Heard(c, q)) =
                 Cardinality(Heard(Tail(c), q)) + IF 1 \in Heard(c, q) THEN 1 ELSE 0
           /\ Heard(Tail(c), q) # {} => Heard(c, q) # {}
           /\ Tail(c) \in Seq(QueueEvents)
  <1> DEFINE S == Heard(c, q) \ {1}
             T == Heard(Tail(c), q)
             f == [i \in S |-> i - 1]
  <1>1. /\ Tail(c) \in Seq(QueueEvents) /\ Len(c) \in Nat
        /\ DOMAIN c = 1..Len(c) /\ DOMAIN Tail(c) = 1..Len(c) - 1
        /\ \A i \in 1..Len(c) - 1 : Tail(c)[i] = c[i + 1]
    BY HeadTailProperties
  <1>2. S \subseteq 2..Len(c)
    BY <1>1 DEF Heard
  <1>3. f \in [S -> T]
    <2>1. ASSUME NEW i \in S PROVE i - 1 \in T
      <3>1. i - 1 \in DOMAIN Tail(c) /\ Tail(c)[i - 1] = c[i]
        BY <1>1, <1>2
      <3> QED
        BY <3>1 DEF Heard
    <2> QED
      BY <2>1
  <1>4. \A i, j \in S : f[i] = f[j] => i = j
    BY <1>2
  <1>5. ASSUME NEW k \in T PROVE \E i \in S : f[i] = k
    <2>1. k \in 1..Len(c) - 1 /\ Tail(c)[k] = c[k + 1]
      BY <1>1 DEF Heard
    <2>2. k + 1 \in S /\ (k + 1) - 1 = k
      BY <1>1, <2>1 DEF Heard
    <2> QED
      BY <2>2
  <1> HIDE DEF f, S, T
  <1>6. f \in Bijection(S, T)
    BY <1>3, <1>4, <1>5, Fun_IsBij
  <1>7. IsFiniteSet(S) /\ Cardinality(Heard(c, q)) =
            Cardinality(S) + IF 1 \in Heard(c, q) THEN 1 ELSE 0
    <2>1. IsFiniteSet(Heard(c, q)) /\ Cardinality(Heard(c, q)) \in Nat
      BY HeardFinite
    <2>2. /\ IsFiniteSet(Heard(c, q) \ {1})
          /\ Cardinality(Heard(c, q) \ {1}) =
               IF 1 \in Heard(c, q) THEN Cardinality(Heard(c, q)) - 1
                                    ELSE Cardinality(Heard(c, q))
      BY <2>1, FS_RemoveElement, Zenon
    <2>3. S = Heard(c, q) \ {1}
      BY DEF S
    <2>4. CASE 1 \in Heard(c, q)
      BY <2>1, <2>2, <2>3, <2>4
    <2>5. CASE 1 \notin Heard(c, q)
      BY <2>1, <2>2, <2>3, <2>5
    <2> QED
      BY <2>4, <2>5
  <1>8. Cardinality(T) = Cardinality(S)
    BY <1>6, <1>7, Fun_ExistsBij, FS_Bijection
  <1>9. T # {} => Heard(c, q) # {}
    BY <1>5 DEF S
  <1> QED
    BY <1>1, <1>7, <1>8, <1>9 DEF T

\* And it grows by the message that is sent.
LEMMA HeardAppend ==
    ASSUME NEW c \in Seq(QueueEvents), NEW e \in QueueEvents, NEW q
    PROVE  /\ Cardinality(Heard(Append(c, e), q)) =
                 Cardinality(Heard(c, q))
                     + IF e.type = "WorkerDone" /\ QueueOf[e.key] = q THEN 1 ELSE 0
           /\ Heard(Append(c, e), q) # {} =>
                 Heard(c, q) # {} \/ (e.type = "WorkerDone" /\ QueueOf[e.key] = q)
           /\ Append(c, e) \in Seq(QueueEvents)
  <1> DEFINE n == Len(c) + 1
             mine == e.type = "WorkerDone" /\ QueueOf[e.key] = q
  <1>1. /\ Append(c, e) \in Seq(QueueEvents) /\ Len(c) \in Nat
        /\ DOMAIN c = 1..Len(c) /\ DOMAIN Append(c, e) = 1..n
        /\ \A i \in 1..Len(c) : Append(c, e)[i] = c[i]
        /\ Append(c, e)[n] = e
    BY AppendProperties
  <1>2. Heard(Append(c, e), q) = IF mine THEN Heard(c, q) \cup {n} ELSE Heard(c, q)
    BY <1>1 DEF Heard
  <1>3. n \notin Heard(c, q)
    BY <1>1 DEF Heard
  <1>4. IsFiniteSet(Heard(c, q)) /\ Cardinality(Heard(c, q)) \in Nat
    BY HeardFinite
  <1> HIDE DEF n, mine
  <1>5. Cardinality(Heard(c, q) \cup {n}) = Cardinality(Heard(c, q)) + 1
    BY <1>3, <1>4, FS_AddElement
  <1> QED
    BY <1>1, <1>2, <1>4, <1>5 DEF mine
-----------------------------------------------------------------------------
(* The slots are counted                                                   *)

\* What a step must leave alone so that the count stays right.
LEMMA CountKept ==
    ASSUME TypeOK, CountInv, UNCHANGED in_flight,
           \A q \in Queues :
               /\ Cardinality(Heard(rx', q)) = Cardinality(Heard(rx, q))
               /\ Heard(rx', q) # {} => Heard(rx, q) # {}
               /\ Busy(wpc', q) = Busy(wpc, q)
               /\ max_in_flight'[q] <= Max(Threads),
           stats \subseteq stats', closed => closed'
    PROVE  CountInv'
  <1> SUFFICES ASSUME NEW q \in Queues
               PROVE  LET due_back == Cardinality(Heard(rx', q))
                                          + Cardinality(Busy(wpc', q))
                      IN  /\ due_back <= in_flight'[q]
                          /\ ~closed' => due_back = in_flight'[q]
                          /\ Heard(rx', q) # {} \/ Busy(wpc', q) # {} => q \in stats'
                          /\ max_in_flight'[q] <= Max(Threads)
    BY Zenon DEF CountInv, Heard, Busy
  <1> QED
    BY DEF CountInv

\* A worker that goes on to its next step stays busy.
LEMMA GotoBusy ==
    ASSUME TypeOK, NEW w \in Workers, NEW step, step # "none",
           wpc[w] # "none", Goto(w, step), NEW q
    PROVE  Busy(wpc', q) = Busy(wpc, q)
  <1>1. \A v \in Workers : wpc'[v] # "none" <=> wpc[v] # "none"
    BY DEF Goto, TypeOK
  <1> QED
    BY <1>1, Zenon DEF Busy

\* A worker that ends is no longer busy.
LEMMA GotoNone ==
    ASSUME TypeOK, NEW w \in Workers, wpc[w] # "none", Goto(w, "none"), NEW q
    PROVE  /\ QueueOf[w[1]] = q =>
                 /\ Cardinality(Busy(wpc', q)) = Cardinality(Busy(wpc, q)) - 1
                 /\ Busy(wpc, q) # {}
           /\ QueueOf[w[1]] # q => Busy(wpc', q) = Busy(wpc, q)
           /\ Busy(wpc', q) \subseteq Busy(wpc, q)
  <1>1. wpc'[w] = "none" /\ \A v \in Workers : v # w => wpc'[v] = wpc[v]
    BY DEF Goto, TypeOK
  <1>2. Busy(wpc', q) = Busy(wpc, q) \ {w}
    BY <1>1 DEF Busy
  <1>3. w \in Busy(wpc, q) <=> QueueOf[w[1]] = q
    BY DEF Busy
  <1>4. Cardinality(Busy(wpc, q) \ {w}) =
          IF w \in Busy(wpc, q) THEN Cardinality(Busy(wpc, q)) - 1
                                ELSE Cardinality(Busy(wpc, q))
    BY BusyFinite, FS_RemoveElement, Zenon
  <1> QED
    BY <1>2, <1>3, <1>4

\* The message that is received is one of the channel's messages, and a report
\* of a worker is one of those that were counted.
LEMMA ReceiveHeard ==
    ASSUME TypeOK, NEW e, Receive(e), rx' = Tail(rx)
    PROVE  /\ e \in QueueEvents /\ rx' \in Seq(QueueEvents) /\ mpc' = "drain"
           /\ \A q \in Queues :
                /\ Cardinality(Heard(rx, q)) = Cardinality(Heard(rx', q))
                     + IF e.type = "WorkerDone" /\ QueueOf[e.key] = q THEN 1 ELSE 0
                /\ Cardinality(Heard(rx', q)) \in Nat
                /\ Heard(rx', q) # {} => Heard(rx, q) # {}
                /\ e.type = "WorkerDone" /\ QueueOf[e.key] = q => Heard(rx, q) # {}
  <1>1. /\ rx \in Seq(QueueEvents) /\ rx # <<>> /\ e = rx[1] /\ mpc' = "drain"
        /\ 1 \in DOMAIN rx /\ e \in QueueEvents
    BY HeadTailProperties DEF Receive, TypeOK
  <1>2. rx' \in Seq(QueueEvents)
    BY <1>1, HeardTail
  <1>3. ASSUME NEW q \in Queues
        PROVE  1 \in Heard(rx, q) <=> e.type = "WorkerDone" /\ QueueOf[e.key] = q
    BY <1>1 DEF Heard
  <1>4. ASSUME NEW q \in Queues
        PROVE  /\ Cardinality(Heard(rx, q)) = Cardinality(Heard(rx', q))
                    + IF 1 \in Heard(rx, q) THEN 1 ELSE 0
               /\ Heard(rx', q) # {} => Heard(rx, q) # {}
               /\ Cardinality(Heard(rx', q)) \in Nat
    BY <1>1, <1>2, HeardTail, HeardFinite
  <1> QED
    BY <1>1, <1>2, <1>3, <1>4

\* A signal is not a report.
LEMMA SignalHeard ==
    ASSUME TypeOK, NEW t \in {"Refresh", "Pause", "Resume", "Reload", "Stop"}, Send(t)
    PROVE  /\ rx' \in Seq(QueueEvents)
           /\ \A q \in Queues :
                /\ Cardinality(Heard(rx', q)) = Cardinality(Heard(rx, q))
                /\ Heard(rx', q) # {} => Heard(rx, q) # {}
  <1>1. rx \in Seq(QueueEvents)
    BY DEF TypeOK
  <1>2. Signal(t).type # "WorkerDone" /\ Signal(t) \in QueueEvents
    BY DEF QueueEvents, Signal
  <1>3. CASE closed
    BY <1>1, <1>3 DEF Send
  <1>4. CASE ~closed
    <2>1. rx' = Append(rx, Signal(t))
      BY <1>4 DEF Send
    <2> QED
      BY <1>1, <1>2, <2>1, HeardAppend, HeardFinite
  <1> QED
    BY <1>3, <1>4

-----------------------------------------------------------------------------
(* A scan                                                                  *)

\* The events of S in queue q, and the workers that a scan starts for them.
OfQueue(S, q) == {k \in S : QueueOf[k] = q}
NewWorkers(S, q) == {<<k, Free(k)>> : k \in OfQueue(S, q)}

\* What Startable, Free and the counting of ScanOf come to for one queue: the
\* started events are at most what the limit leaves, and each of them gets a
\* worker of its own that was not running.
LEMMA ScanStarts ==
    ASSUME TypeOK, CountInv, NEW seen \in SUBSET Events, NEW horizon,
           NEW started \in SUBSET Events, ScanOf(seen, horizon, started),
           NEW q \in Queues
    PROVE  /\ \A k \in OfQueue(started, q) : Free(k) \in 1..Max(Threads)
                                             /\ wpc[<<k, Free(k)>>] = "none"
           /\ Busy(wpc', q) = Busy(wpc, q) \cup NewWorkers(started, q)
           /\ Cardinality(Busy(wpc', q)) = Cardinality(Busy(wpc, q))
                                               + Cardinality(OfQueue(started, q))
           /\ Cardinality(OfQueue(started, q)) \in Nat
           /\ OfQueue(started, q) # {} =>
                /\ in_flight[q] + Cardinality(OfQueue(started, q)) <= Limit(q)
                /\ Cardinality(OfQueue(started, q)) > 0
                /\ q \in stats' /\ max_in_flight'[q] = Limit(q)
           /\ Limit(q) <= Max(Threads) /\ Limit(q) \in Nat
  <1> DEFINE mine == {k \in started : QueueOf[k] = q}
             new == {<<k, Free(k)>> : k \in mine}
             M == Max(Threads)
             room == Limit(q) - in_flight[q]
  <1>1. M \in Nat /\ Limit(q) \in Nat /\ Limit(q) <= M /\ in_flight[q] \in Nat
    <2>1. max_in_flight[q] <= M
      BY Zenon DEF CountInv
    <2>2. /\ in_flight[q] \in Nat /\ max_in_flight[q] \in Nat
          /\ config[q] \in Threads /\ config[q] \in Nat
      BY ManagerAssumption DEF TypeOK
    <2>3. M \in Nat /\ config[q] <= M
      BY <2>2, MostThreads
    <2> HIDE DEF M
    <2> QED
      BY <2>1, <2>2, <2>3 DEF Limit
  <1>2. IsFiniteSet(mine) /\ Cardinality(mine) \in Nat
    <2>1. mine \in SUBSET Events
      OBVIOUS
    <2>2. IsFiniteSet(Events)
      BY ManagerAssumption
    <2> HIDE DEF mine
    <2> QED
      BY <2>1, <2>2, FS_Subset, FS_CardinalityType, Zenon
  <1>3. mine # {} => /\ Cardinality(mine) > 0
                     /\ in_flight[q] + Cardinality(mine) <= Limit(q)
                     /\ q \in {QueueOf[k] : k \in Added(seen)}
    <2> SUFFICES ASSUME mine # {}
                 PROVE  /\ Cardinality(mine) > 0
                        /\ in_flight[q] + Cardinality(mine) <= Limit(q)
                        /\ q \in {QueueOf[k] : k \in Added(seen)}
      OBVIOUS
    <2> DEFINE added == {k \in Added(seen) : QueueOf[k] = q}
    <2>1. started \subseteq Added(seen)
          /\ Cardinality(started \cap added) =
               Min({Cardinality(added), Max({room, 0})})
      BY DEF ScanOf, Startable
    <2>2. started \cap added = mine
      BY <2>1
    <2>3. IsFiniteSet(added) /\ Cardinality(added) \in Nat
      <3>1. added \in SUBSET Events
        BY DEF Added
      <3>2. IsFiniteSet(Events)
        BY ManagerAssumption
      <3> HIDE DEF added
      <3> QED
        BY <3>1, <3>2, FS_Subset, FS_CardinalityType, Zenon
    <2>4. Cardinality(mine) # 0
      BY <1>2, FS_EmptySet, Zenon
    <2>5. q \in {QueueOf[k] : k \in Added(seen)}
      BY <2>1
    <2> HIDE DEF mine, added
    <2>6. room \in Int /\ Max({room, 0}) \in {room, 0}
      BY <1>1, MaxOfTwo
    <2> HIDE DEF room
    <2>7. Max({room, 0}) \in Int
      BY <2>6
    <2>8. Cardinality(mine) <= Max({room, 0})
      <3> DEFINE a == Cardinality(added)
                 b == Max({room, 0})
      <3>1. a \in Int /\ b \in Int
        BY <2>3, <2>7
      <3>2. Cardinality(mine) = Min({a, b})
        BY <2>1, <2>2
      <3> HIDE DEF a, b
      <3>3. Min({a, b}) <= b
        BY <3>1, MinOfTwo, Zenon
      <3>4. Cardinality(mine) <= b
        BY <3>2, <3>3
      <3> QED
        BY <3>4 DEF b
    <2>9. Cardinality(mine) <= room
      BY <1>2, <2>4, <2>6, <2>8
    <2> QED
      BY <1>1, <1>2, <2>4, <2>5, <2>9 DEF room
  <1>4. ASSUME NEW k \in mine
        PROVE  Free(k) \in 1..M /\ wpc[<<k, Free(k)>>] = "none"
    <2> DEFINE Idle == {n \in 1..M : wpc[<<k, n>>] = "none"}
    <2>1. Idle # {}
      <3> SUFFICES ASSUME Idle = {} PROVE FALSE
        OBVIOUS
      <3> DEFINE f == [n \in 1..M |-> <<k, n>>]
      <3>1. ASSUME NEW n \in 1..M PROVE <<k, n>> \in Busy(wpc, q)
        BY DEF Busy, Workers
      <3>2. f \in [1..M -> Busy(wpc, q)] /\ \A n, m \in 1..M : f[n] = f[m] => n = m
        BY <3>1
      <3> HIDE DEF f, Idle, M
      <3>3. f \in Injection(1..M, Busy(wpc, q))
        BY <3>2, Fun_IsInj
      <3>4. Cardinality(1..M) <= Cardinality(Busy(wpc, q))
        BY <3>3, BusyFinite, FS_Injection, Zenon
      <3>5. Cardinality(1..M) = M
        BY <1>1, FS_Interval
      <3>6. Cardinality(Busy(wpc, q)) <= in_flight[q]
        <4>1. rx \in Seq(QueueEvents)
          BY DEF TypeOK
        <4> QED
          BY <1>1, <4>1, BusyFinite, HeardFinite DEF CountInv
      <3>7. Cardinality(Busy(wpc, q)) \in Nat
        BY BusyFinite
      <3> QED
        BY <1>1, <1>2, <1>3, <3>4, <3>5, <3>6, <3>7
    <2>2. Min(Idle) \in Idle
      <3>1. Idle \subseteq Nat
        BY <1>1
      <3> HIDE DEF Idle
      <3> QED
        BY <2>1, <3>1, NatMin
    <2>3. Free(k) = Min(Idle)
      BY DEF Free
    <2> HIDE DEF M
    <2> QED
      BY <2>2, <2>3, Zenon
  <1>5. Busy(wpc', q) = Busy(wpc, q) \cup new
    <2>1. wpc' = [w \in Workers |->
             IF w[1] \in started /\ w[2] = Free(w[1]) THEN "lock" ELSE wpc[w]]
      BY DEF ScanOf
    <2>2. ASSUME NEW w \in Busy(wpc', q) PROVE w \in Busy(wpc, q) \cup new
      <3>1. w \in Workers /\ QueueOf[w[1]] = q /\ wpc'[w] # "none"
        BY <2>2 DEF Busy
      <3>2. w = <<w[1], w[2]>>
        BY <3>1 DEF Workers
      <3>3. CASE w[1] \in started /\ w[2] = Free(w[1])
        BY <3>1, <3>2, <3>3
      <3>4. CASE ~(w[1] \in started /\ w[2] = Free(w[1]))
        BY <2>1, <3>1, <3>4 DEF Busy
      <3> QED
        BY <3>3, <3>4
    <2>3. ASSUME NEW w \in Busy(wpc, q) PROVE w \in Busy(wpc', q)
      BY <2>1 DEF Busy
    <2>4. ASSUME NEW k \in mine PROVE <<k, Free(k)>> \in Busy(wpc', q)
      <3>1. <<k, Free(k)>> \in Workers
        BY <1>4 DEF Workers
      <3> QED
        BY <2>1, <3>1 DEF Busy
    <2> QED
      BY <2>2, <2>3, <2>4
  <1>6. IsFiniteSet(new) /\ Cardinality(new) = Cardinality(mine)
    <2> DEFINE g == [k \in mine |-> <<k, Free(k)>>]
    <2>1. g \in [mine -> new] /\ \A k, l \in mine : g[k] = g[l] => k = l
      OBVIOUS
    <2>2. \A w \in new : \E k \in mine : g[k] = w
      OBVIOUS
    <2> HIDE DEF g, new, mine
    <2>3. g \in Bijection(mine, new)
      BY <2>1, <2>2, Fun_IsBij
    <2> QED
      BY <1>2, <2>3, Fun_ExistsBij, FS_Bijection
  <1>7. Busy(wpc, q) \cap new = {}
    BY <1>4 DEF Busy
  <1>8. Cardinality(Busy(wpc', q)) = Cardinality(Busy(wpc, q)) + Cardinality(mine)
    <2> HIDE DEF new, mine
    <2>1. /\ IsFiniteSet(Busy(wpc, q)) /\ Cardinality(Busy(wpc, q)) \in Nat
      BY BusyFinite
    <2>2. Cardinality(Busy(wpc, q) \cup new) =
            Cardinality(Busy(wpc, q)) + Cardinality(new)
                - Cardinality(Busy(wpc, q) \cap new)
      BY <1>6, <2>1, FS_Union, Zenon
    <2>3. Cardinality(Busy(wpc, q) \cap new) = 0
      BY <1>7, FS_EmptySet, Zenon
    <2> QED
      BY <1>2, <1>5, <1>6, <2>1, <2>2, <2>3
  <1>9. q \in {QueueOf[k] : k \in Added(seen)} =>
            q \in stats' /\ max_in_flight'[q] = Limit(q)
    BY DEF ScanOf
  <1>10. mine = OfQueue(started, q) /\ new = NewWorkers(started, q)
    BY DEF OfQueue, NewWorkers
  <1> HIDE DEF mine, new
  <1> QED
    BY <1>1, <1>2, <1>3, <1>4, <1>5, <1>8, <1>9, <1>10

-----------------------------------------------------------------------------
(* The inductive invariant                                                 *)

\* Every way a worker takes a step and stays busy.
LEMMA WorkerBusy ==
    ASSUME TypeOK, NEW w \in Workers,
           TryLock(w) \/ LockRefused(w) \/ Deliver(w) \/ WriteFails(w) \/ UnlockEvent(w)
    PROVE  /\ \A q \in Queues : Busy(wpc', q) = Busy(wpc, q)
           /\ \A v \in Workers : wpc'[v] # "none" <=> wpc[v] # "none"
           /\ wpc' \in [Workers -> {"none", "lock", "deliver", "unlock", "report"}]
  <1>1. PICK step \in {"deliver", "report", "unlock"} : Goto(w, step) /\ wpc[w] # "none"
    BY DEF TryLock, LockRefused, Deliver, WriteFails, UnlockEvent
  <1>2. step # "none"
    OBVIOUS
  <1>3. \A q \in Queues : Busy(wpc', q) = Busy(wpc, q)
    BY <1>1, <1>2, GotoBusy
  <1> QED
    BY <1>1, <1>3 DEF Goto, TypeOK

\* Every signal that is sent.
LEMMA EnvironmentSends ==
    ASSUME \/ \E k \in Events : Enqueue(k) \/ AdminRetry(k)
           \/ ReloadSettings \/ PauseMtaQueue \/ ResumeMtaQueue \/ Shutdown
    PROVE  /\ \E t \in {"Refresh", "Pause", "Resume", "Reload", "Stop"} :
                 /\ Send(t)
                 /\ t \in {"Pause", "Resume"} => "pause" \in Controls
           /\ UNCHANGED <<manager, closed, wpc, status, lease>>
  <1>1. CASE \E k \in Events : Enqueue(k)
    BY <1>1 DEF Enqueue, tasks, store, env
  <1>2. CASE \E k \in Events : AdminRetry(k)
    BY <1>2 DEF AdminRetry, tasks, store, env
  <1>3. CASE ReloadSettings
    BY <1>3 DEF ReloadSettings, tasks, store, env
  <1>4. CASE PauseMtaQueue
    BY <1>4 DEF PauseMtaQueue, Disturb, tasks, store, env
  <1>5. CASE ResumeMtaQueue
    BY <1>5 DEF ResumeMtaQueue, tasks, store, env
  <1>6. CASE Shutdown
    BY <1>6 DEF Shutdown, tasks, store, env
  <1> QED
    BY <1>1, <1>2, <1>3, <1>4, <1>5, <1>6

\* The steps, grouped by what they do to the workers and the channel.
LEMMA StepCases ==
    ASSUME [Next]_vars
    PROVE  \/ UNCHANGED vars \/ Timeout \/ Break \/ Sleep \/ Tick
           \/ HandleWorkerDone
           \/ \/ HandleRefresh \/ HandleReload \/ HandleStop
              \/ \E paused \in BOOLEAN : HandlePaused(paused)
           \/ \E seen, horizon, started \in SUBSET Events :
                 /\ ScanOf(seen, horizon, started)
                 /\ UNCHANGED controls \/ Disturb("scan")
           \/ \E w \in Workers :
                 \/ TryLock(w) \/ LockRefused(w) \/ Deliver(w) \/ WriteFails(w)
                 \/ UnlockEvent(w)
           \/ \E w \in Workers : Report(w)
           \/ \/ \E k \in Events : Enqueue(k) \/ AdminRetry(k)
              \/ ReloadSettings \/ PauseMtaQueue \/ ResumeMtaQueue \/ Shutdown
           \/ \E k \in Events : TakenAway(k) \/ ComesBack(k)
  <1>1. CASE ManagerStep
    <2>1. CASE ScanFails
      <3>1. PICK seen \in SUBSET Due : \E started \in SUBSET seen :
                ScanOf(seen, {}, started) /\ Disturb("scan")
        BY <2>1 DEF ScanFails
      <3>2. PICK started \in SUBSET seen : ScanOf(seen, {}, started) /\ Disturb("scan")
        BY <3>1
      <3>3. seen \in SUBSET Events /\ started \in SUBSET Events
            /\ {} \in SUBSET Events
        BY DEF Due
      <3> QED
        BY <3>2, <3>3, Zenon
    <2>2. ASSUME NEW started \in SUBSET Events, Scan(started)
          PROVE  \E seen, horizon, late \in SUBSET Events :
                   /\ ScanOf(seen, horizon, late)
                   /\ UNCHANGED controls \/ Disturb("scan")
      <3>1. Due \in SUBSET Events /\ (Events \ Due) \in SUBSET Events
        BY DEF Due
      <3> QED
        BY <2>2, <3>1, Zenon DEF Scan
    <2> QED
      BY <1>1, <2>1, <2>2, Zenon DEF ManagerStep, HandleEvent
  <1>2. CASE \E w \in Workers : WorkerStep(w)
    BY <1>2, Zenon DEF WorkerStep
  <1>3. CASE Environment
    BY <1>3, Zenon DEF Environment
  <1> QED
    BY <1>1, <1>2, <1>3, Zenon DEF Next

\* The count is kept by every step: what is started is counted, and what is
\* counted off was counted.
LEMMA StepCountInv ==
    ASSUME TypeOK, CountInv, [Next]_vars
    PROVE  CountInv'
  <1> USE DEF manager, channel, tasks, store, env
  <1> DEFINE Quiet == UNCHANGED <<in_flight, max_in_flight, stats, closed>>
  <1>0. \A q \in Queues : /\ max_in_flight[q] <= Max(Threads)
                          /\ Cardinality(Heard(rx, q)) \in Nat
                          /\ Cardinality(Busy(wpc, q)) \in Nat
    <2>1. rx \in Seq(QueueEvents)
      BY DEF TypeOK
    <2> QED
      BY <2>1, HeardFinite, BusyFinite DEF CountInv
  <1>1. CASE Quiet /\ UNCHANGED <<rx, wpc>>
    BY <1>0, <1>1, CountKept
  <1>2. CASE HandleWorkerDone
    <2>1. PICK k \in Events, s \in Statuses : Receive(Done(k, s)) /\ WorkerDone(k, s)
      BY <1>2 DEF HandleWorkerDone
    <2>2. /\ rx' = Tail(rx) /\ UNCHANGED <<stats, max_in_flight, closed, wpc>>
          /\ in_flight' = [in_flight EXCEPT ![QueueOf[k]] = in_flight[QueueOf[k]] - 1]
      BY <1>2, <2>1 DEF HandleWorkerDone, WorkerDone
    <2>3. Done(k, s).type = "WorkerDone" /\ Done(k, s).key = k
      BY DEF Done
    <2> SUFFICES ASSUME NEW q \in Queues
                 PROVE  LET due_back == Cardinality(Heard(rx', q))
                                            + Cardinality(Busy(wpc', q))
                        IN  /\ due_back <= in_flight'[q]
                            /\ ~closed' => due_back = in_flight'[q]
                            /\ Heard(rx', q) # {} \/ Busy(wpc', q) # {} => q \in stats'
                            /\ max_in_flight'[q] <= Max(Threads)
      BY Zenon DEF CountInv, Heard, Busy
    <2> DEFINE off == IF QueueOf[k] = q THEN 1 ELSE 0
    <2>4. /\ Cardinality(Heard(rx, q)) = Cardinality(Heard(rx', q)) + off
          /\ Cardinality(Heard(rx', q)) \in Nat
          /\ Heard(rx', q) # {} => Heard(rx, q) # {}
      BY <2>1, <2>2, <2>3, ReceiveHeard
    <2>5. in_flight'[q] = in_flight[q] - off /\ in_flight[q] \in Nat
      BY <2>2 DEF TypeOK
    <2>6. off \in Int
      OBVIOUS
    <2> HIDE DEF off
    <2>7. Busy(wpc', q) = Busy(wpc, q)
      BY <2>2 DEF Busy
    <2> QED
      BY <1>0, <2>2, <2>4, <2>5, <2>6, <2>7 DEF CountInv
  <1>3. CASE \/ HandleRefresh \/ HandleReload \/ HandleStop
             \/ \E paused \in BOOLEAN : HandlePaused(paused)
    <2>1. PICK t \in {"Refresh", "Reload", "Stop", "Pause", "Resume"} :
              Receive(Signal(t)) /\ rx' = Tail(rx)
      BY <1>3 DEF HandleRefresh, HandleReload, HandleStop, HandlePaused
    <2>2. Signal(t).type # "WorkerDone"
      BY DEF Signal
    <2>3. \A q \in Queues :
              /\ Cardinality(Heard(rx', q)) = Cardinality(Heard(rx, q))
              /\ Heard(rx', q) # {} => Heard(rx, q) # {}
      BY <2>1, <2>2, ReceiveHeard
    <2>4. UNCHANGED <<in_flight, wpc>> /\ (closed => closed')
      <3>1. UNCHANGED <<in_flight, wpc>>
        BY <1>3 DEF HandleRefresh, HandleReload, HandleStop, HandlePaused
      <3>2. closed' = TRUE \/ closed' = closed
        BY <1>3 DEF HandleRefresh, HandleReload, HandleStop, HandlePaused
      <3>3. CASE closed' = TRUE
        BY <3>1, <3>3, Zenon
      <3>4. CASE closed' = closed
        BY <3>1, <3>4, Zenon
      <3> QED
        BY <3>2, <3>3, <3>4, Zenon
    <2>5. stats \subseteq stats' /\ \A q \in Queues : max_in_flight'[q] <= Max(Threads)
      <3>1. CASE HandleReload
        <4>1. \A q \in Queues : config[q] <= Max(Threads)
          BY MostThreads DEF TypeOK
        <4> QED
          BY <3>1, <4>1 DEF HandleReload, TypeOK
      <3>2. CASE ~HandleReload
        BY <1>0, <1>3, <3>2 DEF HandleRefresh, HandleStop, HandlePaused
      <3> QED
        BY <3>1, <3>2
    <2>6. \A q \in Queues : Busy(wpc', q) = Busy(wpc, q)
      BY <2>4 DEF Busy
    <2> QED
      BY <2>3, <2>4, <2>5, <2>6, CountKept
  <1>4. ASSUME NEW seen \in SUBSET Events, NEW horizon, NEW started \in SUBSET Events,
               ScanOf(seen, horizon, started)
        PROVE  CountInv'
    <2> SUFFICES ASSUME NEW q \in Queues
                 PROVE  LET due_back == Cardinality(Heard(rx', q))
                                            + Cardinality(Busy(wpc', q))
                        IN  /\ due_back <= in_flight'[q]
                            /\ ~closed' => due_back = in_flight'[q]
                            /\ Heard(rx', q) # {} \/ Busy(wpc', q) # {} => q \in stats'
                            /\ max_in_flight'[q] <= Max(Threads)
      BY Zenon DEF CountInv, Heard, Busy
    <2> DEFINE mine == OfQueue(started, q)
               n == Cardinality(mine)
    <2>1. /\ Cardinality(Busy(wpc', q)) = Cardinality(Busy(wpc, q)) + n
          /\ n \in Nat
          /\ mine # {} => q \in stats'
          /\ Limit(q) <= Max(Threads)
      BY <1>4, ScanStarts
    <2>2. mine = {} => Busy(wpc', q) = Busy(wpc, q)
      <3>1. Busy(wpc', q) = Busy(wpc, q) \cup NewWorkers(started, q)
        BY <1>4, ScanStarts
      <3>2. mine = {} => NewWorkers(started, q) = {}
        BY DEF NewWorkers
      <3> QED
        BY <3>1, <3>2
    <2>3. /\ in_flight'[q] = in_flight[q] + n /\ UNCHANGED <<rx, closed>>
          /\ stats \subseteq stats'
          /\ max_in_flight'[q] \in {max_in_flight[q], Limit(q)}
      BY <1>4 DEF ScanOf, OfQueue
    <2> HIDE DEF mine, n
    <2>4. in_flight[q] \in Nat /\ Heard(rx', q) = Heard(rx, q)
      BY <2>3 DEF TypeOK, Heard
    <2>5. \/ max_in_flight'[q] = max_in_flight[q]
          \/ max_in_flight'[q] = Limit(q)
      BY <2>3
    <2>6. max_in_flight'[q] <= Max(Threads)
      BY <1>0, <2>1, <2>5
    <2> QED
      BY <1>0, <2>1, <2>2, <2>3, <2>4, <2>6 DEF CountInv
  <1>5. ASSUME NEW w \in Workers,
               \/ TryLock(w) \/ LockRefused(w) \/ Deliver(w) \/ WriteFails(w)
               \/ UnlockEvent(w)
        PROVE  CountInv'
    <2>1. Quiet /\ UNCHANGED rx
      BY <1>5 DEF TryLock, LockRefused, Deliver, WriteFails, UnlockEvent
    <2>2. \A q \in Queues : Busy(wpc', q) = Busy(wpc, q)
      BY <1>5, WorkerBusy
    <2> QED
      BY <1>0, <2>1, <2>2, CountKept
  <1>6. ASSUME NEW w \in Workers, Report(w)
        PROVE  CountInv'
    <2> DEFINE e == Done(w[1], status[w])
    <2>1. /\ Quiet /\ wpc[w] # "none" /\ Goto(w, "none")
          /\ rx' = IF closed THEN rx ELSE Append(rx, e)
      BY <1>6 DEF Report
    <2>2. e \in QueueEvents /\ e.type = "WorkerDone" /\ e.key = w[1]
      BY DEF QueueEvents, Done, Workers, TypeOK
    <2> HIDE DEF e
    <2> SUFFICES ASSUME NEW q \in Queues
                 PROVE  LET due_back == Cardinality(Heard(rx', q))
                                            + Cardinality(Busy(wpc', q))
                        IN  /\ due_back <= in_flight'[q]
                            /\ ~closed' => due_back = in_flight'[q]
                            /\ Heard(rx', q) # {} \/ Busy(wpc', q) # {} => q \in stats'
                            /\ max_in_flight'[q] <= Max(Threads)
      BY Zenon DEF CountInv, Heard, Busy
    <2>3. /\ QueueOf[w[1]] = q =>
               /\ Cardinality(Busy(wpc', q)) = Cardinality(Busy(wpc, q)) - 1
               /\ Busy(wpc, q) # {}
          /\ QueueOf[w[1]] # q => Busy(wpc', q) = Busy(wpc, q)
          /\ Busy(wpc', q) \subseteq Busy(wpc, q)
      BY <2>1, GotoNone
    <2>4. in_flight[q] \in Nat /\ rx \in Seq(QueueEvents)
      BY DEF TypeOK
    <2>5. CASE closed
      BY <1>0, <2>1, <2>3, <2>4, <2>5 DEF CountInv
    <2>6. CASE ~closed
      <3>1. /\ Cardinality(Heard(rx', q)) =
                 Cardinality(Heard(rx, q)) + IF QueueOf[w[1]] = q THEN 1 ELSE 0
            /\ Heard(rx', q) # {} => Heard(rx, q) # {} \/ QueueOf[w[1]] = q
        BY <2>1, <2>2, <2>4, <2>6, HeardAppend
      <3>2. CASE QueueOf[w[1]] = q
        BY <1>0, <2>1, <2>3, <2>4, <2>6, <3>1, <3>2 DEF CountInv
      <3>3. CASE QueueOf[w[1]] # q
        BY <1>0, <2>1, <2>3, <2>4, <2>6, <3>1, <3>3 DEF CountInv
      <3> QED
        BY <3>2, <3>3
    <2> QED
      BY <2>5, <2>6
  <1>7. CASE \/ \E k \in Events : Enqueue(k) \/ AdminRetry(k)
             \/ ReloadSettings \/ PauseMtaQueue \/ ResumeMtaQueue \/ Shutdown
    <2>1. PICK t \in {"Refresh", "Pause", "Resume", "Reload", "Stop"} : Send(t)
      BY <1>7, EnvironmentSends, Zenon
    <2>2. Quiet /\ UNCHANGED wpc
      BY <1>7, EnvironmentSends
    <2>3. \A q \in Queues : Busy(wpc', q) = Busy(wpc, q)
      BY <2>2 DEF Busy
    <2> QED
      BY <1>0, <2>1, <2>2, <2>3, SignalHeard, CountKept
  <1> QED
    <2>1. UNCHANGED vars \/ Timeout \/ Break \/ Sleep \/ Tick => Quiet /\ UNCHANGED <<rx, wpc>>
      BY DEF vars, Timeout, Break, Sleep, Tick
    <2>2. (\E k \in Events : TakenAway(k) \/ ComesBack(k))
              => Quiet /\ UNCHANGED <<rx, wpc>>
      BY DEF TakenAway, ComesBack
    <2> HIDE DEF Quiet
    <2> QED
      BY <1>1, <1>2, <1>3, <1>4, <1>5, <1>6, <1>7, <2>1, <2>2, StepCases, Zenon

\* A worker of k runs or its report is in the channel.
Held(c, p, k) ==
    \/ \E w \in Workers : w[1] = k /\ p[w] # "none"
    \/ \E i \in DOMAIN c : c[i].type = "WorkerDone" /\ c[i].key = k

\* What a step must leave alone so that no lock is left without its worker.
LEMMA LocksKept ==
    ASSUME LocksHaveWorkers, closed => closed',
           \A k \in locked' : expires'[k] = Never =>
               \/ Held(rx', wpc', k)
               \/ k \in locked /\ expires[k] = Never
                  /\ (~closed' /\ Held(rx, wpc, k) => Held(rx', wpc', k))
    PROVE  LocksHaveWorkers'
  <1> SUFFICES ASSUME ~closed', NEW k \in locked', expires'[k] = Never
               PROVE  Held(rx', wpc', k)
    BY Zenon DEF LocksHaveWorkers, Held, Running
  <1>1. CASE k \in locked /\ expires[k] = Never
            /\ (~closed' /\ Held(rx, wpc, k) => Held(rx', wpc', k))
    <2>1. Held(rx, wpc, k)
      BY <1>1, Zenon DEF LocksHaveWorkers, Held, Running
    <2> QED
      BY <1>1, <2>1
  <1> QED
    BY <1>1

\* A report that is not received stays in the channel.
LEMMA HeldTail ==
    ASSUME TypeOK, NEW e, Receive(e), rx' = Tail(rx), wpc' = wpc, NEW k,
           ~(e.type = "WorkerDone" /\ e.key = k), Held(rx, wpc, k)
    PROVE  Held(rx', wpc', k)
  <1>1. CASE \E w \in Workers : w[1] = k /\ wpc[w] # "none"
    BY <1>1 DEF Held
  <1>2. CASE \E i \in DOMAIN rx : rx[i].type = "WorkerDone" /\ rx[i].key = k
    <2>1. PICK i \in DOMAIN rx : rx[i].type = "WorkerDone" /\ rx[i].key = k
      BY <1>2
    <2>2. /\ rx \in Seq(QueueEvents) /\ rx # <<>> /\ e = rx[1]
          /\ Len(rx) \in Nat /\ DOMAIN rx = 1..Len(rx)
          /\ DOMAIN Tail(rx) = 1..Len(rx) - 1
          /\ \A j \in 1..Len(rx) - 1 : Tail(rx)[j] = rx[j + 1]
      BY HeadTailProperties DEF Receive, TypeOK
    <2>3. i - 1 \in DOMAIN Tail(rx) /\ Tail(rx)[i - 1] = rx[i]
      BY <2>1, <2>2
    <2> QED
      BY <2>1, <2>3 DEF Held
  <1> QED
    BY <1>1, <1>2 DEF Held

\* A report that is sent is in the channel, with those that were there.
LEMMA HeldAppend ==
    ASSUME TypeOK, NEW e \in QueueEvents, rx' = Append(rx, e), NEW k
    PROVE  /\ (\E i \in DOMAIN rx : rx[i].type = "WorkerDone" /\ rx[i].key = k) =>
                 \E i \in DOMAIN rx' : rx'[i].type = "WorkerDone" /\ rx'[i].key = k
           /\ e.type = "WorkerDone" /\ e.key = k =>
                 \E i \in DOMAIN rx' : rx'[i].type = "WorkerDone" /\ rx'[i].key = k
  <1>1. /\ Len(rx) \in Nat /\ DOMAIN rx = 1..Len(rx)
        /\ DOMAIN Append(rx, e) = 1..Len(rx) + 1
        /\ \A i \in 1..Len(rx) : Append(rx, e)[i] = rx[i]
        /\ Append(rx, e)[Len(rx) + 1] = e
    BY AppendProperties DEF TypeOK
  <1>2. ASSUME NEW i \in DOMAIN rx PROVE i \in DOMAIN rx' /\ rx'[i] = rx[i]
    BY <1>1
  <1>3. Len(rx) + 1 \in DOMAIN rx' /\ rx'[Len(rx) + 1] = e
    BY <1>1
  <1> QED
    BY <1>2, <1>3

\* A lock for good comes from a worker that is started, and goes with its
\* report.
LEMMA StepLocks ==
    ASSUME TypeOK, CountInv, LocksHaveWorkers, [Next]_vars
    PROVE  LocksHaveWorkers'
  <1> USE DEF manager, channel, tasks, store, env
  <1>0. 0 # Never /\ LockWait # Never /\ Never \in Nat
    BY ManagerAssumption
  <1>1. CASE UNCHANGED <<locked, expires, rx, wpc, closed>>
    BY <1>1, LocksKept
  <1>2. CASE HandleWorkerDone
    <2>1. PICK k \in Events, s \in Statuses : Receive(Done(k, s)) /\ WorkerDone(k, s)
      BY <1>2 DEF HandleWorkerDone
    <2>2. /\ rx' = Tail(rx) /\ UNCHANGED <<closed, wpc>>
          /\ locked' \subseteq locked \cup {k}
          /\ expires' = [expires EXCEPT ![k] = IF s = "Locked" THEN LockWait ELSE 0]
      BY <1>2, <2>1 DEF HandleWorkerDone, WorkerDone
    <2>3. Done(k, s).key = k
      BY DEF Done
    <2> HIDE DEF Done
    <2>4. ASSUME NEW l \in locked', expires'[l] = Never
          PROVE  /\ l \in locked /\ expires[l] = Never
                 /\ (~closed' /\ Held(rx, wpc, l) => Held(rx', wpc', l))
      <3>1. l # k
        BY <1>0, <2>2, <2>4 DEF TypeOK
      <3>2. l \in locked /\ expires[l] = Never
        BY <2>2, <2>4, <3>1 DEF TypeOK
      <3> QED
        BY <2>1, <2>2, <2>3, <3>1, <3>2, HeldTail
    <2> QED
      BY <2>2, <2>4, LocksKept
  <1>3. CASE \/ HandleRefresh \/ HandleReload \/ HandleStop
             \/ \E paused \in BOOLEAN : HandlePaused(paused)
    <2>1. CASE HandleStop
      BY <2>1, Zenon DEF HandleStop, LocksHaveWorkers
    <2>2. CASE ~HandleStop
      <3>1. PICK t \in {"Refresh", "Reload", "Pause", "Resume"} :
                Receive(Signal(t)) /\ rx' = Tail(rx)
        BY <1>3, <2>2 DEF HandleRefresh, HandleReload, HandlePaused
      <3>2. Signal(t).type # "WorkerDone"
        BY DEF Signal
      <3>3. UNCHANGED <<locked, expires, closed, wpc>>
        BY <1>3, <2>2 DEF HandleRefresh, HandleReload, HandlePaused
      <3>4. ASSUME NEW l \in locked', expires'[l] = Never
            PROVE  /\ l \in locked /\ expires[l] = Never
                   /\ (~closed' /\ Held(rx, wpc, l) => Held(rx', wpc', l))
        BY <3>1, <3>2, <3>3, <3>4, HeldTail
      <3> QED
        BY <3>3, <3>4, LocksKept
    <2> QED
      BY <2>1, <2>2
  <1>4. ASSUME NEW seen \in SUBSET Events, NEW horizon, NEW started \in SUBSET Events,
               ScanOf(seen, horizon, started)
        PROVE  LocksHaveWorkers'
    <2>1. UNCHANGED <<rx, closed>>
      BY <1>4 DEF ScanOf
    <2>2. ASSUME NEW l \in locked', expires'[l] = Never
          PROVE  \/ Held(rx', wpc', l)
                 \/ /\ l \in locked /\ expires[l] = Never
                    /\ (~closed' /\ Held(rx, wpc, l) => Held(rx', wpc', l))
      <3>1. /\ l \in seen /\ MayAdd(QueueOf[l])
            /\ l \in Added(seen) => l \in started
        BY <1>4, <2>2 DEF ScanOf, StillLocked
      <3>2. wpc' = [w \in Workers |->
              IF w[1] \in started /\ w[2] = Free(w[1]) THEN "lock" ELSE wpc[w]]
        BY <1>4 DEF ScanOf
      <3>3. CASE l \in Added(seen)
        <4>1. QueueOf[l] \in Queues /\ l \in OfQueue(started, QueueOf[l])
          BY <3>1, <3>3, ManagerAssumption DEF OfQueue
        <4>2. Free(l) \in 1..Max(Threads)
          BY <1>4, <4>1, ScanStarts
        <4>3. <<l, Free(l)>> \in Workers
          BY <3>1, <4>2 DEF Workers
        <4>4. wpc'[<<l, Free(l)>>] = "lock"
          BY <3>1, <3>2, <3>3, <4>3
        <4> QED
          BY <4>3, <4>4 DEF Held
      <3>4. CASE l \notin Added(seen)
        <4>1. l \in locked
          BY <3>1, <3>4 DEF Added
        <4>2. expires'[l] = expires[l]
          BY <1>4, <2>2, <3>1, <3>4 DEF ScanOf
        <4>3. \A w \in Workers : wpc[w] # "none" => wpc'[w] # "none"
          BY <3>2
        <4> QED
          BY <2>1, <2>2, <4>1, <4>2, <4>3 DEF Held
      <3> QED
        BY <3>3, <3>4
    <2> QED
      BY <2>1, <2>2, LocksKept
  <1>5. ASSUME NEW w \in Workers,
               \/ TryLock(w) \/ LockRefused(w) \/ Deliver(w) \/ WriteFails(w)
               \/ UnlockEvent(w)
        PROVE  LocksHaveWorkers'
    <2>1. UNCHANGED <<locked, expires, rx, closed>>
      BY <1>5 DEF TryLock, LockRefused, Deliver, WriteFails, UnlockEvent
    <2>2. \A v \in Workers : wpc'[v] # "none" <=> wpc[v] # "none"
      BY <1>5, WorkerBusy
    <2>3. \A k : Held(rx, wpc, k) => Held(rx', wpc', k)
      BY <2>1, <2>2 DEF Held
    <2> QED
      BY <2>1, <2>3, LocksKept
  <1>6. ASSUME NEW w \in Workers, Report(w)
        PROVE  LocksHaveWorkers'
    <2> DEFINE e == Done(w[1], status[w])
    <2>1. /\ UNCHANGED <<locked, expires, closed>> /\ Goto(w, "none")
          /\ rx' = IF closed THEN rx ELSE Append(rx, e)
      BY <1>6 DEF Report
    <2>2. e \in QueueEvents /\ e.type = "WorkerDone" /\ e.key = w[1]
      BY DEF QueueEvents, Done, Workers, TypeOK
    <2> HIDE DEF e
    <2>3. \A v \in Workers : v # w => wpc'[v] = wpc[v]
      BY <2>1 DEF Goto, TypeOK
    <2>4. ASSUME NEW k, ~closed', Held(rx, wpc, k) PROVE Held(rx', wpc', k)
      <3>1. rx' = Append(rx, e)
        BY <2>1, <2>4
      <3>2. CASE \E v \in Workers : v # w /\ v[1] = k /\ wpc[v] # "none"
        BY <2>3, <3>2 DEF Held
      <3>3. CASE w[1] = k \/ \E i \in DOMAIN rx : rx[i].type = "WorkerDone" /\ rx[i].key = k
        BY <2>2, <3>1, <3>3, HeldAppend DEF Held
      <3> QED
        BY <2>4, <3>2, <3>3 DEF Held
    <2> QED
      BY <2>1, <2>4, LocksKept
  <1>7. CASE \/ \E k \in Events : Enqueue(k) \/ AdminRetry(k)
             \/ ReloadSettings \/ PauseMtaQueue \/ ResumeMtaQueue \/ Shutdown
    <2>1. PICK t \in {"Refresh", "Pause", "Resume", "Reload", "Stop"} : Send(t)
      BY <1>7, EnvironmentSends, Zenon
    <2>2. UNCHANGED <<locked, expires, closed, wpc>>
      BY <1>7, EnvironmentSends
    <2>3. Signal(t) \in QueueEvents
      BY DEF QueueEvents
    <2>4. ASSUME NEW k, ~closed', Held(rx, wpc, k) PROVE Held(rx', wpc', k)
      <3>1. rx' = Append(rx, Signal(t))
        BY <2>1, <2>2, <2>4 DEF Send
      <3> QED
        BY <2>2, <2>3, <2>4, <3>1, HeldAppend DEF Held
    <2> QED
      BY <2>2, <2>4, LocksKept
  <1>8. CASE Tick
    <2>1. UNCHANGED <<locked, rx, wpc, closed>>
      BY <1>8 DEF Tick
    <2>2. ASSUME NEW k \in locked', expires'[k] = Never
          PROVE  k \in locked /\ expires[k] = Never
      <3>1. k \in Events /\ expires[k] \in 0..Never /\ expires'[k] = Left(expires[k])
        BY <1>8, <2>1, <2>2 DEF Tick, TypeOK, Time
      <3> QED
        BY <1>0, <2>1, <2>2, <3>1 DEF Left
    <2> QED
      BY <2>1, <2>2, LocksKept
  <1> QED
    <2>1. UNCHANGED vars \/ Timeout \/ Break \/ Sleep
              => UNCHANGED <<locked, expires, rx, wpc, closed>>
      BY DEF vars, Timeout, Break, Sleep
    <2>2. (\E k \in Events : TakenAway(k) \/ ComesBack(k))
              => UNCHANGED <<locked, expires, rx, wpc, closed>>
      BY DEF TakenAway, ComesBack
    <2> QED
      BY <1>1, <1>2, <1>3, <1>4, <1>5, <1>6, <1>7, <1>8, <2>1, <2>2, StepCases, Zenon

\* What a step must leave alone so that a manager nobody pauses wakes in time.
LEMMA WakeKept ==
    ASSUME TypeOK, WakeInv,
           "pause" \notin Controls =>
               /\ \A i \in DOMAIN rx' : \/ i \in DOMAIN rx /\ rx'[i] = rx[i]
                                        \/ i + 1 \in DOMAIN rx /\ rx'[i] = rx[i + 1]
                                        \/ rx'[i].type \notin {"Pause", "Resume"}
               /\ \/ is_paused' = TRUE
                  \/ is_paused' = is_paused /\ next_refresh' <= next_refresh
                  /\ next_refresh' \in Int
    PROVE  WakeInv'
  <1> SUFFICES ASSUME "pause" \notin Controls
               PROVE  /\ \A i \in DOMAIN rx' : rx'[i].type \notin {"Pause", "Resume"}
                      /\ is_paused' \/ next_refresh' <= QueueRefresh
    BY DEF WakeInv
  <1>1. \A i \in DOMAIN rx' : rx'[i].type \notin {"Pause", "Resume"}
    BY DEF WakeInv
  <1>2. CASE is_paused' = TRUE
    BY <1>1, <1>2
  <1>3. CASE is_paused' = is_paused /\ next_refresh' <= next_refresh
             /\ next_refresh' \in Int
    <2>1. is_paused \/ next_refresh <= QueueRefresh
      BY Zenon DEF WakeInv
    <2>2. next_refresh \in Int /\ QueueRefresh \in Int
      BY ManagerAssumption DEF TypeOK, Time
    <2>3. CASE is_paused
      BY <1>1, <1>3, <2>3
    <2>4. CASE next_refresh <= QueueRefresh
      <3>1. next_refresh' <= QueueRefresh
        BY <1>3, <2>2, <2>4
      <3> QED
        BY <1>1, <3>1
    <2> QED
      BY <2>1, <2>3, <2>4
  <1> QED
    BY <1>2, <1>3

\* The channel a received message leaves behind.
LEMMA TailShifts ==
    ASSUME TypeOK, NEW e, Receive(e), rx' = Tail(rx)
    PROVE  /\ \A i \in DOMAIN rx' : i + 1 \in DOMAIN rx /\ rx'[i] = rx[i + 1]
           /\ 1 \in DOMAIN rx /\ rx[1] = e
  <1>1. /\ rx \in Seq(QueueEvents) /\ rx # <<>> /\ e = rx[1]
        /\ Len(rx) \in Nat /\ DOMAIN rx = 1..Len(rx)
        /\ DOMAIN Tail(rx) = 1..Len(rx) - 1
        /\ \A j \in 1..Len(rx) - 1 : Tail(rx)[j] = rx[j + 1]
    BY HeadTailProperties DEF Receive, TypeOK
  <1> QED
    BY <1>1

\* The channel a sent message joins.
LEMMA AppendKeeps ==
    ASSUME TypeOK, NEW e \in QueueEvents, rx' = Append(rx, e)
    PROVE  /\ \A i \in DOMAIN rx' : (i \in DOMAIN rx /\ rx'[i] = rx[i]) \/ rx'[i] = e
           /\ rx' \in Seq(QueueEvents)
  <1>1. /\ Len(rx) \in Nat /\ DOMAIN rx = 1..Len(rx)
        /\ DOMAIN Append(rx, e) = 1..Len(rx) + 1
        /\ \A i \in 1..Len(rx) : Append(rx, e)[i] = rx[i]
        /\ Append(rx, e)[Len(rx) + 1] = e
        /\ Append(rx, e) \in Seq(QueueEvents)
    BY AppendProperties DEF TypeOK
  <1> QED
    BY <1>1

\* A scan sets the wake-up to a time, QUEUE_REFRESH at the most.
LEMMA ScanWakes ==
    ASSUME TypeOK, NEW seen \in SUBSET Events, NEW horizon \in SUBSET Events,
           NEW started \in SUBSET Events, ScanOf(seen, horizon, started)
    PROVE  next_refresh' \in Time /\ next_refresh' <= QueueRefresh
  <1> DEFINE S == {QueueRefresh}
                \cup {expires[k] : k \in StillLocked(seen, started) \ Added(seen)}
                \cup {due[k] : k \in horizon}
  <1>1. S \subseteq Time /\ QueueRefresh \in S
    BY ManagerAssumption DEF TypeOK, StillLocked, Time
  <1>2. Time \subseteq Nat
    BY ManagerAssumption DEF Time
  <1>3. next_refresh' = Min(S)
    BY DEF ScanOf
  <1> HIDE DEF S
  <1>4. Min(S) \in S /\ Min(S) <= QueueRefresh
    BY <1>1, <1>2, NatMin
  <1> QED
    BY <1>1, <1>3, <1>4

\* A report sets the wake-up no later than it was.
LEMMA WorkerDoneWakes ==
    ASSUME TypeOK, NEW k \in Events, NEW s \in Statuses, WorkerDone(k, s)
    PROVE  next_refresh' \in Time /\ next_refresh' <= next_refresh
  <1>1. next_refresh \in Time /\ LockWait \in Time /\ Time \subseteq Int
    BY ManagerAssumption DEF TypeOK, Time
  <1>2. next_refresh \in Int /\ LockWait \in Int
    BY <1>1
  <1>3. /\ Min({next_refresh, LockWait}) \in {next_refresh, LockWait}
        /\ Min({next_refresh, LockWait}) <= next_refresh
    BY <1>2, MinOfTwo, Zenon
  <1>4. CASE s = "Locked"
    <2>1. next_refresh' = Min({next_refresh, LockWait})
      BY <1>4 DEF WorkerDone
    <2> QED
      BY <1>1, <1>3, <2>1
  <1>5. CASE s # "Locked"
    <2>1. next_refresh' = next_refresh
      BY <1>5 DEF WorkerDone
    <2> QED
      BY <1>1, <1>2, <2>1
  <1> QED
    BY <1>4, <1>5

\* Only a scan, a report and the clock set the wake-up of a manager that runs.
LEMMA StepWake ==
    ASSUME TypeOK, WakeInv, [Next]_vars
    PROVE  WakeInv'
  <1> USE DEF manager, channel, tasks, store, env
  <1>0. next_refresh \in Int /\ QueueRefresh \in Int /\ next_refresh <= next_refresh
    BY ManagerAssumption DEF TypeOK, Time
  <1>1. CASE UNCHANGED <<rx, is_paused, next_refresh>>
    BY <1>0, <1>1, WakeKept
  <1>2. CASE HandleWorkerDone
    <2>1. PICK k \in Events, s \in Statuses : Receive(Done(k, s)) /\ WorkerDone(k, s)
      BY <1>2 DEF HandleWorkerDone
    <2>2. rx' = Tail(rx) /\ is_paused' = is_paused
      BY <1>2 DEF HandleWorkerDone
    <2>3. next_refresh' \in Int /\ next_refresh' <= next_refresh
      BY <2>1, WorkerDoneWakes, ManagerAssumption DEF Time
    <2>4. \A i \in DOMAIN rx' : i + 1 \in DOMAIN rx /\ rx'[i] = rx[i + 1]
      BY <2>1, <2>2, TailShifts
    <2> QED
      BY <2>2, <2>3, <2>4, WakeKept
  <1>3. CASE HandleRefresh \/ HandleReload \/ HandleStop
    <2>1. PICK t : Receive(Signal(t)) /\ rx' = Tail(rx)
      BY <1>3 DEF HandleRefresh, HandleReload, HandleStop
    <2>2. next_refresh' = next_refresh /\ (is_paused' = TRUE \/ is_paused' = is_paused)
      BY <1>3 DEF HandleRefresh, HandleReload, HandleStop
    <2>3. \A i \in DOMAIN rx' : i + 1 \in DOMAIN rx /\ rx'[i] = rx[i + 1]
      BY <2>1, TailShifts
    <2> QED
      BY <1>0, <2>2, <2>3, WakeKept
  <1>4. ASSUME NEW paused \in BOOLEAN, HandlePaused(paused)
        PROVE  WakeInv'
    <2>1. PICK t \in {"Pause", "Resume"} : Receive(Signal(t)) /\ rx' = Tail(rx)
      BY <1>4 DEF HandlePaused
    <2>2. 1 \in DOMAIN rx /\ rx[1] = Signal(t)
      BY <2>1, TailShifts
    <2>3. Signal(t).type \in {"Pause", "Resume"}
      BY DEF Signal
    <2>4. "pause" \in Controls
      BY <2>2, <2>3 DEF WakeInv
    <2> QED
      BY <2>4 DEF WakeInv
  <1>5. ASSUME NEW seen \in SUBSET Events, NEW horizon \in SUBSET Events,
               NEW started \in SUBSET Events, ScanOf(seen, horizon, started)
        PROVE  WakeInv'
    <2>1. next_refresh' <= QueueRefresh
      BY <1>5, ScanWakes
    <2>2. rx' = rx
      BY <1>5 DEF ScanOf
    <2> QED
      BY <2>1, <2>2 DEF WakeInv
  <1>6. ASSUME NEW w \in Workers, Report(w)
        PROVE  WakeInv'
    <2> DEFINE e == Done(w[1], status[w])
    <2>1. /\ UNCHANGED <<is_paused, next_refresh>>
          /\ rx' = IF closed THEN rx ELSE Append(rx, e)
      BY <1>6 DEF Report
    <2>2. e \in QueueEvents /\ e.type \notin {"Pause", "Resume"}
      BY DEF QueueEvents, Done, Workers, TypeOK
    <2> HIDE DEF e
    <2>3. \A i \in DOMAIN rx' : (i \in DOMAIN rx /\ rx'[i] = rx[i]) \/ rx'[i] = e
      BY <2>1, <2>2, AppendKeeps
    <2> QED
      BY <1>0, <2>1, <2>2, <2>3, WakeKept
  <1>7. CASE \/ \E k \in Events : Enqueue(k) \/ AdminRetry(k)
             \/ ReloadSettings \/ PauseMtaQueue \/ ResumeMtaQueue \/ Shutdown
    <2>1. PICK t \in {"Refresh", "Pause", "Resume", "Reload", "Stop"} :
              Send(t) /\ (t \in {"Pause", "Resume"} => "pause" \in Controls)
      BY <1>7, EnvironmentSends, Zenon
    <2>2. UNCHANGED <<is_paused, next_refresh>>
      BY <1>7, EnvironmentSends
    <2>3. Signal(t) \in QueueEvents /\ Signal(t).type = t
      BY DEF QueueEvents, Signal
    <2>4. rx' = rx \/ rx' = Append(rx, Signal(t))
      BY <2>1 DEF Send
    <2>5. \A i \in DOMAIN rx' : (i \in DOMAIN rx /\ rx'[i] = rx[i]) \/ rx'[i] = Signal(t)
      BY <2>3, <2>4, AppendKeeps
    <2> QED
      BY <1>0, <2>1, <2>2, <2>3, <2>5, WakeKept
  <1>8. CASE Tick
    <2>1. UNCHANGED <<rx, is_paused>> /\ next_refresh' = Left(next_refresh)
      BY <1>8 DEF Tick
    <2>2. next_refresh' \in Int /\ next_refresh' <= next_refresh
      BY <1>0, <2>1 DEF Left
    <2> QED
      BY <2>1, <2>2, WakeKept
  <1>9. CASE Sleep
    <2>1. UNCHANGED <<rx, is_paused>>
      BY <1>9 DEF Sleep
    <2>2. CASE is_paused
      <3>1. is_paused' = TRUE
        BY <2>1, <2>2 DEF TypeOK
      <3> QED
        BY <2>1, <3>1 DEF WakeInv
    <2>3. CASE ~is_paused
      <3>1. next_refresh' = next_refresh
        <4>1. next_refresh' = IF is_paused THEN PauseWait ELSE next_refresh
          BY <1>9 DEF Sleep
        <4>2. is_paused = FALSE
          BY <2>3 DEF TypeOK
        <4> QED
          BY <4>1, <4>2
      <3> QED
        BY <1>1, <2>1, <3>1
    <2> QED
      BY <2>2, <2>3
  <1> QED
    <2>1. UNCHANGED vars \/ Timeout \/ Break
              => UNCHANGED <<rx, is_paused, next_refresh>>
      BY DEF vars, Timeout, Break
    <2>2. (\E k \in Events : TakenAway(k) \/ ComesBack(k))
              => UNCHANGED <<rx, is_paused, next_refresh>>
      BY DEF TakenAway, ComesBack
    <2>3. (\E w \in Workers : \/ TryLock(w) \/ LockRefused(w) \/ Deliver(w)
                              \/ WriteFails(w) \/ UnlockEvent(w))
              => UNCHANGED <<rx, is_paused, next_refresh>>
      BY DEF TryLock, LockRefused, Deliver, WriteFails, UnlockEvent
    <2> QED
      BY <1>1, <1>2, <1>3, <1>4, <1>5, <1>6, <1>7, <1>8, <1>9, <2>1, <2>2, <2>3,
         StepCases, Zenon

\* Each action writes values of the right kind: a slot that is counted off was
\* counted, a time is counted down from a time, and the next wake-up is one of
\* the times it is the least of.
LEMMA StepTypeOK ==
    ASSUME TypeOK, CountInv, [Next]_vars
    PROVE  TypeOK'
  <1> USE DEF manager, channel, tasks, store, env
  <1>0. /\ {0, Never, QueueRefresh, LockWait, PauseWait} \subseteq Time
        /\ Delays \subseteq Time /\ Time \subseteq Nat
        /\ \A t \in Time : Left(t) \in Time
    BY ManagerAssumption DEF Time, Left
  <1>1. CASE UNCHANGED vars
    BY <1>1 DEF vars, TypeOK
  <1>2. CASE Timeout \/ Break
    BY <1>2 DEF Timeout, Break, TypeOK
  <1>3. CASE Sleep
    <2>1. next_refresh' \in {PauseWait, next_refresh}
      BY <1>3 DEF Sleep
    <2> QED
      BY <1>0, <1>3, <2>1 DEF Sleep, TypeOK
  <1>4. CASE Tick
    BY <1>0, <1>4 DEF Tick, TypeOK
  <1>5. CASE HandleWorkerDone
    <2>1. PICK k \in Events, s \in Statuses : Receive(Done(k, s)) /\ WorkerDone(k, s)
      BY <1>5 DEF HandleWorkerDone
    <2>2. /\ rx' = Tail(rx) /\ UNCHANGED <<stats, max_in_flight, is_paused, closed>>
          /\ UNCHANGED <<wpc, status, due, lease, config, fresh, controls>>
      BY <1>5 DEF HandleWorkerDone
    <2>3. rx' \in Seq(QueueEvents) /\ mpc' = "drain"
      BY <2>1, <2>2, ReceiveHeard
    <2>4. in_flight' \in [Queues -> Nat]
      <3>1. in_flight' = [in_flight EXCEPT ![QueueOf[k]] = in_flight[QueueOf[k]] - 1]
        BY <2>1 DEF WorkerDone
      <3>2. QueueOf[k] \in Queues /\ in_flight[QueueOf[k]] \in Nat
        BY ManagerAssumption DEF TypeOK
      <3>3. Done(k, s).type = "WorkerDone" /\ Done(k, s).key = k
        BY DEF Done
      <3>4. /\ Cardinality(Heard(rx, QueueOf[k])) =
                 Cardinality(Heard(rx', QueueOf[k])) + 1
            /\ Cardinality(Heard(rx', QueueOf[k])) \in Nat
        BY <2>1, <2>2, <3>2, <3>3, ReceiveHeard
      <3>5. Cardinality(Heard(rx, QueueOf[k])) <= in_flight[QueueOf[k]]
        BY <3>2, <3>4, BusyFinite DEF CountInv
      <3>6. in_flight[QueueOf[k]] - 1 \in Nat
        BY <3>2, <3>4, <3>5
      <3> QED
        BY <3>1, <3>6 DEF TypeOK
    <2>5. locked' \subseteq Events /\ expires' \in [Events -> Time]
      BY <1>0, <2>1 DEF WorkerDone, TypeOK
    <2>6. next_refresh' \in Time
      BY <2>1, WorkerDoneWakes
    <2>7. refresh' \in BOOLEAN
      BY <2>1, Zenon DEF WorkerDone, Refreshes
    <2> QED
      BY <2>2, <2>3, <2>4, <2>5, <2>6, <2>7 DEF TypeOK
  <1>6. CASE \/ HandleRefresh \/ HandleReload \/ HandleStop
             \/ \E paused \in BOOLEAN : HandlePaused(paused)
    <2>1. PICK t : Receive(Signal(t)) /\ rx' = Tail(rx)
      BY <1>6 DEF HandleRefresh, HandleReload, HandleStop, HandlePaused
    <2>2. rx' \in Seq(QueueEvents) /\ mpc' = "drain"
      BY <2>1, ReceiveHeard
    <2>3. refresh' \in BOOLEAN
      BY <1>6, Zenon DEF HandleRefresh, HandleReload, HandleStop, HandlePaused, Refreshes
    <2>4. /\ UNCHANGED <<locked, expires, in_flight, next_refresh>>
          /\ UNCHANGED <<wpc, status, due, lease, config, fresh, controls>>
      BY <1>6 DEF HandleRefresh, HandleReload, HandleStop, HandlePaused
    <2>5. is_paused' \in BOOLEAN /\ closed' \in BOOLEAN
      BY <1>6 DEF HandleRefresh, HandleReload, HandleStop, HandlePaused, TypeOK
    <2>6. stats' \subseteq Queues /\ max_in_flight' \in [Queues -> Nat]
      <3>1. config \in [Queues -> Nat]
        BY ManagerAssumption DEF TypeOK
      <3> QED
        BY <1>6, <3>1 DEF HandleRefresh, HandleReload, HandleStop, HandlePaused, TypeOK
    <2> QED
      BY <2>2, <2>3, <2>4, <2>5, <2>6 DEF TypeOK
  <1>7. ASSUME NEW seen \in SUBSET Events, NEW horizon \in SUBSET Events,
               NEW started \in SUBSET Events, ScanOf(seen, horizon, started),
               UNCHANGED controls \/ Disturb("scan")
        PROVE  TypeOK'
    <2>1. next_refresh' \in Time
      BY <1>7, ScanWakes
    <2>2. in_flight' \in [Queues -> Nat]
      <3>1. in_flight' = [q \in Queues |->
              in_flight[q] + Cardinality(OfQueue(started, q))]
        BY <1>7 DEF ScanOf, OfQueue
      <3>2. ASSUME NEW q \in Queues
            PROVE  in_flight[q] + Cardinality(OfQueue(started, q)) \in Nat
        <4>1. Cardinality(OfQueue(started, q)) \in Nat
          BY <1>7, ScanStarts
        <4>2. in_flight[q] \in Nat
          BY DEF TypeOK
        <4> QED
          BY <4>1, <4>2
      <3> QED
        BY <3>1, <3>2
    <2>3. max_in_flight' \in [Queues -> Nat]
      <3>1. \A q \in Queues : Limit(q) \in Nat
        BY ManagerAssumption DEF Limit, TypeOK
      <3> QED
        BY <1>7, <3>1 DEF ScanOf, TypeOK
    <2>4. stats' \subseteq Queues
      BY <1>7, ManagerAssumption DEF ScanOf, Added, TypeOK
    <2>5. locked' \subseteq Events /\ expires' \in [Events -> Time]
      BY <1>0, <1>7 DEF ScanOf, StillLocked, TypeOK
    <2>6. wpc' \in [Workers -> {"none", "lock", "deliver", "unlock", "report"}]
      BY <1>7 DEF ScanOf, TypeOK
    <2>7. controls' \in 0..MaxControls
      BY <1>7, ManagerAssumption DEF Disturb, TypeOK
    <2>8. /\ mpc' = "wait" /\ refresh' = FALSE
          /\ UNCHANGED <<is_paused, rx, closed, status, due, lease, config, fresh>>
      BY <1>7 DEF ScanOf
    <2> QED
      BY <2>1, <2>2, <2>3, <2>4, <2>5, <2>6, <2>7, <2>8 DEF TypeOK
  <1>8. ASSUME NEW w \in Workers,
               \/ TryLock(w) \/ LockRefused(w) \/ Deliver(w) \/ WriteFails(w)
               \/ UnlockEvent(w)
        PROVE  TypeOK'
    <2>1. wpc' \in [Workers -> {"none", "lock", "deliver", "unlock", "report"}]
      BY <1>8, WorkerBusy
    <2>2. status' \in [Workers -> Statuses]
      BY <1>8 DEF TryLock, LockRefused, Deliver, WriteFails, UnlockEvent, Reports,
                  Statuses, TypeOK
    <2>3. due' \in [Events -> Time]
      <3>1. CASE Deliver(w)
        BY <1>0, <3>1 DEF Deliver, TypeOK
      <3>2. CASE ~Deliver(w)
        BY <1>8, <3>2 DEF TryLock, LockRefused, WriteFails, UnlockEvent, TypeOK
      <3> QED
        BY <3>1, <3>2
    <2>4. lease' \in [Events -> {"free", "here", "away"}]
      BY <1>8 DEF TryLock, LockRefused, Deliver, WriteFails, UnlockEvent, TypeOK
    <2>5. controls' \in 0..MaxControls
      BY <1>8, ManagerAssumption
         DEF TryLock, LockRefused, Deliver, WriteFails, UnlockEvent, Disturb, TypeOK
    <2>6. UNCHANGED <<manager, channel, config, fresh>>
      BY <1>8 DEF TryLock, LockRefused, Deliver, WriteFails, UnlockEvent
    <2> QED
      BY <2>1, <2>2, <2>3, <2>4, <2>5, <2>6 DEF TypeOK
  <1>9. ASSUME NEW w \in Workers, Report(w)
        PROVE  TypeOK'
    <2> DEFINE e == Done(w[1], status[w])
    <2>1. /\ UNCHANGED <<manager, closed, store, env>>
          /\ Goto(w, "none") /\ Reports(w, "Completed")
          /\ rx' = IF closed THEN rx ELSE Append(rx, e)
      BY <1>9 DEF Report
    <2>2. e \in QueueEvents
      BY DEF QueueEvents, Done, Workers, TypeOK
    <2>3. rx' \in Seq(QueueEvents)
      <3> HIDE DEF e
      <3> QED
        BY <2>1, <2>2, AppendKeeps DEF TypeOK
    <2> QED
      BY <2>1, <2>3 DEF Goto, Reports, Statuses, TypeOK
  <1>10. CASE \/ \E k \in Events : Enqueue(k) \/ AdminRetry(k)
              \/ ReloadSettings \/ PauseMtaQueue \/ ResumeMtaQueue \/ Shutdown
    <2>1. PICK t \in {"Refresh", "Pause", "Resume", "Reload", "Stop"} : Send(t)
      BY <1>10, EnvironmentSends, Zenon
    <2>2. rx' \in Seq(QueueEvents)
      BY <2>1, SignalHeard
    <2>3. UNCHANGED <<manager, closed, wpc, status, lease>>
      BY <1>10, EnvironmentSends
    <2>4. due' \in [Events -> Time]
      BY <1>0, <1>10 DEF Enqueue, AdminRetry, ReloadSettings, PauseMtaQueue,
                         ResumeMtaQueue, Shutdown, TypeOK
    <2>5. fresh' \subseteq Events /\ config' \in [Queues -> Threads]
      BY <1>10 DEF Enqueue, AdminRetry, ReloadSettings, PauseMtaQueue,
                   ResumeMtaQueue, Shutdown, TypeOK
    <2>6. controls' \in 0..MaxControls
      BY <1>10, ManagerAssumption
         DEF Enqueue, AdminRetry, ReloadSettings, PauseMtaQueue, ResumeMtaQueue,
             Shutdown, Disturb, TypeOK
    <2> QED
      BY <2>2, <2>3, <2>4, <2>5, <2>6 DEF TypeOK
  <1>11. ASSUME NEW k \in Events, TakenAway(k) \/ ComesBack(k)
         PROVE  TypeOK'
    <2>1. lease' \in [Events -> {"free", "here", "away"}]
      BY <1>11 DEF TakenAway, ComesBack, TypeOK
    <2>2. due' \in [Events -> Time]
      <3>1. CASE TakenAway(k)
        BY <3>1 DEF TakenAway, TypeOK
      <3>2. CASE ComesBack(k)
        <4>1. PICK d \in Delays \cup {Never, due[k]} : due' = [due EXCEPT ![k] = d]
          BY <3>2 DEF ComesBack
        <4>2. d \in Time
          BY <1>0, <4>1 DEF TypeOK
        <4> QED
          BY <4>1, <4>2 DEF TypeOK
      <3> QED
        BY <1>11, <3>1, <3>2
    <2>3. controls' \in 0..MaxControls
      BY <1>11, ManagerAssumption DEF TakenAway, ComesBack, Disturb, TypeOK
    <2>4. UNCHANGED <<manager, channel, tasks, config, fresh>>
      BY <1>11 DEF TakenAway, ComesBack
    <2> QED
      BY <2>1, <2>2, <2>3, <2>4 DEF TypeOK
  <1> QED
    BY <1>1, <1>2, <1>3, <1>4, <1>5, <1>6, <1>7, <1>8, <1>9, <1>10, <1>11,
       StepCases, Zenon

\* It starts with an empty channel and no workers.
LEMMA InitManagerInv ==
    ASSUME Init
    PROVE  ManagerInv
  <1>1. TypeOK
    <2>1. {0, 1, Never} \subseteq Time /\ 0 \in 0..MaxControls
      BY ManagerAssumption DEF Time
    <2>2. rx \in Seq(QueueEvents) /\ config \in [Queues -> Threads]
      BY DEF Init
    <2>3. /\ mpc = "wait" /\ refresh = FALSE /\ is_paused = FALSE /\ closed = FALSE
          /\ locked = {} /\ stats = {} /\ fresh = Events
          /\ next_refresh = 1 /\ controls = 0
      BY DEF Init
    <2>4. due \in [Events -> Time] /\ expires \in [Events -> Time]
      BY <2>1 DEF Init
    <2>5. /\ lease \in [Events -> {"free", "here", "away"}]
          /\ in_flight \in [Queues -> Nat] /\ max_in_flight \in [Queues -> Nat]
      BY DEF Init
    <2>6. /\ wpc \in [Workers -> {"none", "lock", "deliver", "unlock", "report"}]
          /\ status \in [Workers -> Statuses]
      BY DEF Init, Statuses
    <2> QED
      BY <2>1, <2>2, <2>3, <2>4, <2>5, <2>6 DEF TypeOK
  <1>2. ASSUME NEW q \in Queues PROVE Heard(rx, q) = {} /\ Busy(wpc, q) = {}
    BY DEF Init, Heard, Busy
  <1>3. CountInv
    <2>1. \A q \in Queues : in_flight[q] = 0 /\ max_in_flight[q] = 0
      BY DEF Init
    <2>2. Max(Threads) \in Nat /\ Cardinality({}) = 0
      BY MostThreads, FS_EmptySet
    <2> QED
      BY <1>2, <2>1, <2>2 DEF CountInv
  <1>4. LocksHaveWorkers
    BY DEF Init, LocksHaveWorkers
  <1>5. WakeInv
    BY ManagerAssumption DEF Init, WakeInv
  <1> QED
    BY <1>1, <1>3, <1>4, <1>5 DEF ManagerInv

\* The parts of the invariant rest on the types and on the count.
LEMMA SpecManagerInv == Spec => []ManagerInv
  <1>1. ManagerInv /\ [Next]_vars => ManagerInv'
    BY StepTypeOK, StepCountInv, StepLocks, StepWake, Zenon DEF ManagerInv
  <1> QED
    BY <1>1, InitManagerInv, PTL DEF Spec

-----------------------------------------------------------------------------
(* Theorems                                                                *)

\* The state of the manager, its channel and its workers has its types: in
\* particular in_flight is never negative and the channel holds only events.
THEOREM ManagerTypeOK == Spec => []TypeOK
  <1>1. ManagerInv => TypeOK
    BY DEF ManagerInv
  <1> QED
    BY <1>1, SpecManagerInv, PTL

\* in_flight is exactly the workers that have not been heard of, for any number
\* of queues, threads and workers, whatever is reloaded, refused or fails, and
\* the queue of every report has stats for handle_event to unwrap.
THEOREM ManagerInFlightExact == Spec => []InFlightExact
  <1>1. ManagerInv => InFlightExact
    BY DEF ManagerInv, CountInv, InFlightExact, Heard, Busy
  <1> QED
    BY <1>1, SpecManagerInv, PTL

\* No event is locked for good without a worker that is still to report.
THEOREM ManagerLocksHaveWorkers == Spec => []LocksHaveWorkers
  <1>1. ManagerInv => LocksHaveWorkers
    BY DEF ManagerInv
  <1> QED
    BY <1>1, SpecManagerInv, PTL

\* A manager that nobody pauses never sleeps longer than QUEUE_REFRESH.
THEOREM ManagerWakesInTime ==
    ASSUME "pause" \notin Controls
    PROVE  Spec => []WakesInTime
  <1>1. ManagerInv => WakesInTime
    BY Zenon DEF ManagerInv, WakeInv, WakesInTime
  <1> QED
    BY <1>1, SpecManagerInv, PTL

\* No scan starts more workers than the limit of a queue leaves room for, for
\* any thread counts and any number of due events.
THEOREM ManagerWithinThreads == Spec => WithinThreads
  <1> DEFINE Within(q) == ~(Busy(wpc', q) \subseteq Busy(wpc, q)) =>
                              Cardinality(Busy(wpc', q)) <= max_in_flight'[q]
  <1>1. ASSUME ManagerInv, [Next]_vars, NEW q \in Queues
        PROVE  Within(q)
    <2> USE DEF manager, channel, tasks, store, env
    <2>0. TypeOK /\ CountInv
      BY <1>1 DEF ManagerInv
    <2>1. CASE UNCHANGED wpc
      BY <2>1 DEF Busy
    <2>2. ASSUME NEW w \in Workers,
                 \/ TryLock(w) \/ LockRefused(w) \/ Deliver(w) \/ WriteFails(w)
                 \/ UnlockEvent(w)
          PROVE  Within(q)
      BY <2>0, <2>2, WorkerBusy
    <2>3. ASSUME NEW w \in Workers, Report(w)
          PROVE  Within(q)
      <3>1. wpc[w] # "none" /\ Goto(w, "none")
        BY <2>3 DEF Report
      <3> QED
        BY <2>0, <3>1, GotoNone
    <2>4. ASSUME NEW seen \in SUBSET Events, NEW horizon \in SUBSET Events,
                 NEW started \in SUBSET Events, ScanOf(seen, horizon, started)
          PROVE  Within(q)
      <3> DEFINE mine == OfQueue(started, q)
                 n == Cardinality(mine)
      <3>1. /\ Cardinality(Busy(wpc', q)) = Cardinality(Busy(wpc, q)) + n
            /\ n \in Nat /\ Limit(q) \in Nat
            /\ mine # {} => in_flight[q] + n <= Limit(q)
            /\ mine # {} => max_in_flight'[q] = Limit(q)
        BY <2>0, <2>4, ScanStarts
      <3>2. mine = {} => Busy(wpc', q) = Busy(wpc, q)
        <4>1. Busy(wpc', q) = Busy(wpc, q) \cup NewWorkers(started, q)
          BY <2>0, <2>4, ScanStarts
        <4>2. mine = {} => NewWorkers(started, q) = {}
          BY DEF NewWorkers
        <4> QED
          BY <4>1, <4>2
      <3> HIDE DEF mine, n
      <3>3. rx \in Seq(QueueEvents) /\ in_flight[q] \in Nat
        BY <2>0 DEF TypeOK
      <3>4. Cardinality(Busy(wpc, q)) <= in_flight[q]
            /\ Cardinality(Busy(wpc, q)) \in Nat
        BY <2>0, <3>3, BusyFinite, HeardFinite DEF CountInv
      <3> QED
        BY <3>1, <3>2, <3>3, <3>4
    <2>5. (\/ UNCHANGED vars \/ Timeout \/ Break \/ Sleep \/ Tick
           \/ HandleWorkerDone \/ HandleRefresh \/ HandleReload \/ HandleStop
           \/ \E paused \in BOOLEAN : HandlePaused(paused)) => UNCHANGED wpc
      BY DEF vars, Timeout, Break, Sleep, Tick, HandleWorkerDone, HandleRefresh,
             HandleReload, HandleStop, HandlePaused
    <2>6. (\/ \E k \in Events : Enqueue(k) \/ AdminRetry(k)
           \/ ReloadSettings \/ PauseMtaQueue \/ ResumeMtaQueue \/ Shutdown)
              => UNCHANGED wpc
      BY EnvironmentSends
    <2>7. (\E k \in Events : TakenAway(k) \/ ComesBack(k)) => UNCHANGED wpc
      BY DEF TakenAway, ComesBack
    <2> HIDE DEF Within
    <2> QED
      BY <1>1, <2>1, <2>2, <2>3, <2>4, <2>5, <2>6, <2>7, StepCases, Zenon
  <1>2. ManagerInv /\ [Next]_vars =>
          [\A q \in Queues :
             LET busy == {w \in Workers : QueueOf[w[1]] = q /\ wpc[w] # "none"}
                 busy_next == {w \in Workers : QueueOf[w[1]] = q /\ wpc'[w] # "none"}
             IN  ~(busy_next \subseteq busy) =>
                     Cardinality(busy_next) <= max_in_flight'[q]]_vars
    <2> SUFFICES ASSUME ManagerInv, [Next]_vars, NEW q \in Queues
                 PROVE  LET busy == {w \in Workers : QueueOf[w[1]] = q /\ wpc[w] # "none"}
                            busy_next == {w \in Workers : QueueOf[w[1]] = q
                                                          /\ wpc'[w] # "none"}
                        IN  ~(busy_next \subseteq busy) =>
                                Cardinality(busy_next) <= max_in_flight'[q]
      OBVIOUS
    <2>1. /\ Busy(wpc, q) = {w \in Workers : QueueOf[w[1]] = q /\ wpc[w] # "none"}
          /\ Busy(wpc', q) = {w \in Workers : QueueOf[w[1]] = q /\ wpc'[w] # "none"}
      BY DEF Busy
    <2>2. Within(q)
      BY <1>1
    <2> QED
      BY <2>1, <2>2
  <1> QED
    BY <1>2, SpecManagerInv, PTL DEF Spec, WithinThreads

=============================================================================
