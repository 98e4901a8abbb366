-------------------------- MODULE LeaseLockProofs --------------------------
(***************************************************************************)
(* The lease of LeaseLock excludes a second holder, for any number of      *)
(* processes and any duration, as long as nobody deletes a lease in force  *)
(* that is not its own; and only a process that outlived its lease, or the *)
(* purge task, ever does.  The steps of try_lock and remove_lock implement *)
(* the lease of Lease, granted and returned in one step.                   *)
(***************************************************************************)
EXTENDS LeaseLock, TLAPS

\* A process about to write saw a value that was not in force, and still is
\* not: the clock does not go back.  This is what makes the asserted write
\* exclude every holder, since a holder's lease is the stored value.
SawExpired == \A p \in Procs : pc[p] = "write" => seen[p] <= now

\* No lease about to be written reaches past now + Duration.
ShortLeases ==
    \A p \in Procs : pc[p] = "write" => 1 <= lease[p] /\ lease[p] <= now + Duration

IInv == TypeOK /\ SawExpired /\ ShortLeases /\ Exclusive /\ LeaseEnds

\* The initial state satisfies the inductive invariant: the key is absent and
\* no process is in try_lock.
LEMMA InitIInv == Init => IInv
  <1> SUFFICES ASSUME Init PROVE IInv
    OBVIOUS
  <1>1. TypeOK
    <2>1. backend \in {"store", "redis"} /\ now \in 1..MaxTime + 1 /\ lock \in Nat
      BY MaxTimeAssumption DEF Init, NoKey
    <2>2. /\ pc \in [Procs -> States]
          /\ seen \in [Procs -> Nat] /\ lease \in [Procs -> Nat]
      BY DEF Init, States, NoKey
    <2>3. purge \in {"idle", "delete"} /\ intruded \in BOOLEAN
      BY Zenon DEF Init
    <2> QED
      BY <2>1, <2>2, <2>3 DEF TypeOK
  <1>2. \A p \in Procs : pc[p] = "idle"
    BY DEF Init
  <1>3. SawExpired /\ ShortLeases /\ Exclusive
    BY <1>2 DEF SawExpired, ShortLeases, Exclusive, Holder
  <1>4. LeaseEnds
    BY DurationAssumption DEF Init, LeaseEnds, NoKey
  <1> QED
    BY <1>1, <1>3, <1>4 DEF IInv

\* Every step of try_lock, remove_lock, purge_in_memory_store and the clock
\* preserves the type of the state.
LEMMA StepTypeOK == TypeOK /\ [Next]_vars => TypeOK'
  <1> SUFFICES ASSUME TypeOK, [Next]_vars PROVE TypeOK'
    OBVIOUS
  <1> USE DurationAssumption, MaxTimeAssumption DEF TypeOK, States, NoKey
  <1>1. ASSUME NEW p \in Procs, ReadLock(p) PROVE TypeOK'
    BY <1>1 DEF ReadLock
  <1>2. ASSUME NEW p \in Procs, CheckLock(p) PROVE TypeOK'
    BY <1>2 DEF CheckLock
  <1>3. ASSUME NEW p \in Procs, WriteLock(p) PROVE TypeOK'
    BY <1>3 DEF WriteLock
  <1>4. ASSUME NEW p \in Procs, WriteRefused(p) PROVE TypeOK'
    BY <1>4 DEF WriteRefused
  <1>5. ASSUME NEW p \in Procs, RemoveLock(p) PROVE TypeOK'
    BY <1>5 DEF RemoveLock
  <1>6. ASSUME NEW p \in Procs, AbandonLock(p) PROVE TypeOK'
    BY <1>6 DEF AbandonLock
  <1>7. CASE PurgeCollect
    BY <1>7 DEF PurgeCollect
  <1>8. CASE PurgeDelete
    BY <1>8 DEF PurgeDelete
  <1>9. CASE Tick
    BY <1>9 DEF Tick
  <1>10. CASE UNCHANGED vars
    BY <1>10 DEF vars
  <1>11. ASSUME NEW p \in Procs, TryLockRedis(p) PROVE TypeOK'
    BY <1>11 DEF TryLockRedis
  <1>12. ASSUME NEW p \in Procs, RedisAnswerLost(p) PROVE TypeOK'
    BY <1>12 DEF RedisAnswerLost
  <1> QED
    BY <1>1, <1>2, <1>3, <1>4, <1>5, <1>6, <1>7, <1>8, <1>9, <1>10, <1>11, <1>12
       DEF Next, ProcNext

\* What a process saw before it writes stays expired, since the clock only
\* moves forward; and the lease it is about to write stays within Duration.
LEMMA StepSaw ==
    IInv /\ [Next]_vars => SawExpired' /\ ShortLeases'
  <1> SUFFICES ASSUME IInv, [Next]_vars PROVE SawExpired' /\ ShortLeases'
    OBVIOUS
  <1> USE DurationAssumption, MaxTimeAssumption
      DEF IInv, TypeOK, SawExpired, ShortLeases, NoKey
  <1>1. ASSUME NEW p \in Procs, ProcNext(p) PROVE SawExpired' /\ ShortLeases'
    <2>1. CASE ReadLock(p)
      BY <2>1 DEF ReadLock
    <2>2. CASE CheckLock(p)
      BY <2>2 DEF CheckLock, InForce
    <2>3. CASE WriteLock(p)
      BY <2>3 DEF WriteLock
    <2>4. CASE WriteRefused(p)
      BY <2>4 DEF WriteRefused
    <2>5. CASE RemoveLock(p)
      BY <2>5 DEF RemoveLock
    <2>6. CASE AbandonLock(p)
      BY <2>6 DEF AbandonLock
    <2>7. CASE TryLockRedis(p)
      BY <2>7 DEF TryLockRedis
    <2>8. CASE RedisAnswerLost(p)
      BY <2>8 DEF RedisAnswerLost
    <2> QED
      BY <1>1, <2>1, <2>2, <2>3, <2>4, <2>5, <2>6, <2>7, <2>8 DEF ProcNext
  <1>2. CASE PurgeCollect
    BY <1>2 DEF PurgeCollect
  <1>3. CASE PurgeDelete
    BY <1>3 DEF PurgeDelete
  <1>4. CASE Tick
    BY <1>4 DEF Tick
  <1>5. CASE UNCHANGED vars
    BY <1>5 DEF vars
  <1> QED
    BY <1>1, <1>2, <1>3, <1>4, <1>5 DEF Next

\* The stored expiry is never further away than one lease.
LEMMA StepLeaseEnds == IInv /\ [Next]_vars => LeaseEnds'
  <1> SUFFICES ASSUME IInv, [Next]_vars PROVE LeaseEnds'
    OBVIOUS
  <1> USE DurationAssumption, MaxTimeAssumption
      DEF IInv, TypeOK, ShortLeases, LeaseEnds, NoKey
  <1>1. ASSUME NEW p \in Procs, ProcNext(p) PROVE LeaseEnds'
    BY <1>1 DEF ProcNext, ReadLock, CheckLock, WriteLock, WriteRefused,
                RemoveLock, AbandonLock, TryLockRedis, RedisAnswerLost
  <1>2. CASE PurgeCollect \/ PurgeDelete \/ Tick
    BY <1>2 DEF PurgeCollect, PurgeDelete, Tick
  <1>3. CASE UNCHANGED vars
    BY <1>3 DEF vars
  <1> QED
    BY <1>1, <1>2, <1>3 DEF Next

\* The heart of the proof.  An asserted write succeeds only on the value its
\* process saw, which has expired: no holder can have that value as its lease
\* in force, so the writer is the only holder afterwards.  A deletion of a
\* lease in force by another party sets the history variable.
LEMMA StepExclusive == IInv /\ [Next]_vars => Exclusive'
  <1> SUFFICES ASSUME IInv, [Next]_vars, ~intruded'
               PROVE  /\ \A p, q \in Procs : Holder(p)' /\ Holder(q)' => p = q
                      /\ \A p \in Procs : Holder(p)' => lock' >= lease'[p]
    BY DEF Exclusive
  <1> USE DurationAssumption, MaxTimeAssumption
      DEF IInv, TypeOK, States, Exclusive, Holder, InForce
  <1>1. ASSUME NEW x \in Procs, ReadLock(x)
        PROVE  /\ \A p, q \in Procs : Holder(p)' /\ Holder(q)' => p = q
               /\ \A p \in Procs : Holder(p)' => lock' >= lease'[p]
    BY <1>1 DEF ReadLock
  <1>2. ASSUME NEW x \in Procs, CheckLock(x)
        PROVE  /\ \A p, q \in Procs : Holder(p)' /\ Holder(q)' => p = q
               /\ \A p \in Procs : Holder(p)' => lock' >= lease'[p]
    BY <1>2 DEF CheckLock
  <1>3. ASSUME NEW x \in Procs, WriteLock(x)
        PROVE  /\ \A p, q \in Procs : Holder(p)' /\ Holder(q)' => p = q
               /\ \A p \in Procs : Holder(p)' => lock' >= lease'[p]
    <2>1. lock <= now
      BY <1>3 DEF WriteLock, SawExpired
    <2>2. \A p \in Procs : ~Holder(p)
      BY <1>3, <2>1 DEF WriteLock
    <2>3. \A p \in Procs : Holder(p)' => p = x
      BY <1>3, <2>2 DEF WriteLock
    <2> QED
      BY <1>3, <2>3 DEF WriteLock
  <1>4. ASSUME NEW x \in Procs, WriteRefused(x)
        PROVE  /\ \A p, q \in Procs : Holder(p)' /\ Holder(q)' => p = q
               /\ \A p \in Procs : Holder(p)' => lock' >= lease'[p]
    BY <1>4 DEF WriteRefused
  <1>5. ASSUME NEW x \in Procs, RemoveLock(x)
        PROVE  /\ \A p, q \in Procs : Holder(p)' /\ Holder(q)' => p = q
               /\ \A p \in Procs : Holder(p)' => lock' >= lease'[p]
    <2>1. Victims \ {x} = {} /\ ~intruded
      BY <1>5 DEF RemoveLock
    <2>2. \A p \in Procs \ {x} : ~Holder(p)
      BY <2>1 DEF Victims
    <2> QED
      BY <1>5, <2>2 DEF RemoveLock
  <1>6. ASSUME NEW x \in Procs, AbandonLock(x)
        PROVE  /\ \A p, q \in Procs : Holder(p)' /\ Holder(q)' => p = q
               /\ \A p \in Procs : Holder(p)' => lock' >= lease'[p]
    BY <1>6 DEF AbandonLock
  <1>7. CASE PurgeCollect
    BY <1>7 DEF PurgeCollect
  <1>8. CASE PurgeDelete
    <2>1. Victims = {} /\ ~intruded
      BY <1>8 DEF PurgeDelete
    <2>2. \A p \in Procs : ~Holder(p)
      BY <2>1 DEF Victims
    <2> QED
      BY <1>8, <2>2 DEF PurgeDelete
  <1>9. CASE Tick
    BY <1>9 DEF Tick
  <1>10. CASE UNCHANGED vars
    BY <1>10 DEF vars
  <1>11. ASSUME NEW x \in Procs, TryLockRedis(x)
         PROVE  /\ \A p, q \in Procs : Holder(p)' /\ Holder(q)' => p = q
                /\ \A p \in Procs : Holder(p)' => lock' >= lease'[p]
    <2>1. CASE lock > now
      <3>1. pc' = pc /\ lease' = lease /\ now' = now /\ ~intruded
        BY <1>11, <2>1 DEF TryLockRedis
      <3>2. \A p \in Procs : lease[p] <= lock /\ Holder(p) => lock' >= lease'[p]
        BY <1>11, <3>1 DEF TryLockRedis, LeaseEnds
      <3> QED
        BY <3>1, <3>2
    <2>2. CASE ~(lock > now)
      <3>1. \A p \in Procs : ~Holder(p)
        BY <1>11, <2>2 DEF TryLockRedis
      <3>2. \A p \in Procs : Holder(p)' => p = x
        BY <1>11, <2>2, <3>1 DEF TryLockRedis
      <3> QED
        BY <1>11, <2>2, <3>2 DEF TryLockRedis
    <2> QED
      BY <2>1, <2>2
  <1>12. ASSUME NEW x \in Procs, RedisAnswerLost(x)
         PROVE  /\ \A p, q \in Procs : Holder(p)' /\ Holder(q)' => p = q
                /\ \A p \in Procs : Holder(p)' => lock' >= lease'[p]
    BY <1>12 DEF RedisAnswerLost, LeaseEnds
  <1> QED
    BY <1>1, <1>2, <1>3, <1>4, <1>5, <1>6, <1>7, <1>8, <1>9, <1>10, <1>11, <1>12
       DEF Next, ProcNext

\* The inductive invariant holds in every reachable state of the lease.
THEOREM LeaseInvariant == Spec => []IInv
  <1>1. IInv /\ [Next]_vars => IInv'
    BY StepTypeOK, StepSaw, StepLeaseEnds, StepExclusive DEF IInv
  <1> QED
    BY InitIInv, <1>1, PTL DEF Spec

\* The types of the lease's state are right in every reachable state.
THEOREM LeaseTypeOK == Spec => []TypeOK
  <1>1. IInv => TypeOK
    BY DEF IInv
  <1> QED
    BY LeaseInvariant, <1>1, PTL

\* Two workers never hold the same lease at once (try_lock), unless a lease in
\* force has been deleted by a party that did not hold it.
THEOREM LeaseExclusive == Spec => []Exclusive
  <1>1. IInv => Exclusive
    BY DEF IInv
  <1> QED
    BY LeaseInvariant, <1>1, PTL

\* A lease left behind ends within Duration.
THEOREM LeaseExpires == Spec => []LeaseEnds
  <1>1. IInv => LeaseEnds
    BY DEF IInv
  <1> QED
    BY LeaseInvariant, <1>1, PTL

\* remove_lock by a process whose lease is in force never takes another one's
\* lease: only an overrun or the purge task does.
THEOREM LeaseIntrusion == Spec => IntrusionNeedsOverrun
  <1>1. IInv /\ [Next]_vars =>
          [~intruded /\ intruded' =>
              \/ purge = "delete" /\ purge' = "idle"
              \/ \E p \in Procs : /\ pc[p] = "hold" /\ pc'[p] = "idle"
                                  /\ ~InForce(lease[p])]_vars
    <2> SUFFICES ASSUME IInv, Next, ~intruded, intruded'
                 PROVE  \/ purge = "delete" /\ purge' = "idle"
                        \/ \E p \in Procs : /\ pc[p] = "hold" /\ pc'[p] = "idle"
                                            /\ ~InForce(lease[p])
      OBVIOUS
    <2>1. ASSUME NEW x \in Procs, RemoveLock(x)
          PROVE  pc[x] = "hold" /\ pc'[x] = "idle" /\ ~InForce(lease[x])
      <3>1. PICK q \in Procs \ {x} : Holder(q)
        BY <2>1 DEF RemoveLock, Victims
      <3>2. ~Holder(x)
        BY <3>1 DEF IInv, Exclusive
      <3> QED
        BY <2>1, <3>2 DEF RemoveLock, Holder, IInv, TypeOK
    <2>2. CASE PurgeDelete
      BY <2>2 DEF PurgeDelete
    <2>3. PurgeDelete \/ \E x \in Procs : RemoveLock(x)
      BY DEF Next, ProcNext, ReadLock, CheckLock, WriteLock, WriteRefused,
             AbandonLock, PurgeCollect, Tick, TryLockRedis, RedisAnswerLost
    <2> QED
      BY <2>1, <2>2, <2>3
  <1> QED
    BY LeaseInvariant, <1>1, PTL DEF Spec, IntrusionNeedsOverrun

-----------------------------------------------------------------------------
(* The steps of try_lock and remove_lock implement Lease                   *)

g == [p \in Procs |-> IF pc[p] = "hold" THEN lease[p] ELSE 0]

\* A process has a lease in force when it holds one that is.
LEMMA HolderInForce ==
    ASSUME TypeOK, NEW p \in Procs
    PROVE  Granted!InForce(p) <=> Holder(p)
  BY DEF TypeOK, Granted!InForce, Holder, InForce

\* A successful try_lock grants the lease, since nobody has one in force.
LEMMA LockGrants ==
    ASSUME IInv, NEW x \in Procs, pc[x] # "hold", lock <= now,
           pc' = [pc EXCEPT ![x] = "hold"],
           lease' \in [Procs -> Nat],
           \A p \in Procs \ {x} : lease'[p] = lease[p],
           1 <= lease'[x], lease'[x] <= now + Duration,
           UNCHANGED <<now, intruded>>
    PROVE  Granted!Grant(x)
  <1>1. ~intruded => \A p \in Procs : ~Holder(p)
    BY DEF IInv, TypeOK, Exclusive, Holder, InForce
  <1>2. intruded \/ \A p \in Procs : ~Granted!InForce(p)
    BY <1>1, HolderInForce DEF IInv
  <1>3. g' = [g EXCEPT ![x] = lease'[x]]
    BY DEF g, IInv, TypeOK
  <1>4. lease'[x] \in 1..(now + Duration)
    <2>1. lease'[x] \in Nat
      OBVIOUS
    <2>2. now \in Int /\ Duration \in Int
      BY DurationAssumption, MaxTimeAssumption DEF IInv, TypeOK
    <2> QED
      BY <2>1, <2>2
  <1> QED
    BY <1>2, <1>3, <1>4 DEF Granted!Grant, g

\* The initial state of the key is that of a lease nobody has.
LEMMA InitGranted == Init => Granted!Init
  <1> SUFFICES ASSUME Init PROVE Granted!Init
    OBVIOUS
  <1>1. \A p \in Procs : pc[p] # "hold"
    BY DEF Init
  <1>2. now = 1 /\ intruded = FALSE
    BY Zenon DEF Init
  <1> QED
    BY <1>1, <1>2 DEF Granted!Init

\* Every step of the processes, of the purge task and of the clock is a step of
\* the lease or leaves it as it is.
LEMMA StepGranted ==
    IInv /\ IInv' /\ [Next]_vars => [Granted!Next]_<<now, g, intruded>>
  <1> SUFFICES ASSUME IInv, IInv', [Next]_vars
               PROVE  Granted!Next \/ UNCHANGED <<now, g, intruded>>
    OBVIOUS
  <1>1. ASSUME NEW x \in Procs, ReadLock(x) PROVE UNCHANGED <<now, g, intruded>>
    BY <1>1 DEF ReadLock, g, IInv, TypeOK
  <1>2. ASSUME NEW x \in Procs, CheckLock(x) PROVE UNCHANGED <<now, g, intruded>>
    BY <1>2 DEF CheckLock, g, IInv, TypeOK
  <1>3. ASSUME NEW x \in Procs, WriteLock(x) PROVE Granted!Grant(x)
    <2>1. /\ pc[x] # "hold" /\ lock <= now
          /\ 1 <= lease[x] /\ lease[x] <= now + Duration
      BY <1>3 DEF WriteLock, IInv, SawExpired, ShortLeases
    <2> QED
      BY <1>3, <2>1, LockGrants DEF WriteLock, IInv, TypeOK
  <1>4. ASSUME NEW x \in Procs, WriteRefused(x) PROVE UNCHANGED <<now, g, intruded>>
    BY <1>4 DEF WriteRefused, g, IInv, TypeOK
  <1>5. ASSUME NEW x \in Procs, TryLockRedis(x)
        PROVE  Granted!Grant(x) \/ UNCHANGED <<now, g, intruded>>
    <2>1. CASE InForce(lock)
      BY <1>5, <2>1 DEF TryLockRedis, g
    <2>2. CASE ~InForce(lock)
      <3>1. lock <= now /\ pc[x] # "hold"
        BY <1>5, <2>2 DEF TryLockRedis, InForce, IInv, TypeOK
      <3>2. /\ pc' = [pc EXCEPT ![x] = "hold"]
            /\ lease' = [lease EXCEPT ![x] = now + Duration]
            /\ UNCHANGED <<now, intruded>>
        BY <1>5, <2>2 DEF TryLockRedis
      <3>3. lease'[x] = now + Duration /\ 1 <= lease'[x]
        BY <3>2, DurationAssumption DEF IInv, TypeOK
      <3>4. lease' \in [Procs -> Nat] /\ \A p \in Procs \ {x} : lease'[p] = lease[p]
        BY <3>2 DEF IInv, TypeOK
      <3>5. lease'[x] <= now + Duration
        BY <3>3, DurationAssumption DEF IInv, TypeOK
      <3> QED
        BY <3>1, <3>2, <3>3, <3>4, <3>5, LockGrants
    <2> QED
      BY <2>1, <2>2
  <1>6. ASSUME NEW x \in Procs, RedisAnswerLost(x) PROVE UNCHANGED <<now, g, intruded>>
    BY <1>6 DEF RedisAnswerLost, g
  <1>7. ASSUME NEW x \in Procs, AbandonLock(x) PROVE Granted!Return(x)
    BY <1>7 DEF AbandonLock, Granted!Return, IInv, TypeOK
  <1>8. ASSUME NEW x \in Procs, RemoveLock(x)
        PROVE  Granted!Return(x) \/ Granted!ReturnLate(x)
    <2>1. g' = [g EXCEPT ![x] = 0] /\ now' = now
      BY <1>8 DEF RemoveLock, g, IInv, TypeOK
    <2>2. CASE intruded' = intruded
      BY <2>1, <2>2 DEF Granted!Return, g
    <2>3. CASE intruded' # intruded
      <3>1. ~intruded /\ intruded' /\ Victims \ {x} # {}
        BY <1>8, <2>3 DEF RemoveLock, IInv, TypeOK
      <3>2. PICK q \in Procs \ {x} : Holder(q)
        BY <3>1 DEF Victims
      <3>3. ~Holder(x)
        BY <3>1, <3>2 DEF IInv, Exclusive
      <3>4. Granted!InForce(q) /\ ~Granted!InForce(x)
        BY <3>2, <3>3, HolderInForce DEF IInv
      <3>5. intruded' = TRUE
        BY Zenon, <3>1 DEF IInv, TypeOK
      <3> QED
        BY <2>1, <3>2, <3>4, <3>5 DEF Granted!ReturnLate, g
    <2> QED
      BY <2>2, <2>3
  <1>9. CASE PurgeCollect
    BY <1>9 DEF PurgeCollect, g
  <1>10. CASE PurgeDelete
    <2>1. g' = g /\ now' = now
      BY <1>10 DEF PurgeDelete, g
    <2>2. CASE intruded' # intruded
      <3>1. ~intruded /\ intruded' /\ Victims # {}
        BY <1>10, <2>2 DEF PurgeDelete, IInv, TypeOK
      <3>2. PICK q \in Procs : Granted!InForce(q)
        BY <3>1, HolderInForce DEF Victims, IInv
      <3> QED
        BY <2>1, <3>1, <3>2 DEF Granted!Purge, Granted!Next, g, IInv, TypeOK
    <2> QED
      BY <2>1, <2>2
  <1>11. CASE Tick
    <2>1. Granted!Tick
      BY <1>11 DEF Tick, Granted!Tick
    <2> QED
      BY <2>1 DEF Granted!Next
  <1>12. CASE UNCHANGED vars
    BY <1>12 DEF vars, g
  <1> QED
    BY <1>1, <1>2, <1>3, <1>4, <1>5, <1>6, <1>7, <1>8, <1>9, <1>10, <1>11, <1>12
       DEF Next, ProcNext, Granted!Next

\* try_lock and remove_lock, with the reads, asserted writes and deletions they
\* are made of, implement a lease that is granted and returned in one step.
THEOREM LeaseImplemented == Spec => ImplementsLease
  <1>1. Spec => [][Granted!Next]_<<now, g, intruded>>
    BY LeaseInvariant, StepGranted, PTL DEF Spec
  <1> QED
    BY <1>1, InitGranted, PTL DEF Spec, ImplementsLease, Granted!Spec, g

=============================================================================
