----------------------------- MODULE LeaseLock -----------------------------
(***************************************************************************)
(* The distributed lease of InMemoryStore::try_lock / remove_lock (crates/ *)
(* store/src/dispatch/lookup.rs), on the data store and on Redis.  One key *)
(* is modelled; keys do not interact.                                      *)
(*                                                                         *)
(* On the data store the value of the key is the second at which the lease *)
(* expires.  A process reads it, compares it with its clock, and writes a  *)
(* new expiry in a batch that asserts the value it read.  Each of these is *)
(* a separate step: other processes, the purge task and the clock run in   *)
(* between.  On Redis the key is a counter which every attempt increments, *)
(* and whose expiry every attempt renews; the first one has the lease.     *)
(* remove_lock deletes the key without looking at its value.               *)
(***************************************************************************)
EXTENDS Integers, FiniteSets

CONSTANTS
    Procs,      \* the workers, on all nodes, that compete for the key
    Duration,   \* length of a lease (LOCK_EXPIRY, DEFAULT_LOCK_EXPIRY)
    MaxTime     \* bound: the clock stops here

ASSUME DurationAssumption == Duration \in Nat \ {0}
ASSUME MaxTimeAssumption == MaxTime \in Nat

\* The value of an absent key.  Expiries are positive, so it is none of them.
NoKey == 0

VARIABLES
    backend,    \* InMemoryStore: "store" or "redis"
    now,        \* the clock, in seconds
    lock,       \* when the key expires, or NoKey
    pc,         \* what each process is doing
    seen,       \* the value each process read in try_lock
    lease,      \* the expiry each process writes, then holds
    purge,      \* the purge task: "idle", or "delete" with the key collected
    intruded    \* history: a lease in force was deleted by another party

vars == <<backend, now, lock, pc, seen, lease, purge, intruded>>

States == {"idle", "check", "write", "hold"}

TypeOK ==
    /\ backend \in {"store", "redis"}
    /\ now \in 1..MaxTime + 1
    /\ lock \in Nat
    /\ pc \in [Procs -> States]
    /\ seen \in [Procs -> Nat]
    /\ lease \in [Procs -> Nat]
    /\ purge \in {"idle", "delete"}
    /\ intruded \in BOOLEAN

Init ==
    /\ backend \in {"store", "redis"}
    /\ now = 1
    /\ lock = NoKey
    /\ pc = [p \in Procs |-> "idle"]
    /\ seen = [p \in Procs |-> NoKey]
    /\ lease = [p \in Procs |-> NoKey]
    /\ purge = "idle"
    /\ intruded = FALSE

-----------------------------------------------------------------------------
\* try_lock, first await: get_value of the key.
ReadLock(p) ==
    /\ backend = "store"
    /\ pc[p] = "idle"
    /\ seen' = [seen EXCEPT ![p] = lock]
    /\ pc' = [pc EXCEPT ![p] = "check"]
    /\ UNCHANGED <<backend, now, lock, lease, purge, intruded>>

\* `lock_expiry.is_some_and(|expiry| expiry > now)`
InForce(expiry) == expiry > now

\* Mutant: the lease lasts one second too long.
CheckLockLong(p) ==
    /\ pc[p] = "check"
    /\ IF InForce(seen[p])
         THEN /\ pc' = [pc EXCEPT ![p] = "idle"]
              /\ lease' = lease
         ELSE /\ pc' = [pc EXCEPT ![p] = "write"]
              /\ lease' = [lease EXCEPT ![p] = now + Duration + 1]
    /\ UNCHANGED <<backend, now, lock, seen, purge, intruded>>

\* try_lock: the clock is read after the value; a lease in force is refused.
CheckLock(p) ==
    /\ pc[p] = "check"
    /\ IF InForce(seen[p])
         THEN /\ pc' = [pc EXCEPT ![p] = "idle"]
              /\ lease' = lease
         ELSE /\ pc' = [pc EXCEPT ![p] = "write"]
              /\ lease' = [lease EXCEPT ![p] = now + Duration]
    /\ UNCHANGED <<backend, now, lock, seen, purge, intruded>>

\* Mutant: the batch does not assert the value read.
WriteLockBlindly(p) ==
    /\ pc[p] = "write"
    /\ lock' = lease[p]
    /\ pc' = [pc EXCEPT ![p] = "hold"]
    /\ UNCHANGED <<backend, now, seen, lease, purge, intruded>>

\* try_lock: the batch asserts the value read and sets the new expiry.
WriteLock(p) ==
    /\ pc[p] = "write"
    /\ lock = seen[p]
    /\ lock' = lease[p]
    /\ pc' = [pc EXCEPT ![p] = "hold"]
    /\ UNCHANGED <<backend, now, seen, lease, purge, intruded>>

\* try_lock: the assertion fails, or the store reports another error and
\* the callers take it as `false`.
WriteRefused(p) ==
    /\ pc[p] = "write"
    /\ pc' = [pc EXCEPT ![p] = "idle"]
    /\ UNCHANGED <<backend, now, lock, seen, lease, purge, intruded>>

\* Mutant: the count is not looked at.
TryLockRedisUncounted(p) ==
    /\ backend = "redis"
    /\ pc[p] = "idle"
    /\ lock' = now + Duration
    /\ pc' = [pc EXCEPT ![p] = "hold"]
    /\ lease' = [lease EXCEPT ![p] = now + Duration]
    /\ UNCHANGED <<backend, now, seen, purge, intruded>>

\* try_lock on Redis: INCR and EXPIRE in one transaction.  The process has the
\* lease when it counts one, and when there was a key it has renewed it.
TryLockRedis(p) ==
    /\ backend = "redis"
    /\ pc[p] = "idle"
    /\ lock' = now + Duration
    /\ IF InForce(lock)
         THEN UNCHANGED <<pc, lease>>
         ELSE /\ pc' = [pc EXCEPT ![p] = "hold"]
              /\ lease' = [lease EXCEPT ![p] = now + Duration]
    /\ UNCHANGED <<backend, now, seen, purge, intruded>>

\* The transaction is executed but its answer is lost: nobody has the lease.
RedisAnswerLost(p) ==
    /\ backend = "redis"
    /\ pc[p] = "idle"
    /\ lock' = now + Duration
    /\ UNCHANGED <<backend, now, pc, seen, lease, purge, intruded>>

\* p believes it holds the lease, and its lease is in force.
Holder(p) == pc[p] = "hold" /\ InForce(lease[p])

\* The holders whose lease the key protects.
Victims == {p \in Procs : Holder(p) /\ lock >= lease[p]}

\* Mutant: the worker forgets that it has removed the lock.
RemoveLockAgain(p) ==
    /\ pc[p] = "hold"
    /\ lock' = NoKey
    /\ pc' = [pc EXCEPT ![p] = "unlocked"]
    /\ intruded' = (intruded \/ Victims \ {p} # {})
    /\ UNCHANGED <<backend, now, seen, lease, purge>>

\* remove_lock clears the key, whoever's value it holds.
RemoveLock(p) ==
    /\ pc[p] = "hold"
    /\ lock' = NoKey
    /\ pc' = [pc EXCEPT ![p] = "idle"]
    /\ intruded' = (intruded \/ Victims \ {p} # {})
    /\ UNCHANGED <<backend, now, seen, lease, purge>>

\* remove_lock fails (the callers log it), or the node stops while it holds
\* the lease: the key is left to expire.
AbandonLock(p) ==
    /\ pc[p] = "hold"
    /\ pc' = [pc EXCEPT ![p] = "idle"]
    /\ UNCHANGED <<backend, now, lock, seen, lease, purge, intruded>>

\* purge_in_memory_store, first pass: collect the keys that have expired.
PurgeCollect ==
    /\ backend = "store"
    /\ purge = "idle"
    /\ lock # NoKey /\ lock <= now
    /\ purge' = "delete"
    /\ UNCHANGED <<backend, now, lock, pc, seen, lease, intruded>>

\* purge_in_memory_store, second pass: clear the collected keys, without
\* asserting that they still hold what was read.
PurgeDelete ==
    /\ purge = "delete"
    /\ lock' = NoKey
    /\ purge' = "idle"
    /\ intruded' = (intruded \/ Victims # {})
    /\ UNCHANGED <<backend, now, pc, seen, lease>>

Tick ==
    /\ now <= MaxTime
    /\ now' = now + 1
    /\ UNCHANGED <<backend, lock, pc, seen, lease, purge, intruded>>

ProcNext(p) ==
    \/ ReadLock(p)
    \/ CheckLock(p)
    \/ WriteLock(p)
    \/ WriteRefused(p)
    \/ TryLockRedis(p)
    \/ RedisAnswerLost(p)
    \/ RemoveLock(p)
    \/ AbandonLock(p)

Next == (\E p \in Procs : ProcNext(p)) \/ PurgeCollect \/ PurgeDelete \/ Tick

Spec == Init /\ [][Next]_vars

-----------------------------------------------------------------------------
(* Properties                                                              *)

\* Unless somebody deleted a lease in force that was not its own, at most one
\* process holds a lease in force, and the key is there for as long.
Exclusive ==
    ~intruded =>
        /\ \A p, q \in Procs : Holder(p) /\ Holder(q) => p = q
        /\ \A p \in Procs : Holder(p) => lock >= lease[p]

\* The first deletion of a lease in force is the doing of a process that
\* outlived its own lease, or of the purge task.
IntrusionNeedsOverrun ==
    [][~intruded /\ intruded' =>
          \/ purge = "delete" /\ purge' = "idle"
          \/ \E p \in Procs : /\ pc[p] = "hold" /\ pc'[p] = "idle"
                              /\ ~InForce(lease[p])]_vars

\* A key nobody renews is free again within Duration: a lease left behind by a
\* node that stopped blocks its event for no longer than that, or, on Redis, than
\* that after the last attempt to get it.
LeaseEnds == lock <= now + Duration

\* What the components that take leases are told of: the lease is granted and
\* given back in one step.
Granted == INSTANCE Lease WITH
    granted <- [p \in Procs |-> IF pc[p] = "hold" THEN lease[p] ELSE 0],
    broken <- intruded

\* try_lock and remove_lock, in their several steps, behave as that lease does.
ImplementsLease == Granted!Spec

=============================================================================
